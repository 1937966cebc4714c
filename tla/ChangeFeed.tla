----------------------------- MODULE ChangeFeed -----------------------------
(***************************************************************************)
(* How the worker follows Drive's change log: pushes and crons enqueue     *)
(* polls on poll_queue, a poll walks the log page by page from the saved   *)
(* cursor and turns every change into a job, a backfill lists the source   *)
(* folder for whatever the log cannot tell any more, and every boot seeds  *)
(* the cursor before it enqueues a backfill.  The process may die between  *)
(* any two effects, after which DBOS resumes the workflow it was running   *)
(* behind the last step it recorded.                                       *)
(*                                                                         *)
(* Changes are numbered in the order Drive logs them.  A page token is the *)
(* number of the last change before it.                                    *)
(***************************************************************************)
EXTENDS Integers

CONSTANTS
    Removals,  \* the changes that report a file removed or trashed
    PageSize,  \* how many changes a page of changes.list holds
    Budget     \* how often each thing outside the worker may happen

Kinds == {"change", "push", "forget", "failure"}

ASSUME RemovalsAssumption == Removals \subseteq Nat
ASSUME PageSizeAssumption == PageSize \in Nat \ {0}
ASSUME FeedBudgetAssumption == Budget \in [Kinds -> Nat]

NoToken == -1  \* no row in drive_change_cursor

VARIABLES
    head,      \* the number of the last change Drive has logged
    oldest,    \* tokens before this one are refused by changes.list
    cursor,    \* drive_change_cursor
    queue,     \* the workflows enqueued on poll_queue
    run,       \* the workflow poll_queue is running, where it is, its locals
    boot,      \* how far main() has come
    resolved,  \* changes turned into a job, or seen not to need one, or
               \* counted as errored
    swept,     \* every note as of this change went through a backfill
    acked,     \* changes whose push the webhook has answered with 200
    waived,    \* what the worker gave up on: see below
    spent      \* how much of each budget is used

drive == <<head, oldest>>
outcome == <<resolved, swept, acked>>
vars == <<head, oldest, cursor, queue, run, boot, resolved, swept, acked,
          waived, spent>>

(* Up to which change something was given up: "reset", the cursor was set  *)
(* to the log's end without reading what lay before; "sweep", a backfill   *)
(* that had to cover it failed or passed over a folder, or the cursor was  *)
(* first set after the boot's backfill; "poll", a poll failed.             *)
Reasons == {"reset", "sweep", "poll"}

-----------------------------------------------------------------------------
Poll(push) == [kind |-> "poll", push |-> push]   \* push 0: not from a push
Backfill == [kind |-> "backfill", push |-> 0]
Jobs == [kind : {"poll", "backfill"}, push : Nat]

PollSteps == {"load", "fetch", "enqueue", "saved", "reset"}
BackfillSteps == {"list", "listing", "targets"}

(* token: where the page at hand starts; last: the change it ends with;    *)
(* todo: its changes still to be enqueued; next: the nextPageToken that    *)
(* came with it, if any; at: the last change when the listing started.     *)
Runs == [pc : {"idle"} \cup PollSteps \cup BackfillSteps, push : Nat,
         token : Int, last : Int, todo : SUBSET Nat, next : Int, at : Nat]

NewRun(pc, push) == [pc |-> pc, push |-> push, token |-> 0, last |-> 0,
                     todo |-> {}, next |-> NoToken, at |-> 0]
Idle == NewRun("idle", 0)

BootSteps == {"down", "seeded", "launched", "channel", "up"}

TypeOK ==
    /\ head \in Nat
    /\ oldest \in 0..head
    /\ cursor \in {NoToken} \cup 0..head
    /\ queue \subseteq Jobs
    /\ run \in Runs
    /\ boot \in BootSteps
    /\ resolved \subseteq 1..head
    /\ swept \in 0..head
    /\ acked \subseteq 1..head
    /\ waived \in [Reasons -> 0..head]
    /\ spent \in [Kinds -> Nat]

Init ==
    /\ head = 0
    /\ oldest = 0
    /\ cursor = NoToken
    /\ queue = {}
    /\ run = Idle
    /\ boot = "down"
    /\ resolved = {}
    /\ swept = 0
    /\ acked = {}
    /\ waived = [r \in Reasons |-> 0]
    /\ spent = [kind \in Kinds |-> 0]

Spend(kind) ==
    /\ spent[kind] < Budget[kind]
    /\ spent' = [spent EXCEPT ![kind] = @ + 1]

Waive(r, change) ==
    waived' = [waived EXCEPT ![r] = IF @ < change THEN change ELSE @]

-----------------------------------------------------------------------------
(* Drive.                                                                  *)

LogChange ==
    /\ Spend("change")
    /\ head' = head + 1
    /\ UNCHANGED <<oldest, cursor, queue, run, boot, outcome, waived>>

(* Old tokens fall out of the log's window. *)
Forget ==
    /\ Spend("forget")
    /\ oldest' = head
    /\ UNCHANGED <<head, cursor, queue, run, boot, outcome, waived>>

-----------------------------------------------------------------------------
(* The producers of poll_queue.                                            *)

Running(job) ==
    \/ job.kind = "poll" /\ run.pc \in PollSteps /\ run.push = job.push
    \/ job.kind = "backfill" /\ run.pc \in BackfillSteps

Launched == boot \in {"launched", "channel", "up"}

(* Mutant of Webhook: a push is dropped while any poll is under way. *)
WebhookWhilePolling(i) ==
    /\ boot = "up"
    /\ i \in 1..head
    /\ Spend("push")
    /\ queue' = IF run.pc \in PollSteps THEN queue ELSE queue \cup {Poll(i)}
    /\ acked' = acked \cup {i}
    /\ UNCHANGED <<drive, cursor, run, boot, resolved, swept, waived>>

(* A push for change i, delivered at any time after it and any number of   *)
(* times: while a poll with its channel_id:message_number is queued or     *)
(* running, it is acknowledged and dropped.                                *)
Webhook(i) ==
    /\ boot = "up"
    /\ i \in 1..head
    /\ queue' = IF Running(Poll(i)) THEN queue ELSE queue \cup {Poll(i)}
    /\ acked' = acked \cup {i}
    /\ Spend("push")
    /\ UNCHANGED <<drive, cursor, run, boot, resolved, swept, waived>>

(* scheduled_poll_changes, and the poll after a renewal. *)
CronPoll ==
    /\ Launched
    /\ queue' = queue \cup {Poll(0)}
    /\ UNCHANGED <<drive, cursor, run, boot, outcome, waived, spent>>

(* scheduled_backfill *)
CronSweep ==
    /\ Launched
    /\ queue' = queue \cup {Backfill}
    /\ UNCHANGED <<drive, cursor, run, boot, outcome, waived, spent>>

-----------------------------------------------------------------------------
(* poll_changes.  One workflow of poll_queue runs at a time.               *)

At(pc) == Launched /\ run.pc = pc

Start(job) ==
    /\ At("idle")
    /\ job \in queue
    /\ queue' = queue \ {job}
    /\ run' = NewRun(IF job.kind = "poll" THEN "load" ELSE "list", job.push)
    /\ UNCHANGED <<drive, cursor, boot, outcome, waived, spent>>

(* seed_if_empty, with the token Drive gives for its log's end. *)
SeedIfEmpty == cursor' = IF cursor = NoToken THEN head ELSE cursor

(* Mutant of LoadOrInitCursor: a poll starts at the log's end, whether or  *)
(* not there is a cursor.                                                  *)
LoadLogsEnd ==
    /\ At("load")
    /\ SeedIfEmpty
    /\ waived' = IF cursor = NoToken
                 THEN [waived EXCEPT !["reset"] = head, !["sweep"] = head]
                 ELSE waived
    /\ run' = [run EXCEPT !.pc = "fetch", !.token = head]
    /\ UNCHANGED <<drive, queue, boot, outcome, spent>>

(* _load_or_init_cursor: a cursor first set here was not set by the boot,  *)
(* whose backfill may have been and gone.                                  *)
LoadOrInitCursor ==
    /\ At("load")
    /\ SeedIfEmpty
    /\ waived' = IF cursor = NoToken
                 THEN [waived EXCEPT !["reset"] = head, !["sweep"] = head]
                 ELSE waived
    /\ run' = [run EXCEPT !.pc = "fetch", !.token = cursor']
    /\ UNCHANGED <<drive, queue, boot, outcome, spent>>

(* Mutant of PageEnd: the page is taken to be full. *)
FullPageEnd(token) == token + PageSize

(* The last change of the page that starts at a token. *)
PageEnd(token) == IF token + PageSize < head THEN token + PageSize ELSE head

(* _fetch_page_plan: a page is read and its changes are resolved; the      *)
(* metadata walks of any that are no removals may get a 4xx.               *)
FetchPagePlan ==
    LET last == PageEnd(run.token)
        page == (run.token + 1)..last
    IN
    /\ At("fetch")
    /\ run.token >= oldest
    /\ \E bad \in SUBSET (page \ Removals) :
        /\ IF bad = {} THEN UNCHANGED spent ELSE Spend("failure")
        /\ resolved' = resolved \cup bad
        /\ run' = [run EXCEPT !.pc = "enqueue", !.todo = page \ bad,
                              !.last = last,
                              !.next = IF last < head THEN last ELSE NoToken]
    /\ UNCHANGED <<drive, cursor, queue, boot, swept, acked, waived>>

(* Mutant of CursorRefused: the saved cursor is left as it is. *)
CursorRefusedNotReset ==
    /\ At("fetch")
    /\ run.token < oldest
    /\ run' = [run EXCEPT !.pc = "reset"]
    /\ UNCHANGED <<drive, cursor, queue, boot, outcome, waived, spent>>

(* changes.list answers with a 4xx, because the token is too old or for    *)
(* another reason: in the step, the cursor row is set to the log's end.    *)
CursorRefused ==
    /\ At("fetch")
    /\ IF run.token < oldest THEN UNCHANGED spent ELSE Spend("failure")
    /\ cursor' = head
    /\ Waive("reset", head)
    /\ run' = [run EXCEPT !.pc = "reset"]
    /\ UNCHANGED <<drive, queue, boot, outcome>>

(* Mutant of EnqueueRecovery: the poll ends without a backfill. *)
EnqueueNoRecovery ==
    /\ At("reset")
    /\ run' = Idle
    /\ UNCHANGED <<drive, cursor, queue, boot, outcome, waived, spent>>

(* After the step, the workflow enqueues a backfill and ends. *)
EnqueueRecovery ==
    /\ At("reset")
    /\ queue' = queue \cup {Backfill}
    /\ run' = Idle
    /\ UNCHANGED <<drive, cursor, boot, outcome, waived, spent>>

(* _enqueue_action for the next change of the page. *)
EnqueueAction ==
    /\ At("enqueue")
    /\ \E i \in run.todo :
        /\ \A j \in run.todo : i <= j
        /\ resolved' = resolved \cup {i}
        /\ run' = [run EXCEPT !.todo = @ \ {i}]
    /\ UNCHANGED <<drive, cursor, queue, boot, swept, acked, waived, spent>>

(* Mutant of SaveCursor: saved before the page's jobs are enqueued. *)
SaveCursorFirst ==
    /\ At("enqueue")
    /\ cursor' = run.last
    /\ run' = [run EXCEPT !.pc = "saved"]
    /\ UNCHANGED <<drive, queue, boot, outcome, waived, spent>>

(* _save_cursor, once every action of the page is enqueued. *)
SaveCursor ==
    /\ At("enqueue")
    /\ run.todo = {}
    /\ cursor' = run.last
    /\ run' = [run EXCEPT !.pc = "saved"]
    /\ UNCHANGED <<drive, queue, boot, outcome, waived, spent>>

(* The next page, or the end of the walk. *)
NextPage ==
    /\ At("saved")
    /\ run' = IF run.next # NoToken
              THEN [NewRun("fetch", run.push) EXCEPT !.token = run.next]
              ELSE Idle
    /\ UNCHANGED <<drive, cursor, queue, boot, outcome, waived, spent>>

(* A Drive call of a step fails past its retries, or while the cursor is   *)
(* reset: the workflow ends in ERROR and the cursor stays where it is.     *)
PollFails ==
    /\ \/ At("load") /\ cursor = NoToken
       \/ At("fetch")
    /\ Spend("failure")
    /\ Waive("poll", head)
    /\ run' = Idle
    /\ UNCHANGED <<drive, cursor, queue, boot, outcome>>

-----------------------------------------------------------------------------
(* backfill.                                                               *)

(* _collect_backfill_plan starts to list.  What changes while it lists is  *)
(* a later change.                                                         *)
ListStarts ==
    /\ At("list")
    /\ run' = [run EXCEPT !.pc = "listing", !.at = head]
    /\ UNCHANGED <<drive, cursor, queue, boot, outcome, waived, spent>>

ListEnds ==
    /\ At("listing")
    /\ run' = [run EXCEPT !.pc = "targets"]
    /\ UNCHANGED <<drive, cursor, queue, boot, outcome, waived, spent>>

(* backfill_impl enqueues a conversion for every target of the plan. *)
EnqueueTargets ==
    /\ At("targets")
    /\ swept' = IF swept < run.at THEN run.at ELSE swept
    /\ run' = Idle
    /\ UNCHANGED <<drive, cursor, queue, boot, resolved, acked, waived, spent>>

(* A subfolder that Drive refuses with a 4xx is logged and passed over:    *)
(* the plan lacks its notes.                                               *)
ListPartly ==
    /\ At("listing")
    /\ Spend("failure")
    /\ Waive("sweep", head)
    /\ run' = [run EXCEPT !.pc = "targets", !.at = 0]
    /\ UNCHANGED <<drive, cursor, queue, boot, outcome>>

(* The listing fails: the workflow ends in ERROR. *)
BackfillFails ==
    /\ At("listing")
    /\ Spend("failure")
    /\ Waive("sweep", head)
    /\ run' = Idle
    /\ UNCHANGED <<drive, cursor, queue, boot, outcome>>

-----------------------------------------------------------------------------
(* main() and the end of the process.                                      *)

(* A cursor set before the backfill is enqueued that covers what lies      *)
(* before it.                                                              *)
SeedInBoot ==
    /\ SeedIfEmpty
    /\ waived' = IF cursor = NoToken
                 THEN [waived EXCEPT !["reset"] = head] ELSE waived

(* seed_cursor, whose failure is logged and survived. *)
SeedCursor ==
    /\ boot = "down"
    /\ \/ /\ SeedInBoot
          /\ UNCHANGED spent
       \/ /\ cursor = NoToken
          /\ Spend("failure")
          /\ UNCHANGED <<cursor, waived>>
    /\ boot' = "seeded"
    /\ UNCHANGED <<drive, queue, run, outcome>>

(* DBOS.launch: what was enqueued or unfinished is taken up again, unless  *)
(* the version is another one.  Then it is cancelled                       *)
(* (cancel_stale_version_workflows) before anything runs it.               *)
Launch ==
    /\ boot = "seeded"
    /\ boot' = "launched"
    /\ \/ UNCHANGED <<queue, run>>
       \/ queue' = {} /\ run' = Idle
    /\ UNCHANGED <<drive, cursor, outcome, waived, spent>>

(* ensure_active_channel: a recovery poll if the channel has expired, a    *)
(* renewal that may need a token and so seed the cursor, and a poll behind *)
(* it; or none of these, or a failure that is logged and survived.         *)
EnsureActiveChannel ==
    /\ boot = "launched"
    /\ boot' = "channel"
    /\ UNCHANGED <<cursor, waived>> \/ SeedInBoot
    /\ queue' \in {queue, queue \cup {Poll(0)}}
    /\ UNCHANGED <<drive, run, outcome, spent>>

EnqueueStartupBackfill ==
    /\ boot = "channel"
    /\ boot' = "up"
    /\ queue' = queue \cup {Backfill}
    /\ UNCHANGED <<drive, cursor, run, outcome, waived, spent>>

(* Where DBOS takes the running workflow up again: a step whose effect is  *)
(* committed may not have been recorded, and is then executed again.       *)
Resumed ==
    CASE run.pc = "saved"   -> {run, [run EXCEPT !.pc = "enqueue"]}
      [] run.pc = "reset"   -> {run, [run EXCEPT !.pc = "fetch"]}
      [] run.pc = "listing" -> {[run EXCEPT !.pc = "list"]}
      [] OTHER              -> {run}

Crash ==
    /\ boot # "down"
    /\ Spend("failure")
    /\ boot' = "down"
    /\ run' \in Resumed
    /\ UNCHANGED <<drive, cursor, queue, outcome, waived>>

-----------------------------------------------------------------------------
PollStep ==
    \/ LoadOrInitCursor \/ FetchPagePlan \/ CursorRefused \/ EnqueueRecovery
    \/ EnqueueAction \/ SaveCursor \/ NextPage

BackfillStep == ListStarts \/ ListEnds \/ EnqueueTargets

BootStep ==
    \/ SeedCursor \/ Launch \/ EnsureActiveChannel \/ EnqueueStartupBackfill

Failure == PollFails \/ ListPartly \/ BackfillFails \/ Crash

Next ==
    \/ LogChange \/ Forget
    \/ CronPoll \/ CronSweep
    \/ \E i \in 1..head : Webhook(i)
    \/ \E job \in queue : Start(job)
    \/ PollStep \/ BackfillStep \/ BootStep \/ Failure

Spec == Init /\ [][Next]_vars

(* The container restarts a process that died; the crons tick; DBOS takes  *)
(* poll_queue in the order of enqueueing, so that every job comes up.      *)
Fairness ==
    /\ WF_vars(BootStep) /\ WF_vars(PollStep) /\ WF_vars(BackfillStep)
    /\ WF_vars(CronPoll) /\ WF_vars(CronSweep)
    /\ SF_vars(Start(Poll(0))) /\ SF_vars(Start(Backfill))

FairSpec == Spec /\ Fairness

-----------------------------------------------------------------------------
(* Safety.                                                                 *)

(* A backfill that will list change i is queued or running, or will be     *)
(* enqueued by the poll at hand or by the boot, before anything else can   *)
(* go wrong.                                                               *)
SweepOwed(i) ==
    \/ boot # "up"
    \/ Backfill \in queue
    \/ run.pc \in {"list", "reset"}
    \/ run.pc \in {"listing", "targets"} /\ i <= run.at

Swept(i) == i <= swept \/ i <= waived["sweep"] \/ SweepOwed(i)

(* A note whose change lies behind the cursor is not forgotten: the change *)
(* was resolved, or a backfill has covered it or is owed.  A change that   *)
(* got a 4xx was counted, and the daily sweep is left to see its note.     *)
NotesAreCovered ==
    \A i \in 1..cursor :
        i \in resolved \/ Swept(i)

(* A removal behind the cursor was turned into a delete, unless the cursor *)
(* jumped over it: no backfill can make up for a removal.                  *)
RemovalsAreDeleted ==
    \A i \in 1..cursor :
        i \in Removals => i \in resolved \/ i <= waived["reset"]

(* A push answered with 200 is never forgotten, the dropped duplicates     *)
(* included: its change is behind the cursor, or a poll that will read it  *)
(* is queued or running, unless a poll has failed since or a backfill      *)
(* stands in for the polls that an upgrade cancelled.                      *)
PollOwed(i) ==
    \/ \E job \in queue : job.kind = "poll"
    \/ run.pc \in {"load", "fetch"}
    \/ run.pc \in {"enqueue", "saved"} /\ (i <= run.last \/ run.next # NoToken)

AckedPushIsPolled ==
    \A i \in acked :
        \/ i <= cursor
        \/ PollOwed(i)
        \/ i <= waived["poll"]
        \/ Swept(i)

(* The log is followed in order and from the cursor: LogFollower is what    *)
(* remains of the polls, their crashes, resumptions and restarts included. *)
Follower == INSTANCE LogFollower
            WITH upto <- cursor, done <- resolved, given <- waived["reset"]

FollowsLog == Follower!Spec

-----------------------------------------------------------------------------
(* Liveness.                                                               *)

(* Every change comes to be resolved or counted as errored, or the cursor  *)
(* is set beyond it and a backfill made since.                             *)
EveryChangeIsHandled ==
    \A i \in 1..Budget["change"] :
        i <= head ~> \/ i \in resolved
                     \/ i <= waived["reset"] /\ i <= swept
=============================================================================
