---------------------------- MODULE WatchChannel ----------------------------
(***************************************************************************)
(* How the worker keeps a push channel open at Drive.  A channel lives for *)
(* seven days; the daily cron and every boot check the active one and      *)
(* replace it when it nears its end or was registered to another URL: the  *)
(* old channel is stopped, a pending row is written, Drive is asked for    *)
(* the new channel, and the row is confirmed and made the active one.  The *)
(* webhook accepts the pushes of any channel with an unexpired row.  Drive *)
(* calls may fail, Drive's answer may get lost, the process may die        *)
(* between any two effects, and the configured URL may be another one when *)
(* it comes back.                                                          *)
(*                                                                         *)
(* Time is counted in days, channels in the order they are made.           *)
(***************************************************************************)
EXTENDS Integers

CONSTANTS
    Urls,      \* what settings.webhook.url may be
    NoUrl,     \* the empty setting
    TTL,       \* how long a channel lives, Drive's default and maximum
    Headroom,  \* RENEWAL_HEADROOM
    Budget     \* how often each thing outside the worker may happen

Kinds == {"wait", "setting", "failure"}

ASSUME NoUrlAssumption == NoUrl \in Urls
ASSUME HeadroomAssumption == Headroom \in Nat
ASSUME TTLAssumption == TTL \in Nat /\ TTL > Headroom
ASSUME ChannelBudgetAssumption == Budget \in [Kinds -> Nat]

None == 0  \* no channel

VARIABLES
    today,     \* the clock
    url,       \* settings.webhook.url of this boot
    phase,     \* how far main() has come
    made,      \* how many channel ids have been drawn
    rows,      \* drive_watch_channels: the URL and expires_at of each id
    active,    \* the row with is_active
    watch,     \* the channels Drive has: the URL it pushes to, and until when
    run,       \* the renewals of the boot and of the cron
    unseen,    \* a change covered by no push, poll or backfill: see below
    checked,   \* the `now` of the last check that ended with a fresh channel
    orphans,   \* channels whose acceptance the worker never heard of
    reverted,  \* the setting went back to the URL of the active row
    spent      \* how much of each budget is used

ghosts == <<checked, orphans, reverted>>
vars == <<today, url, phase, made, rows, active, watch, run, unseen, ghosts,
          spent>>

(* Of the changes in Drive one at a time is followed, any one: "note", it  *)
(* is of a note that is there, or "removal", and nothing has covered it    *)
(* yet; "passed", pushes may be heard again and nothing that will see it   *)
(* was enqueued.  "none": it is covered, or none is followed.              *)
ChangeKinds == {"note", "removal"}
Followed == ChangeKinds \cup {"none", "passed"}

Renewers == {"boot", "cron"}

(* Where a renewal is: outside the step, in it and under the channel lock, *)
(* or behind it.                                                           *)
Inside == {"stop", "create", "watch", "accepted", "refused"}
Steps == {"idle", "lock", "done"} \cup Inside

(* now: when the renewal began; old: the active channel it found; id: the  *)
(* channel it makes.                                                       *)
Runs == [pc : Steps, now : Nat, old : Nat, id : Nat]
Idle == [pc |-> "idle", now |-> 0, old |-> None, id |-> None]

Phases == {"down", "boot", "backfill", "up"}

TypeOK ==
    /\ today \in Nat /\ made \in Nat /\ checked \in 0..today
    /\ url \in Urls
    /\ phase \in Phases
    /\ DOMAIN rows \subseteq 1..made
    /\ \A c \in DOMAIN rows : rows[c] \in [url : Urls, expires : Nat]
    /\ active \in {None} \cup DOMAIN rows
    /\ DOMAIN watch \subseteq 1..made
    /\ \A c \in DOMAIN watch : watch[c] \in [url : Urls, until : Nat]
    /\ run \in [Renewers -> Runs]
    /\ orphans \subseteq 1..made
    /\ unseen \in Followed
    /\ reverted \in BOOLEAN
    /\ spent \in [Kinds -> Nat]

Init ==
    /\ today = 0 /\ made = 0 /\ checked = 0
    /\ url = NoUrl
    /\ phase = "down"
    /\ rows = [c \in {} |-> None]
    /\ active = None
    /\ watch = [c \in {} |-> None]
    /\ run = [p \in Renewers |-> Idle]
    /\ unseen = "none"
    /\ reverted = FALSE
    /\ orphans = {}
    /\ spent = [kind \in Kinds |-> 0]

Spend(kind) ==
    /\ spent[kind] < Budget[kind]
    /\ spent' = [spent EXCEPT ![kind] = @ + 1]

Put(f, c, value) == [d \in DOMAIN f \cup {c} |-> IF d = c THEN value ELSE f[d]]
Drop(f, c) == [d \in DOMAIN f \ {c} |-> f[d]]

-----------------------------------------------------------------------------
(* The webhook.                                                            *)

(* _authenticate: the row of the push's channel exists and is unexpired,   *)
(* be it the active one or not.                                            *)
Authentic(c) == c \in DOMAIN rows /\ today < rows[c].expires

Watched ==
    \E c \in DOMAIN watch :
        /\ today < watch[c].until
        /\ watch[c].url = url
        /\ Authentic(c)

Heard == phase = "up" /\ Watched

(* The change followed waits for a push, or for the fallback poll. *)
Waiting == unseen \in ChangeKinds

PassedOver == IF Waiting THEN "passed" ELSE unseen

(* A change: its push enqueues a poll, which reads every earlier change as *)
(* well; or there is no push, or none that is accepted.                    *)
Change(kind) ==
    /\ \/ Heard /\ unseen' = "none"
       \/ ~ Heard /\ ~ Waiting /\ unseen' = kind
    /\ UNCHANGED <<today, url, phase, made, rows, active, watch, run, ghosts,
                   spent>>

(* fallback-poll-changes *)
FallbackPoll ==
    /\ phase # "down"
    /\ unseen' = "none"
    /\ UNCHANGED <<today, url, phase, made, rows, active, watch, run, ghosts,
                   spent>>

-----------------------------------------------------------------------------
(* A renewal.                                                              *)

At(p, pc) == phase # "down" /\ run[p].pc = pc

Goto(p, pc) == run' = [run EXCEPT ![p].pc = pc]

(* The renewal is over, or has raised: the boot goes on in either case.    *)
End(p) ==
    /\ run' = [run EXCEPT ![p] = Idle]
    /\ phase' = IF p = "boot" THEN "backfill" ELSE phase

(* The daily cron, and the renewal that DBOS resumes after a crash: its    *)
(* step is executed anew.                                                  *)
BeginCron ==
    /\ At("cron", "idle")
    /\ url # NoUrl
    /\ run' = [run EXCEPT !["cron"] = [Idle EXCEPT !.pc = "lock", !.now = today]]
    /\ UNCHANGED <<today, url, phase, made, rows, active, watch, unseen, ghosts,
                   spent>>

(* ensure_active_channel: a recovery poll if the active channel has        *)
(* expired, then the same renewal outside of any workflow.                 *)
BeginBoot ==
    /\ phase = "boot" /\ run["boot"].pc = "idle"
    /\ unseen' = IF active # None /\ rows[active].expires <= today
                 THEN "none" ELSE unseen
    /\ \/ /\ url # NoUrl
          /\ run' = [run EXCEPT !["boot"] = [Idle EXCEPT !.pc = "lock",
                                                         !.now = today]]
          /\ UNCHANGED phase
       \/ /\ url = NoUrl
          /\ phase' = "backfill"
          /\ UNCHANGED run
    /\ UNCHANGED <<today, url, made, rows, active, watch, ghosts, spent>>

(* Mutants of LeftAlone: within the headroom; registered to any URL. *)
LeftAloneUntilExpiry(now) ==
    rows[active].url = url /\ rows[active].expires > now
LeftAloneAnyUrl(now) == rows[active].expires > now + Headroom

(* url_matches and still_fresh *)
LeftAlone(now) == rows[active].url = url /\ rows[active].expires > now + Headroom

(* The start of _renew_channel_step, once the lock is had. A channel left  *)
(* alone is none that was replaced.                                        *)
Check(p) ==
    /\ At(p, "lock")
    /\ \A q \in Renewers : run[q].pc \notin Inside
    /\ \/ /\ active = None
          /\ Goto(p, "create")
          /\ UNCHANGED checked
       \/ /\ active # None
          /\ LeftAlone(run[p].now)
          /\ Goto(p, "done")
          /\ checked' = run[p].now
       \/ /\ active # None
          /\ ~ LeftAlone(run[p].now)
          /\ run' = [run EXCEPT ![p].pc = "stop", ![p].old = active]
          /\ UNCHANGED checked
    /\ UNCHANGED <<today, url, phase, made, rows, active, watch, unseen,
                   orphans, reverted, spent>>

(* _try_stop_channel: a failure is logged and survived. *)
Stop(p) ==
    /\ At(p, "stop")
    /\ \/ watch' = Drop(watch, run[p].old) /\ UNCHANGED spent
       \/ Spend("failure") /\ UNCHANGED watch
    /\ Goto(p, "create")
    /\ UNCHANGED <<today, url, phase, made, rows, active, unseen, ghosts>>

(* Mutants of Create: the row is left to be written after Drive's answer;  *)
(* the row is the active one from the start.                               *)
CreateNoRow(p) ==
    /\ At(p, "create")
    /\ made' = made + 1
    /\ run' = [run EXCEPT ![p].pc = "watch", ![p].id = made']
    /\ UNCHANGED <<today, url, phase, rows, active, watch, unseen, ghosts, spent>>
CreateActive(p) ==
    /\ At(p, "create")
    /\ made' = made + 1
    /\ rows' = Put(rows, made', [url |-> url, expires |-> run[p].now + TTL])
    /\ active' = made'
    /\ run' = [run EXCEPT ![p].pc = "watch", ![p].id = made']
    /\ UNCHANGED <<today, url, phase, watch, unseen, ghosts, spent>>

(* _create_and_activate writes a pending row before it calls Drive. *)
Create(p) ==
    /\ At(p, "create")
    /\ made' = made + 1
    /\ rows' = Put(rows, made', [url |-> url, expires |-> run[p].now + TTL])
    /\ run' = [run EXCEPT ![p].pc = "watch", ![p].id = made']
    /\ UNCHANGED <<today, url, phase, active, watch, unseen, ghosts, spent>>

(* Without a cursor, as before the first channel, a start page token is    *)
(* needed first, and may not be had.                                       *)
TokenFails(p) ==
    /\ At(p, "create")
    /\ made = 0
    /\ Spend("failure")
    /\ End(p)
    /\ UNCHANGED <<today, url, made, rows, active, watch, unseen, ghosts>>

(* Drive accepts changes.watch. Its answer may get lost, and the retry of  *)
(* the call, with the same id, is then an error.                           *)
Accept(p) ==
    /\ At(p, "watch")
    /\ watch' = Put(watch, run[p].id, [url |-> url, until |-> today + TTL])
    /\ \/ /\ Goto(p, "accepted")
          /\ UNCHANGED <<orphans, spent>>
       \/ /\ Goto(p, "refused")
          /\ orphans' = orphans \cup {run[p].id}
          /\ Spend("failure")
    /\ UNCHANGED <<today, url, phase, made, rows, active, unseen, checked,
                   reverted>>

Refuse(p) ==
    /\ At(p, "watch")
    /\ Spend("failure")
    /\ Goto(p, "refused")
    /\ UNCHANGED <<today, url, phase, made, rows, active, watch, unseen, ghosts>>

(* The pending row is deleted and the renewal raises. *)
Rollback(p) ==
    /\ At(p, "refused")
    /\ rows' = Drop(rows, run[p].id)
    /\ End(p)
    /\ UNCHANGED <<today, url, made, active, watch, unseen, ghosts, spent>>

(* confirm and mark_active, in one transaction.  Behind a first channel    *)
(* there will be no poll; when it comes after the boot, no backfill        *)
(* either.                                                                 *)
Confirm(p) ==
    LET id == run[p].id IN
    /\ At(p, "accepted")
    /\ rows' = [rows EXCEPT ![id].expires = watch[id].until]
    /\ active' = id
    /\ checked' = run[p].now
    /\ unseen' = IF phase = "up" /\ run[p].old = None THEN PassedOver ELSE unseen
    /\ Goto(p, "done")
    /\ UNCHANGED <<today, url, phase, made, watch, orphans, reverted, spent>>

(* Mutant of CatchUp: no poll is enqueued. *)
CatchUpSkipped(p) ==
    /\ At(p, "done")
    /\ End(p)
    /\ UNCHANGED <<today, url, made, rows, active, watch, unseen, ghosts, spent>>

(* Behind the step: a catch-up poll, if a channel was replaced. *)
CatchUp(p) ==
    /\ At(p, "done")
    /\ unseen' = IF run[p].old # None THEN "none" ELSE unseen
    /\ End(p)
    /\ UNCHANGED <<today, url, made, rows, active, watch, ghosts, spent>>

-----------------------------------------------------------------------------
(* The process.                                                            *)

(* main() up to ensure_active_channel: the settings are read, and the      *)
(* renewal that a version other than its own has left behind is cancelled. *)
Launch ==
    /\ phase = "down"
    /\ phase' = "boot"
    /\ \/ UNCHANGED <<url, reverted, spent>>
       \/ /\ Spend("setting")
          /\ url' \in Urls \ {url}
          /\ reverted' = (reverted \/ (active # None /\ rows[active].url = url'))
    /\ \/ UNCHANGED run
       \/ run' = [run EXCEPT !["cron"] = Idle]
    /\ UNCHANGED <<today, made, rows, active, watch, unseen, checked, orphans>>

(* enqueue_startup_backfill, and uvicorn begins to serve.  The backfill    *)
(* converts the notes that are there, whatever happened to them; it        *)
(* deletes nothing.                                                        *)
EnqueueBackfill ==
    /\ phase = "backfill"
    /\ phase' = "up"
    /\ unseen' = IF unseen = "note" THEN "none" ELSE PassedOver
    /\ UNCHANGED <<today, url, made, rows, active, watch, run, ghosts, spent>>

(* The process dies. The boot's renewal is gone, and the cron's starts     *)
(* over, unless DBOS has recorded the result of its step.                  *)
Crash ==
    /\ phase # "down"
    /\ Spend("failure")
    /\ phase' = "down"
    /\ \E cron \in {Idle} \cup {r \in {run["cron"]} : r.pc = "done"} :
        run' = [run EXCEPT !["boot"] = Idle, !["cron"] = cron]
    /\ UNCHANGED <<today, url, made, rows, active, watch, unseen, ghosts>>

(* The container is restarted while no renewal is under way. *)
Restart ==
    /\ phase = "up"
    /\ \A p \in Renewers : run[p].pc = "idle"
    /\ phase' = "down"
    /\ UNCHANGED <<today, url, made, rows, active, watch, run, unseen, ghosts,
                   spent>>

(* Days go by, in which nothing else happens. *)
Tick ==
    /\ Spend("wait")
    /\ \E days \in 1..TTL : today' = today + days
    /\ UNCHANGED <<url, phase, made, rows, active, watch, run, unseen, ghosts>>

-----------------------------------------------------------------------------
Renew(p) ==
    \/ Check(p) \/ Stop(p) \/ Create(p) \/ Accept(p) \/ Rollback(p)
    \/ Confirm(p) \/ CatchUp(p)

Next ==
    \/ \E kind \in ChangeKinds : Change(kind)
    \/ FallbackPoll \/ Tick \/ Crash \/ Restart
    \/ Launch \/ EnqueueBackfill \/ BeginBoot \/ BeginCron
    \/ \E p \in Renewers : Renew(p) \/ TokenFails(p) \/ Refuse(p)

Spec == Init /\ [][Next]_vars

(* The container restarts a process that died, main() goes on, the cron    *)
(* ticks, and a renewal that has begun comes to its end.                   *)
Fairness ==
    /\ WF_vars(Launch) /\ WF_vars(EnqueueBackfill) /\ WF_vars(BeginBoot)
    /\ WF_vars(BeginCron)
    /\ \A p \in Renewers : WF_vars(Renew(p))

FairSpec == Spec /\ Fairness

-----------------------------------------------------------------------------
(* Safety.                                                                 *)

(* The active channel outlives the last check that ended well by more than *)
(* the headroom: for it to expire, no check may end well for that long.    *)
ExpiryNeedsMissedChecks ==
    active # None => rows[active].expires > checked + Headroom

(* A channel that the next check would leave alone is one that Drive still *)
(* has, unless the setting was changed and changed back: no failed renewal *)
(* leaves a stopped channel in place of a fresh one.                       *)
LeftAloneIsWatched ==
    active # None /\ LeftAlone(today) => active \in DOMAIN watch \/ reverted

(* The pushes of every channel Drive has can be authenticated, up to the   *)
(* channel's end if it is the active one, unless Drive's acceptance never  *)
(* reached the worker.                                                     *)
AcceptedIsKnown ==
    \A c \in DOMAIN watch :
        \/ c \in orphans
        \/ /\ c \in DOMAIN rows /\ rows[c].url = watch[c].url
           /\ c = active => rows[c].expires = watch[c].until

(* Once pushes are heard, no change from before is waiting for one: it was *)
(* polled, or it is of a note and was backfilled, or the renewal at hand   *)
(* is still to enqueue its poll or to fail.  What was passed over is       *)
(* excepted: whatever came before a first channel that the cron makes, and *)
(* the removals behind which a boot enqueues no poll, since it left the    *)
(* channel alone (also where the process had died between the step that    *)
(* replaced one and the catch-up poll), or had none to replace, or failed. *)
SeamIsCovered ==
    Waiting /\ Heard =>
        \E p \in Renewers : \/ run[p].pc \in {"accepted", "refused"}
                            \/ run[p].pc = "done" /\ run[p].old # None

-----------------------------------------------------------------------------
(* Liveness.                                                               *)

(* A worker without a channel that works gets one again. *)
PushesComeBack ==
    ~ Heard ~> Heard \/ url = NoUrl \/ reverted
=============================================================================
