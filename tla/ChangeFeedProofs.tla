-------------------------- MODULE ChangeFeedProofs --------------------------
(***************************************************************************)
(* Theorems about ChangeFeed, for pages of any size, any changes and any   *)
(* number of failures: the state is well typed, no note and no removal is  *)
(* lost behind the cursor, no acknowledged push is forgotten, and the log  *)
(* is followed in order, as LogFollower has it.                            *)
(***************************************************************************)
EXTENDS ChangeFeed, TLAPS

USE RemovalsAssumption, PageSizeAssumption, FeedBudgetAssumption

-----------------------------------------------------------------------------
(* The inductive invariant.                                                *)

(* What the locals of a poll say while it walks: the page at hand does not *)
(* start beyond the cursor, each of its changes is resolved or still to be *)
(* enqueued, it ends within PageSize, and with no page to follow it ends   *)
(* beyond the cursor.                                                      *)
WalkInv ==
    run.pc \in {"enqueue", "saved"} =>
        /\ run.last \in run.token..head
        /\ run.last <= run.token + PageSize
        /\ run.todo \subseteq (run.token + 1)..run.last
        /\ (run.token + 1)..run.last \subseteq run.todo \cup resolved
        /\ run.next \in {NoToken, run.last}
        /\ run.next = NoToken => cursor <= run.last /\ run.push <= run.last

RunInv ==
    /\ run.pc \in {"fetch", "enqueue", "saved", "reset"} =>
            run.token \in 0..cursor
    /\ WalkInv
    /\ run.pc = "saved" => cursor = run.last /\ run.todo = {}
    /\ run.pc = "reset" => run.push <= cursor
    /\ run.at <= head /\ run.push <= head
    /\ \A job \in queue : job.push <= head

(* Types, and what a run's locals say. *)
Sound == TypeOK /\ RunInv

(* Behind the cursor every change was dealt with, unless it was jumped.    *)
Dealt(i) == i \in resolved \/ i <= waived["reset"]

BehindIsDealt == \A i \in 1..cursor : Dealt(i)

IInv == Sound /\ NotesAreCovered /\ BehindIsDealt /\ AckedPushIsPolled

LEMMA InitSound == Init => IInv
BY DEF Init, IInv, Sound, TypeOK, RunInv, WalkInv, NotesAreCovered,
       BehindIsDealt, AckedPushIsPolled, Idle, NewRun, Runs, Jobs,
       BootSteps, PollSteps, BackfillSteps, Kinds, Reasons, NoToken

-----------------------------------------------------------------------------
(* Every step keeps the types and the locals sound.                        *)

(* What is spent, and what is waived, keep their types. *)
LEMMA SpendTyped ==
    ASSUME spent \in [Kinds -> Nat], NEW kind \in Kinds, Spend(kind)
    PROVE  spent' \in [Kinds -> Nat]
BY DEF Spend

LEMMA WaiveTyped ==
    ASSUME head \in Nat, waived \in [Reasons -> 0..head],
           NEW r \in Reasons, Waive(r, head)
    PROVE  waived' \in [Reasons -> 0..head]
<1> DEFINE value == IF waived[r] < head THEN head ELSE waived[r]
<1>1. value \in 0..head
  OBVIOUS
<1>2. waived' = [waived EXCEPT ![r] = value]
  BY DEF Waive
<1> QED BY <1>1, <1>2

LEMMA SeedTyped ==
    ASSUME head \in Nat, waived \in [Reasons -> 0..head], SeedInBoot
    PROVE  waived' \in [Reasons -> 0..head]
BY DEF SeedInBoot, Reasons

(* The runs that the steps of a workflow make of one. *)
LEMMA IdleTyped ==
    Idle \in Runs /\ Idle.pc = "idle" /\ Idle.push = 0 /\ Idle.at = 0
BY DEF Idle, NewRun, NoToken, Runs

LEMMA FetchTyped ==
    ASSUME run \in Runs, NEW token \in Int, NEW same, NEW next,
           same = [run EXCEPT !.pc = "fetch", !.token = token],
           next = [NewRun("fetch", run.push) EXCEPT !.token = token]
    PROVE  /\ same \in Runs
           /\ same.pc = "fetch" /\ same.token = token
           /\ same.push = run.push /\ same.at = run.at
           /\ next \in Runs
           /\ next.pc = "fetch" /\ next.token = token
           /\ next.push = run.push /\ next.at = 0
<1>1. /\ same \in Runs
      /\ same.pc = "fetch" /\ same.token = token
      /\ same.push = run.push /\ same.at = run.at
  BY DEF Runs, PollSteps
<1>2. NewRun("fetch", run.push) \in Runs
  BY DEF Runs, NewRun, NoToken, PollSteps
<1>3. /\ next \in Runs
      /\ next.pc = "fetch" /\ next.token = token
      /\ next.push = run.push /\ next.at = 0
  BY <1>2 DEF Runs, NewRun, NoToken, PollSteps
<1> QED BY <1>1, <1>3

LEMMA PageTyped ==
    ASSUME run \in Runs, NEW todo \in SUBSET Nat, NEW last \in Nat,
           NEW token \in Int,
           run' = [run EXCEPT !.pc = "enqueue", !.todo = todo,
                              !.last = last, !.next = token]
    PROVE  /\ run' \in Runs
           /\ run'.pc = "enqueue" /\ run'.token = run.token
           /\ run'.last = last /\ run'.todo = todo /\ run'.next = token
           /\ run'.push = run.push /\ run'.at = run.at
<1>1. [run EXCEPT !.pc = "enqueue"] \in Runs
  BY DEF Runs, PollSteps
<1>2. ASSUME NEW r \in Runs PROVE [r EXCEPT !.todo = todo] \in Runs
  BY DEF Runs
<1>3. ASSUME NEW r \in Runs PROVE [r EXCEPT !.last = last] \in Runs
  BY DEF Runs
<1>4. ASSUME NEW r \in Runs PROVE [r EXCEPT !.next = token] \in Runs
  BY DEF Runs
<1>5. run' = [[[[run EXCEPT !.pc = "enqueue"] EXCEPT !.todo = todo]
                 EXCEPT !.last = last] EXCEPT !.next = token]
  BY DEF Runs
<1>6. run' \in Runs
  BY <1>1, <1>2, <1>3, <1>4, <1>5
<1> QED BY <1>6 DEF Runs, PollSteps

LEMMA DriveSound ==
    ASSUME Sound, LogChange \/ Forget PROVE Sound'
<1>1. spent' \in [Kinds -> Nat]
  BY SpendTyped DEF Sound, TypeOK, LogChange, Forget, Kinds
<1>2. /\ head' \in Nat /\ head <= head' /\ oldest' \in 0..head'
      /\ UNCHANGED <<cursor, queue, run, boot, resolved, swept, acked, waived>>
  BY DEF Sound, TypeOK, LogChange, Forget, outcome
<1>3. waived' \in [Reasons -> 0..head']
  BY <1>2 DEF Sound, TypeOK
<1>4. TypeOK'
  BY <1>1, <1>2, <1>3 DEF Sound, TypeOK, NoToken
<1>5. RunInv'
  <2>1. WalkInv'
    BY <1>2 DEF Sound, TypeOK, RunInv, WalkInv, Runs
  <2> QED BY <1>2, <2>1 DEF Sound, TypeOK, RunInv, Runs, Jobs
<1> QED BY <1>4, <1>5 DEF Sound

LEMMA ProducersSound ==
    ASSUME Sound, CronPoll \/ CronSweep \/ \E i \in 1..head : Webhook(i)
    PROVE  Sound'
<1>1. spent' \in [Kinds -> Nat]
  BY SpendTyped
  DEF Sound, TypeOK, CronPoll, CronSweep, Webhook, Kinds
<1>2. UNCHANGED <<head, oldest, cursor, run, boot, resolved, swept, waived>>
  BY DEF CronPoll, CronSweep, Webhook, drive, outcome
<1>3. acked' \subseteq 1..head
  <2>1. CASE CronPoll \/ CronSweep
    BY <2>1 DEF Sound, TypeOK, CronPoll, CronSweep, outcome
  <2>2. CASE \E i \in 1..head : Webhook(i)
    BY <2>2 DEF Sound, TypeOK, Webhook
  <2> QED BY <2>1, <2>2
<1>4. queue' \subseteq Jobs /\ \A job \in queue' : job.push <= head
  <2>1. queue \subseteq Jobs /\ \A job \in queue : job.push <= head
    BY DEF Sound, TypeOK, RunInv
  <2>2. \A i \in 0..head : Poll(i) \in Jobs /\ Poll(i).push <= head
    BY DEF Poll, Jobs, Sound, TypeOK
  <2>3. Backfill \in Jobs /\ Backfill.push <= head
    BY DEF Backfill, Jobs, Sound, TypeOK
  <2>4. \/ queue' = queue
        \/ \E i \in 0..head : queue' = queue \cup {Poll(i)}
        \/ queue' = queue \cup {Backfill}
    BY DEF CronPoll, CronSweep, Webhook, Sound, TypeOK
  <2> QED BY <2>1, <2>2, <2>3, <2>4
<1> QED BY <1>1, <1>2, <1>3, <1>4 DEF Sound, TypeOK, RunInv, WalkInv

LEMMA PollSound ==
    ASSUME Sound,
           PollStep \/ PollFails \/ \E job \in queue : Start(job)
    PROVE  Sound'
<1> USE DEF Sound, TypeOK, RunInv, WalkInv, At, Runs, PollSteps, BackfillSteps,
            drive, outcome, NewRun, Idle, NoToken
<1>1. CASE \E job \in queue : Start(job)
  BY <1>1 DEF Start, Jobs
<1>2. CASE LoadOrInitCursor
  <2>1. waived' \in [Reasons -> 0..head]
    BY <1>2 DEF LoadOrInitCursor, Reasons
  <2>2. cursor' \in 0..head
    BY <1>2 DEF LoadOrInitCursor, SeedIfEmpty, NoToken
  <2>3. /\ UNCHANGED <<head, oldest, queue, boot, resolved, swept, acked,
                       spent>>
        /\ run' = [run EXCEPT !.pc = "fetch", !.token = cursor']
    BY <1>2 DEF LoadOrInitCursor
  <2>4. /\ run' \in Runs /\ run'.pc = "fetch" /\ run'.token = cursor'
        /\ run'.push = run.push /\ run'.at = run.at
    <3>1. cursor' \in Int /\ run \in Runs
      BY <2>2
    <3> QED BY <2>3, <3>1, FetchTyped
  <2>5. TypeOK'
    BY <2>1, <2>2, <2>3, <2>4
  <2> QED BY <2>2, <2>3, <2>4, <2>5
<1>3. CASE FetchPagePlan
  <2>1. spent' \in [Kinds -> Nat]
    BY <1>3, SpendTyped DEF FetchPagePlan, Kinds
  <2> DEFINE last == PageEnd(run.token)
             page == (run.token + 1)..last
             next == IF last < head THEN last ELSE NoToken
  <2>. run.pc = "fetch" /\ run.token \in 0..head /\ run \in Runs
    BY <1>3 DEF FetchPagePlan, NoToken
  <2>2. /\ last \in run.token..head /\ last \in Nat
        /\ last <= run.token + PageSize
        /\ page \subseteq 1..head
        /\ last < head \/ last = head
    BY DEF PageEnd
  <2>3. PICK bad \in SUBSET (page \ Removals) :
           /\ resolved' = resolved \cup bad
           /\ run' = [run EXCEPT !.pc = "enqueue", !.todo = page \ bad,
                                 !.last = last, !.next = next]
    BY <1>3 DEF FetchPagePlan
  <2>4. UNCHANGED <<head, oldest, cursor, queue, boot, swept, acked, waived>>
        /\ run.pc = "fetch"
    BY <1>3 DEF FetchPagePlan
  <2>5. bad \subseteq page
    OBVIOUS
  <2> HIDE DEF last, page, next
  <2>6. /\ run' \in Runs
        /\ run'.pc = "enqueue" /\ run'.token = run.token /\ run'.last = last
        /\ run'.todo = page \ bad /\ run'.next = next
        /\ run'.push = run.push /\ run'.at = run.at
    <3>1. (page \ bad) \in SUBSET Nat
      BY DEF page, last, PageEnd
    <3>2. next \in Int /\ last \in Nat
      BY <2>2 DEF next, NoToken
    <3> DEFINE todo == page \ bad
    <3>3. run' = [run EXCEPT !.pc = "enqueue", !.todo = todo,
                             !.last = last, !.next = next]
      BY <2>3
    <3>4. run \in Runs /\ todo \in SUBSET Nat
      BY <3>1
    <3> HIDE DEF todo, Runs
    <3>5. /\ run' \in Runs
          /\ run'.pc = "enqueue" /\ run'.token = run.token
          /\ run'.last = last /\ run'.todo = todo /\ run'.next = next
          /\ run'.push = run.push /\ run'.at = run.at
      BY ONLY <3>2, <3>3, <3>4, PageTyped
    <3> QED BY <3>5 DEF todo
  <2>7. resolved' \subseteq 1..head
    BY <2>2, <2>3, <2>5
  <2>8. TypeOK'
    BY <2>1, <2>4, <2>6, <2>7
  <2>9. page \subseteq run'.todo \cup resolved'
    BY <2>3, <2>6
  <2>10. cursor <= head
    BY DEF NoToken
  <2>11. run'.todo \subseteq (run.token + 1)..last
    BY <2>5, <2>6 DEF page
  <2>12. WalkInv'
    BY <2>2, <2>4, <2>6, <2>9, <2>10, <2>11 DEF page, next
  <2> QED BY <2>4, <2>6, <2>8, <2>12
<1>4. CASE CursorRefused
  <2>1. spent' \in [Kinds -> Nat]
    BY <1>4, SpendTyped DEF CursorRefused, Kinds
  <2>2. waived' \in [Reasons -> 0..head]
    BY <1>4, WaiveTyped DEF CursorRefused, Reasons
  <2>3. /\ UNCHANGED <<head, oldest, queue, boot, resolved, swept, acked>>
        /\ run.pc = "fetch" /\ cursor' = head
        /\ run' = [run EXCEPT !.pc = "reset"]
    BY <1>4 DEF CursorRefused
  <2> QED BY <2>1, <2>2, <2>3 DEF NoToken
<1>5. CASE EnqueueRecovery
  BY <1>5 DEF EnqueueRecovery, Backfill, Jobs
<1>6. CASE EnqueueAction
  BY <1>6 DEF EnqueueAction
<1>7. CASE SaveCursor
  BY <1>7 DEF SaveCursor
<1>8. CASE NextPage
  <2>1. /\ UNCHANGED <<head, oldest, cursor, queue, boot, resolved, swept,
                       acked, waived, spent>>
        /\ run.pc = "saved"
        /\ run' = IF run.next # NoToken
                  THEN [NewRun("fetch", run.push) EXCEPT !.token = run.next]
                  ELSE Idle
    BY <1>8 DEF NextPage
  <2>2. run' \in Runs /\ run'.at = 0
        /\ \/ run'.pc = "fetch" /\ run'.token = cursor /\ run'.push = run.push
           \/ run'.pc = "idle" /\ run'.push = 0
    <3>1. run.next # NoToken => run.next \in Int /\ run.next = cursor
      BY <2>1
    <3>2. CASE run.next # NoToken
      BY <2>1, <3>1, <3>2, FetchTyped
    <3>3. CASE run.next = NoToken
      BY <2>1, <3>3, IdleTyped
    <3> QED BY <3>2, <3>3
  <2>3. TypeOK'
    BY <2>1, <2>2
  <2>4. run.pc = "saved" => cursor \in 0..head
    BY DEF NoToken
  <2> QED BY <2>1, <2>2, <2>3, <2>4
<1>9. CASE PollFails
  <2>1. spent' \in [Kinds -> Nat]
    BY <1>9, SpendTyped DEF PollFails, Kinds
  <2>2. waived' \in [Reasons -> 0..head]
    BY <1>9, WaiveTyped DEF PollFails, Reasons
  <2>3. /\ UNCHANGED <<head, oldest, cursor, queue, boot, resolved, swept,
                       acked>>
        /\ run' = Idle
    BY <1>9 DEF PollFails
  <2> QED BY <2>1, <2>2, <2>3
<1> QED BY <1>1, <1>2, <1>3, <1>4, <1>5, <1>6, <1>7, <1>8, <1>9 DEF PollStep

LEMMA BackfillSound ==
    ASSUME Sound, BackfillStep \/ ListPartly \/ BackfillFails PROVE Sound'
<1> USE DEF Sound, TypeOK, RunInv, WalkInv, At, Runs, PollSteps, BackfillSteps,
            drive, outcome, NewRun, Idle, NoToken
<1>1. CASE ListStarts
  <2>1. /\ UNCHANGED <<head, oldest, cursor, queue, boot, resolved, swept,
                       acked, waived, spent>>
        /\ run' = [run EXCEPT !.pc = "listing", !.at = head]
    BY <1>1 DEF ListStarts
  <2>2. /\ run' \in Runs /\ run'.pc = "listing" /\ run'.at = head
        /\ run'.push = run.push
    BY <2>1
  <2>3. TypeOK'
    BY <2>1, <2>2
  <2> QED BY <2>1, <2>2, <2>3
<1>2. CASE ListEnds
  BY <1>2 DEF ListEnds
<1>3. CASE EnqueueTargets
  <2>1. swept' \in 0..head
    BY <1>3 DEF EnqueueTargets
  <2> QED BY <1>3, <2>1 DEF EnqueueTargets
<1>4. CASE BackfillFails
  <2>1. spent' \in [Kinds -> Nat]
    BY <1>4, SpendTyped DEF BackfillFails, Kinds
  <2>2. waived' \in [Reasons -> 0..head]
    BY <1>4, WaiveTyped DEF BackfillFails, Reasons
  <2>3. /\ UNCHANGED <<head, oldest, cursor, queue, boot, resolved, swept,
                       acked>>
        /\ run' = Idle
    BY <1>4 DEF BackfillFails
  <2> QED BY <2>1, <2>2, <2>3
<1>5. CASE ListPartly
  <2>1. spent' \in [Kinds -> Nat]
    BY <1>5, SpendTyped DEF ListPartly, Kinds
  <2>2. waived' \in [Reasons -> 0..head]
    BY <1>5, WaiveTyped DEF ListPartly, Reasons
  <2>3. /\ UNCHANGED <<head, oldest, cursor, queue, boot, resolved, swept,
                       acked>>
        /\ run' = [run EXCEPT !.pc = "targets", !.at = 0]
    BY <1>5 DEF ListPartly
  <2>4. /\ run' \in Runs /\ run'.pc = "targets" /\ run'.at = 0
        /\ run'.push = run.push
    BY <2>3
  <2>5. TypeOK'
    BY <2>1, <2>2, <2>3, <2>4
  <2> QED BY <2>3, <2>4, <2>5
<1> QED BY <1>1, <1>2, <1>3, <1>4, <1>5 DEF BackfillStep

LEMMA BootSound ==
    ASSUME Sound, BootStep \/ Crash PROVE Sound'
<1> USE DEF Sound, TypeOK, RunInv, WalkInv, Runs, PollSteps, BackfillSteps,
            BootSteps, drive, outcome, NewRun, Idle, NoToken
<1>1. CASE SeedCursor
  <2>1. spent' \in [Kinds -> Nat]
    BY <1>1, SpendTyped DEF SeedCursor, Kinds
  <2>2. waived' \in [Reasons -> 0..head]
    BY <1>1, SeedTyped DEF SeedCursor
  <2>3. cursor' \in {cursor} \/ (cursor = NoToken /\ cursor' = head)
    BY <1>1 DEF SeedCursor, SeedInBoot, SeedIfEmpty
  <2>4. /\ UNCHANGED <<head, oldest, queue, run, resolved, swept, acked>>
        /\ boot' = "seeded"
    BY <1>1 DEF SeedCursor
  <2> QED BY <2>1, <2>2, <2>3, <2>4 DEF NoToken
<1>2. CASE Launch
  <2>1. /\ UNCHANGED <<head, oldest, cursor, resolved, swept, acked, waived,
                       spent>>
        /\ boot' = "launched"
        /\ run' \in {run, Idle} /\ queue' \subseteq queue
    BY <1>2 DEF Launch
  <2>2. run' \in Runs
    BY <2>1, IdleTyped
  <2>3. TypeOK'
    BY <2>1, <2>2
  <2>4. CASE run' = run
    BY <2>1, <2>3, <2>4
  <2>5. CASE run' = Idle
    BY <2>1, <2>3, <2>5
  <2> QED BY <2>1, <2>4, <2>5
<1>3. CASE EnsureActiveChannel
  <2>1. waived' \in [Reasons -> 0..head]
    BY <1>3, SeedTyped DEF EnsureActiveChannel
  <2>2. cursor' \in {cursor} \/ (cursor = NoToken /\ cursor' = head)
    BY <1>3 DEF EnsureActiveChannel, SeedInBoot, SeedIfEmpty
  <2>3. queue' \subseteq Jobs /\ \A job \in queue' : job.push <= head
    BY <1>3 DEF EnsureActiveChannel, Poll, Jobs
  <2>4. /\ UNCHANGED <<head, oldest, run, resolved, swept, acked, spent>>
        /\ boot' = "channel"
    BY <1>3 DEF EnsureActiveChannel
  <2> QED BY <2>1, <2>2, <2>3, <2>4 DEF NoToken
<1>4. CASE EnqueueStartupBackfill
  BY <1>4 DEF EnqueueStartupBackfill, Backfill, Jobs
<1>5. CASE Crash
  <2>1. spent' \in [Kinds -> Nat]
    BY <1>5, SpendTyped DEF Crash, Kinds
  <2>2. /\ UNCHANGED <<head, oldest, cursor, queue, resolved, swept, acked,
                       waived>>
        /\ boot' = "down"
        /\ run' \in Resumed
    BY <1>5 DEF Crash
  <2> QED BY <2>1, <2>2 DEF Resumed
<1> QED BY <1>1, <1>2, <1>3, <1>4, <1>5 DEF BootStep

LEMMA NextSound ==
    ASSUME Sound, [Next]_vars PROVE Sound'
<1>1. CASE UNCHANGED vars
  BY <1>1 DEF Sound, TypeOK, RunInv, WalkInv, vars
<1> QED
  BY <1>1, DriveSound, ProducersSound, PollSound, BackfillSound, BootSound
  DEF Next, Failure

-----------------------------------------------------------------------------
(* What only grows: the changes dealt with, how far a backfill has come,   *)
(* and what is waived.                                                     *)
WaivedGrows == \A r \in Reasons : waived[r] <= waived'[r]

LEMMA WaiveGrows ==
    ASSUME waived \in [Reasons -> 0..head], head \in Nat,
           NEW r \in Reasons, Waive(r, head)
    PROVE  WaivedGrows /\ waived'[r] = head
<1> DEFINE value == IF waived[r] < head THEN head ELSE waived[r]
<1>1. value = head /\ waived[r] <= head /\ waived' = [waived EXCEPT ![r] = value]
  BY DEF Waive
<1>2. \A q \in Reasons : waived'[q] = IF q = r THEN head ELSE waived[q]
  BY <1>1
<1>3. \A q \in Reasons : waived[q] \in Int /\ waived[q] <= waived[q]
  OBVIOUS
<1> QED BY <1>1, <1>2, <1>3 DEF WaivedGrows

LEMMA SeedGrows ==
    ASSUME waived \in [Reasons -> 0..head], head \in Nat, SeedInBoot
    PROVE  WaivedGrows
<1>1. \A q \in Reasons : waived[q] \in Int /\ waived[q] <= head
  OBVIOUS
<1>2. CASE waived' = waived
  BY <1>1, <1>2 DEF WaivedGrows
<1>3. CASE waived' = [waived EXCEPT !["reset"] = head]
  BY <1>1, <1>3 DEF WaivedGrows, Reasons
<1> QED BY <1>2, <1>3 DEF SeedInBoot

LEMMA Grows ==
    ASSUME Sound, [Next]_vars
    PROVE  /\ resolved \subseteq resolved'
           /\ swept <= swept'
           /\ WaivedGrows
<1>1. head \in Nat /\ waived \in [Reasons -> 0..head] /\ swept \in Int
  BY DEF Sound, TypeOK
<1>2. waived' = waived => WaivedGrows
  <2>1. \A r \in Reasons : waived[r] \in Int
    BY <1>1
  <2> QED BY <2>1 DEF WaivedGrows
<1>3. resolved \subseteq resolved'
  BY DEF Next, vars, LogChange, Forget, CronPoll, CronSweep, Webhook, Start,
         PollStep, BackfillStep, BootStep, Failure, LoadOrInitCursor,
         FetchPagePlan, CursorRefused, EnqueueRecovery, EnqueueAction,
         SaveCursor, NextPage, ListStarts, ListEnds, EnqueueTargets,
         SeedCursor, Launch, EnsureActiveChannel, EnqueueStartupBackfill,
         PollFails, ListPartly, BackfillFails, Crash, outcome
<1>4. swept <= swept'
  <2>1. swept' = swept \/ EnqueueTargets
    BY DEF Next, vars, LogChange, Forget, CronPoll, CronSweep, Webhook, Start,
           PollStep, BackfillStep, BootStep, Failure, LoadOrInitCursor,
           FetchPagePlan, CursorRefused, EnqueueRecovery, EnqueueAction,
           SaveCursor, NextPage, ListStarts, ListEnds, SeedCursor, Launch,
           EnsureActiveChannel, EnqueueStartupBackfill, PollFails, ListPartly,
           BackfillFails, Crash, outcome
  <2>2. run.at \in Int
    BY DEF Sound, TypeOK, Runs
  <2> QED BY <1>1, <2>1, <2>2 DEF EnqueueTargets
<1>5. WaivedGrows
  <2>1. \/ waived' = waived
        \/ LoadOrInitCursor \/ CursorRefused \/ PollFails \/ ListPartly
        \/ BackfillFails \/ SeedInBoot
    BY DEF Next, vars, LogChange, Forget, CronPoll, CronSweep, Webhook, Start,
           PollStep, BackfillStep, BootStep, Failure, FetchPagePlan,
           EnqueueRecovery, EnqueueAction, SaveCursor, NextPage, ListStarts,
           ListEnds, EnqueueTargets, SeedCursor, Launch, EnsureActiveChannel,
           EnqueueStartupBackfill, Crash
  <2>2. CASE LoadOrInitCursor
    <3>1. CASE waived' = [waived EXCEPT !["reset"] = head, !["sweep"] = head]
      <4>1. \A r \in Reasons : waived[r] \in Int /\ waived[r] <= head
        BY <1>1
      <4> QED BY <1>1, <3>1, <4>1 DEF WaivedGrows, Reasons
    <3> QED BY <1>2, <2>2, <3>1 DEF LoadOrInitCursor
  <2>3. CASE CursorRefused \/ PollFails \/ ListPartly \/ BackfillFails
    BY <1>1, <2>3, WaiveGrows DEF CursorRefused, PollFails, ListPartly,
                                  BackfillFails, Reasons
  <2> QED BY <1>1, <1>2, <2>1, <2>2, <2>3, SeedGrows
<1> QED BY <1>3, <1>4, <1>5

-----------------------------------------------------------------------------
(* A backfill that is owed is not forgotten: it is owed still, or made, or *)
(* waived.                                                                 *)
LEMMA OwedStays ==
    ASSUME Sound, [Next]_vars, NEW i \in 1..head, SweepOwed(i)
    PROVE  Swept(i)'
<1> USE DEF Swept, SweepOwed
<1> /\ head \in Nat /\ run \in Runs /\ swept \in 0..head /\ i \in Nat
    /\ i <= head /\ waived \in [Reasons -> 0..head] /\ queue \subseteq Jobs
  BY DEF Sound, TypeOK
<1>1. CASE boot # "up"
  <2>1. CASE EnqueueStartupBackfill
    BY <2>1 DEF EnqueueStartupBackfill
  <2>2. CASE ~ EnqueueStartupBackfill
    <3> boot' # "up"
      BY <1>1, <2>2
      DEF Next, vars, LogChange, Forget, CronPoll, CronSweep, Webhook, Start,
          PollStep, BackfillStep, BootStep, Failure, LoadOrInitCursor,
          FetchPagePlan, CursorRefused, EnqueueRecovery, EnqueueAction,
          SaveCursor, NextPage, ListStarts, ListEnds, EnqueueTargets,
          SeedCursor, Launch, EnsureActiveChannel, PollFails, ListPartly,
          BackfillFails,
          Crash
    <3> QED OBVIOUS
  <2> QED BY <2>1, <2>2
<1>2. CASE Crash \/ Launch
  BY <1>2 DEF Crash, Launch
<1>3. CASE Backfill \in queue /\ ~ Crash /\ ~ Launch
  <2>1. CASE Start(Backfill)
    <3>1. run'.pc = "list"
      BY <2>1 DEF Start, Backfill, NewRun
    <3> QED BY <3>1
  <2>2. CASE ~ Start(Backfill)
    <3> Backfill \in queue'
      BY <1>3, <2>2
      DEF Next, vars, LogChange, Forget, CronPoll, CronSweep, Webhook, Start,
          PollStep, BackfillStep, BootStep, Failure, LoadOrInitCursor,
          FetchPagePlan, CursorRefused, EnqueueRecovery, EnqueueAction,
          SaveCursor, NextPage, ListStarts, ListEnds, EnqueueTargets,
          SeedCursor, EnsureActiveChannel, PollFails, ListPartly, BackfillFails,
          EnqueueStartupBackfill
    <3> QED OBVIOUS
  <2> QED BY <2>1, <2>2
<1>4. CASE run.pc \in {"list", "reset", "listing", "targets"}
           /\ ~ Crash /\ ~ Launch
  <2>1. \/ run' = run \/ EnqueueRecovery \/ ListStarts \/ ListEnds
        \/ EnqueueTargets \/ ListPartly \/ BackfillFails
    BY <1>4
    DEF Next, vars, LogChange, Forget, CronPoll, CronSweep, Webhook, Start,
        PollStep, BackfillStep, BootStep, Failure, LoadOrInitCursor,
        FetchPagePlan, CursorRefused, EnqueueAction, SaveCursor, NextPage,
        SeedCursor, EnsureActiveChannel, PollFails, EnqueueStartupBackfill, At
  <2>2. CASE EnqueueRecovery
    BY <2>2 DEF EnqueueRecovery
  <2>3. CASE ListStarts
    <3>1. run'.pc = "listing" /\ run'.at = head
      BY <2>3 DEF ListStarts, Runs
    <3> QED BY <3>1
  <2>4. CASE ListEnds
    <3>1. run'.pc = "targets" /\ run'.at = run.at /\ run.pc = "listing"
      BY <2>4 DEF ListEnds, Runs, At
    <3>2. i <= run.at \/ Backfill \in queue \/ boot # "up"
      BY <3>1
    <3>3. queue' = queue /\ boot' = boot
      BY <2>4 DEF ListEnds
    <3> QED BY <3>1, <3>2, <3>3
  <2>5. CASE EnqueueTargets
    <3>1. run.pc = "targets" /\ queue' = queue /\ boot' = boot
      BY <2>5 DEF EnqueueTargets, At
    <3>2. i <= run.at \/ Backfill \in queue \/ boot # "up"
      BY <3>1
    <3>3. i <= run.at => i <= swept'
      BY <2>5 DEF EnqueueTargets, Runs
    <3> QED BY <3>1, <3>2, <3>3
  <2>6. CASE ListPartly \/ BackfillFails
    <3>1. waived'["sweep"] = head
      BY <2>6, WaiveGrows DEF ListPartly, BackfillFails, Reasons
    <3> QED BY <3>1
  <2>7. CASE run' = run
    BY <1>1, <1>3, <1>4, <2>7
  <2> QED BY <2>1, <2>2, <2>3, <2>4, <2>5, <2>6, <2>7
<1> QED BY <1>1, <1>2, <1>3, <1>4

LEMMA SweptStays ==
    ASSUME Sound, [Next]_vars, NEW i \in 1..head, Swept(i)
    PROVE  Swept(i)'
<1>1. CASE SweepOwed(i)
  BY <1>1, OwedStays
<1>2. CASE i <= swept \/ i <= waived["sweep"]
  <2>1. swept <= swept' /\ waived["sweep"] <= waived'["sweep"]
    BY Grows DEF WaivedGrows, Reasons
  <2>2. /\ i \in Int /\ swept \in Int /\ swept' \in Int
        /\ waived["sweep"] \in Int /\ waived'["sweep"] \in Int
    BY NextSound DEF Sound, TypeOK, Reasons
  <2> QED BY <1>2, <2>1, <2>2 DEF Swept
<1> QED BY <1>1, <1>2 DEF Swept

-----------------------------------------------------------------------------
(* How the cursor moves.  When SaveCursor passes a change, the walk has    *)
(* resolved it; wherever else the cursor jumps, it jumps to the log's end. *)
LEMMA CursorMoves ==
    ASSUME Sound, [Next]_vars, cursor' # cursor
    PROVE  \/ LoadOrInitCursor \/ CursorRefused \/ SaveCursor
           \/ SeedCursor \/ EnsureActiveChannel
BY DEF Next, vars, LogChange, Forget, CronPoll, CronSweep, Webhook, Start,
       PollStep, BackfillStep, BootStep, Failure, FetchPagePlan,
       EnqueueRecovery, EnqueueAction, NextPage, ListStarts, ListEnds,
       EnqueueTargets, Launch, EnqueueStartupBackfill, PollFails, ListPartly,
       BackfillFails, Crash

LEMMA SavedIsResolved ==
    ASSUME Sound, SaveCursor, NEW i \in 1..cursor', i > cursor
    PROVE  i \in resolved'
<1>1. /\ run.pc = "enqueue" /\ run.todo = {} /\ cursor' = run.last
      /\ resolved' = resolved
  BY DEF SaveCursor, At, outcome
<1>2. /\ run.last \in Int /\ run.token \in 0..cursor /\ cursor \in Int
      /\ (run.token + 1)..run.last \subseteq resolved
  BY <1>1 DEF Sound, TypeOK, RunInv, WalkInv, NoToken, Runs
<1> QED BY <1>1, <1>2

LEMMA CoveredStep ==
    ASSUME Sound, NotesAreCovered, [Next]_vars PROVE NotesAreCovered'
<1> SUFFICES ASSUME NEW i \in 1..cursor' PROVE (i \in resolved \/ Swept(i))'
  BY DEF NotesAreCovered
<1>1. /\ cursor \in Int /\ cursor <= head /\ head \in Nat
      /\ cursor' \in Int /\ cursor' <= head' /\ head' \in Nat
      /\ waived \in [Reasons -> 0..head]
  BY NextSound DEF Sound, TypeOK, NoToken
<1>2. CASE i <= cursor
  <2>1. i \in 1..cursor /\ i \in 1..head
    BY <1>1, <1>2
  <2>2. i \in resolved \/ Swept(i)
    BY <2>1 DEF NotesAreCovered
  <2> QED BY <2>1, <2>2, SweptStays, Grows
<1>3. CASE i > cursor
  <2>1. CASE LoadOrInitCursor
    <3>1. waived'["sweep"] = head' /\ i <= head'
      BY <1>1, <1>3, <2>1 DEF LoadOrInitCursor, SeedIfEmpty, drive, Reasons
    <3> QED BY <3>1 DEF Swept
  <2>2. CASE CursorRefused
    <3>1. run'.pc = "reset"
      BY <2>2 DEF CursorRefused, Sound, TypeOK, Runs
    <3> QED BY <3>1 DEF Swept, SweepOwed
  <2>3. CASE SaveCursor
    BY <1>3, <2>3, SavedIsResolved
  <2>4. CASE SeedCursor \/ EnsureActiveChannel
    BY <2>4 DEF SeedCursor, EnsureActiveChannel, Swept, SweepOwed
  <2> QED BY <1>1, <1>3, <2>1, <2>2, <2>3, <2>4, CursorMoves
<1> QED BY <1>1, <1>2, <1>3

LEMMA DealtStep ==
    ASSUME Sound, BehindIsDealt, [Next]_vars PROVE BehindIsDealt'
<1> SUFFICES ASSUME NEW i \in 1..cursor'
             PROVE  i \in resolved' \/ i <= waived'["reset"]
  BY DEF BehindIsDealt, Dealt
<1>1. /\ cursor \in Int /\ cursor <= head /\ head \in Nat
      /\ cursor' \in Int /\ cursor' <= head' /\ head' \in Nat
      /\ waived \in [Reasons -> 0..head]
      /\ waived["reset"] \in Int /\ waived'["reset"] \in Int
  BY NextSound DEF Sound, TypeOK, NoToken, Reasons
<1>2. CASE i <= cursor
  <2>1. i \in resolved \/ i <= waived["reset"]
    BY <1>1, <1>2 DEF BehindIsDealt, Dealt
  <2>2. resolved \subseteq resolved' /\ waived["reset"] <= waived'["reset"]
    BY Grows DEF WaivedGrows, Reasons
  <2> QED BY <1>1, <2>1, <2>2
<1>3. CASE i > cursor
  <2>1. CASE LoadOrInitCursor
    BY <1>1, <1>3, <2>1 DEF LoadOrInitCursor, SeedIfEmpty, drive, Reasons
  <2>2. CASE CursorRefused
    <3>1. waived'["reset"] = head /\ head' = head
      BY <1>1, <2>2, WaiveGrows DEF CursorRefused, drive, Reasons
    <3> QED BY <1>1, <3>1
  <2>3. CASE SaveCursor
    BY <1>3, <2>3, SavedIsResolved
  <2>4. CASE SeedCursor \/ EnsureActiveChannel
    <3>1. SeedInBoot /\ head' = head
      BY <1>1, <1>3, <2>4 DEF SeedCursor, EnsureActiveChannel, drive
    <3> QED BY <1>1, <1>3, <3>1 DEF SeedInBoot, SeedIfEmpty, Reasons
  <2> QED BY <1>1, <1>3, <2>1, <2>2, <2>3, <2>4, CursorMoves
<1> QED BY <1>1, <1>2, <1>3

-----------------------------------------------------------------------------
(* A push: the poll that answers for it is queued, or where it is in its   *)
(* walk it still reads up to the log's end.                                *)
LEMMA NewPushIsOwed ==
    ASSUME Sound, NEW i \in 1..head, Webhook(i)
    PROVE  i <= cursor' \/ PollOwed(i)'
<1>1. UNCHANGED <<cursor, run>>
  BY DEF Webhook
<1>2. CASE Running(Poll(i))
  <2>1. run.pc \in PollSteps /\ run.push = i
    BY <1>2 DEF Running, Poll
  <2>2. CASE run.pc \in {"enqueue", "saved"}
    <3>1. run.next = NoToken => i <= run.last
      BY <2>1, <2>2 DEF Sound, RunInv, WalkInv
    <3> QED BY <1>1, <2>2, <3>1 DEF PollOwed
  <2>3. CASE run.pc = "reset"
    BY <1>1, <2>1, <2>3 DEF Sound, RunInv
  <2> QED BY <1>1, <2>1, <2>2, <2>3 DEF PollSteps, PollOwed
<1>3. CASE ~ Running(Poll(i))
  BY <1>3 DEF Webhook, PollOwed, Poll
<1> QED BY <1>2, <1>3

LEMMA PollOwedStays ==
    ASSUME Sound, [Next]_vars, NEW i \in 1..head, PollOwed(i)
    PROVE  \/ i <= cursor' \/ PollOwed(i)' \/ i <= waived'["poll"] \/ Swept(i)'
<1> USE DEF PollOwed
<1> /\ head \in Nat /\ run \in Runs /\ i \in Nat /\ i <= head
    /\ waived \in [Reasons -> 0..head] /\ queue \subseteq Jobs
  BY DEF Sound, TypeOK
<1>1. CASE Crash \/ Launch
  BY <1>1 DEF Crash, Launch, Swept, SweepOwed
<1>2. CASE PollFails
  BY <1>2, WaiveGrows DEF PollFails, Reasons
<1>3. CASE ~ (Crash \/ Launch \/ PollFails)
           /\ \E job \in queue : job.kind = "poll"
  <2>1. PICK job \in queue : job.kind = "poll"
    BY <1>3
  <2>2. CASE Start(job)
    <3>1. run'.pc = "load"
      BY <2>1, <2>2 DEF Start, NewRun
    <3> QED BY <3>1
  <2>3. CASE ~ Start(job)
    <3>1. job \in queue'
      BY <1>3, <2>3
      DEF Next, vars, LogChange, Forget, CronPoll, CronSweep, Webhook, Start,
          PollStep, BackfillStep, BootStep, Failure, LoadOrInitCursor,
          FetchPagePlan, CursorRefused, EnqueueRecovery, EnqueueAction,
          SaveCursor, NextPage, ListStarts, ListEnds, EnqueueTargets,
          SeedCursor, EnsureActiveChannel, EnqueueStartupBackfill,
          ListPartly, BackfillFails
    <3> QED BY <2>1, <3>1
  <2> QED BY <2>2, <2>3
<1>4. CASE ~ (Crash \/ Launch \/ PollFails)
           /\ \/ run.pc \in {"load", "fetch"}
              \/ /\ run.pc \in {"enqueue", "saved"}
                 /\ i <= run.last \/ run.next # NoToken
  <2>1. \/ run' = run \/ LoadOrInitCursor \/ FetchPagePlan \/ CursorRefused
        \/ EnqueueAction \/ SaveCursor \/ NextPage
    BY <1>4
    DEF Next, vars, LogChange, Forget, CronPoll, CronSweep, Webhook, Start,
        PollStep, BackfillStep, BootStep, Failure, EnqueueRecovery,
        ListStarts, ListEnds, EnqueueTargets, SeedCursor,
        EnsureActiveChannel, EnqueueStartupBackfill, ListPartly,
        BackfillFails, At
  <2>2. CASE LoadOrInitCursor
    <3>1. run'.pc = "fetch"
      BY <2>2 DEF LoadOrInitCursor, Runs
    <3> QED BY <3>1
  <2>3. CASE FetchPagePlan
    <3>1. /\ run'.pc = "enqueue" /\ run'.last = PageEnd(run.token)
          /\ run'.next = IF run'.last < head THEN run'.last ELSE NoToken
      BY <2>3 DEF FetchPagePlan, Runs
    <3>2. run'.last \in 0..head
      BY <2>3, <3>1 DEF FetchPagePlan, At, PageEnd, Sound, TypeOK, RunInv,
                        NoToken
    <3>3. i <= run'.last \/ run'.next # NoToken
      BY <3>1, <3>2 DEF NoToken
    <3> QED BY <3>1, <3>3
  <2>4. CASE CursorRefused
    BY <2>4 DEF CursorRefused
  <2>5. CASE EnqueueAction \/ SaveCursor
    <3>1. /\ run'.pc \in {"enqueue", "saved"} /\ run'.last = run.last
          /\ run'.next = run.next /\ run.pc = "enqueue"
      BY <2>5 DEF EnqueueAction, SaveCursor, At, Runs
    <3> QED BY <1>4, <3>1
  <2>6. CASE NextPage
    <3>1. run.pc = "saved" /\ cursor' = cursor /\ cursor = run.last
      BY <2>6 DEF NextPage, At, Sound, RunInv
    <3>2. run.next # NoToken => run'.pc = "fetch"
      BY <2>6 DEF NextPage, NewRun
    <3> QED BY <1>4, <3>1, <3>2
  <2>7. CASE run' = run
    BY <1>4, <2>7
  <2> QED BY <2>1, <2>2, <2>3, <2>4, <2>5, <2>6, <2>7
<1> QED BY <1>1, <1>2, <1>3, <1>4

LEMMA PushStep ==
    ASSUME Sound, AckedPushIsPolled, [Next]_vars PROVE AckedPushIsPolled'
<1> SUFFICES ASSUME NEW i \in acked'
             PROVE  \/ i <= cursor' \/ PollOwed(i)' \/ i <= waived'["poll"]
                    \/ Swept(i)'
  BY DEF AckedPushIsPolled
<1>1. /\ head \in Nat /\ acked \subseteq 1..head /\ cursor \in Int
      /\ cursor <= head /\ waived["poll"] \in Int /\ waived'["poll"] \in Int
  BY NextSound DEF Sound, TypeOK, NoToken, Reasons
<1>2. CASE i \notin acked
  <2>1. i \in 1..head /\ Webhook(i)
    BY <1>2
    DEF Next, vars, LogChange, Forget, CronPoll, CronSweep, Webhook, Start,
        PollStep, BackfillStep, BootStep, Failure, LoadOrInitCursor,
        FetchPagePlan, CursorRefused, EnqueueRecovery, EnqueueAction,
        SaveCursor, NextPage, ListStarts, ListEnds, EnqueueTargets,
        SeedCursor, Launch, EnsureActiveChannel, EnqueueStartupBackfill,
        PollFails, ListPartly, BackfillFails, Crash, outcome
  <2> QED BY <2>1, NewPushIsOwed
<1>3. CASE i \in acked
  <2>1. i \in 1..head /\ i \in Int
    BY <1>1, <1>3
  <2>2. CASE i <= cursor
    <3>1. CASE SaveCursor
      <4>1. /\ run.pc = "enqueue" /\ cursor' = run.last
            /\ run'.pc = "saved" /\ run'.next = run.next
        BY <3>1 DEF SaveCursor, At, Sound, TypeOK, Runs
      <4>2. run.next = NoToken => cursor <= run.last
        BY <4>1 DEF Sound, RunInv, WalkInv
      <4>3. run.last \in Int
        BY DEF Sound, TypeOK, Runs
      <4> QED BY <1>1, <2>1, <2>2, <4>1, <4>2, <4>3 DEF PollOwed
    <3>2. CASE cursor' # cursor /\ ~ SaveCursor
      <4>1. cursor' = head
        BY <3>2, CursorMoves
        DEF LoadOrInitCursor, CursorRefused, SeedCursor, EnsureActiveChannel,
            SeedInBoot, SeedIfEmpty
      <4> QED BY <1>1, <2>1, <4>1
    <3> QED BY <2>2, <3>1, <3>2
  <2>3. CASE PollOwed(i)
    BY <2>1, <2>3, PollOwedStays
  <2>4. CASE i <= waived["poll"]
    <3>1. waived["poll"] <= waived'["poll"]
      BY Grows DEF WaivedGrows, Reasons
    <3> QED BY <1>1, <2>1, <2>4, <3>1
  <2>5. CASE Swept(i)
    BY <2>1, <2>5, SweptStays
  <2> QED BY <1>3, <2>2, <2>3, <2>4, <2>5 DEF AckedPushIsPolled
<1> QED BY <1>2, <1>3

-----------------------------------------------------------------------------
(* The results.                                                            *)

(* The invariant holds at the start, and every step preserves it. *)
LEMMA Invariant == Spec => []IInv
<1>1. Init => IInv
  BY InitSound
<1>2. IInv /\ [Next]_vars => IInv'
  BY NextSound, CoveredStep, DealtStep, PushStep DEF IInv
<1> QED BY <1>1, <1>2, PTL DEF Spec

(* The state is well typed: the cursor and what a poll walks never pass    *)
(* the log's end (poll_changes.py, cursor.py).                             *)
THEOREM FeedTypeCorrect == Spec => []TypeOK
<1>1. IInv => TypeOK
  BY DEF IInv, Sound
<1> QED BY <1>1, Invariant, PTL

(* No note's change is lost behind the cursor, whatever crashes, failures, *)
(* resets and upgrades the polls and backfills meet.                       *)
THEOREM NoChangeIsLost == Spec => []NotesAreCovered
<1>1. IInv => NotesAreCovered
  BY DEF IInv
<1> QED BY <1>1, Invariant, PTL

(* No removal is lost behind the cursor but in a jump of the cursor.       *)
THEOREM NoRemovalIsLost == Spec => []RemovalsAreDeleted
<1>1. IInv => RemovalsAreDeleted
  BY DEF IInv, BehindIsDealt, Dealt, RemovalsAreDeleted
<1> QED BY <1>1, Invariant, PTL

(* No push answered with 200 is forgotten, however the webhook collapses   *)
(* what Drive delivers and redelivers.                                     *)
THEOREM NoPushIsForgotten == Spec => []AckedPushIsPolled
<1>1. IInv => AckedPushIsPolled
  BY DEF IInv
<1> QED BY <1>1, Invariant, PTL

-----------------------------------------------------------------------------
(* The abstract specification.                                             *)

(* Whatever the page at hand ends with or holds is in reach. *)
LEMMA PageIsInReach ==
    ASSUME Sound, run.pc \in {"enqueue", "saved"}
    PROVE  \A i \in run.todo \cup {run.last} :
               i \in 0..head /\ Follower!InReach(i)
<1>1. /\ run.token \in 0..cursor /\ cursor \in 0..head /\ head \in Nat
      /\ run.last \in run.token..head /\ run.last <= run.token + PageSize
      /\ run.todo \subseteq (run.token + 1)..run.last
  BY DEF Sound, TypeOK, RunInv, WalkInv, NoToken
<1>2. \A i \in run.todo \cup {run.last} : i \in 0..run.last
  BY <1>1
<1>3. \A i \in 0..run.last : i <= cursor + PageSize /\ i \in 0..head
  BY <1>1
<1> QED BY <1>1, <1>2, <1>3 DEF Follower!InReach

(* Before a page's first change that is still to be enqueued, and with     *)
(* none left up to its end, all is dealt with.                             *)
LEMMA BeforeIsAnswered ==
    ASSUME Sound, BehindIsDealt, run.pc = "enqueue",
           NEW i \in 0..run.last, \A j \in run.todo : i < j
    PROVE  \A j \in 1..i : Follower!Answered(j)
<1> SUFFICES ASSUME NEW j \in 1..i PROVE Follower!Answered(j)
  OBVIOUS
<1>1. /\ run.token \in 0..cursor /\ cursor \in Int /\ run.last \in Int
      /\ (run.token + 1)..run.last \subseteq run.todo \cup resolved
      /\ run.todo \subseteq Nat
  BY DEF Sound, TypeOK, RunInv, WalkInv, NoToken, Runs
<1>2. CASE j <= run.token
  <2>1. j \in 1..cursor
    BY <1>1, <1>2
  <2> QED BY <2>1 DEF BehindIsDealt, Dealt, Follower!Answered
<1>3. CASE j > run.token
  <2>1. j \in (run.token + 1)..run.last
    BY <1>1, <1>3
  <2>2. j \notin run.todo
    BY <1>1
  <2> QED BY <1>1, <2>1, <2>2 DEF Follower!Answered
<1> QED BY <1>1, <1>2, <1>3

(* A step that leaves the log, the cursor and what is answered alone.      *)
LEMMA Stutters ==
    ASSUME UNCHANGED <<head, cursor, resolved>>, waived'["reset"] = waived["reset"]
    PROVE  [Follower!Next]_Follower!vars
BY DEF Follower!vars

(* Waiving for another reason leaves what was jumped over alone. *)
LEMMA OtherReason ==
    ASSUME waived \in [Reasons -> 0..head], NEW r \in {"sweep", "poll"},
           Waive(r, head)
    PROVE  waived'["reset"] = waived["reset"]
BY DEF Waive, Reasons

(* Seeding an empty cursor jumps to the log's end. *)
LEMMA SeedJumps ==
    ASSUME waived \in [Reasons -> 0..head], SeedInBoot,
           UNCHANGED <<head, resolved>>
    PROVE  [Follower!Next]_Follower!vars
<1>1. CASE cursor = NoToken
  BY <1>1 DEF SeedInBoot, SeedIfEmpty, Reasons, Follower!Jump, Follower!Next
<1>2. CASE cursor # NoToken
  BY <1>2, Stutters DEF SeedInBoot, SeedIfEmpty
<1> QED BY <1>1, <1>2

(* The initial state is one of LogFollower's. *)
LEMMA FollowerInit == Init => Follower!Init
BY DEF Init, Follower!Init, NoToken, Reasons

(* Every step is a step of LogFollower, or changes nothing it can see.     *)
LEMMA FollowerStep ==
    ASSUME Sound, BehindIsDealt, [Next]_vars
    PROVE  [Follower!Next]_Follower!vars
<1> waived \in [Reasons -> 0..head] /\ head \in Nat
  BY DEF Sound, TypeOK
<1>1. CASE LogChange
  BY <1>1 DEF LogChange, outcome, Follower!Log, Follower!Next
<1>2. CASE LoadOrInitCursor
  <2>1. CASE cursor = NoToken
    <3>1. cursor' = head /\ waived'["reset"] = head
          /\ UNCHANGED <<head, resolved>>
      BY <1>2, <2>1 DEF LoadOrInitCursor, SeedIfEmpty, drive, outcome, Reasons
    <3> QED BY <3>1 DEF Follower!Jump, Follower!Next
  <2>2. CASE cursor # NoToken
    BY <1>2, <2>2, Stutters DEF LoadOrInitCursor, SeedIfEmpty, drive, outcome
  <2> QED BY <2>1, <2>2
<1>3. CASE FetchPagePlan
  <2> DEFINE page == (run.token + 1)..PageEnd(run.token)
  <2>1. PICK bad \in SUBSET (page \ Removals) :
            resolved' = resolved \cup bad
    BY <1>3 DEF FetchPagePlan
  <2>2. UNCHANGED <<head, cursor, waived>> /\ run.pc = "fetch"
    BY <1>3 DEF FetchPagePlan, drive, At
  <2>3. CASE bad = {}
    BY <2>1, <2>2, <2>3, Stutters
  <2>4. CASE bad # {}
    <3>1. run.token \in 0..cursor /\ cursor \in 0..head
      BY <2>2 DEF Sound, TypeOK, RunInv, NoToken
    <3>2. bad \in SUBSET (1..head) /\ \A i \in bad : i <= cursor + PageSize
      BY <2>1, <3>1 DEF PageEnd
    <3>3. Follower!PassOver(bad)
      BY <2>1, <2>2, <3>1, <3>2 DEF Follower!PassOver, Follower!InReach
    <3> QED BY <3>2, <3>3 DEF Follower!Next
  <2> QED BY <2>3, <2>4
<1>4. CASE CursorRefused
  <2>1. waived'["reset"] = head
    BY <1>4, WaiveGrows DEF CursorRefused, Reasons
  <2> QED BY <1>4, <2>1 DEF CursorRefused, drive, outcome, Follower!Jump,
                            Follower!Next
<1>5. CASE EnqueueAction
  <2>1. PICK i \in run.todo : /\ \A j \in run.todo : i <= j
                             /\ resolved' = resolved \cup {i}
    BY <1>5 DEF EnqueueAction
  <2>2. run.pc = "enqueue" /\ UNCHANGED <<head, cursor, waived>>
    BY <1>5 DEF EnqueueAction, At, drive
  <2>3. /\ run.todo \subseteq (run.token + 1)..run.last
        /\ run.token \in Nat /\ run.last \in Nat
    BY <2>2 DEF Sound, TypeOK, RunInv, WalkInv, Runs
  <2>4. i \in 1..head /\ Follower!InReach(i)
    BY <2>2, <2>3, PageIsInReach
  <2>5. i - 1 \in 0..run.last /\ \A j \in run.todo : i - 1 < j
    BY <2>1, <2>3
  <2>6. \A j \in 1..(i - 1) : Follower!Answered(j)
    BY <2>2, <2>5, BeforeIsAnswered
  <2>7. Follower!Deliver(i)
    BY <2>1, <2>2, <2>4, <2>6 DEF Follower!Deliver
  <2> QED BY <2>4, <2>7 DEF Follower!Next
<1>6. CASE SaveCursor
  <2>1. /\ run.pc = "enqueue" /\ run.todo = {} /\ cursor' = run.last
        /\ UNCHANGED <<head, resolved, waived>>
    BY <1>6 DEF SaveCursor, At, drive, outcome
  <2>2. run.last \in 0..head /\ Follower!InReach(run.last)
    BY <2>1, PageIsInReach
  <2>3. \A j \in 1..run.last : Follower!Answered(j)
    BY <2>1, <2>2, BeforeIsAnswered
  <2>4. Follower!Save(run.last)
    BY <2>1, <2>2, <2>3 DEF Follower!Save
  <2> QED BY <2>2, <2>4 DEF Follower!Next
<1>7. CASE PollFails \/ ListPartly \/ BackfillFails
  <2>1. UNCHANGED <<head, cursor, resolved>>
    BY <1>7 DEF PollFails, ListPartly, BackfillFails, drive, outcome
  <2>2. waived'["reset"] = waived["reset"]
    BY <1>7, OtherReason DEF PollFails, ListPartly, BackfillFails
  <2> QED BY <2>1, <2>2, Stutters
<1>8. CASE SeedCursor
  <2>1. UNCHANGED <<head, resolved>> /\ (SeedInBoot \/ UNCHANGED <<cursor, waived>>)
    BY <1>8 DEF SeedCursor, drive, outcome
  <2> QED BY <2>1, SeedJumps, Stutters
<1>9. CASE EnsureActiveChannel
  <2>1. UNCHANGED <<head, resolved>> /\ (SeedInBoot \/ UNCHANGED <<cursor, waived>>)
    BY <1>9 DEF EnsureActiveChannel, drive, outcome
  <2> QED BY <2>1, SeedJumps, Stutters
<1>10. CASE \/ UNCHANGED vars \/ Forget \/ CronPoll \/ CronSweep
            \/ (\E i \in 1..head : Webhook(i))
            \/ (\E job \in queue : Start(job))
            \/ EnqueueRecovery \/ NextPage \/ BackfillStep
            \/ Launch \/ EnqueueStartupBackfill \/ Crash
  <2>1. UNCHANGED <<head, cursor, resolved, waived>>
    BY <1>10
    DEF vars, Forget, CronPoll, CronSweep, Webhook, Start, EnqueueRecovery,
        NextPage, BackfillStep, ListStarts, ListEnds, EnqueueTargets, Launch,
        EnqueueStartupBackfill, Crash, drive, outcome
  <2> QED BY <2>1, Stutters
<1> QED
  BY <1>1, <1>2, <1>3, <1>4, <1>5, <1>6, <1>7, <1>8, <1>9, <1>10
  DEF Next, PollStep, BootStep, Failure

(* The polls, with their crashes, resumptions and resets, follow the log   *)
(* as LogFollower says: in order, at most a page ahead of the cursor, and  *)
(* never past a change that was not dealt with (poll_changes.py).          *)
THEOREM PollsFollowTheLog == Spec => FollowsLog
<1>1. Init => Follower!Init
  BY FollowerInit
<1>2. IInv /\ [Next]_vars => [Follower!Next]_Follower!vars
  BY FollowerStep DEF IInv
<1> QED BY <1>1, <1>2, Invariant, PTL DEF Spec, FollowsLog, Follower!Spec

-----------------------------------------------------------------------------
(* What LogFollower alone is enough for.                                   *)

FollowerInv ==
    /\ head \in Nat /\ cursor \in Int /\ cursor <= head
    /\ waived["reset"] \in 0..head
    /\ Follower!NoneMissing
    /\ Follower!RemovalsInOrder

(* What LogFollower's invariant needs, step by step. *)
LEMMA FollowerInvStep ==
    ASSUME FollowerInv, [Follower!Next]_Follower!vars PROVE FollowerInv'
<1> USE DEF FollowerInv, Follower!NoneMissing, Follower!RemovalsInOrder,
            Follower!Answered
<1>1. CASE UNCHANGED Follower!vars
  BY <1>1 DEF Follower!vars
<1>2. CASE Follower!Log
  BY <1>2 DEF Follower!Log
<1>3. CASE Follower!Jump
  BY <1>3 DEF Follower!Jump
<1>4. CASE \E i \in 1..head : Follower!Deliver(i)
  BY <1>4 DEF Follower!Deliver
<1>5. CASE \E bad \in SUBSET (1..head) : Follower!PassOver(bad)
  BY <1>5 DEF Follower!PassOver
<1>6. CASE \E i \in 0..head : Follower!Save(i)
  BY <1>6 DEF Follower!Save
<1> QED BY <1>1, <1>2, <1>3, <1>4, <1>5, <1>6 DEF Follower!Next

(* Whoever follows the log like LogFollower loses no removal behind the    *)
(* cursor, and enqueues no delete before the changes logged ahead of it    *)
(* were dealt with (_enqueue_action and _save_cursor).                     *)
THEOREM FollowersAreOrderly ==
    FollowsLog => [](RemovalsAreDeleted /\ Follower!RemovalsInOrder)
<1>1. Follower!Init => FollowerInv
  BY DEF Follower!Init, FollowerInv, Follower!NoneMissing, Follower!RemovalsInOrder
<1>2. FollowerInv /\ [Follower!Next]_Follower!vars => FollowerInv'
  BY FollowerInvStep
<1>3. FollowerInv => RemovalsAreDeleted /\ Follower!RemovalsInOrder
  BY DEF FollowerInv, Follower!NoneMissing, Follower!Answered, RemovalsAreDeleted
<1> QED BY <1>1, <1>2, <1>3, PTL DEF FollowsLog, Follower!Spec
=============================================================================
