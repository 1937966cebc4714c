------------------------- MODULE WatchChannelProofs -------------------------
(***************************************************************************)
(* Theorems about WatchChannel, for any lifetime longer than the headroom, *)
(* any URLs and any number of days, restarts and failures.                 *)
(***************************************************************************)
EXTENDS WatchChannel, TLAPS

USE NoUrlAssumption, HeadroomAssumption, TTLAssumption, ChannelBudgetAssumption

-----------------------------------------------------------------------------
(* The inductive invariant.                                                *)

(* The channel lock is held by one renewal at a time. *)
Exclusive ==
    \A p, q \in Renewers :
        run[p].pc \in Inside /\ run[q].pc \in Inside => p = q

(* What a renewal knows: under the lock it has found the active channel,   *)
(* which the check did not leave alone, and made an id of its own.         *)
FoundOK(p) ==
    /\ run[p].pc = "lock" => run[p].old = None
    /\ run[p].pc \in Inside =>
            /\ phase # "down"
            /\ run[p].old = active
            /\ active # None => ~ LeftAlone(run[p].now)

MadeOK(p) ==
    /\ run[p].pc \in {"watch", "accepted", "refused"} =>
            run[p].id \in 1..made /\ run[p].id # active
    /\ run[p].pc \in {"watch", "accepted"} =>
            /\ run[p].id \in DOMAIN rows
            /\ rows[run[p].id].url = url
            /\ run[p].id \notin orphans
    /\ run[p].pc = "watch" => run[p].id \notin DOMAIN watch
    /\ run[p].pc = "accepted" =>
            /\ run[p].id \in DOMAIN watch
            /\ watch[run[p].id].url = url
            /\ watch[run[p].id].until >= run[p].now + TTL
    /\ run[p].pc = "refused" /\ run[p].id \in DOMAIN watch =>
            run[p].id \in orphans

RunsOK ==
    \A p \in Renewers : run[p].now <= today /\ FoundOK(p) /\ MadeOK(p)

Sound == TypeOK /\ Exclusive /\ RunsOK /\ active \notin orphans

(* A push on channel c is heard. *)
HeardBy(c) ==
    c \in DOMAIN watch /\ today < watch[c].until /\ watch[c].url = url
    /\ Authentic(c)

(* SeamIsCovered, channel by channel: a renewal that Drive has answered    *)
(* accounts for its own channel only, and one that is to poll for all.     *)
Covered(c) ==
    \E p \in Renewers : \/ run[p].pc \in {"accepted", "refused"} /\ run[p].id = c
                        \/ run[p].pc = "done" /\ run[p].old # None

Seam == Waiting /\ phase = "up" => \A c : HeardBy(c) => Covered(c)

IInv ==
    /\ Sound
    /\ ExpiryNeedsMissedChecks /\ LeftAloneIsWatched /\ AcceptedIsKnown
    /\ Seam

-----------------------------------------------------------------------------
(* What a step does to the renewals and to the budgets.                    *)

LEMMA SpendTyped ==
    ASSUME spent \in [Kinds -> Nat], NEW kind \in Kinds, Spend(kind)
    PROVE  spent' \in [Kinds -> Nat]
BY DEF Spend

LEMMA PassedTyped == unseen \in Followed => PassedOver \in Followed
BY DEF PassedOver, Followed

LEMMA IdleTyped == Idle \in Runs /\ Idle.pc = "idle" /\ Idle.now = 0
                   /\ Idle.old = None /\ Idle.id = None
BY DEF Idle, Runs, Steps, None

(* The other renewal is where it was. *)
Same(p) == \A q \in Renewers \ {p} : run'[q] = run[q]

LEMMA GotoFacts ==
    ASSUME run \in [Renewers -> Runs], NEW p \in Renewers, NEW pc \in Steps,
           Goto(p, pc)
    PROVE  /\ run' \in [Renewers -> Runs] /\ Same(p)
           /\ run'[p].pc = pc /\ run'[p].now = run[p].now
           /\ run'[p].old = run[p].old /\ run'[p].id = run[p].id
BY DEF Goto, Runs, Same

LEMMA EndFacts ==
    ASSUME run \in [Renewers -> Runs], NEW p \in Renewers, End(p)
    PROVE  /\ run' \in [Renewers -> Runs] /\ Same(p) /\ run'[p] = Idle
           /\ phase' = phase \/ phase' = "backfill"
BY IdleTyped DEF End, Same

LEMMA BeginFacts ==
    ASSUME run \in [Renewers -> Runs], NEW p \in Renewers, today \in Nat,
           run' = [run EXCEPT ![p] = [Idle EXCEPT !.pc = "lock", !.now = today]]
    PROVE  /\ run' \in [Renewers -> Runs] /\ Same(p)
           /\ run'[p].pc = "lock" /\ run'[p].now = today
           /\ run'[p].old = None
BY DEF Idle, Runs, Steps, None, Same

(* A step of p under the lock, or out of it, keeps the lock exclusive. *)
LEMMA ExclusiveStays ==
    ASSUME Exclusive, NEW p \in Renewers, Same(p),
           run'[p].pc \in Inside => run[p].pc \in Inside
    PROVE  Exclusive'
BY DEF Exclusive, Same

(* The other renewal is not under the lock, and so knows nothing.          *)
LEMMA OtherOK ==
    ASSUME Exclusive, RunsOK, NEW p \in Renewers, run[p].pc \in Inside, Same(p),
           NEW q \in Renewers \ {p}
    PROVE  FoundOK(q)' /\ MadeOK(q)'
BY DEF Exclusive, RunsOK, Same, FoundOK, MadeOK, Inside

-----------------------------------------------------------------------------
(* Every step keeps the types and what the renewals know sound.            *)

LEMMA CheckSound ==
    ASSUME Sound, NEW p \in Renewers, Check(p) PROVE Sound'
<1> run \in [Renewers -> Runs] /\ today \in Nat /\ run[p].now <= today
  BY DEF Sound, TypeOK, RunsOK
<1>1. /\ UNCHANGED <<today, url, phase, made, rows, active, watch, unseen,
                     orphans, reverted, spent>>
      /\ phase # "down" /\ \A q \in Renewers : run[q].pc \notin Inside
  BY DEF Check, At
<1>2. /\ run' \in [Renewers -> Runs] /\ Same(p) /\ run'[p].now = run[p].now
      /\ \/ run'[p].pc = "create" /\ run'[p].old = run[p].old /\ active = None
         \/ run'[p].pc = "done"
         \/ /\ run'[p].pc = "stop" /\ run'[p].old = active /\ active # None
            /\ ~ LeftAlone(run[p].now)
  <2>1. CASE Goto(p, "create") /\ active = None
    BY <2>1, GotoFacts DEF Steps, Inside
  <2>2. CASE Goto(p, "done")
    BY <2>2, GotoFacts DEF Steps, Inside
  <2>3. CASE /\ run' = [run EXCEPT ![p].pc = "stop", ![p].old = active]
             /\ active # None /\ ~ LeftAlone(run[p].now)
    <3>1. active \in Nat
      BY DEF Sound, TypeOK, None
    <3> QED BY <2>3, <3>1 DEF Runs, Steps, Inside, Same
  <2> QED BY <2>1, <2>2, <2>3 DEF Check
<1>3. TypeOK'
  <2>1. checked' \in 0..today
    BY DEF Check, Sound, TypeOK, Runs
  <2> QED BY <1>1, <1>2, <2>1 DEF Sound, TypeOK
<1>4. Exclusive'
  BY <1>1, <1>2 DEF Exclusive, Same
<1>5. RunsOK'
  <2> SUFFICES ASSUME NEW q \in Renewers
               PROVE  run'[q].now <= today /\ FoundOK(q)' /\ MadeOK(q)'
    BY <1>1 DEF RunsOK
  <2>1. CASE q = p
    BY <1>1, <1>2, <2>1
    DEF Sound, RunsOK, FoundOK, MadeOK, LeftAlone, At, Check, Inside
  <2>2. CASE q # p
    BY <1>1, <1>2, <2>2
    DEF Sound, RunsOK, FoundOK, MadeOK, Same, Inside
  <2> QED BY <2>1, <2>2
<1> QED BY <1>1, <1>3, <1>4, <1>5 DEF Sound

LEMMA StopSound ==
    ASSUME Sound, NEW p \in Renewers, Stop(p) PROVE Sound'
<1> /\ run \in [Renewers -> Runs] /\ today \in Nat /\ made \in Nat
    /\ RunsOK /\ Exclusive /\ FoundOK(p) /\ MadeOK(p) /\ run[p].now <= today
  BY DEF Sound, TypeOK, RunsOK
<1>1. /\ UNCHANGED <<today, url, phase, made, rows, active, unseen, checked,
                     orphans, reverted>>
      /\ phase # "down" /\ run[p].pc = "stop"
  BY DEF Stop, At, ghosts
<1>2. /\ run' \in [Renewers -> Runs] /\ Same(p) /\ run'[p].pc = "create"
      /\ run'[p].now = run[p].now /\ run'[p].old = run[p].old
  BY GotoFacts DEF Stop, Steps, Inside
<1>3. TypeOK'
  <2>1. /\ DOMAIN watch' \subseteq DOMAIN watch
        /\ \A c \in DOMAIN watch' : watch'[c] = watch[c]
    BY DEF Stop, Drop
  <2>2. spent' \in [Kinds -> Nat]
    BY SpendTyped DEF Stop, Sound, TypeOK, Kinds
  <2> QED BY <1>1, <1>2, <2>1, <2>2 DEF Sound, TypeOK
<1>4. Exclusive'
  BY <1>1, <1>2, ExclusiveStays, IdleTyped DEF Inside
<1>5. RunsOK'
  <2> SUFFICES ASSUME NEW q \in Renewers
               PROVE  run'[q].now <= today' /\ FoundOK(q)' /\ MadeOK(q)'
    BY DEF RunsOK
  <2>1. CASE q = p
    BY <1>1, <1>2, <2>1 DEF FoundOK, MadeOK, LeftAlone, Inside
  <2>2. CASE q # p
    BY <1>1, <1>2, <2>2, OtherOK DEF Sound, RunsOK, Same, Inside
  <2> QED BY <2>1, <2>2
<1>6. active' \notin orphans'
  BY <1>1 DEF Sound
<1> QED BY <1>3, <1>4, <1>5, <1>6 DEF Sound

LEMMA CreateSound ==
    ASSUME Sound, NEW p \in Renewers, Create(p) PROVE Sound'
<1> /\ run \in [Renewers -> Runs] /\ today \in Nat /\ made \in Nat
    /\ RunsOK /\ Exclusive /\ FoundOK(p) /\ MadeOK(p) /\ run[p].now <= today
  BY DEF Sound, TypeOK, RunsOK
<1>1. /\ UNCHANGED <<today, url, phase, active, watch, unseen, checked,
                     orphans, reverted, spent>>
      /\ phase # "down" /\ run[p].pc = "create" /\ made' = made + 1
      /\ rows' = Put(rows, made', [url |-> url, expires |-> run[p].now + TTL])
  BY DEF Create, At, ghosts
<1>2. /\ run' \in [Renewers -> Runs] /\ Same(p) /\ run'[p].pc = "watch"
      /\ run'[p].now = run[p].now /\ run'[p].old = run[p].old
      /\ run'[p].id = made'
  <2>1. run' = [run EXCEPT ![p].pc = "watch", ![p].id = made'] /\ made' \in Nat
    BY DEF Create
  <2> QED BY <2>1 DEF Runs, Steps, Inside, Same
<1>3. TypeOK'
  <2>1. /\ DOMAIN rows' = DOMAIN rows \cup {made'}
        /\ \A c \in DOMAIN rows : c # made' => rows'[c] = rows[c]
        /\ rows'[made'] = [url |-> url, expires |-> run[p].now + TTL]
    BY <1>1 DEF Put
  <2>2. rows'[made'] \in [url : Urls, expires : Nat]
    BY <2>1 DEF Sound, TypeOK, Runs
  <2>3. made' \in Nat /\ 1..made \subseteq 1..made' /\ made' \in 1..made'
    BY <1>1
  <2>4. \A c \in DOMAIN rows' : rows'[c] \in [url : Urls, expires : Nat]
    BY <2>1, <2>2 DEF Sound, TypeOK
  <2>5. active' \in {None} \cup DOMAIN rows' /\ DOMAIN rows' \subseteq 1..made'
    BY <1>1, <2>1, <2>3 DEF Sound, TypeOK
  <2> QED BY <1>1, <1>2, <2>3, <2>4, <2>5 DEF Sound, TypeOK
<1>4. Exclusive'
  BY <1>1, <1>2, ExclusiveStays, IdleTyped DEF Inside
<1>5. RunsOK'
  <2> SUFFICES ASSUME NEW q \in Renewers
               PROVE  run'[q].now <= today' /\ FoundOK(q)' /\ MadeOK(q)'
    BY DEF RunsOK
  <2>1. CASE q = p
    <3>1. /\ DOMAIN rows \subseteq 1..made /\ DOMAIN watch \subseteq 1..made
          /\ orphans \subseteq 1..made /\ active \in {None} \cup DOMAIN rows
      BY DEF Sound, TypeOK
    <3>2. /\ made' \in DOMAIN rows' /\ rows'[made'].url = url
          /\ active # None => rows'[active] = rows[active]
      BY <1>1, <3>1 DEF Put
    <3>3. /\ made' \in 1..made' /\ made' # active /\ made' \notin DOMAIN watch
          /\ made' \notin orphans
      BY <1>1, <3>1 DEF None
    <3> QED BY <1>1, <1>2, <2>1, <3>2, <3>3
            DEF FoundOK, MadeOK, LeftAlone, Inside
  <2>2. CASE q # p
    BY <1>1, <1>2, <2>2, OtherOK DEF Sound, RunsOK, Same, Inside
  <2> QED BY <2>1, <2>2
<1>6. active' \notin orphans'
  BY <1>1 DEF Sound
<1> QED BY <1>3, <1>4, <1>5, <1>6 DEF Sound

LEMMA TokenFailsSound ==
    ASSUME Sound, NEW p \in Renewers, TokenFails(p) PROVE Sound'
<1> /\ run \in [Renewers -> Runs] /\ today \in Nat /\ made \in Nat
    /\ RunsOK /\ Exclusive /\ FoundOK(p) /\ MadeOK(p) /\ run[p].now <= today
  BY DEF Sound, TypeOK, RunsOK
<1>1. /\ UNCHANGED <<today, url, made, rows, active, watch, unseen, checked,
                     orphans, reverted>>
      /\ run[p].pc = "create"
  BY DEF TokenFails, At, ghosts
<1>2. /\ run' \in [Renewers -> Runs] /\ Same(p) /\ run'[p] = Idle
      /\ phase' \in {phase, "backfill"}
  BY EndFacts DEF TokenFails
<1>3. TypeOK'
  <2>1. spent' \in [Kinds -> Nat]
    BY SpendTyped DEF TokenFails, Sound, TypeOK, Kinds
  <2> QED BY <1>1, <1>2, <2>1 DEF Sound, TypeOK, Phases
<1>4. Exclusive'
  BY <1>1, <1>2, ExclusiveStays, IdleTyped DEF Inside
<1>5. RunsOK'
  <2> SUFFICES ASSUME NEW q \in Renewers
               PROVE  run'[q].now <= today' /\ FoundOK(q)' /\ MadeOK(q)'
    BY DEF RunsOK
  <2>1. CASE q = p
    BY <1>1, <1>2, <2>1, IdleTyped DEF FoundOK, MadeOK, Inside
  <2>2. CASE q # p
    BY <1>1, <1>2, <2>2, OtherOK DEF Sound, RunsOK, Same, Inside
  <2> QED BY <2>1, <2>2
<1>6. active' \notin orphans'
  BY <1>1 DEF Sound
<1> QED BY <1>3, <1>4, <1>5, <1>6 DEF Sound

LEMMA AcceptSound ==
    ASSUME Sound, NEW p \in Renewers, Accept(p) PROVE Sound'
<1> /\ run \in [Renewers -> Runs] /\ today \in Nat /\ made \in Nat
    /\ RunsOK /\ Exclusive /\ FoundOK(p) /\ MadeOK(p) /\ run[p].now <= today
  BY DEF Sound, TypeOK, RunsOK
<1>1. /\ UNCHANGED <<today, url, phase, made, rows, active, unseen, checked,
                     reverted>>
      /\ phase # "down" /\ run[p].pc = "watch"
      /\ watch' = Put(watch, run[p].id, [url |-> url, until |-> today + TTL])
  BY DEF Accept, At
<1>2. /\ run' \in [Renewers -> Runs] /\ Same(p)
      /\ run'[p].now = run[p].now /\ run'[p].old = run[p].old
      /\ run'[p].id = run[p].id
      /\ \/ run'[p].pc = "accepted" /\ orphans' = orphans /\ spent' = spent
         \/ /\ run'[p].pc = "refused" /\ orphans' = orphans \cup {run[p].id}
            /\ Spend("failure")
  BY GotoFacts DEF Accept, Steps, Inside
<1>3. TypeOK'
  <2>1. /\ DOMAIN watch' = DOMAIN watch \cup {run[p].id}
        /\ \A c \in DOMAIN watch : c # run[p].id => watch'[c] = watch[c]
        /\ watch'[run[p].id] = [url |-> url, until |-> today + TTL]
    BY <1>1 DEF Put
  <2>2. [url |-> url, until |-> today + TTL] \in [url : Urls, until : Nat]
    BY DEF Sound, TypeOK
  <2>3. \A c \in DOMAIN watch' : watch'[c] \in [url : Urls, until : Nat]
    BY <2>1, <2>2 DEF Sound, TypeOK
  <2>4. run[p].id \in 1..made
    BY <1>1 DEF MadeOK
  <2>5. DOMAIN watch' \subseteq 1..made /\ orphans' \subseteq 1..made
    BY <1>2, <2>1, <2>4 DEF Sound, TypeOK
  <2>6. spent' \in [Kinds -> Nat]
    BY <1>2, SpendTyped DEF Sound, TypeOK, Kinds
  <2> QED BY <1>1, <1>2, <2>3, <2>5, <2>6 DEF Sound, TypeOK
<1>4. Exclusive'
  BY <1>1, <1>2, ExclusiveStays, IdleTyped DEF Inside
<1>5. RunsOK'
  <2> SUFFICES ASSUME NEW q \in Renewers
               PROVE  run'[q].now <= today' /\ FoundOK(q)' /\ MadeOK(q)'
    BY DEF RunsOK
  <2>1. CASE q = p
    <3>1. /\ run[p].id \in DOMAIN watch'
          /\ watch'[run[p].id] = [url |-> url, until |-> today + TTL]
          /\ today + TTL >= run[p].now + TTL
      BY <1>1 DEF Put, Runs
    <3>2. /\ run[p].id \in 1..made /\ run[p].id # active
          /\ run[p].id \in DOMAIN rows /\ rows[run[p].id].url = url
          /\ run[p].id \notin orphans
      BY <1>1 DEF MadeOK
    <3>3. MadeOK(p)'
      BY <1>1, <1>2, <3>1, <3>2 DEF MadeOK
    <3> QED BY <1>1, <1>2, <2>1, <3>3 DEF FoundOK, LeftAlone, Inside
  <2>2. CASE q # p
    BY <1>1, <1>2, <2>2, OtherOK DEF Sound, RunsOK, Same, Inside
  <2> QED BY <2>1, <2>2
<1>6. active' \notin orphans'
  BY <1>1, <1>2 DEF Sound, MadeOK
<1> QED BY <1>3, <1>4, <1>5, <1>6 DEF Sound

LEMMA RefuseSound ==
    ASSUME Sound, NEW p \in Renewers, Refuse(p) PROVE Sound'
<1> /\ run \in [Renewers -> Runs] /\ today \in Nat /\ made \in Nat
    /\ RunsOK /\ Exclusive /\ FoundOK(p) /\ MadeOK(p) /\ run[p].now <= today
  BY DEF Sound, TypeOK, RunsOK
<1>1. /\ UNCHANGED <<today, url, phase, made, rows, active, watch, unseen,
                     checked, orphans, reverted>>
      /\ phase # "down" /\ run[p].pc = "watch"
  BY DEF Refuse, At, ghosts
<1>2. /\ run' \in [Renewers -> Runs] /\ Same(p) /\ run'[p].pc = "refused"
      /\ run'[p].now = run[p].now /\ run'[p].old = run[p].old
      /\ run'[p].id = run[p].id
  BY GotoFacts DEF Refuse, Steps, Inside
<1>3. TypeOK'
  <2>1. spent' \in [Kinds -> Nat]
    BY SpendTyped DEF Refuse, Sound, TypeOK, Kinds
  <2> QED BY <1>1, <1>2, <2>1 DEF Sound, TypeOK
<1>4. Exclusive'
  BY <1>1, <1>2, ExclusiveStays, IdleTyped DEF Inside
<1>5. RunsOK'
  <2> SUFFICES ASSUME NEW q \in Renewers
               PROVE  run'[q].now <= today' /\ FoundOK(q)' /\ MadeOK(q)'
    BY DEF RunsOK
  <2>1. CASE q = p
    BY <1>1, <1>2, <2>1 DEF FoundOK, MadeOK, LeftAlone, Inside
  <2>2. CASE q # p
    BY <1>1, <1>2, <2>2, OtherOK DEF Sound, RunsOK, Same, Inside
  <2> QED BY <2>1, <2>2
<1>6. active' \notin orphans'
  BY <1>1 DEF Sound
<1> QED BY <1>3, <1>4, <1>5, <1>6 DEF Sound

LEMMA RollbackSound ==
    ASSUME Sound, NEW p \in Renewers, Rollback(p) PROVE Sound'
<1> /\ run \in [Renewers -> Runs] /\ today \in Nat /\ made \in Nat
    /\ RunsOK /\ Exclusive /\ FoundOK(p) /\ MadeOK(p) /\ run[p].now <= today
  BY DEF Sound, TypeOK, RunsOK
<1>1. /\ UNCHANGED <<today, url, made, active, watch, unseen, checked,
                     orphans, reverted, spent>>
      /\ run[p].pc = "refused" /\ rows' = Drop(rows, run[p].id)
  BY DEF Rollback, At, ghosts
<1>2. /\ run' \in [Renewers -> Runs] /\ Same(p) /\ run'[p] = Idle
      /\ phase' \in {phase, "backfill"}
  BY EndFacts DEF Rollback
<1>3. TypeOK'
  <2>1. /\ DOMAIN rows' = DOMAIN rows \ {run[p].id}
        /\ \A c \in DOMAIN rows' : rows'[c] = rows[c]
    BY <1>1 DEF Drop
  <2>2. run[p].id # active
    BY <1>1 DEF MadeOK
  <2> QED BY <1>1, <1>2, <2>1, <2>2 DEF Sound, TypeOK, Phases
<1>4. Exclusive'
  BY <1>1, <1>2, ExclusiveStays, IdleTyped DEF Inside
<1>5. RunsOK'
  <2> SUFFICES ASSUME NEW q \in Renewers
               PROVE  run'[q].now <= today' /\ FoundOK(q)' /\ MadeOK(q)'
    BY DEF RunsOK
  <2>1. CASE q = p
    BY <1>1, <1>2, <2>1, IdleTyped DEF FoundOK, MadeOK, Inside
  <2>2. CASE q # p
    BY <1>1, <1>2, <2>2, OtherOK DEF Sound, RunsOK, Same, Inside
  <2> QED BY <2>1, <2>2
<1>6. active' \notin orphans'
  BY <1>1 DEF Sound
<1> QED BY <1>3, <1>4, <1>5, <1>6 DEF Sound

LEMMA ConfirmSound ==
    ASSUME Sound, NEW p \in Renewers, Confirm(p) PROVE Sound'
<1> /\ run \in [Renewers -> Runs] /\ today \in Nat /\ made \in Nat
    /\ RunsOK /\ Exclusive /\ FoundOK(p) /\ MadeOK(p) /\ run[p].now <= today
  BY DEF Sound, TypeOK, RunsOK
<1>1. /\ UNCHANGED <<today, url, phase, made, watch, orphans, reverted, spent>>
      /\ phase # "down" /\ run[p].pc = "accepted"
      /\ rows' = [rows EXCEPT ![run[p].id].expires = watch[run[p].id].until]
      /\ active' = run[p].id /\ checked' = run[p].now
  BY DEF Confirm, At
<1>2. /\ run' \in [Renewers -> Runs] /\ Same(p) /\ run'[p].pc = "done"
      /\ run'[p].now = run[p].now
  BY GotoFacts DEF Confirm, Steps, Inside
<1>3. TypeOK'
  <2>1. run[p].id \in DOMAIN rows /\ run[p].id \in DOMAIN watch
    BY <1>1 DEF MadeOK
  <2>2. watch[run[p].id].until \in Nat
    BY <2>1 DEF Sound, TypeOK
  <2>3. /\ DOMAIN rows' = DOMAIN rows
        /\ \A c \in DOMAIN rows : rows'[c] \in [url : Urls, expires : Nat]
    BY <1>1, <2>1, <2>2 DEF Sound, TypeOK
  <2>4. unseen' \in Followed
    BY PassedTyped DEF Confirm, Sound, TypeOK
  <2>5. checked' \in 0..today
    BY <1>1 DEF Runs
  <2> QED BY <1>1, <1>2, <2>1, <2>3, <2>4, <2>5 DEF Sound, TypeOK
<1>4. Exclusive'
  BY <1>1, <1>2, ExclusiveStays, IdleTyped DEF Inside
<1>5. RunsOK'
  <2> SUFFICES ASSUME NEW q \in Renewers
               PROVE  run'[q].now <= today' /\ FoundOK(q)' /\ MadeOK(q)'
    BY DEF RunsOK
  <2>1. CASE q = p
    BY <1>1, <1>2, <2>1 DEF FoundOK, MadeOK, Inside
  <2>2. CASE q # p
    BY <1>1, <1>2, <2>2, OtherOK DEF Sound, RunsOK, Same, Inside
  <2> QED BY <2>1, <2>2
<1>6. active' \notin orphans'
  BY <1>1 DEF MadeOK
<1> QED BY <1>3, <1>4, <1>5, <1>6 DEF Sound

LEMMA CatchUpSound ==
    ASSUME Sound, NEW p \in Renewers, CatchUp(p) PROVE Sound'
<1> /\ run \in [Renewers -> Runs] /\ today \in Nat /\ made \in Nat
    /\ RunsOK /\ Exclusive /\ FoundOK(p) /\ MadeOK(p) /\ run[p].now <= today
  BY DEF Sound, TypeOK, RunsOK
<1>1. /\ UNCHANGED <<today, url, made, rows, active, watch, checked,
                     orphans, reverted, spent>>
      /\ run[p].pc = "done" /\ phase # "down"
  BY DEF CatchUp, At, ghosts
<1>2. /\ run' \in [Renewers -> Runs] /\ Same(p) /\ run'[p] = Idle
      /\ phase' \in {phase, "backfill"}
  BY EndFacts DEF CatchUp
<1>3. TypeOK'
  <2>1. unseen' \in Followed
    BY DEF CatchUp, Sound, TypeOK, Followed
  <2> QED BY <1>1, <1>2, <2>1 DEF Sound, TypeOK, Phases
<1>4. Exclusive'
  BY <1>1, <1>2, ExclusiveStays, IdleTyped DEF Inside
<1>5. RunsOK'
  <2> SUFFICES ASSUME NEW q \in Renewers
               PROVE  run'[q].now <= today' /\ FoundOK(q)' /\ MadeOK(q)'
    BY DEF RunsOK
  <2>1. CASE q = p
    BY <1>1, <1>2, <2>1, IdleTyped DEF FoundOK, MadeOK, Inside
  <2>2. CASE q # p
    BY <1>1, <1>2, <2>2 DEF RunsOK, FoundOK, MadeOK, LeftAlone, Same, Inside
  <2> QED BY <2>1, <2>2
<1>6. active' \notin orphans'
  BY <1>1 DEF Sound
<1> QED BY <1>3, <1>4, <1>5, <1>6 DEF Sound

LEMMA BeginSound ==
    ASSUME Sound, BeginCron \/ BeginBoot PROVE Sound'
<1> /\ run \in [Renewers -> Runs] /\ today \in Nat /\ RunsOK /\ Exclusive
    /\ \A q \in Renewers : run[q].now <= today
  BY DEF Sound, TypeOK, RunsOK
<1>1. /\ UNCHANGED <<today, url, made, rows, active, watch, checked, orphans,
                     reverted, spent>>
      /\ phase # "down" /\ phase' \in {phase, "backfill"}
      /\ unseen' \in Followed
  BY DEF BeginCron, BeginBoot, At, ghosts, Sound, TypeOK, Followed
<1>2. \/ run' = run
      \/ \E p \in Renewers :
            /\ run' \in [Renewers -> Runs] /\ Same(p)
            /\ run'[p].pc = "lock" /\ run'[p].now = today
            /\ run'[p].old = None
  BY BeginFacts DEF BeginCron, BeginBoot, Renewers
<1>3. run' \in [Renewers -> Runs]
  BY <1>2
<1>4. TypeOK'
  BY <1>1, <1>3 DEF Sound, TypeOK, Phases
<1>5. Exclusive'
  <2>1. CASE run' = run
    BY <2>1 DEF Exclusive
  <2>2. CASE run' # run
    BY <1>2, <2>2, ExclusiveStays DEF Inside
  <2> QED BY <2>1, <2>2
<1>6. RunsOK'
  <2> SUFFICES ASSUME NEW q \in Renewers
               PROVE  run'[q].now <= today' /\ FoundOK(q)' /\ MadeOK(q)'
    BY DEF RunsOK
  <2>1. CASE run'[q] = run[q]
    <3>1. phase' # "down"
      BY <1>1
    <3> QED BY <1>1, <2>1, <3>1 DEF RunsOK, FoundOK, MadeOK, LeftAlone, Inside
  <2>2. CASE /\ run'[q].pc = "lock" /\ run'[q].now = today
             /\ run'[q].old = None
    BY <1>1, <2>2 DEF FoundOK, MadeOK, Inside
  <2> QED BY <1>2, <2>1, <2>2 DEF Same
<1> QED BY <1>1, <1>4, <1>5, <1>6 DEF Sound

(* The steps in which no renewal moves. *)
LEMMA WorldSound ==
    ASSUME Sound,
           \/ \E kind \in ChangeKinds : Change(kind)
           \/ FallbackPoll \/ Tick \/ Restart \/ EnqueueBackfill
           \/ UNCHANGED vars
    PROVE  Sound'
<1> /\ run \in [Renewers -> Runs] /\ today \in Nat /\ RunsOK /\ Exclusive
    /\ Headroom \in Nat
  BY DEF Sound, TypeOK, RunsOK
<1>1. /\ UNCHANGED <<url, made, rows, active, watch, run, checked, orphans,
                     reverted>>
      /\ today' \in Nat /\ today <= today'
  BY DEF Change, FallbackPoll, Tick, Restart, EnqueueBackfill, vars, ghosts
<1>2. unseen' \in Followed /\ phase' \in Phases
  BY PassedTyped
  DEF Change, FallbackPoll, Tick, Restart, EnqueueBackfill, vars, ghosts, Sound,
      TypeOK, Phases, Followed
<1>3. phase' = "down" => \/ phase = "down"
                         \/ \A q \in Renewers : run[q].pc = "idle"
  BY DEF Change, FallbackPoll, Tick, Restart, EnqueueBackfill, vars
<1>4. TypeOK'
  <2>1. spent' \in [Kinds -> Nat]
    BY SpendTyped
    DEF Change, FallbackPoll, Tick, Restart, EnqueueBackfill, vars, Sound,
        TypeOK, Kinds
  <2>2. checked' \in 0..today'
    BY <1>1 DEF Sound, TypeOK
  <2> QED BY <1>1, <1>2, <2>1, <2>2 DEF Sound, TypeOK
<1>5. Exclusive'
  BY <1>1 DEF Exclusive
<1>6. RunsOK'
  <2> SUFFICES ASSUME NEW q \in Renewers
               PROVE  run'[q].now <= today' /\ FoundOK(q)' /\ MadeOK(q)'
    BY DEF RunsOK
  <2>1. run[q].now <= today /\ run[q].now \in Nat
    BY DEF RunsOK, Runs
  <2>2. FoundOK(q)' /\ MadeOK(q)'
    BY <1>1, <1>3 DEF RunsOK, FoundOK, MadeOK, LeftAlone, Inside
  <2> QED BY <1>1, <2>1, <2>2
<1> QED BY <1>1, <1>4, <1>5, <1>6 DEF Sound

LEMMA ProcessSound ==
    ASSUME Sound, Launch \/ Crash PROVE Sound'
<1> /\ run \in [Renewers -> Runs] /\ today \in Nat /\ RunsOK /\ Exclusive
  BY DEF Sound, TypeOK, RunsOK
<1>1. /\ UNCHANGED <<today, made, rows, active, watch, unseen, checked,
                     orphans>>
      /\ phase' \in {"boot", "down"} /\ url' \in Urls
      /\ reverted' \in BOOLEAN
  BY DEF Launch, Crash, ghosts, Sound, TypeOK
<1>2. /\ run' \in [Renewers -> Runs]
      /\ \A q \in Renewers : \/ run'[q] = Idle
                             \/ /\ run'[q] = run[q]
                                /\ run[q].pc = "done" \/ phase = "down"
  <2>1. CASE Launch
    BY <2>1, IdleTyped DEF Launch
  <2>2. CASE Crash
    <3>1. PICK cron \in {Idle} \cup {r \in {run["cron"]} : r.pc = "done"} :
             run' = [run EXCEPT !["boot"] = Idle, !["cron"] = cron]
      BY <2>2 DEF Crash
    <3>2. cron \in Runs
      BY <3>1, IdleTyped DEF Renewers
    <3> QED BY <3>1, <3>2, IdleTyped DEF Renewers
  <2> QED BY <2>1, <2>2
<1>3. \A q \in Renewers : run'[q].pc \notin Inside
  BY <1>2, IdleTyped DEF RunsOK, FoundOK, Inside
<1>4. TypeOK'
  <2>1. spent' \in [Kinds -> Nat]
    BY SpendTyped DEF Launch, Crash, Sound, TypeOK, Kinds
  <2> QED BY <1>1, <1>2, <2>1 DEF Sound, TypeOK, Phases
<1>5. Exclusive'
  BY <1>3 DEF Exclusive
<1>6. RunsOK'
  <2> SUFFICES ASSUME NEW q \in Renewers
               PROVE  run'[q].now <= today' /\ FoundOK(q)' /\ MadeOK(q)'
    BY DEF RunsOK
  <2>1. run'[q].now <= today /\ (run'[q].pc = "lock" => run'[q].old = None)
    BY <1>2, IdleTyped DEF RunsOK, FoundOK
  <2> QED BY <1>1, <1>3, <2>1 DEF FoundOK, MadeOK, Inside
<1> QED BY <1>1, <1>4, <1>5, <1>6 DEF Sound

LEMMA InitSound == Init => Sound
<1> SUFFICES ASSUME Init PROVE Sound
  OBVIOUS
<1>1. run \in [Renewers -> Runs] /\ \A p \in Renewers : run[p] = Idle
  BY IdleTyped DEF Init
<1>2. DOMAIN rows = {} /\ DOMAIN watch = {}
  BY DEF Init
<1>3. today \in Nat /\ made \in Nat /\ checked \in 0..today /\ url \in Urls
  BY DEF Init
<1>4. spent \in [Kinds -> Nat] /\ unseen \in Followed /\ reverted \in BOOLEAN
  BY DEF Init, Followed
<1>5. TypeOK
  BY <1>1, <1>2, <1>3, <1>4 DEF Init, TypeOK, Phases
<1> QED BY <1>1, <1>5, IdleTyped
        DEF Init, Sound, Exclusive, RunsOK, FoundOK, MadeOK, Inside

LEMMA NextSound ==
    ASSUME Sound, [Next]_vars PROVE Sound'
BY CheckSound, StopSound, CreateSound, TokenFailsSound, AcceptSound,
   RefuseSound, RollbackSound, ConfirmSound, CatchUpSound, BeginSound,
   WorldSound, ProcessSound
DEF Next, Renew

-----------------------------------------------------------------------------
(* Every step keeps the properties.                                        *)

(* The steps that leave the rows, Drive's channels and the last check alone. *)
Aside ==
    \/ \E kind \in ChangeKinds : Change(kind)
    \/ FallbackPoll \/ Crash \/ Restart \/ EnqueueBackfill
    \/ BeginBoot \/ BeginCron
    \/ \E p \in Renewers : TokenFails(p) \/ Refuse(p) \/ CatchUp(p)
    \/ UNCHANGED vars

LEMMA AsideFacts ==
    Aside => UNCHANGED <<today, url, made, rows, active, watch, checked, orphans,
                         reverted>>
BY DEF Aside, Change, FallbackPoll, Crash, Restart, EnqueueBackfill, BeginBoot,
       BeginCron, TokenFails, Refuse, CatchUp, vars, ghosts

(* A renewal changes the channel it found, and the row and the channel of  *)
(* its own id.                                                             *)
LEMMA StopFacts ==
    ASSUME NEW p \in Renewers, Stop(p)
    PROVE  /\ UNCHANGED <<today, url, phase, rows, active, orphans, reverted>>
           /\ UNCHANGED <<unseen>>
           /\ DOMAIN watch' \subseteq DOMAIN watch
           /\ \A c \in DOMAIN watch' : watch'[c] = watch[c]
BY DEF Stop, Drop, ghosts

LEMMA AcceptFacts ==
    ASSUME NEW p \in Renewers, Accept(p)
    PROVE  /\ UNCHANGED <<today, url, phase, rows, active, reverted>>
           /\ UNCHANGED <<unseen>> /\ orphans \subseteq orphans'
           /\ DOMAIN watch' = DOMAIN watch \cup {run[p].id}
           /\ watch'[run[p].id].url = url
           /\ \A c \in DOMAIN watch \ {run[p].id} : watch'[c] = watch[c]
BY DEF Accept, Put

(* An id just drawn names no row and no channel; an id that a renewal has  *)
(* drawn is not the active one, nor known to Drive if it was refused.      *)
LEMMA CreateFacts ==
    ASSUME Sound, NEW p \in Renewers, Create(p)
    PROVE  /\ made' \notin DOMAIN rows /\ made' \notin DOMAIN watch
           /\ made' # active /\ UNCHANGED <<active, watch, url, today, phase>>
           /\ UNCHANGED <<checked, orphans, reverted, unseen>>
           /\ DOMAIN rows' = DOMAIN rows \cup {made'}
           /\ \A c \in DOMAIN rows : rows'[c] = rows[c]
<1>1. /\ made \in Nat /\ DOMAIN rows \subseteq 1..made
      /\ DOMAIN watch \subseteq 1..made /\ active \in {None} \cup DOMAIN rows
  BY DEF Sound, TypeOK
<1>2. /\ UNCHANGED <<active, watch, url, today, phase>> /\ made' = made + 1
      /\ UNCHANGED <<checked, orphans, reverted, unseen>>
      /\ rows' = Put(rows, made', [url |-> url, expires |-> run[p].now + TTL])
  BY DEF Create, ghosts
<1>3. made' \notin 1..made /\ made' # None
  BY <1>1, <1>2 DEF None
<1>4. /\ DOMAIN rows' = DOMAIN rows \cup {made'}
      /\ \A c \in DOMAIN rows : c # made' => rows'[c] = rows[c]
  BY <1>2 DEF Put
<1> QED BY <1>1, <1>2, <1>3, <1>4

LEMMA RollbackFacts ==
    ASSUME Sound, NEW p \in Renewers, Rollback(p)
    PROVE  /\ run[p].id # active /\ (run[p].id \in DOMAIN watch => run[p].id \in orphans)
           /\ UNCHANGED <<active, watch, url, today>>
           /\ UNCHANGED <<checked, orphans, reverted, unseen>>
           /\ DOMAIN rows' = DOMAIN rows \ {run[p].id}
           /\ \A c \in DOMAIN rows \ {run[p].id} : rows'[c] = rows[c]
<1>1. run[p].pc = "refused" /\ MadeOK(p)
  BY DEF Rollback, At, Sound, RunsOK
<1>2. /\ DOMAIN rows' = DOMAIN rows \ {run[p].id}
      /\ \A c \in DOMAIN rows \ {run[p].id} : rows'[c] = rows[c]
  BY DEF Rollback, Drop
<1> QED BY <1>1, <1>2 DEF Rollback, MadeOK, ghosts

LEMMA ConfirmFacts ==
    ASSUME Sound, NEW p \in Renewers, Confirm(p), NEW id, id = run[p].id
    PROVE  /\ id \in DOMAIN rows /\ id \in DOMAIN watch
           /\ rows[id].url = url /\ watch[id].url = url
           /\ watch[id].until \in Nat /\ watch[id].until >= run[p].now + TTL
           /\ UNCHANGED <<watch, url, today, orphans, reverted, phase>>
           /\ active' = id /\ checked' = run[p].now
           /\ DOMAIN rows' = DOMAIN rows
           /\ rows'[id].expires = watch[id].until /\ rows'[id].url = rows[id].url
           /\ \A c \in DOMAIN rows \ {id} : rows'[c] = rows[c]
<1>1. run[p].pc = "accepted" /\ MadeOK(p)
  BY DEF Confirm, At, Sound, RunsOK
<1>2. /\ rows' = [rows EXCEPT ![id].expires = watch[id].until]
      /\ UNCHANGED <<watch, url, today, orphans, reverted, phase>>
      /\ active' = id /\ checked' = run[p].now
  BY DEF Confirm
<1>3. /\ id \in DOMAIN rows /\ id \in DOMAIN watch
      /\ rows[id].url = url /\ watch[id].url = url
      /\ watch[id].until >= run[p].now + TTL
  BY <1>1 DEF MadeOK
<1>4. watch[id].until \in Nat /\ rows[id] \in [url : Urls, expires : Nat]
  BY <1>3 DEF Sound, TypeOK
<1> QED BY <1>2, <1>3, <1>4

LEMMA ExpiryStays ==
    ASSUME Sound, ExpiryNeedsMissedChecks, [Next]_vars
    PROVE  ExpiryNeedsMissedChecks'
<1> active \in {None} \cup DOMAIN rows
  BY DEF Sound, TypeOK
<1>1. CASE Aside \/ Launch \/ Tick \/ \E p \in Renewers : Stop(p) \/ Accept(p)
  <2>1. UNCHANGED <<rows, active, checked>>
    BY <1>1, AsideFacts DEF Launch, Tick, Stop, Accept, ghosts
  <2> QED BY <2>1 DEF ExpiryNeedsMissedChecks
<1>2. ASSUME NEW p \in Renewers, Check(p) PROVE ExpiryNeedsMissedChecks'
  BY <1>2 DEF Check, LeftAlone, ExpiryNeedsMissedChecks
<1>3. ASSUME NEW p \in Renewers, Create(p) PROVE ExpiryNeedsMissedChecks'
  BY <1>3, CreateFacts DEF ExpiryNeedsMissedChecks
<1>4. ASSUME NEW p \in Renewers, Rollback(p) PROVE ExpiryNeedsMissedChecks'
  BY <1>4, RollbackFacts DEF ExpiryNeedsMissedChecks
<1>5. ASSUME NEW p \in Renewers, Confirm(p) PROVE ExpiryNeedsMissedChecks'
  <2>1. run[p].now \in Nat
    BY DEF Sound, TypeOK, Runs
  <2> QED BY <1>5, <2>1, ConfirmFacts DEF ExpiryNeedsMissedChecks
<1> QED BY <1>1, <1>2, <1>3, <1>4, <1>5 DEF Next, Renew, Aside

LEMMA LeftAloneStays ==
    ASSUME Sound, LeftAloneIsWatched, [Next]_vars PROVE LeftAloneIsWatched'
<1> active \in {None} \cup DOMAIN rows /\ today \in Nat
  BY DEF Sound, TypeOK
<1> \A c \in DOMAIN rows : rows[c].expires \in Nat
  BY DEF Sound, TypeOK
<1>1. CASE Aside \/ \E p \in Renewers : Check(p)
  <2>1. UNCHANGED <<today, url, rows, active, watch, reverted>>
    BY <1>1, AsideFacts DEF Check
  <2> QED BY <2>1 DEF LeftAloneIsWatched, LeftAlone
<1>2. CASE Tick
  <2>1. PICK days \in 1..TTL : today' = today + days
    BY <1>2 DEF Tick
  <2>2. UNCHANGED <<url, rows, active, watch, reverted>>
    BY <1>2 DEF Tick, ghosts
  <2> QED BY <2>1, <2>2 DEF LeftAloneIsWatched, LeftAlone
<1>3. CASE Launch
  <2>1. UNCHANGED <<today, rows, active, watch>>
    BY <1>3 DEF Launch
  <2>2. \/ url' = url /\ reverted' = reverted
        \/ /\ reverted => reverted'
           /\ active # None /\ rows[active].url = url' => reverted'
    BY <1>3 DEF Launch
  <2> QED BY <2>1, <2>2 DEF LeftAloneIsWatched, LeftAlone
<1>4. ASSUME NEW p \in Renewers, Stop(p) PROVE LeftAloneIsWatched'
  <2>1. UNCHANGED <<today, url, rows, active, reverted>>
    BY <1>4, StopFacts
  <2>2. /\ active # None => ~ LeftAlone(run[p].now)
        /\ run[p].now <= today /\ run[p].now \in Nat
    BY <1>4 DEF Stop, At, Sound, TypeOK, RunsOK, FoundOK, Inside, Runs
  <2>3. active # None => ~ LeftAlone(today)
    BY <2>2 DEF LeftAlone
  <2> QED BY <2>1, <2>3 DEF LeftAloneIsWatched, LeftAlone
<1>5. ASSUME NEW p \in Renewers, Create(p) PROVE LeftAloneIsWatched'
  BY <1>5, CreateFacts DEF LeftAloneIsWatched, LeftAlone
<1>6. ASSUME NEW p \in Renewers, Accept(p) PROVE LeftAloneIsWatched'
  BY <1>6, AcceptFacts DEF LeftAloneIsWatched, LeftAlone
<1>7. ASSUME NEW p \in Renewers, Rollback(p) PROVE LeftAloneIsWatched'
  BY <1>7, RollbackFacts DEF LeftAloneIsWatched, LeftAlone
<1>8. ASSUME NEW p \in Renewers, Confirm(p) PROVE LeftAloneIsWatched'
  BY <1>8, ConfirmFacts DEF LeftAloneIsWatched
<1> QED BY <1>1, <1>2, <1>3, <1>4, <1>5, <1>6, <1>7, <1>8 DEF Next, Renew, Aside

LEMMA AcceptedStays ==
    ASSUME Sound, AcceptedIsKnown, [Next]_vars PROVE AcceptedIsKnown'
<1>1. CASE Aside \/ Launch \/ Tick \/ \E p \in Renewers : Check(p)
  <2>1. UNCHANGED <<rows, active, watch, orphans>>
    BY <1>1, AsideFacts DEF Launch, Tick, Check, ghosts
  <2> QED BY <2>1 DEF AcceptedIsKnown
<1>2. ASSUME NEW p \in Renewers, Stop(p) PROVE AcceptedIsKnown'
  BY <1>2, StopFacts DEF AcceptedIsKnown
<1>3. ASSUME NEW p \in Renewers, Create(p) PROVE AcceptedIsKnown'
  BY <1>3, CreateFacts DEF AcceptedIsKnown
<1>4. ASSUME NEW p \in Renewers, Accept(p) PROVE AcceptedIsKnown'
  <2>1. /\ run[p].id # active /\ run[p].id \in DOMAIN rows
        /\ rows[run[p].id].url = url
    BY <1>4 DEF Accept, At, Sound, RunsOK, MadeOK
  <2> QED BY <1>4, <2>1, AcceptFacts DEF AcceptedIsKnown
<1>5. ASSUME NEW p \in Renewers, Rollback(p) PROVE AcceptedIsKnown'
  BY <1>5, RollbackFacts DEF AcceptedIsKnown
<1>6. ASSUME NEW p \in Renewers, Confirm(p) PROVE AcceptedIsKnown'
  BY <1>6, ConfirmFacts DEF AcceptedIsKnown
<1> QED BY <1>1, <1>2, <1>3, <1>4, <1>5, <1>6 DEF Next, Renew, Aside

(* Coverage by another renewal, or by the done one, outlives a step of p.  *)
LEMMA CoveredStays ==
    ASSUME NEW c, Covered(c), NEW p \in Renewers, Same(p),
           \/ run[p].pc \notin {"accepted", "refused", "done"}
           \/ run[p].pc \in {"accepted", "refused"} /\ run[p].id # c
           \/ run[p].pc = "done" /\ run[p].old = None
    PROVE  Covered(c)'
BY DEF Covered, Same

LEMMA SeamStays ==
    ASSUME Sound, Sound', Seam, [Next]_vars PROVE Seam'
<1> SUFFICES ASSUME Waiting', phase' = "up", NEW c, HeardBy(c)'
             PROVE  Covered(c)'
  BY DEF Seam
<1> /\ run \in [Renewers -> Runs] /\ today \in Nat
    /\ \A d \in DOMAIN watch : watch[d].until \in Nat
  BY DEF Sound, TypeOK
<1>1. CASE Launch \/ Crash \/ Restart \/ EnqueueBackfill \/ FallbackPoll
           \/ BeginBoot
  BY <1>1 DEF Launch, Crash, Restart, EnqueueBackfill, FallbackPoll, BeginBoot,
              Waiting, ChangeKinds, PassedOver
<1>2. ASSUME NEW kind \in ChangeKinds, Change(kind) PROVE Covered(c)'
  BY <1>2 DEF Change, Heard, Watched, HeardBy, Authentic, Waiting, ChangeKinds
<1>3. CASE Tick
  <2>1. PICK days \in 1..TTL : today' = today + days
    BY <1>3 DEF Tick
  <2>2. UNCHANGED <<url, phase, rows, watch, run, unseen>>
    BY <1>3 DEF Tick, ghosts
  <2>3. rows[c].expires \in Nat /\ c \in DOMAIN rows
    BY <2>2 DEF HeardBy, Authentic, Sound, TypeOK
  <2>4. HeardBy(c)
    BY <2>1, <2>2, <2>3 DEF HeardBy, Authentic
  <2> QED BY <2>2, <2>4 DEF Seam, Waiting, Covered
<1>4. CASE BeginCron
  <2>1. UNCHANGED <<today, url, phase, rows, watch, unseen>>
    BY <1>4 DEF BeginCron, ghosts
  <2>2. Covered(c)
    BY <2>1 DEF Seam, Waiting, HeardBy, Authentic
  <2>3. Same("cron") /\ run["cron"].pc = "idle" /\ "cron" \in Renewers
    BY <1>4, BeginFacts DEF BeginCron, At, Renewers
  <2> QED BY <2>1, <2>2, <2>3, CoveredStays
<1>5. CASE UNCHANGED vars
  BY <1>5 DEF vars, ghosts, Seam, Waiting, HeardBy, Authentic, Covered
<1>6. ASSUME NEW p \in Renewers, Check(p) \/ Stop(p) \/ TokenFails(p)
      PROVE  Covered(c)'
  <2>1. /\ UNCHANGED <<today, url, rows, unseen>> /\ Same(p)
        /\ phase' = phase \/ phase' = "backfill"
        /\ run[p].pc \in {"lock", "stop", "create"}
        /\ c \in DOMAIN watch /\ watch'[c] = watch[c]
    <3>1. CASE Check(p)
      <4>1. Same(p)
        BY <3>1, GotoFacts DEF Check, Steps, Inside, Same
      <4> QED BY <3>1, <4>1 DEF Check, At, HeardBy
    <3>2. CASE Stop(p)
      BY <3>2, StopFacts, GotoFacts DEF Stop, At, Steps, Inside, HeardBy
    <3>3. CASE TokenFails(p)
      BY <3>3, EndFacts DEF TokenFails, At, HeardBy, ghosts
    <3> QED BY <1>6, <3>1, <3>2, <3>3
  <2>2. Covered(c)
    BY <2>1 DEF Seam, Waiting, HeardBy, Authentic
  <2> QED BY <2>1, <2>2, CoveredStays
<1>7. ASSUME NEW p \in Renewers, Create(p) PROVE Covered(c)'
  <2>1. Same(p) /\ run[p].pc = "create"
    BY <1>7 DEF Create, At, Same
  <2>2. HeardBy(c)
    BY <1>7, CreateFacts DEF HeardBy, Authentic
  <2>3. Covered(c)
    BY <1>7, <2>2, CreateFacts DEF Seam, Waiting
  <2> QED BY <1>7, <2>1, <2>3, CreateFacts, CoveredStays
<1>8. ASSUME NEW p \in Renewers, Accept(p) \/ Refuse(p) PROVE Covered(c)'
  <2>1. /\ Same(p) /\ run[p].pc = "watch" /\ run'[p].id = run[p].id
        /\ run'[p].pc \in {"accepted", "refused"}
    BY <1>8, GotoFacts DEF Accept, Refuse, At, Steps, Inside
  <2>2. CASE c = run[p].id
    BY <2>1, <2>2 DEF Covered
  <2>3. CASE c # run[p].id
    <3>1. UNCHANGED <<today, url, phase, rows, unseen>>
      BY <1>8 DEF Accept, Refuse, ghosts
    <3>2. c \in DOMAIN watch /\ watch'[c] = watch[c]
      BY <1>8, <2>3, AcceptFacts DEF Refuse, HeardBy
    <3>3. Covered(c)
      BY <3>1, <3>2 DEF Seam, Waiting, HeardBy, Authentic
    <3> QED BY <2>1, <3>1, <3>3, CoveredStays
  <2> QED BY <2>2, <2>3
<1>9. ASSUME NEW p \in Renewers, Rollback(p) PROVE Covered(c)'
  <2>1. /\ Same(p) /\ run[p].pc = "refused" /\ phase = "up"
    BY <1>9, EndFacts DEF Rollback, At
  <2>2. c # run[p].id /\ HeardBy(c)
    BY <1>9, RollbackFacts DEF HeardBy, Authentic
  <2>3. Covered(c)
    BY <1>9, <2>1, <2>2, RollbackFacts DEF Seam, Waiting
  <2> QED BY <1>9, <2>1, <2>2, <2>3, RollbackFacts, CoveredStays
<1>10. ASSUME NEW p \in Renewers, Confirm(p) PROVE Covered(c)'
  <2>1. run'[p].pc = "done" /\ run'[p].old = run[p].old /\ phase = "up"
    BY <1>10, GotoFacts DEF Confirm, Steps, Inside
  <2>2. run[p].old # None
    BY <1>10, <2>1 DEF Confirm, Waiting, ChangeKinds, PassedOver
  <2> QED BY <2>1, <2>2 DEF Covered
<1>11. ASSUME NEW p \in Renewers, CatchUp(p) PROVE Covered(c)'
  <2>1. /\ Same(p) /\ run[p].pc = "done" /\ run[p].old = None
        /\ UNCHANGED <<today, url, phase, rows, watch, unseen>>
    BY <1>11, EndFacts DEF CatchUp, At, ghosts, Waiting, ChangeKinds
  <2>2. Covered(c)
    BY <2>1 DEF Seam, Waiting, HeardBy, Authentic
  <2> QED BY <2>1, <2>2, CoveredStays
<1> QED BY <1>1, <1>2, <1>3, <1>4, <1>5, <1>6, <1>7, <1>8, <1>9, <1>10, <1>11
        DEF Next, Renew

-----------------------------------------------------------------------------
(* The theorems.                                                           *)

LEMMA InitInv == Init => IInv
<1> SUFFICES ASSUME Init PROVE IInv
  OBVIOUS
<1>1. Sound
  BY InitSound
<1>2. active = None /\ DOMAIN watch = {} /\ ~ Waiting
  BY DEF Init, Waiting, ChangeKinds
<1> QED BY <1>1, <1>2
        DEF IInv, ExpiryNeedsMissedChecks, LeftAloneIsWatched, AcceptedIsKnown,
            Seam

LEMMA NextInv ==
    ASSUME IInv, [Next]_vars PROVE IInv'
BY NextSound, ExpiryStays, LeftAloneStays, AcceptedStays, SeamStays DEF IInv

LEMMA Invariant == Spec => []IInv
BY InitInv, NextInv, PTL DEF Spec

LEMMA SeamCovers == Sound /\ Seam => SeamIsCovered
BY DEF Seam, SeamIsCovered, Heard, Watched, HeardBy, Covered

(* Every variable keeps its type. *)
THEOREM ChannelTypeCorrect == Spec => []TypeOK
<1>1. IInv => TypeOK
  BY DEF IInv, Sound
<1> QED BY <1>1, Invariant, PTL

(* The active channel expires only if no check of the daily cron or of a   *)
(* boot has ended well for longer than the headroom.                       *)
THEOREM ExpiryIsMissedChecks == Spec => []ExpiryNeedsMissedChecks
<1>1. IInv => ExpiryNeedsMissedChecks
  BY DEF IInv
<1> QED BY <1>1, Invariant, PTL

(* A channel that _renew_channel_step would leave alone is one Drive still *)
(* has: whatever fails or dies half-way is noticed by the next check.      *)
THEOREM FreshChannelIsReal == Spec => []LeftAloneIsWatched
<1>1. IInv => LeftAloneIsWatched
  BY DEF IInv
<1> QED BY <1>1, Invariant, PTL

(* drive_webhook accepts the pushes of every channel that Drive has, but   *)
(* those whose acceptance the worker never heard of.                       *)
THEOREM AcceptedChannelIsKnown == Spec => []AcceptedIsKnown
<1>1. IInv => AcceptedIsKnown
  BY DEF IInv
<1> QED BY <1>1, Invariant, PTL

(* Of the changes that no push reported, those of notes are polled or      *)
(* backfilled before pushes are heard again, and the removals are polled,  *)
(* but for what SeamIsCovered names as passed over.                        *)
THEOREM NoChangeInTheSeam == Spec => []SeamIsCovered
<1>1. IInv => SeamIsCovered
  BY SeamCovers DEF IInv
<1> QED BY <1>1, Invariant, PTL
=============================================================================
