------------------------ MODULE LeaderElectionProofs ------------------------
(***************************************************************************)
(* One leader at a time, but for those that learn too late that they won,  *)
(* for any number of processes, crashes and signals and all durations that *)
(* satisfy the assumptions of LeaderElection.                              *)
(*                                                                         *)
(* The argument relates clocks of different processes: how long ago a      *)
(* candidate observed the record is bounded by how long the leader has     *)
(* been in its window or its pause.  So none can find the lease expired    *)
(* while there is a leader, and no update but the leader's own is on its   *)
(* way with the version that is stored.                                    *)
(***************************************************************************)
EXTENDS LeaderElection, TLAPS

\* The process holds the lease and will exit before anybody finds it expired: it
\* knows that it leads, or its answer is not late yet, or it has renewed.
Holds(p) ==
    \/ mode[p] = "won" /\ timer[p] < LateAfter
    \/ mode[p] = "window" /\ (p \notin late \/ call[p] = "ack")
    \/ mode[p] = "rest"

\* An update of p is on its way that the API server would take.
CanArrive(p) == call[p] = "update" /\ current[p]

\* Where a call may be, by what the process does.
CallsFit ==
    \A p \in Procs :
        /\ call[p] = "update" => mode[p] \in {"standby", "window"}
        /\ call[p] = "ack" => mode[p] = "window"

\* A leader is late until it renews.
LateFits == \A p \in late : mode[p] = "window"

\* What a process holds is in the record.
HolderRecorded == \A p \in Procs : Holds(p) => holder = p

\* An upper bound of the age of any observation of the lease of p: when a window
\* opens the record is younger than LateAfter, be it after an answer that was
\* not late or after a window and a pause.
Oldest(p) == IF mode[p] = "won" \/ call[p] = "ack" THEN timer[p]
             ELSE IF mode[p] = "rest" THEN RenewDeadline + timer[p]
             ELSE LateAfter - 1 + timer[p]

LeaseIsYoung ==
    \A p, q \in Procs : Holds(p) /\ seen[q] => age[q] <= Oldest(p)

\* While a process holds the lease no write but its own can succeed.
NoOtherWrite ==
    \A p \in Procs : Holds(p) => ~ghost /\ \A q \in Procs : CanArrive(q) => q = p

IInv == TypeOK /\ CallsFit /\ LateFits /\ HolderRecorded /\ LeaseIsYoung /\ NoOtherWrite

-----------------------------------------------------------------------------

\* The durations are numbers, and so are the limits of the timers.
LEMMA Durations ==
    /\ LeaseDuration \in Nat /\ RenewDeadline \in Nat /\ RetryPeriod \in Nat
    /\ LateAfter \in Nat \ {0} /\ LateAfter + RenewDeadline = LeaseDuration
    /\ RenewDeadline + RetryPeriod < LateAfter
    /\ \A m \in Modes : Limit(m) \in Nat
BY ElectorAssumption, LeaseAssumption DEF LateAfter, Limit, Modes

\* Nobody holds anything at the start.
LEMMA InitIInv == Init => IInv
<1> SUFFICES ASSUME Init PROVE IInv
  OBVIOUS
<1> USE DEF Init
<1>1. TypeOK
  <2>0. 0 \in 0 .. LeaseDuration
    BY Durations
  <2>1. age \in [Procs -> 0 .. LeaseDuration]
    <3>1. age = [p \in Procs |-> 0]
      OBVIOUS
    <3> HIDE DEF Init
    <3> QED BY <2>0, <3>1
  <2>2. \A p \in Procs : timer[p] <= Limit(mode[p])
    <3> TAKE p \in Procs
    <3>1. timer[p] = 0 /\ mode[p] = "down"
      BY Zenon
    <3>2. Limit(mode[p]) = 0
      BY <3>1, Zenon DEF Limit
    <3> HIDE DEF Init
    <3> QED BY <3>1, <3>2
  <2>3. /\ current \in [Procs -> BOOLEAN] /\ seen \in [Procs -> BOOLEAN]
        /\ stopped \in [Procs -> BOOLEAN] /\ ghost \in BOOLEAN
    BY Zenon
  <2>4. /\ holder \in Procs \cup {Nobody, Gone} /\ late \in SUBSET Procs
        /\ mode \in [Procs -> Modes] /\ call \in [Procs -> {"none", "update", "ack"}]
    BY Zenon DEF Modes
  <2>5. timer \in [Procs -> Nat] /\ crashes \in Nat /\ signals \in Nat
    OBVIOUS
  <2> HIDE DEF Init
  <2> QED BY <2>1, <2>2, <2>3, <2>4, <2>5, Zenon DEF TypeOK
<1>2. CallsFit /\ LateFits
  BY DEF CallsFit, LateFits
<1>3. HolderRecorded /\ LeaseIsYoung /\ NoOtherWrite
  BY DEF HolderRecorded, LeaseIsYoung, NoOtherWrite, Holds
<1> QED BY <1>1, <1>2, <1>3 DEF IInv

\* A write keeps the types.
LEMMA WriteTypes ==
    ASSUME NEW by \in Procs \cup {Gone}, Written(by)
    PROVE  /\ holder' \in Procs \cup {Nobody, Gone}
           /\ current' \in [Procs -> BOOLEAN] /\ seen' \in [Procs -> BOOLEAN]
           /\ age' \in [Procs -> 0 .. LeaseDuration]
           /\ ghost' \in BOOLEAN
<1>1. age' \in [Procs -> 0 .. LeaseDuration]
  BY Durations DEF Written
<1> QED BY <1>1 DEF Written

\* Every step keeps the types and the limits.
LEMMA StepTypes ==
    ASSUME TypeOK, CallsFit, [Next]_vars PROVE TypeOK'
<1> USE Durations DEF TypeOK, Modes
<1>1. CASE Tick
  BY <1>1 DEF Tick, Limit
<1>2. CASE GhostArrives
  BY <1>2, WriteTypes DEF GhostArrives
<1>3. ASSUME NEW p \in Procs, Step(p) PROVE TypeOK'
  <2>1. CASE Start(p)
    BY <2>1 DEF Start, Goto
  <2>2. ASSUME Exit(p), UNCHANGED signals, crashes' \in Nat PROVE TypeOK'
    BY <2>2 DEF Exit, Goto, Calls
  <2>3. CASE LosesLease(p) \/ Crash(p) \/ Killed(p)
    BY <2>2, <2>3 DEF LosesLease, Crash, Killed
  <2>4. CASE Signal(p)
    BY <2>4 DEF Signal
  <2>5. CASE Observes(p)
    BY <2>5 DEF Observes
  <2>6. CASE Claims(p) \/ Renews(p) \/ Fails(p)
    BY <2>6 DEF Claims, Renews, Fails, Calls
  <2>7. CASE Arrives(p)
    <3>1. mode' \in [Procs -> Modes] /\ call' \in [Procs -> {"none", "update", "ack"}]
      BY <2>7 DEF Arrives, Goto, Calls
    <3>2. timer' \in [Procs -> Nat] /\ \A q \in Procs : timer'[q] <= Limit(mode'[q])
      BY <2>7 DEF Arrives, Goto, Calls
    <3> QED BY <2>7, <3>1, <3>2, WriteTypes DEF Arrives
  <2>8. CASE AnswerIsLost(p)
    BY <2>8 DEF AnswerIsLost, Goto, Calls
  <2>9. CASE StartsLeading(p) \/ Renewed(p) \/ OpensWindow(p)
    BY <2>9 DEF StartsLeading, Renewed, OpensWindow, Goto, Calls
  <2> QED BY <1>3, <2>1, <2>3, <2>4, <2>5, <2>6, <2>7, <2>8, <2>9 DEF Step
<1>4. CASE UNCHANGED vars
  BY <1>4 DEF vars, procs
<1> QED BY <1>1, <1>2, <1>3, <1>4 DEF Next

\* The calls fit after every step, and so do the leaders that are late.
LEMMA StepCallsFit ==
    ASSUME TypeOK, CallsFit, LateFits, [Next]_vars PROVE CallsFit' /\ LateFits'
<1> USE DEF CallsFit, LateFits, TypeOK
<1>1. CASE Tick \/ GhostArrives \/ UNCHANGED vars
  BY <1>1 DEF Tick, GhostArrives, Written, vars, procs
<1>2. ASSUME NEW p \in Procs, Step(p) PROVE CallsFit' /\ LateFits'
  <2>1. CASE Start(p) \/ LosesLease(p) \/ Crash(p) \/ Killed(p) \/ Signal(p)
    BY <2>1 DEF Start, LosesLease, Crash, Killed, Signal, Exit, Goto, Calls
  <2>2. CASE Observes(p) \/ Claims(p) \/ Renews(p) \/ Fails(p)
    BY <2>2 DEF Observes, Claims, Renews, Fails, Calls
  <2>3. CASE Arrives(p) \/ AnswerIsLost(p)
    BY <2>3 DEF Arrives, AnswerIsLost, Written, Goto, Calls
  <2>4. CASE StartsLeading(p) \/ Renewed(p) \/ OpensWindow(p)
    BY <2>4 DEF StartsLeading, Renewed, OpensWindow, Goto, Calls
  <2> QED BY <1>2, <2>1, <2>2, <2>3, <2>4 DEF Step
<1> QED BY <1>1, <1>2 DEF Next

\* While a process holds the lease no other can find it expired.
LEMMA LeaseIsValid ==
    ASSUME IInv, NEW p \in Procs, Holds(p), NEW q \in Procs
    PROVE  ~HasExpired(q)
<1>1. SUFFICES ASSUME seen[q] PROVE age[q] < LeaseDuration
  BY Durations DEF HasExpired, IInv, TypeOK
<1>2. age[q] <= Oldest(p) /\ age[q] \in Nat
  BY <1>1, Durations DEF IInv, LeaseIsYoung, TypeOK
<1>3. timer[p] \in Nat /\ timer[p] <= Limit(mode[p])
  BY DEF IInv, TypeOK
<1>4. CASE mode[p] = "won" /\ timer[p] < LateAfter
  BY <1>2, <1>3, <1>4, Durations DEF Oldest, Limit
<1>5. CASE mode[p] = "rest"
  BY <1>2, <1>3, <1>5, Durations DEF Oldest, Limit
<1>6. CASE mode[p] = "window"
  BY <1>2, <1>3, <1>6, Durations DEF Oldest, Limit
<1> QED BY <1>4, <1>5, <1>6 DEF Holds

\* A process about which nothing changes holds what it held.
LEMMA SameHolds ==
    ASSUME NEW q \in Procs, mode'[q] = mode[q], timer'[q] = timer[q],
           call'[q] = call[q], q \in late' <=> q \in late
    PROVE  Holds(q)' <=> Holds(q)
BY DEF Holds

\* Time gives nobody a lease.
LEMMA TickHolds ==
    ASSUME TypeOK, Tick, NEW q \in Procs, Holds(q)' PROVE Holds(q)
<1>1. timer[q] \in Nat /\ Limit(mode[q]) \in Nat
  BY Durations DEF TypeOK
<1>2. timer'[q] = IF timer[q] < Limit(mode[q]) THEN timer[q] + 1 ELSE timer[q]
  BY DEF Tick
<1>3. timer[q] <= timer'[q] /\ timer'[q] \in Nat
  BY <1>1, <1>2
<1>4. UNCHANGED <<mode, call, late>>
  BY DEF Tick
<1> QED BY <1>1, <1>3, <1>4, Durations DEF Holds

\* Every step keeps the holder in the record and the writes of others away.
LEMMA StepHolder ==
    ASSUME IInv, [Next]_vars PROVE HolderRecorded' /\ NoOtherWrite'
<1> USE DEF IInv, HolderRecorded, NoOtherWrite, CanArrive, TypeOK
<1>1. CASE Tick
  <2>1. UNCHANGED <<holder, ghost, call, current>>
    BY <1>1 DEF Tick
  <2> QED BY <1>1, <2>1, TickHolds
<1>2. CASE GhostArrives
  <2>1. UNCHANGED <<mode, timer, call, late>>
    BY <1>2 DEF GhostArrives
  <2>2. \A q \in Procs : ~Holds(q)'
    BY <1>2, <2>1, SameHolds DEF GhostArrives
  <2> QED BY <2>2
<1>3. CASE UNCHANGED vars
  <2>1. UNCHANGED <<holder, ghost, call, current, mode, timer, late>>
    BY <1>3 DEF vars, procs
  <2> QED BY <2>1, SameHolds
<1>4. ASSUME NEW p \in Procs, Step(p) PROVE HolderRecorded' /\ NoOtherWrite'
  <2>1. CASE Start(p) \/ Signal(p) \/ Observes(p) \/ Fails(p)
    <3>1. \A q \in Procs : Holds(q)' => Holds(q)
      BY <2>1 DEF Start, Signal, Observes, Fails, Goto, Calls, Holds
    <3>2. \A q \in Procs : CanArrive(q)' => CanArrive(q)
      BY <2>1 DEF Start, Signal, Observes, Fails, Calls
    <3>3. UNCHANGED <<holder, ghost>>
      BY <2>1 DEF Start, Signal, Observes, Fails
    <3> QED BY <3>1, <3>2, <3>3
  <2>2. CASE LosesLease(p) \/ Crash(p) \/ Killed(p)
    <3>1. Exit(p)
      BY <2>2 DEF LosesLease, Crash, Killed
    <3>2. \A q \in Procs : Holds(q)' => Holds(q) /\ q # p
      <4> SUFFICES ASSUME NEW q \in Procs, Holds(q)' PROVE Holds(q) /\ q # p
        OBVIOUS
      <4>1. q # p
        BY <3>1 DEF Exit, Goto, Holds
      <4>2. /\ mode'[q] = mode[q] /\ timer'[q] = timer[q] /\ call'[q] = call[q]
            /\ q \in late' <=> q \in late
        BY <3>1, <4>1 DEF Exit, Goto, Calls
      <4> QED BY <4>1, <4>2, SameHolds
    <3>3. \A q \in Procs : CanArrive(q)' => CanArrive(q)
      BY <3>1 DEF Exit, Calls
    <3>4. HolderRecorded'
      BY <3>1, <3>2 DEF Exit
    <3>5. NoOtherWrite'
      BY <3>1, <3>2, <3>3 DEF Exit
    <3> QED BY <3>4, <3>5
  <2>3. CASE Claims(p)
    <3>1. \A q \in Procs : ~Holds(q)
      BY <2>3, LeaseIsValid, ProcsAssumption DEF Claims, Holds
    <3>2. \A q \in Procs : ~Holds(q)'
      BY <2>3, <3>1 DEF Claims, Calls, Holds
    <3> QED BY <3>2
  <2>4. CASE Renews(p)
    <3>1. \A q \in Procs : Holds(q)' => Holds(q)
      BY <2>4 DEF Renews, Calls, Holds
    <3>2. \A q \in Procs : CanArrive(q)' => CanArrive(q) \/ q = p
      BY <2>4 DEF Renews, Calls
    <3> QED BY <2>4, <3>1, <3>2 DEF Renews
  <2>5. CASE Arrives(p)
    <3>1. \A q \in Procs : Holds(q) => q = p
      BY <2>5 DEF Arrives
    <3>2. \A q \in Procs : Holds(q)' => q = p
      <4> SUFFICES ASSUME NEW q \in Procs, Holds(q)', q # p PROVE FALSE
        OBVIOUS
      <4>1. /\ mode'[q] = mode[q] /\ timer'[q] = timer[q] /\ call'[q] = call[q]
            /\ q \in late' <=> q \in late
        BY <2>5 DEF Arrives, Goto, Calls
      <4> QED BY <3>1, <4>1, SameHolds
    <3>3. holder' = p /\ ~ghost' /\ \A q \in Procs : ~current'[q]
      BY <2>5 DEF Arrives, Written
    <3> QED BY <3>2, <3>3
  <2>6. CASE AnswerIsLost(p)
    <3>1. \A q \in Procs : Holds(q)' => Holds(q)
      BY <2>6 DEF AnswerIsLost, Goto, Calls, Holds
    <3>2. \A q \in Procs : CanArrive(q)' => CanArrive(q)
      BY <2>6 DEF AnswerIsLost, Calls
    <3> QED BY <2>6, <3>1, <3>2 DEF AnswerIsLost
  <2>7. CASE StartsLeading(p) \/ Renewed(p) \/ OpensWindow(p)
    <3>1. \A q \in Procs : Holds(q)' => Holds(q)
      BY <2>7 DEF StartsLeading, Renewed, OpensWindow, Goto, Calls, CallsFit, Holds
    <3>2. \A q \in Procs : CanArrive(q)' => CanArrive(q)
      BY <2>7 DEF StartsLeading, Renewed, OpensWindow, Calls
    <3> QED BY <2>7, <3>1, <3>2 DEF StartsLeading, Renewed, OpensWindow
  <2> QED BY <1>4, <2>1, <2>2, <2>3, <2>4, <2>5, <2>6, <2>7 DEF Step
<1> QED BY <1>1, <1>2, <1>3, <1>4 DEF Next

\* Every step keeps the observations of a lease that is held young.
LEMMA StepLeaseIsYoung ==
    ASSUME IInv, TypeOK', [Next]_vars PROVE LeaseIsYoung'
<1> SUFFICES ASSUME NEW p \in Procs, NEW q \in Procs, Holds(p)', seen'[q]
             PROVE  age'[q] <= Oldest(p)'
  BY DEF LeaseIsYoung
<1> USE Durations
<1>0. /\ timer[p] \in Nat /\ timer[p] <= Limit(mode[p])
      /\ age[q] \in Nat
      /\ mode[p] \in Modes
      /\ Holds(p) /\ seen[q] => age[q] <= Oldest(p)
      /\ call[p] = "update" => mode[p] \in {"standby", "window"}
      /\ call[p] = "ack" => mode[p] = "window"
  BY DEF IInv, TypeOK, LeaseIsYoung, CallsFit
<1>1. ASSUME UNCHANGED <<mode, call, seen, age, timer, late>> PROVE age'[q] <= Oldest(p)'
  BY <1>0, <1>1 DEF Holds, Oldest
<1>2. CASE UNCHANGED vars
  BY <1>1, <1>2 DEF vars, procs
<1>3. CASE Tick
  <2>1. Holds(p) /\ seen[q] /\ Oldest(p)' = Oldest(p) + 1 /\ Oldest(p) \in Nat
    BY <1>0, <1>3 DEF Tick, Leading, Limit, Holds, Oldest, IInv, TypeOK
  <2>2. age'[q] <= age[q] + 1
    BY <1>0, <1>3 DEF Tick, IInv, TypeOK
  <2>3. age'[q] \in Nat
    BY DEF TypeOK
  <2> QED BY <1>0, <2>1, <2>2, <2>3
<1>4. CASE GhostArrives
  BY <1>4 DEF GhostArrives, Written
<1>5. ASSUME NEW r \in Procs, Step(r) PROVE age'[q] <= Oldest(p)'
  <2> USE DEF IInv, TypeOK
  <2>1. CASE Start(r)
    BY <1>0, <2>1 DEF Start, Goto, Holds, Oldest
  <2>2. CASE LosesLease(r) \/ Crash(r) \/ Killed(r)
    <3>1. Exit(r)
      BY <2>2 DEF LosesLease, Crash, Killed
    <3>2. p # r /\ q # r
      BY <3>1 DEF Exit, Goto, Holds
    <3> QED BY <1>0, <3>1, <3>2 DEF Exit, Goto, Calls, Holds, Oldest
  <2>3. CASE Signal(r)
    BY <1>1, <2>3 DEF Signal
  <2>4. CASE Observes(r)
    <3>1. UNCHANGED <<mode, call, timer, late>>
      BY <2>4 DEF Observes
    <3>2. CASE q = r
      <4>1. age'[q] = 0
        BY <2>4, <3>2 DEF Observes
      <4>2. Oldest(p)' \in Nat
        BY <1>0, <3>1 DEF Oldest
      <4> QED BY <4>1, <4>2
    <3>3. CASE q # r
      BY <1>0, <2>4, <3>1, <3>3 DEF Observes, Holds, Oldest
    <3> QED BY <3>2, <3>3
  <2>5. CASE Claims(r) \/ Renews(r) \/ Fails(r)
    <3>1. UNCHANGED <<mode, seen, age, timer, late>>
      BY <2>5 DEF Claims, Renews, Fails
    <3>2. call'[p] = "ack" <=> call[p] = "ack"
      BY <2>5 DEF Claims, Renews, Fails, Calls
    <3> QED BY <1>0, <3>1, <3>2 DEF Holds, Oldest
  <2>6. CASE Arrives(r)
    BY <2>6 DEF Arrives, Written
  <2>7. CASE AnswerIsLost(r)
    BY <1>0, <2>7 DEF AnswerIsLost, Goto, Calls, Holds, Oldest, Limit
  <2>8. CASE StartsLeading(r)
    BY <1>0, <2>8 DEF StartsLeading, Goto, Holds, Oldest, Limit
  <2>9. CASE Renewed(r)
    BY <1>0, <2>9 DEF Renewed, Goto, Calls, Holds, Oldest, Limit, CallsFit
  <2>10. CASE OpensWindow(r)
    BY <1>0, <2>10 DEF OpensWindow, Goto, Holds, Oldest, Limit
  <2> QED BY <1>5, <2>1, <2>2, <2>3, <2>4, <2>5, <2>6, <2>7, <2>8, <2>9, <2>10 DEF Step
<1> QED BY <1>2, <1>3, <1>4, <1>5 DEF Next

\* The invariant holds in every behavior.
LEMMA Invariance == Safety => []IInv
<1>1. IInv /\ [Next]_vars => IInv'
  BY StepTypes, StepCallsFit, StepHolder, StepLeaseIsYoung DEF IInv
<1> QED BY InitIInv, <1>1, PTL DEF Safety

-----------------------------------------------------------------------------
(* Theorems. *)

\* Every variable of the election has its type and no timer runs past its limit.
THEOREM TypeCorrect == Safety => []TypeOK
<1>1. IInv => TypeOK
  BY DEF IInv
<1> QED BY Invariance, <1>1, PTL

\* Two processes run their workers at once only if one of them learned that it
\* had won when less than a window was left of its lease: whatever other updates
\* and answers are late and whoever crashes (tryAcquireOrRenew, renew, Run), when
\* two windows and the pause between them are shorter than a lease.
THEOREM AtMostOneLeader == Safety => []OneLeader
<1>1. IInv => OneLeader
  BY DEF IInv, HolderRecorded, Holds, OneLeader, Leading
<1> QED BY Invariance, <1>1, PTL
=============================================================================
