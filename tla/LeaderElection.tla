--------------------------- MODULE LeaderElection ---------------------------
(***************************************************************************)
(* The election of the operator that runs its workers.  Every instance     *)
(* competes for a record in an Endpoints object, with the durations that   *)
(* server.go gives the elector of client-go, and exits when it cannot      *)
(* renew its lease in time.                                                *)
(*                                                                         *)
(* Time is a clock that ticks; a process knows only how long ago something *)
(* was, by its own clock, which here runs as fast as the others.  Where    *)
(* the code acts at the end of a timeout, time waits for it.  An attempt   *)
(* is a Get, the arrival of an Update, which the API server takes only on  *)
(* the version that was got, and the answer; each may take its time.  The  *)
(* window of a renewal ends an attempt that takes too long, but nothing    *)
(* ends the attempt of a candidate: its answer may be late without bound.  *)
(***************************************************************************)
EXTENDS Integers

CONSTANTS
    Procs,           \* instances of the operator
    LeaseDuration, RenewDeadline, RetryPeriod,
    MaxCrashes, MaxSignals

ASSUME ElectorAssumption ==
    /\ LeaseDuration \in Nat /\ RenewDeadline \in Nat /\ RetryPeriod \in Nat
    /\ 0 < RetryPeriod /\ RetryPeriod < RenewDeadline

\* A lease outlives two windows in which it might have been renewed and the
\* pause between them: 13 of 15 seconds.
ASSUME LeaseAssumption == 2 * RenewDeadline + RetryPeriod < LeaseDuration

ASSUME BoundsAssumption == MaxCrashes \in Nat /\ MaxSignals \in Nat

VARIABLES
    holder,          \* in the record: a process, one that is gone, or nobody
    mode,            \* what each process does
    call,            \* where its attempt is
    current,         \* the version it got is still the one stored
    seen, age,       \* it has observed this record; how long ago it first did
    timer,           \* how long it has been in its mode
    stopped,         \* its workers were told to stop
    late,            \* history: leaders that won long before they knew it
    ghost,           \* an update of a process that is gone may still arrive
    crashes, signals

procs == <<mode, call, current, seen, age, timer, stopped, late>>
vars == <<holder, procs, ghost, crashes, signals>>

Nobody == "nobody"
Gone == "gone"
ASSUME ProcsAssumption == Nobody \notin Procs /\ Gone \notin Procs

Modes == {"down", "standby", "won", "window", "rest"}
Leading(p) == mode[p] \in {"window", "rest"}

Init ==
    /\ holder = Nobody
    /\ mode = [p \in Procs |-> "down"]
    /\ call = [p \in Procs |-> "none"]
    /\ current = [p \in Procs |-> FALSE]
    /\ seen = [p \in Procs |-> FALSE]
    /\ age = [p \in Procs |-> 0]
    /\ timer = [p \in Procs |-> 0]
    /\ stopped = [p \in Procs |-> FALSE]
    /\ late = {}
    /\ ghost = FALSE
    /\ crashes = 0 /\ signals = 0

Goto(p, m) == mode' = [mode EXCEPT ![p] = m] /\ timer' = [timer EXCEPT ![p] = 0]
Calls(p, c) == call' = [call EXCEPT ![p] = c]

-----------------------------------------------------------------------------
(* The life of a process. *)

\* Run: its identity is new, so it has observed nothing and holds nothing.
Start(p) ==
    /\ mode[p] = "down"
    /\ Goto(p, "standby")
    /\ UNCHANGED <<holder, call, current, seen, age, stopped, late, ghost, crashes, signals>>

\* The process ends; an update that is on its way may still arrive.
Exit(p) ==
    /\ Goto(p, "down")
    /\ Calls(p, "none")
    /\ current' = [current EXCEPT ![p] = FALSE]
    /\ seen' = [seen EXCEPT ![p] = FALSE]
    /\ age' = [age EXCEPT ![p] = 0]
    /\ stopped' = [stopped EXCEPT ![p] = FALSE]
    /\ late' = late \ {p}
    /\ ghost' = (ghost \/ (call[p] = "update" /\ current[p]))
    /\ holder' = IF holder = p THEN Gone ELSE holder

\* OnStoppedLeading: a window in which no renewal succeeded ends in log.Fatalf.
LosesLease(p) ==
    /\ mode[p] = "window" /\ timer[p] = RenewDeadline
    /\ Exit(p)
    /\ UNCHANGED <<crashes, signals>>

Crash(p) ==
    /\ mode[p] # "down" /\ crashes < MaxCrashes
    /\ Exit(p)
    /\ crashes' = crashes + 1
    /\ UNCHANGED signals

\* The first signal only closes stopCh: workers and informers stop, while the
\* elector, which got a context of its own, goes on.
Signal(p) ==
    /\ mode[p] # "down" /\ ~stopped[p] /\ signals < MaxSignals
    /\ stopped' = [stopped EXCEPT ![p] = TRUE]
    /\ signals' = signals + 1
    /\ UNCHANGED <<holder, mode, call, current, seen, age, timer, late, ghost, crashes>>

\* The second signal exits, as does the kill that follows a termination.
Killed(p) ==
    /\ stopped[p]
    /\ Exit(p)
    /\ UNCHANGED <<crashes, signals>>

-----------------------------------------------------------------------------
(* tryAcquireOrRenew. *)

\* Get shows a record that the process has not observed: held, as of now.
Observes(p) ==
    /\ mode[p] = "standby" /\ call[p] = "none" /\ ~seen[p]
    /\ holder \notin {Nobody, p}
    /\ seen' = [seen EXCEPT ![p] = TRUE]
    /\ age' = [age EXCEPT ![p] = 0]
    /\ UNCHANGED <<holder, mode, call, current, timer, stopped, late, ghost, crashes, signals>>

\* The lease that it observed has expired.
HasExpired(p) == seen[p] /\ age[p] >= LeaseDuration

ClaimsMutant(p) ==
    /\ mode[p] = "standby" /\ call[p] = "none"
    /\ holder \in {Nobody, p}
    /\ Calls(p, "update")
    /\ current' = [current EXCEPT ![p] = TRUE]
    /\ UNCHANGED <<holder, mode, seen, age, timer, stopped, late, ghost, crashes, signals>>

\* Get shows no record at all, one that has expired, or one of its own, whose
\* answer it did not get: create or update it.
Claims(p) ==
    /\ mode[p] = "standby" /\ call[p] = "none"
    /\ holder \in {Nobody, p} \/ HasExpired(p)
    /\ Calls(p, "update")
    /\ current' = [current EXCEPT ![p] = TRUE]
    /\ UNCHANGED <<holder, mode, seen, age, timer, stopped, late, ghost, crashes, signals>>

\* The leader renews, as often as it likes within its window.
Renews(p) ==
    /\ mode[p] = "window" /\ call[p] = "none"
    /\ holder = p
    /\ Calls(p, "update")
    /\ current' = [current EXCEPT ![p] = TRUE]
    /\ UNCHANGED <<holder, mode, seen, age, timer, stopped, late, ghost, crashes, signals>>

\* A write makes every version that was got, and every observation, an old one.
Written(by) ==
    /\ holder' = by
    /\ current' = [p \in Procs |-> FALSE]
    /\ seen' = [p \in Procs |-> FALSE]
    /\ age' = [p \in Procs |-> 0]
    /\ ghost' = FALSE

ArrivesMutant(p) ==
    /\ call[p] = "update"
    /\ Written(p)
    /\ IF mode[p] = "standby"
       THEN Goto(p, "won") /\ Calls(p, "none")
       ELSE Calls(p, "ack") /\ UNCHANGED <<mode, timer>>
    /\ UNCHANGED <<stopped, late, crashes, signals>>

\* The update arrives while the version is current, and is taken.
Arrives(p) ==
    /\ call[p] = "update" /\ current[p]
    /\ Written(p)
    /\ IF mode[p] = "standby"
       THEN Goto(p, "won") /\ Calls(p, "none")
       ELSE Calls(p, "ack") /\ UNCHANGED <<mode, timer>>
    /\ UNCHANGED <<stopped, late, crashes, signals>>

\* It is refused as a conflict, or it does not arrive: the attempt has failed.
Fails(p) ==
    /\ call[p] = "update"
    /\ Calls(p, "none")
    /\ current' = [current EXCEPT ![p] = FALSE]
    /\ UNCHANGED <<holder, mode, seen, age, timer, stopped, late, ghost, crashes, signals>>

\* The call fails although its update was taken.
AnswerIsLost(p) ==
    /\ \/ /\ call[p] = "ack"
          /\ Calls(p, "none")
          /\ UNCHANGED <<mode, timer>>
       \/ /\ mode[p] = "won"
          /\ Goto(p, "standby")
          /\ UNCHANGED call
    /\ UNCHANGED <<holder, current, seen, age, stopped, late, ghost, crashes, signals>>

\* An update of a process that is gone arrives.
GhostArrives ==
    /\ ghost
    /\ Written(Gone)
    /\ UNCHANGED <<mode, call, timer, stopped, late, crashes, signals>>

\* From here on what is left of the lease that a process won is less than the
\* window in which it may renew it.
LateAfter == LeaseDuration - RenewDeadline

\* acquire returns, whenever the answer comes: OnStartedLeading starts the
\* workers, and the first window of renew begins.
StartsLeading(p) ==
    /\ mode[p] = "won"
    /\ Goto(p, "window")
    /\ late' = IF timer[p] < LateAfter THEN late ELSE late \cup {p}
    /\ UNCHANGED <<holder, call, current, seen, age, stopped, ghost, crashes, signals>>

RenewedMutant(p) ==
    /\ call[p] = "ack"
    /\ mode' = [mode EXCEPT ![p] = "rest"]
    /\ Calls(p, "none")
    /\ late' = late \ {p}
    /\ UNCHANGED <<holder, current, seen, age, timer, stopped, ghost, crashes, signals>>

\* The answer to a renewal: the window closes.
Renewed(p) ==
    /\ call[p] = "ack"
    /\ Goto(p, "rest")
    /\ Calls(p, "none")
    /\ late' = late \ {p}
    /\ UNCHANGED <<holder, current, seen, age, stopped, ghost, crashes, signals>>

\* wait.Until: after RetryPeriod the next window opens.
OpensWindow(p) ==
    /\ mode[p] = "rest" /\ timer[p] = RetryPeriod
    /\ Goto(p, "window")
    /\ UNCHANGED <<holder, call, current, seen, age, stopped, late, ghost, crashes, signals>>

-----------------------------------------------------------------------------

\* How far the timer of a mode counts.  Of a process that has won, what matters
\* is whether the answer is late: the count stops there, time does not.
Limit(m) == IF m = "window" THEN RenewDeadline
            ELSE IF m = "rest" THEN RetryPeriod
            ELSE IF m = "won" THEN LateAfter
            ELSE 0

\* Time goes on, except past the end of a window or of a pause; what matters
\* of an age is whether the lease has expired.
Tick ==
    /\ \A p \in Procs : Leading(p) => timer[p] < Limit(mode[p])
    /\ timer' = [p \in Procs |-> IF timer[p] < Limit(mode[p]) THEN timer[p] + 1 ELSE timer[p]]
    /\ age' = [p \in Procs |-> IF seen[p] /\ age[p] < LeaseDuration THEN age[p] + 1 ELSE age[p]]
    /\ UNCHANGED <<holder, mode, call, current, seen, stopped, late, ghost, crashes, signals>>

Step(p) ==
    \/ Start(p) \/ LosesLease(p) \/ Crash(p) \/ Signal(p) \/ Killed(p)
    \/ Observes(p) \/ Claims(p) \/ Renews(p) \/ Arrives(p) \/ Fails(p)
    \/ AnswerIsLost(p) \/ StartsLeading(p) \/ Renewed(p) \/ OpensWindow(p)

Next == Tick \/ GhostArrives \/ \E p \in Procs : Step(p)

\* Time passes, processes are restarted, a process that was told to stop is
\* killed, timers fire, an update that was refused is answered, and a candidate
\* that keeps trying succeeds.  Nothing is assumed of the renewals of a leader.
Fairness ==
    /\ WF_vars(Tick)
    /\ \A p \in Procs :
         /\ WF_vars(Start(p)) /\ WF_vars(Killed(p))
         /\ WF_vars(Observes(p)) /\ WF_vars(Claims(p))
         /\ WF_vars(~current[p] /\ Fails(p))
         /\ SF_vars(mode[p] = "standby" /\ Arrives(p)) /\ SF_vars(StartsLeading(p))
         /\ WF_vars(LosesLease(p)) /\ WF_vars(OpensWindow(p))

Safety == Init /\ [][Next]_vars
Spec == Safety /\ Fairness

-----------------------------------------------------------------------------
(* Properties. *)

\* Every variable has its type, and every timer is within its limit.
TypeOK ==
    /\ holder \in Procs \cup {Nobody, Gone}
    /\ mode \in [Procs -> Modes]
    /\ call \in [Procs -> {"none", "update", "ack"}]
    /\ current \in [Procs -> BOOLEAN] /\ seen \in [Procs -> BOOLEAN]
    /\ age \in [Procs -> 0 .. LeaseDuration]
    /\ timer \in [Procs -> Nat]
    /\ \A p \in Procs : timer[p] <= Limit(mode[p])
    /\ stopped \in [Procs -> BOOLEAN] /\ late \in SUBSET Procs
    /\ ghost \in BOOLEAN
    /\ crashes \in Nat /\ signals \in Nat

\* Only one process syncs jobs, if its first answer came in time: of two that
\* lead at once, one learned that it had won when less than a window was left
\* of its lease, and has not renewed it since.  However late any other update
\* or answer arrives, a leader that cannot renew has exited before another
\* process observes that its lease has expired.
OneLeader ==
    \A p, q \in Procs :
        Leading(p) /\ Leading(q) /\ p # q => late \cap {p, q} # {}

\* Two processes are never both active, for which server.go gives each elector
\* an identity of its own; without the condition of OneLeader it does not hold.
NeverBothActive == \A p, q \in Procs : Leading(p) /\ Leading(q) => p = q

\* While crashes and signals last only for a time, there is again and again a
\* leader whose workers run: the lease of one that is gone does not stay.
JobsAreSynced == []<>(\E p \in Procs : Leading(p) /\ ~stopped[p])
=============================================================================
