------------------------------ MODULE JobWork ------------------------------
(***************************************************************************)
(* What the controller relies on when it hands job keys to its workers: a  *)
(* key marked as needing work is pending until a worker starts on it, a    *)
(* key is worked on by one worker at a time, and a key marked while it is  *)
(* being worked on is pending again.  No order, no delays, no workers.     *)
(***************************************************************************)
CONSTANT Keys
VARIABLES pending,   \* keys marked and not yet started
          busy       \* keys a worker is syncing

vars == <<pending, busy>>

Init == pending = {} /\ busy = {}

Mark(k) == pending' = pending \cup {k} /\ UNCHANGED busy

Start(k) ==
    /\ k \in pending \ busy
    /\ pending' = pending \ {k}
    /\ busy' = busy \cup {k}

Finish(k) ==
    /\ k \in busy
    /\ busy' = busy \ {k}
    /\ UNCHANGED pending

Next == \E k \in Keys : Mark(k) \/ Start(k) \/ Finish(k)

Safety == Init /\ [][Next]_vars

\* A pending key is started, and a started one is finished.
Spec == Safety /\ \A k \in Keys : WF_vars(Start(k)) /\ WF_vars(Finish(k))
=============================================================================
