---------------------------- MODULE JobLifecycle ----------------------------
(***************************************************************************)
(* What a user may rely on when reading the stored status of a PyTorchJob: *)
(* it starts, runs or restarts, ends once, and only for a reason.          *)
(***************************************************************************)
VARIABLES phase,
          finished,   \* the master's training has succeeded
          broken      \* something happened that may fail the job

vars == <<phase, finished, broken>>

Open == {"New", "Running", "Restarting"}
Closed == {"Succeeded", "Failed"}

\* The spec itself may be the reason to fail a job.
Init == phase = "New" /\ finished = FALSE /\ broken \in BOOLEAN

\* The pods go their way whatever the status says.
MasterFinishes == finished' = TRUE /\ UNCHANGED <<phase, broken>>
Breaks == broken' = TRUE /\ UNCHANGED phase /\ finished' \in {finished, TRUE}

Trains ==
    /\ phase \in Open
    /\ phase' \in {"Running", "Restarting"}
    /\ UNCHANGED <<finished, broken>>

Succeeds ==
    /\ phase \in Open
    /\ finished
    /\ phase' = "Succeeded"
    /\ UNCHANGED <<finished, broken>>

Fails ==
    /\ phase \in Open
    /\ broken
    /\ phase' = "Failed"
    /\ UNCHANGED <<finished, broken>>

Goes ==
    /\ phase # "Gone"
    /\ phase' = "Gone"
    /\ UNCHANGED <<finished, broken>>

Next == MasterFinishes \/ Breaks \/ Trains \/ Succeeds \/ Fails \/ Goes

Spec == Init /\ [][Next]_vars
=============================================================================
