--------------------------- MODULE JobConditions ---------------------------
(***************************************************************************)
(* The status of a PyTorchJob and the functions of status.go that change   *)
(* it.  filterOutCondition keeps at most one condition of a type, so the   *)
(* list is a function from types to a status, "Absent" when no entry has   *)
(* the type; order, times and messages are abstracted, and so is the       *)
(* reason: each type is only ever set with one reason.  StartTime and      *)
(* CompletionTime are abstracted to whether they are set.                  *)
(***************************************************************************)
EXTENDS Integers, FiniteSets

CondTypes == {"Created", "Running", "Restarting", "Succeeded", "Failed"}
Conditions == [CondTypes -> {"Absent", "True", "False"}]

hasCondition(conds, t) == conds[t] = "True"
isSucceeded(conds) == hasCondition(conds, "Succeeded")
isFailed(conds) == hasCondition(conds, "Failed")
Terminal(conds) == isSucceeded(conds) \/ isFailed(conds)

\* What is left of the list when a condition of type t is about to be added.
filterOutCondition(conds, t) ==
    [u \in CondTypes |->
       IF u = t \/ {t, u} = {"Running", "Restarting"} THEN "Absent"
       ELSE IF t \in {"Failed", "Succeeded"} /\ u = "Running" /\ conds[u] = "True"
            THEN "False"
       ELSE conds[u]]

setCondition(conds, t) ==
    IF Terminal(conds) \/ hasCondition(conds, t)
    THEN conds
    ELSE [filterOutCondition(conds, t) EXCEPT ![t] = "True"]

\* What status.go means to exclude: a job is not running and restarting at
\* once, a finished one is not running, and has one outcome.
Exclusive(conds) ==
    /\ ~(hasCondition(conds, "Running") /\ hasCondition(conds, "Restarting"))
    /\ Terminal(conds) => ~hasCondition(conds, "Running")
    /\ ~(isSucceeded(conds) /\ isFailed(conds))

\* ... and it is finished when, and only when, it has a completion time.
Consistent(st) ==
    /\ Exclusive(st.conds)
    /\ Terminal(st.conds) <=> st.completed

-----------------------------------------------------------------------------

\* JobStatus, for a job with the replica types rtypes.
StatusOver(rtypes) ==
    [conds : Conditions,
     replicas : [rtypes -> [active : Nat, succeeded : Nat, failed : Nat]],
     started : BOOLEAN,
     completed : BOOLEAN]

NoReplicas == [active |-> 0, succeeded |-> 0, failed |-> 0]

\* The status of a new job over the replica types rtypes; a type the status
\* does not mention counts nothing.
NewStatus(rtypes) ==
    [conds |-> [t \in CondTypes |-> "Absent"],
     replicas |-> [rt \in rtypes |-> NoReplicas],
     started |-> FALSE,
     completed |-> FALSE]

updateStatusSingleMutant(st, rt, size, restart) ==
    LET rs == st.replicas[rt]
        failing == rs.failed > 0 /\ ~restart
        finished == rt = "Master" /\ rs.succeeded > size
        running == IF rt = "Master" /\ rs.active > 0
                   THEN setCondition(st.conds, "Running") ELSE st.conds
        ended == IF finished THEN setCondition(running, "Succeeded") ELSE running
    IN [st EXCEPT
          !.conds = IF failing THEN setCondition(ended, "Failed")
                    ELSE IF rs.failed > 0 THEN setCondition(ended, "Restarting")
                    ELSE ended,
          !.started = TRUE,
          !.completed = @ \/ finished \/ failing]

\* updateStatusSingle: the conditions that follow from the counts of one type.
\* Running and Succeeded are decided by the master alone.
updateStatusSingle(st, rt, size, restart) ==
    LET rs == st.replicas[rt]
        finished == rt = "Master" /\ rs.succeeded = size
        failing == rs.failed > 0 /\ ~restart
        running == IF rt = "Master" /\ rs.active > 0
                   THEN setCondition(st.conds, "Running") ELSE st.conds
        ended == IF finished THEN setCondition(running, "Succeeded") ELSE running
    IN [st EXCEPT
          !.conds = IF failing THEN setCondition(ended, "Failed")
                    ELSE IF rs.failed > 0 THEN setCondition(ended, "Restarting")
                    ELSE ended,
          !.started = TRUE,
          !.completed = @ \/ finished \/ failing]

failStatusMutant(st) == [st EXCEPT !.conds = setCondition(st.conds, "Failed")]

\* The end of a sync that found a limit exceeded.
failStatus(st) ==
    [st EXCEPT !.conds = setCondition(st.conds, "Failed"), !.completed = TRUE]

FoldedKeepsActiveMutant(rs) ==
    [active |-> rs.active, succeeded |-> rs.succeeded + rs.active, failed |-> rs.failed]

FoldedSignMutant(rs) ==
    [active |-> 0, succeeded |-> rs.succeeded - rs.active, failed |-> rs.failed]

\* The end of a sync of a finished job: when it succeeded, replicas that were
\* active are reported as succeeded, whatever became of their pods.
Folded(rs) ==
    [active |-> 0, succeeded |-> rs.succeeded + rs.active, failed |-> rs.failed]

foldActive(st) ==
    IF isSucceeded(st.conds)
    THEN [st EXCEPT !.replicas = [rt \in DOMAIN st.replicas |-> Folded(st.replicas[rt])]]
    ELSE st
=============================================================================
