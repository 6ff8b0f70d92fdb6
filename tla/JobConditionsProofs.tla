------------------------ MODULE JobConditionsProofs ------------------------
(* What the functions of status.go preserve, for any set of replica types. *)
EXTENDS JobConditions, TLAPS

\* The status of a new job is well formed, consistent and not finished.
LEMMA NewStatusType ==
    ASSUME NEW rtypes
    PROVE  /\ NewStatus(rtypes) \in StatusOver(rtypes)
           /\ Consistent(NewStatus(rtypes))
           /\ ~Terminal(NewStatus(rtypes).conds)
BY DEF NewStatus, StatusOver, Conditions, NoReplicas, Consistent, Exclusive, Terminal,
       isSucceeded, isFailed, hasCondition, CondTypes

\* Every condition has one of the three statuses, also after filtering.
LEMMA FilterType ==
    ASSUME NEW conds \in Conditions, NEW t \in CondTypes
    PROVE  filterOutCondition(conds, t) \in Conditions
BY DEF filterOutCondition, Conditions

\* setCondition, which every change of a condition goes through, keeps the type.
LEMMA SetConditionType ==
    ASSUME NEW conds \in Conditions, NEW t \in CondTypes
    PROVE  setCondition(conds, t) \in Conditions
BY FilterType DEF setCondition, Conditions

\* Once there is an outcome setCondition changes nothing.
LEMMA OutcomeIsFinal ==
    ASSUME NEW conds, NEW t, Terminal(conds)
    PROVE  setCondition(conds, t) = conds
BY DEF setCondition

\* The job has an outcome after setCondition if it had one, or is given one.
LEMMA SetConditionTerminal ==
    ASSUME NEW conds \in Conditions, NEW t \in CondTypes
    PROVE  Terminal(setCondition(conds, t))
             <=> Terminal(conds) \/ t \in {"Succeeded", "Failed"}
<1>1. CASE Terminal(conds) \/ hasCondition(conds, t)
  BY <1>1 DEF setCondition, Terminal, isSucceeded, isFailed, hasCondition,
              Conditions, CondTypes
<1>2. CASE ~Terminal(conds) /\ ~hasCondition(conds, t)
  <2> DEFINE new == setCondition(conds, t)
  <2>1. new = [filterOutCondition(conds, t) EXCEPT ![t] = "True"]
    BY <1>2 DEF setCondition
  <2>2. /\ new[t] = "True"
        /\ t # "Succeeded" => new["Succeeded"] \in {"Absent", conds["Succeeded"]}
        /\ t # "Failed" => new["Failed"] \in {"Absent", conds["Failed"]}
    BY <2>1 DEF filterOutCondition, Conditions, CondTypes
  <2> QED BY <1>2, <2>2 DEF Terminal, isSucceeded, isFailed, hasCondition,
                            Conditions, CondTypes
<1> QED BY <1>1, <1>2

\* setCondition never brings together what excludes each other.
LEMMA SetConditionExclusive ==
    ASSUME NEW conds \in Conditions, NEW t \in CondTypes, Exclusive(conds)
    PROVE  Exclusive(setCondition(conds, t))
<1>1. CASE Terminal(conds) \/ hasCondition(conds, t)
  BY <1>1 DEF setCondition
<1>2. CASE ~Terminal(conds) /\ ~hasCondition(conds, t)
  <2> DEFINE new == setCondition(conds, t)
  <2>1. \A u \in CondTypes : new[u] = IF u = t THEN "True"
                                      ELSE filterOutCondition(conds, t)[u]
    BY <1>2 DEF setCondition, filterOutCondition
  <2>2. \A u \in CondTypes \ {t} : filterOutCondition(conds, t)[u] = "True" =>
          /\ conds[u] = "True"
          /\ {t, u} # {"Running", "Restarting"}
          /\ ~(t \in {"Failed", "Succeeded"} /\ u = "Running")
    BY DEF filterOutCondition, Conditions
  <2>3. \A u \in CondTypes : new[u] = "True" =>
          \/ u = t
          \/ conds[u] = "True" /\ {t, u} # {"Running", "Restarting"}
             /\ ~(t \in {"Failed", "Succeeded"} /\ u = "Running")
    BY <2>1, <2>2
  <2>4. "Running" \in CondTypes /\ "Restarting" \in CondTypes
        /\ "Succeeded" \in CondTypes /\ "Failed" \in CondTypes
    BY DEF CondTypes
  <2>5. ~(new["Running"] = "True" /\ new["Restarting"] = "True")
    <3>1. CASE t = "Running"
      BY <2>3, <2>4, <3>1
    <3>2. CASE t = "Restarting"
      BY <2>3, <2>4, <3>2
    <3>3. CASE t \notin {"Running", "Restarting"}
      BY <2>3, <2>4, <3>3 DEF Exclusive, hasCondition
    <3> QED BY <3>1, <3>2, <3>3
  <2>6. new["Running"] = "True" => new["Succeeded"] # "True" /\ new["Failed"] # "True"
    BY <1>2, <2>3, <2>4 DEF Terminal, isSucceeded, isFailed, hasCondition
  <2>7. ~(new["Succeeded"] = "True" /\ new["Failed"] = "True")
    BY <1>2, <2>3, <2>4 DEF Terminal, isSucceeded, isFailed, hasCondition
  <2> QED BY <2>5, <2>6, <2>7 DEF Exclusive, Terminal, isSucceeded, isFailed, hasCondition
<1> QED BY <1>1, <1>2

-----------------------------------------------------------------------------
(* The updates of a status. *)

\* A type of replicas is reported on: the status keeps its type, stays
\* consistent, and keeps its outcome.
LEMMA UpdateStatusSingle ==
    ASSUME NEW rtypes, NEW rt \in rtypes, NEW st \in StatusOver(rtypes),
           NEW size, NEW restart \in BOOLEAN
    PROVE  LET new == updateStatusSingle(st, rt, size, restart) IN
           /\ new \in StatusOver(rtypes)
           /\ Terminal(st.conds) => new.conds = st.conds
           /\ Consistent(st) => Consistent(new)
<1> DEFINE rs == st.replicas[rt]
           finished == rt = "Master" /\ rs.succeeded = size
           failing == rs.failed > 0 /\ ~restart
           running == IF rt = "Master" /\ rs.active > 0
                      THEN setCondition(st.conds, "Running") ELSE st.conds
           ended == IF finished THEN setCondition(running, "Succeeded") ELSE running
           last == IF failing THEN setCondition(ended, "Failed")
                   ELSE IF rs.failed > 0 THEN setCondition(ended, "Restarting")
                   ELSE ended
           new == updateStatusSingle(st, rt, size, restart)
<1>1. new = [st EXCEPT !.conds = last, !.started = TRUE,
                       !.completed = @ \/ finished \/ failing]
  BY DEF updateStatusSingle
<1>2. /\ "Running" \in CondTypes /\ "Restarting" \in CondTypes
      /\ "Succeeded" \in CondTypes /\ "Failed" \in CondTypes
  BY DEF CondTypes
<1>3. st.conds \in Conditions /\ st.completed \in BOOLEAN
  BY DEF StatusOver
<1>4. running \in Conditions
  BY <1>2, <1>3, SetConditionType
<1>5. ended \in Conditions
  BY <1>2, <1>4, SetConditionType
<1>6. last \in Conditions
  BY <1>2, <1>5, SetConditionType
<1>7. new \in StatusOver(rtypes)
  BY <1>1, <1>6 DEF StatusOver
<1>8. new.conds = last /\ (new.completed <=> st.completed \/ finished \/ failing)
  BY <1>1, <1>3 DEF StatusOver
<1>9. Terminal(st.conds) => last = st.conds
  <2>1. SUFFICES ASSUME Terminal(st.conds) PROVE last = st.conds
    OBVIOUS
  <2>2. running = st.conds
    BY <2>1, OutcomeIsFinal
  <2>3. ended = st.conds
    BY <2>1, <2>2, OutcomeIsFinal
  <2> QED BY <2>1, <2>3, OutcomeIsFinal
<1>10. Terminal(last) <=> Terminal(st.conds) \/ finished \/ failing
  <2>1. Terminal(running) <=> Terminal(st.conds)
    BY <1>2, <1>3, SetConditionTerminal
  <2>2. Terminal(ended) <=> Terminal(running) \/ finished
    BY <1>2, <1>4, SetConditionTerminal
  <2>3. Terminal(last) <=> Terminal(ended) \/ failing
    BY <1>2, <1>5, SetConditionTerminal
  <2> QED BY <2>1, <2>2, <2>3
<1>11. Exclusive(st.conds) => Exclusive(last)
  <2>1. SUFFICES ASSUME Exclusive(st.conds) PROVE Exclusive(last)
    OBVIOUS
  <2>2. Exclusive(running)
    BY <1>2, <1>3, <2>1, SetConditionExclusive
  <2>3. Exclusive(ended)
    BY <1>2, <1>4, <2>2, SetConditionExclusive
  <2> QED BY <1>2, <1>5, <2>3, SetConditionExclusive
<1>12. Consistent(st) => Consistent(new)
  BY <1>8, <1>10, <1>11 DEF Consistent
<1> QED BY <1>7, <1>8, <1>9, <1>12

\* A limit fails the job, unless it has an outcome.
LEMMA FailStatus ==
    ASSUME NEW rtypes, NEW st \in StatusOver(rtypes)
    PROVE  /\ failStatus(st) \in StatusOver(rtypes)
           /\ Terminal(failStatus(st).conds)
           /\ Consistent(st) => Consistent(failStatus(st))
<1>1. "Failed" \in CondTypes /\ st.conds \in Conditions
  BY DEF CondTypes, StatusOver
<1>2. setCondition(st.conds, "Failed") \in Conditions
  BY <1>1, SetConditionType
<1>3. Terminal(setCondition(st.conds, "Failed"))
  BY <1>1, SetConditionTerminal
<1>4. Exclusive(st.conds) => Exclusive(setCondition(st.conds, "Failed"))
  BY <1>1, SetConditionExclusive
<1>5. /\ failStatus(st) \in StatusOver(rtypes)
      /\ failStatus(st).conds = setCondition(st.conds, "Failed")
      /\ failStatus(st).completed = TRUE
  BY <1>2 DEF failStatus, StatusOver
<1> QED BY <1>3, <1>4, <1>5 DEF Consistent

\* The counts of a finished job are folded, its conditions stay.
LEMMA FoldActive ==
    ASSUME NEW rtypes, NEW st \in StatusOver(rtypes)
    PROVE  /\ foldActive(st) \in StatusOver(rtypes)
           /\ foldActive(st).conds = st.conds
           /\ Consistent(st) => Consistent(foldActive(st))
<1> DEFINE Counts == [active : Nat, succeeded : Nat, failed : Nat]
           folded == [rt \in DOMAIN st.replicas |-> Folded(st.replicas[rt])]
<1>1. st.replicas \in [rtypes -> Counts]
  BY DEF StatusOver
<1>2. ASSUME NEW rs \in Counts PROVE Folded(rs) \in Counts
  BY <1>2 DEF Folded
<1>3. folded \in [rtypes -> Counts]
  BY <1>1, <1>2
<1>4. foldActive(st) = IF isSucceeded(st.conds) THEN [st EXCEPT !.replicas = folded]
                       ELSE st
  BY DEF foldActive
<1>5. /\ foldActive(st) \in StatusOver(rtypes)
      /\ foldActive(st).conds = st.conds
      /\ foldActive(st).completed = st.completed
  BY <1>3, <1>4 DEF StatusOver
<1> QED BY <1>5 DEF Consistent

\* A job that is accepted is only that.
LEMMA AcceptedConditions ==
    ASSUME NEW conds \in Conditions
    PROVE  LET new == setCondition(conds, "Created") IN
           /\ new \in Conditions
           /\ Terminal(new) <=> Terminal(conds)
           /\ Exclusive(conds) => Exclusive(new)
<1>1. "Created" \in CondTypes
  BY DEF CondTypes
<1> QED BY <1>1, SetConditionType, SetConditionTerminal, SetConditionExclusive
=============================================================================
