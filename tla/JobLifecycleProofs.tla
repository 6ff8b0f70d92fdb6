------------------------- MODULE JobLifecycleProofs -------------------------
(***************************************************************************)
(* PyTorchController implements JobLifecycle: every step of the system is  *)
(* a step of the stored status's life, or leaves it as it is.              *)
(***************************************************************************)
EXTENDS PyTorchControllerProofs, WellFoundedInduction, SequenceTheorems

-----------------------------------------------------------------------------
(* Sums over finite sets. *)

\* Every set of natural numbers has a least one.
LEMMA LeastNatural ==
    ASSUME NEW T \in SUBSET Nat, T # {}
    PROVE  \E m \in T : \A k \in T : m <= k
<1> DEFINE R == OpToRel(<, Nat)
<1>1. R = {ss \in Nat \X Nat : ss[1] < ss[2]}
  BY DEF OpToRel
<1>2. IsWellFoundedOn(R, Nat)
  BY NatLessThanWellFounded
<1>3. PICK m \in T : \A k \in T : ~(<<k, m>> \in R)
  <2> HIDE DEF R
  <2> QED BY <1>2, WFMin
<1>4. \A k \in T : ~(k < m)
  BY <1>1, <1>3
<1> QED BY <1>4

\* h adds to the value of an element that of the rest.
AddsUp(h, f, S) ==
    /\ h \in [SUBSET S -> Int]
    /\ h[{}] = 0
    /\ \A s \in SUBSET S : \A x \in s : h[s] = f[x] + h[s \ {x}]

\* The sum of f over S is what any such function computes.
LEMMA SumValue ==
    ASSUME NEW f, NEW S, NEW h, IsFiniteSet(S), AddsUp(h, f, S)
    PROVE  SumFunctionOnSet(f, S) = h[S]
<1> DEFINE some(s) == CHOOSE x \in s : TRUE
           add(g) == [s \in SUBSET S |-> IF s = {} THEN 0 ELSE f[some(s)] + g[s \ {some(s)}]]
           sum == CHOOSE g : g = add(g)
<1>1. SumFunctionOnSet(f, S) = sum[S]
  BY Zenon DEF SumFunctionOnSet, FoldFunctionOnSet, MapThenFoldSet
<1>2. h = add(h)
  <2>1. ASSUME NEW s \in SUBSET S PROVE h[s] = add(h)[s]
    <3>1. CASE s = {}
      BY <3>1 DEF AddsUp
    <3>2. CASE s # {}
      <4>1. some(s) \in s
        BY <3>2
      <4> HIDE DEF some
      <4> QED BY <3>2, <4>1 DEF AddsUp
    <3> QED BY <3>1, <3>2
  <2>2. h = [s \in SUBSET S |-> h[s]]
    BY DEF AddsUp
  <2> QED BY <2>1, <2>2
<1>3. sum = add(sum)
  <2> HIDE DEF add
  <2> QED BY <1>2
<1> HIDE DEF sum
<1>4. \A s \in SUBSET S : sum[s] = IF s = {} THEN 0 ELSE f[some(s)] + sum[s \ {some(s)}]
  BY <1>3
<1>5. \A s \in SUBSET S : IsFiniteSet(s) /\ Cardinality(s) \in Nat
  BY FS_Subset, FS_CardinalityType
<1>6. ASSUME NEW bad \in SUBSET S, sum[bad] # h[bad] PROVE FALSE
  <2> DEFINE Bad == {s \in SUBSET S : sum[s] # h[s]}
             Sizes == {Cardinality(s) : s \in Bad}
  <2>1. Sizes \in SUBSET Nat /\ Sizes # {}
    BY <1>5, <1>6
  <2>2. PICK m \in Sizes : \A k \in Sizes : m <= k
    <3> HIDE DEF Sizes
    <3> QED BY <2>1, LeastNatural
  <2>3. PICK s \in Bad : Cardinality(s) = m
    BY <2>2
  <2>4. s # {}
    BY <1>4, <2>3 DEF AddsUp
  <2> DEFINE x == some(s)
             rest == s \ {x}
  <2>5. x \in s
    BY <2>4
  <2>6. /\ rest \in SUBSET S
        /\ sum[s] = f[x] + sum[rest]
        /\ h[s] = f[x] + h[rest]
    <3>1. s \in SUBSET S /\ rest \in SUBSET S
      BY <2>3
    <3>2. sum[s] = f[x] + sum[rest]
      BY <1>4, <2>4, <3>1
    <3>3. h[s] = f[x] + h[rest]
      <4> HIDE DEF x
      <4> QED BY <2>5, <3>1 DEF AddsUp
    <3> QED BY <3>1, <3>2, <3>3
  <2>7. Cardinality(rest) = m - 1
    <3>1. IsFiniteSet(s)
      BY <1>5
    <3> HIDE DEF x
    <3> QED BY <2>3, <2>5, <3>1, FS_RemoveElement
  <2>8. m \in Nat /\ ~(m <= m - 1)
    BY <2>1, <2>2
  <2>9. rest \notin Bad
    BY <2>2, <2>7, <2>8
  <2>10. sum[rest] = h[rest]
    BY <2>6, <2>9
  <2> QED BY <2>3, <2>6, <2>10
<1> QED BY <1>1, <1>6

\* A sum of zeros is zero.
LEMMA SumOfZeros ==
    ASSUME NEW f, NEW S, IsFiniteSet(S), \A x \in S : f[x] = 0
    PROVE  SumFunctionOnSet(f, S) = 0
<1> DEFINE h == [s \in SUBSET S |-> 0]
<1>1. h \in [SUBSET S -> Int] /\ h[{}] = 0 /\ h[S] = 0
  OBVIOUS
<1>2. \A s \in SUBSET S : \A x \in s : h[s] = f[x] + h[s \ {x}]
  <2>1. ASSUME NEW s \in SUBSET S, NEW x \in s PROVE h[s] = f[x] + h[s \ {x}]
    <3>1. f[x] = 0 /\ s \ {x} \in SUBSET S
      OBVIOUS
    <3> QED BY <3>1
  <2> QED BY <2>1
<1>3. AddsUp(h, f, S)
  BY <1>1, <1>2 DEF AddsUp
<1> HIDE DEF h
<1>4. SumFunctionOnSet(f, S) = h[S]
  BY <1>3, SumValue
<1> QED BY <1>1, <1>4

\* A sum of natural numbers over at most two replica types is one.
LEMMA SumOfTypes ==
    ASSUME NEW f, NEW S, S \subseteq {"Master", "Worker"}, \A rt \in S : f[rt] \in Nat
    PROVE  SumFunctionOnSet(f, S) \in Nat
<1> DEFINE value(s, rt) == IF rt \in s THEN f[rt] ELSE 0
           h == [s \in SUBSET S |-> value(s, "Master") + value(s, "Worker")]
<1>1. \A s \in SUBSET S : value(s, "Master") \in Nat /\ value(s, "Worker") \in Nat
  OBVIOUS
<1>2. h \in [SUBSET S -> Int] /\ h[{}] = 0 /\ h[S] \in Nat
  BY <1>1
<1>3. ASSUME NEW s \in SUBSET S, NEW x \in s
      PROVE  h[s] = f[x] + h[s \ {x}]
  <2>1. s \ {x} \in SUBSET S /\ f[x] \in Nat
    BY <1>3
  <2>2. CASE x = "Master"
    <3>1. /\ value(s, "Master") = f[x] /\ value(s \ {x}, "Master") = 0
          /\ value(s \ {x}, "Worker") = value(s, "Worker")
      BY <1>3, <2>2
    <3> QED BY <1>1, <2>1, <3>1
  <2>3. CASE x = "Worker"
    <3>1. /\ value(s, "Worker") = f[x] /\ value(s \ {x}, "Worker") = 0
          /\ value(s \ {x}, "Master") = value(s, "Master")
      BY <1>3, <2>3
    <3> QED BY <1>1, <2>1, <3>1
  <2> QED BY <2>2, <2>3
<1>4. IsFiniteSet(S)
  <2>1. IsFiniteSet({"Master"}) /\ IsFiniteSet({"Worker"})
    BY FS_Singleton
  <2>2. IsFiniteSet({"Master"} \cup {"Worker"}) /\ S \subseteq {"Master"} \cup {"Worker"}
    BY <2>1, FS_Union
  <2> QED BY <2>2, FS_Subset
<1> HIDE DEF h
<1>5. AddsUp(h, f, S)
  BY <1>2, <1>3 DEF AddsUp
<1>6. SumFunctionOnSet(f, S) = h[S]
  BY <1>4, <1>5, SumValue
<1> QED BY <1>2, <1>6

\* ... so the sum over all replica types of a job is one.
LEMMA SumOverTypes ==
    ASSUME NEW f, DOMAIN f = Rtypes, \A rt \in Rtypes : f[rt] \in Nat
    PROVE  SumFunction(f) \in Nat
<1>1. Rtypes \subseteq {"Master", "Worker"}
  BY DEF Rtypes
<1>2. SumFunctionOnSet(f, Rtypes) \in Nat
  BY <1>1, SumOfTypes
<1> QED BY <1>2 DEF SumFunction

-----------------------------------------------------------------------------
(* What a status may become. *)

Started(conds) == hasCondition(conds, "Running") \/ hasCondition(conds, "Restarting")

\* d may take the place of the conditions c: an outcome that c has not needs its
\* cause, one that c has stays, and what c started stays started or ends.
Progress(c, d, finished, broken) ==
    /\ isSucceeded(d) => isSucceeded(c) \/ (~Terminal(c) /\ finished)
    /\ isFailed(d) => isFailed(c) \/ (~Terminal(c) /\ broken)
    /\ Terminal(c) => (isSucceeded(d) <=> isSucceeded(c)) /\ (isFailed(d) <=> isFailed(c))
    /\ Started(c) => Started(d) \/ Terminal(d)

\* Conditions may stay as they are, and a cause once there stays.
LEMMA ProgressStays ==
    ASSUME NEW c, NEW d, NEW f, NEW b, NEW g, NEW e, f => g, b => e
    PROVE  Progress(c, c, f, b) /\ (Progress(c, d, f, b) => Progress(c, d, g, e))
BY DEF Progress, Terminal

\* What setCondition makes of the conditions of an open job.
LEMMA SetConditionMakes ==
    ASSUME NEW d \in Conditions, NEW t \in CondTypes, ~Terminal(d)
    PROVE  LET new == setCondition(d, t) IN
           /\ isSucceeded(new) => t = "Succeeded"
           /\ isFailed(new) => t = "Failed"
           /\ Started(d) => Started(new) \/ Terminal(new)
<1>1. CASE hasCondition(d, t)
  BY <1>1 DEF setCondition, Terminal
<1>2. CASE ~hasCondition(d, t)
  <2> DEFINE new == setCondition(d, t)
  <2>1. new = [filterOutCondition(d, t) EXCEPT ![t] = "True"]
    BY <1>2 DEF setCondition
  <2>2. \A u \in CondTypes : new[u] = IF u = t THEN "True" ELSE filterOutCondition(d, t)[u]
    BY <2>1 DEF filterOutCondition
  <2> HIDE DEF new
  <2>3. ~hasCondition(d, "Succeeded") /\ ~hasCondition(d, "Failed")
    BY DEF Terminal, isSucceeded, isFailed
  <2>4. \A u \in CondTypes : hasCondition(new, u) => u = t \/ hasCondition(d, u)
    <3> SUFFICES ASSUME NEW u \in CondTypes, u # t, new[u] = "True" PROVE d[u] = "True"
      BY DEF hasCondition
    <3>1. filterOutCondition(d, t)[u] = "True"
      BY <2>2
    <3> QED BY <3>1 DEF filterOutCondition
  <2>5. hasCondition(new, t)
    BY <2>2 DEF hasCondition
  <2>6. isSucceeded(new) => t = "Succeeded"
    BY <2>3, <2>4 DEF isSucceeded, CondTypes
  <2>7. isFailed(new) => t = "Failed"
    BY <2>3, <2>4 DEF isFailed, CondTypes
  <2>8. Started(d) => Started(new) \/ Terminal(new)
    <3>1. CASE t = "Created"
      <4>1. \A u \in {"Running", "Restarting"} : new[u] = d[u]
        BY <2>2, <3>1 DEF filterOutCondition, CondTypes
      <4> QED BY <4>1 DEF Started, hasCondition
    <3>2. CASE t # "Created"
      BY <2>5, <3>2 DEF Started, Terminal, isSucceeded, isFailed, CondTypes
    <3> QED BY <3>1, <3>2
  <2> QED BY <2>6, <2>7, <2>8 DEF new
<1> QED BY <1>1, <1>2

\* Every condition that is set on an open job is progress, if an outcome has its cause.
LEMMA SetConditionProgress ==
    ASSUME NEW c, NEW d \in Conditions, NEW t \in CondTypes, NEW f, NEW b,
           Progress(c, d, f, b), t = "Succeeded" => f, t = "Failed" => b
    PROVE  Progress(c, setCondition(d, t), f, b)
<1>1. CASE Terminal(d)
  BY <1>1, OutcomeIsFinal
<1>2. CASE ~Terminal(d)
  <2> DEFINE new == setCondition(d, t)
  <2>1. /\ isSucceeded(new) => t = "Succeeded"
        /\ isFailed(new) => t = "Failed"
        /\ Started(d) => Started(new) \/ Terminal(new)
    BY <1>2, SetConditionMakes
  <2>2. ~Terminal(c) /\ ~isSucceeded(c) /\ ~isFailed(c)
    BY <1>2 DEF Progress, Terminal
  <2> HIDE DEF new
  <2>3. Started(c) => Started(new) \/ Terminal(new)
    BY <1>2, <2>1 DEF Progress
  <2>4. Progress(c, new, f, b)
    BY <2>1, <2>2, <2>3 DEF Progress
  <2> QED BY <2>4 DEF new
<1> QED BY <1>1, <1>2

\* updateStatusSingle is progress, if its counts tell the truth.
LEMMA UpdateProgress ==
    ASSUME NEW st \in StatusType, NEW rt \in Rtypes, NEW size, NEW restart \in BOOLEAN,
           NEW c, NEW f, NEW b, Progress(c, st.conds, f, b),
           rt = "Master" /\ st.replicas[rt].succeeded = size => f,
           st.replicas[rt].failed > 0 /\ ~restart => b
    PROVE  Progress(c, updateStatusSingle(st, rt, size, restart).conds, f, b)
<1> DEFINE rs == st.replicas[rt]
           finished == rt = "Master" /\ rs.succeeded = size
           failing == rs.failed > 0 /\ ~restart
           running == IF rt = "Master" /\ rs.active > 0
                      THEN setCondition(st.conds, "Running") ELSE st.conds
           ended == IF finished THEN setCondition(running, "Succeeded") ELSE running
           conds == IF failing THEN setCondition(ended, "Failed")
                    ELSE IF rs.failed > 0 THEN setCondition(ended, "Restarting")
                    ELSE ended
<1>1. st.conds \in Conditions /\ {"Running", "Succeeded", "Failed", "Restarting"} \subseteq CondTypes
  BY DEF StatusType, StatusOver, CondTypes
<1>2. running \in Conditions /\ Progress(c, running, f, b)
  <2>1. Progress(c, setCondition(st.conds, "Running"), f, b)
    BY <1>1, SetConditionProgress
  <2>2. setCondition(st.conds, "Running") \in Conditions
    BY <1>1, SetConditionType
  <2> QED BY <1>1, <2>1, <2>2
<1>3. ended \in Conditions /\ Progress(c, ended, f, b)
  <2> HIDE DEF running
  <2>1. finished => Progress(c, setCondition(running, "Succeeded"), f, b)
    BY <1>1, <1>2, SetConditionProgress
  <2>2. setCondition(running, "Succeeded") \in Conditions
    BY <1>1, <1>2, SetConditionType
  <2> QED BY <1>2, <2>1, <2>2
<1>4. Progress(c, conds, f, b)
  <2> HIDE DEF ended
  <2>1. failing => Progress(c, setCondition(ended, "Failed"), f, b)
    BY <1>1, <1>3, SetConditionProgress
  <2>2. Progress(c, setCondition(ended, "Restarting"), f, b)
    BY <1>1, <1>3, SetConditionProgress
  <2> QED BY <1>3, <2>1, <2>2
<1>5. updateStatusSingle(st, rt, size, restart)
        = [st EXCEPT !.conds = conds, !.started = TRUE,
                     !.completed = @ \/ finished \/ failing]
  BY DEF updateStatusSingle
<1> HIDE DEF conds
<1>6. updateStatusSingle(st, rt, size, restart).conds = conds
  BY <1>5 DEF StatusType, StatusOver
<1> QED BY <1>4, <1>6

-----------------------------------------------------------------------------
(* What is known of the causes. *)

Finished == "master succeeded" \in seen

\* A version of pod r tells of nothing that has not happened.
Told(r, pod) ==
    /\ r = Master /\ pod.phase = "Succeeded" => Finished
    /\ pod.phase = "Permanent" => "pod failed" \in seen
    /\ pod.phase = "Retryable" =>
         "container failed" \in seen /\ spec.restart[r[1]] = "ExitCode"
    /\ pod.restarts # 0 =>
         "container failed" \in seen \/ "container restarted" \in seen

PodsTold ==
    /\ \A r \in Replicas : Told(r, pods[r]) /\ Told(r, cPods[r]) /\ Told(r, sPods[r])
    /\ \A i \in 1 .. Len(podEvents) : Told(podEvents[i].replica, podEvents[i].pod)

\* The last event, or else the cache, shows the job as it is stored; the cache may
\* have accepted it.
LatestKnown ==
    IF jobEvents = <<>> THEN cJob \in {job, Accepted(job)}
    ELSE jobEvents[Len(jobEvents)] = job

\* A copy that may still be written is progress over what is stored.
CopyProgresses == fresh => Progress(job.status.conds, my.conds, Finished, Broken)

\* The counts from which updateStatusSingle concludes are those of the listed pods.
CountsRead == pc = "calls" => my.replicas[cur] = ReplicaStatus(cur)

\* An unfinished job is cleaned up for a reason.
LimitsTold == pc \in {"clean", "ttl"} /\ ~Terminal(my.conds) => Broken

LifeInv == PodsTold /\ LatestKnown /\ CopyProgresses /\ CountsRead /\ LimitsTold

\* A set of pods that counts for something has a member.
LEMMA CountedExists ==
    ASSUME NEW S, Cardinality(S) # 0
    PROVE  S # {}
BY FS_EmptySet

\* A job exceeds a limit only if its deadline passed or, with a backoff limit, a
\* container failed or was restarted or a pod failed, or the limit is negative.
LEMMA LimitsHaveCauses ==
    ASSUME TypeOK, PodsTold, jobExceedsLimit
    PROVE  Broken
<1>1. spec \in SpecType /\ cPods \in PodsType /\ cJob.status \in StatusType
  BY JobSpecsAssumption DEF TypeOK, JobType
<1>2. CASE pastActiveDeadline
  BY <1>2 DEF pastActiveDeadline, Broken
<1>3. CASE spec.backoff # NoLimit /\ exceedsBackoffLimit
  <2> DEFINE F == {r \in Replicas : Failed(cPods[r])}
             failed == [rt \in Rtypes |-> cJob.status.replicas[rt].failed]
  <2>1. SumFunction(failed) \in Nat
    <3>1. DOMAIN failed = Rtypes /\ \A rt \in Rtypes : failed[rt] \in Nat
      BY <1>1 DEF StatusType, StatusOver
    <3> HIDE DEF failed
    <3> QED BY <3>1, SumOverTypes
  <2>2. Cardinality(F) > SumFunction(failed)
    BY <1>3 DEF exceedsBackoffLimit
  <2>3. Cardinality(F) # 0
    BY <2>1, <2>2
  <2>4. PICK r \in F : TRUE
    <3> HIDE DEF F
    <3> QED BY <2>3, CountedExists
  <2>5. Told(r, cPods[r]) /\ cPods[r].phase \in {"Retryable", "Permanent"}
    BY <2>4 DEF PodsTold, Failed
  <2> QED BY <1>3, <2>5 DEF Told, Broken
<1>4. CASE spec.backoff # NoLimit /\ pastBackoffLimit
  <2> DEFINE counted == {r \in Replicas : /\ spec.restart[r[1]] \in {"OnFailure", "Always"}
                                          /\ cPods[r].phase \in {"Pending", "Running"}}
             restarts == [r \in Replicas |-> cPods[r].restarts]
             result == SumFunctionOnSet(restarts, counted)
  <2>0. CASE spec.backoff < 0
    BY <1>4, <2>0 DEF Broken
  <2>1. CASE spec.backoff \in Nat
    <3>1. IF spec.backoff = 0 THEN result > 0 ELSE result >= spec.backoff
      BY <1>4 DEF pastBackoffLimit
    <3>2. result # 0
      BY <2>1, <3>1
    <3>3. PICK r \in counted : restarts[r] # 0
      <4>1. IsFiniteSet(counted)
        BY ReplicasFinite, FS_Subset
      <4> HIDE DEF counted, restarts
      <4> QED BY <3>2, <4>1, SumOfZeros
    <3>4. cPods[r].restarts # 0 /\ Told(r, cPods[r])
      BY <3>3 DEF PodsTold
    <3> QED BY <1>4, <3>4 DEF Told, Broken
  <2>2. spec.backoff \in Int
    BY <1>1, <1>4 DEF SpecType
  <2> QED BY <2>0, <2>1, <2>2
<1> QED BY <1>2, <1>3, <1>4 DEF jobExceedsLimit

\* The counts of the listed pods tell of nothing that has not happened.
LEMMA CountsHaveCauses ==
    ASSUME TypeOK, PodsTold, CountsRead, pc = "calls"
    PROVE  /\ cur = "Master" /\ my.replicas[cur].succeeded = Size(cur) => Finished
           /\ my.replicas[cur].failed > 0 /\ ~(\E r \in Of(cur) : Restarts(r)) => Broken
<1>1. my.replicas[cur] = ReplicaStatus(cur)
  BY DEF CountsRead
<1>2. ASSUME cur = "Master", my.replicas[cur].succeeded = Size(cur) PROVE Finished
  <2> DEFINE S == {r \in Of(cur) : sPods[r].phase \in {"Succeeded"}}
  <2>1. Cardinality(S) = 1
    BY <1>1, <1>2 DEF ReplicaStatus, CountIn, Size
  <2>2. PICK r \in S : TRUE
    <3> HIDE DEF S
    <3> QED BY <2>1, CountedExists
  <2>3. r = Master
    BY <1>2, <2>2 DEF Of, Replicas, Master
  <2>4. Told(r, sPods[r]) /\ sPods[r].phase = "Succeeded"
    BY <2>2 DEF PodsTold, Of
  <2> QED BY <2>3, <2>4 DEF Told
<1>3. ASSUME my.replicas[cur].failed > 0, ~(\E r \in Of(cur) : Restarts(r)) PROVE Broken
  <2> DEFINE S == {r \in Of(cur) : sPods[r].phase \in {"Retryable", "Permanent"}}
  <2>1. Cardinality(S) > 0
    BY <1>1, <1>3 DEF ReplicaStatus, CountIn
  <2>2. PICK r \in S : TRUE
    <3> HIDE DEF S
    <3> QED BY <2>1, CountedExists
  <2>3. Told(r, sPods[r]) /\ sPods[r].phase \in {"Retryable", "Permanent"} /\ ~Restarts(r)
    BY <1>3, <2>2 DEF PodsTold, Of
  <2> QED BY <2>3 DEF Told, Restarts, Broken
<1> QED BY <1>2, <1>3

-----------------------------------------------------------------------------
(* Steps. *)

\* What happened stays known; a step that writes the job tells of nothing new.
LEMMA CausesStep ==
    TypeOK /\ Next =>
      \/ seen' = seen /\ late' = late
      \/ job' = job /\ seen \subseteq seen' /\ (late => late')
<1> DEFINE P == \/ seen' = seen /\ late' = late
                \/ job' = job /\ seen \subseteq seen' /\ (late => late')
<1> SUFFICES ASSUME TypeOK, Next PROVE P
  OBVIOUS
<1>1. ASSUME NEW r \in Replicas,
             \/ PodStarts(r) \/ PodSucceeds(r) \/ ContainerCompletes(r) \/ ContainerFails(r)
             \/ PodEvicted(r) \/ UserDeletesPod(r) \/ PodRemoved(r)
      PROVE  P
  <2>1. \E pod : KubeletSets(r, pod)
    BY <1>1 DEF PodStarts, PodSucceeds, ContainerCompletes, ContainerFails,
                PodEvicted, UserDeletesPod, PodRemoved
  <2>2. job' = job /\ late' = late
    BY <2>1 DEF KubeletSets, clocks
  <2>3. seen \subseteq seen'
    <3>1. CASE ContainerFails(r)
      BY <3>1 DEF ContainerFails
    <3>2. CASE PodStarts(r) \/ PodSucceeds(r) \/ ContainerCompletes(r) \/ PodEvicted(r)
      BY <3>2 DEF PodStarts, PodSucceeds, ContainerCompletes, PodEvicted
    <3>3. CASE UserDeletesPod(r) \/ PodRemoved(r)
      BY <3>3 DEF UserDeletesPod, PodRemoved
    <3> QED BY <1>1, <3>1, <3>2, <3>3
  <2> QED BY <2>2, <2>3
<1>2. CASE UserEditsJob \/ UserDeletesJob \/ DeletingJobGoes \/ TTLPasses
  BY <1>2 DEF UserEditsJob, UserDeletesJob, DeletingJobGoes, TTLPasses, clocks, history
<1>3. CASE DeadlinePasses
  BY <1>3 DEF DeadlinePasses, api, history
<1>4. CASE Deliver \/ Timers \/ Crash
  BY <1>4 DEF Deliver, DeliverJob, DeliverPod, DeliverService, Timers, Resync,
              ExpectationExpires, Crash, Restart, clocks, history
<1>5. ASSUME NEW r \in Replicas, CleanPod(r) PROVE P
  BY <1>5 DEF CleanPod, DeletePodCall, NoCall, api, clocks
<1>6. ASSUME NEW r \in Replicas, CreatePod(r) \/ RestartPod(r) PROVE P
  BY <1>6 DEF CreatePod, RestartPod, clocks, history
<1>7. ASSUME NEW rt \in Rtypes, StartType(rt) PROVE P
  BY <1>7 DEF StartType, clocks, history
<1>8. CASE \/ JobIsGone \/ SkipSync \/ StartSync \/ CleanService \/ TTLPanics
           \/ EndCleaning \/ DeleteJob \/ EndType \/ CreateService
           \/ StatusUnchanged \/ UpdateStatus
  BY <1>8 DEF JobIsGone, SkipSync, StartSync, CleanService, TTLPanics, Restart,
              EndCleaning, DeleteJob, EndType, CreateService, StatusUnchanged,
              UpdateStatus, clocks, history
<1> QED BY <1>1, <1>2, <1>3, <1>4, <1>5, <1>6, <1>7, <1>8 DEF Next, Environment, Sync

\* ... so causes stay, and what was told stays true.
LEMMA CausesStay ==
    ASSUME TypeOK, Next
    PROVE  /\ spec' = spec
           /\ Finished => Finished'
           /\ Broken => Broken'
           /\ \A r, pod : Told(r, pod) => Told(r, pod)'
<1>1. spec' = spec /\ seen \subseteq seen' /\ (late => late')
  BY LeftStep, CausesStep
<1>2. (Finished => Finished') /\ (Broken => Broken')
  BY <1>1 DEF Finished, Broken
<1>3. \A r, pod : Told(r, pod) => Told(r, pod)'
  BY <1>1 DEF Told, Finished
<1> QED BY <1>1, <1>2, <1>3

\* A pod that was never there tells of nothing.
LEMMA NewPodTold ==
    ASSUME NEW r
    PROVE  Told(r, NoPod) /\ Told(r, NoPod)' /\ Told(r, NewPod)'
<1>1. /\ NoPod.phase = "None" /\ NewPod.phase = "Pending"
      /\ NoPod.restarts = 0 /\ NewPod.restarts = 0
  BY DEF NoPod, NewPod
<1> QED BY <1>1 DEF Told

\* What a kubelet reports of a pod has happened.
LEMMA KubeletTells ==
    ASSUME TypeOK, PodsTold, NEW r \in Replicas, KubeletChanges(r), spec' = spec,
           NEW pod, KubeletSets(r, pod)
    PROVE  Told(r, pod)'
<1>1. /\ pods[r] \in PodType /\ Told(r, pods[r])
      /\ pods[r].phase \in {"Pending", "Running"}
      /\ pods' = [pods EXCEPT ![r] = pod]
  BY DEF TypeOK, PodsType, PodsTold, KubeletChanges, PodStarts, PodSucceeds,
         ContainerCompletes, ContainerFails, PodEvicted, KubeletSets, SetPod
<1>2. \A p : KubeletSets(r, p) => p = pod
  BY <1>1 DEF KubeletSets, SetPod, TypeOK, PodsType
<1>3. \A p : KubeletSets(r, [pods[r] EXCEPT !.phase = p])
               => pod.phase = p /\ pod.restarts = pods[r].restarts
  <2> SUFFICES ASSUME NEW p, KubeletSets(r, [pods[r] EXCEPT !.phase = p])
               PROVE  pod.phase = p /\ pod.restarts = pods[r].restarts
    OBVIOUS
  <2>1. pod = [pods[r] EXCEPT !.phase = p]
    BY <1>2
  <2> QED BY <1>1, <2>1 DEF PodType
<1>4. CASE PodStarts(r)
  <2>1. pod.phase = "Running" /\ pod.restarts = pods[r].restarts /\ seen' = seen
    BY <1>3, <1>4 DEF PodStarts
  <2> QED BY <1>1, <2>1 DEF Told
<1>5. CASE PodSucceeds(r)
  <2>1. /\ pod.phase = "Succeeded" /\ pod.restarts = pods[r].restarts
        /\ seen' = IF r = Master THEN seen \cup {"master succeeded"} ELSE seen
    BY <1>3, <1>5 DEF PodSucceeds
  <2> QED BY <1>1, <2>1 DEF Told, Finished
<1>6. CASE PodEvicted(r)
  <2>1. /\ pod.phase = "Permanent" /\ pod.restarts = pods[r].restarts
        /\ seen' = seen \cup {"pod failed"}
    BY <1>3, <1>6 DEF PodEvicted
  <2> QED BY <1>1, <2>1 DEF Told
<1>7. CASE ContainerFails(r)
  <2>1. CASE spec.restart[r[1]] \in {"OnFailure", "Always"}
    <3>1. /\ KubeletSets(r, [pods[r] EXCEPT !.restarts = @ + 1])
          /\ seen' = seen \cup {"container failed"}
      BY <1>7, <2>1 DEF ContainerFails
    <3>2. pod = [pods[r] EXCEPT !.restarts = @ + 1]
      BY <1>2, <3>1
    <3>3. pod.phase = pods[r].phase
      BY <1>1, <3>2 DEF PodType
    <3> QED BY <1>1, <3>1, <3>3 DEF Told
  <2>2. CASE spec.restart[r[1]] \notin {"OnFailure", "Always"}
    <3>1. PICK phase \in IF spec.restart[r[1]] = "ExitCode"
                         THEN {"Retryable", "Permanent"} ELSE {"Permanent"} :
            /\ KubeletSets(r, [pods[r] EXCEPT !.phase = phase])
            /\ seen' = seen \cup {"container failed"}
                            \cup (IF phase = "Permanent" THEN {"pod failed"} ELSE {})
      BY <1>7, <2>2 DEF ContainerFails
    <3>2. pod.phase = phase /\ pod.restarts = pods[r].restarts
      BY <1>3, <3>1
    <3> QED BY <1>1, <3>1, <3>2 DEF Told
  <2> QED BY <2>1, <2>2
<1>8. CASE ContainerCompletes(r)
  <2>1. /\ KubeletSets(r, [pods[r] EXCEPT !.restarts = @ + 1])
        /\ seen' = seen \cup {"container restarted"}
    BY <1>8 DEF ContainerCompletes
  <2>2. pod = [pods[r] EXCEPT !.restarts = @ + 1]
    BY <1>2, <2>1
  <2>3. pod.phase = pods[r].phase
    BY <1>1, <2>2 DEF PodType
  <2> QED BY <1>1, <2>1, <2>3 DEF Told
<1> QED BY <1>4, <1>5, <1>6, <1>7, <1>8 DEF KubeletChanges

\* Whoever changes a pod, its new version tells the truth.
LEMMA ChangeTells ==
    ASSUME TypeOK, PodsTold, Next, NEW r \in Replicas, PodChanges(r)
    PROVE  \E pod : SetPod(r, pod) /\ Told(r, pod)'
<1>1. spec' = spec /\ \A p : Told(r, p) => Told(r, p)'
  BY CausesStay
<1>2. pods[r] \in PodType /\ Told(r, pods[r])
  BY DEF TypeOK, PodsType, PodsTold
<1>3. CASE KubeletChanges(r)
  <2>1. PICK pod : KubeletSets(r, pod)
    BY <1>3 DEF KubeletChanges, PodStarts, PodSucceeds, ContainerCompletes, ContainerFails,
                PodEvicted
  <2>2. Told(r, pod)'
    BY <1>1, <1>3, <2>1, KubeletTells
  <2> QED BY <2>1, <2>2 DEF KubeletSets
<1>4. CASE UserDeletesPod(r) \/ SyncDeletes(r)
  <2>1. SetPod(r, [pods[r] EXCEPT !.deleting = TRUE])
    BY <1>4 DEF UserDeletesPod, SyncDeletes, KubeletSets
  <2>2. PICK pod : pod = [pods[r] EXCEPT !.deleting = TRUE]
    OBVIOUS
  <2>3. pod.phase = pods[r].phase /\ pod.restarts = pods[r].restarts
    BY <1>2, <2>2 DEF PodType
  <2>4. Told(r, pod)
    BY <1>2, <2>3 DEF Told
  <2> QED BY <1>1, <2>1, <2>2, <2>4
<1>5. CASE PodRemoved(r)
  <2>1. SetPod(r, NoPod)
    BY <1>5 DEF PodRemoved, KubeletSets
  <2> QED BY <2>1, NewPodTold
<1>6. CASE SyncCreates(r)
  BY <1>6, NewPodTold DEF SyncCreates
<1> QED BY <1>3, <1>4, <1>5, <1>6 DEF PodChanges

\* What the API server, the caches, the streams and the lists show of pods has
\* happened.
LEMMA StepPodsTold ==
    ASSUME TypeOK, PodsTold, Next
    PROVE  PodsTold'
<1> DEFINE Stored == \A r \in Replicas : Told(r, pods[r]) /\ Told(r, cPods[r])
           Sent == \A i \in 1 .. Len(podEvents) : Told(podEvents[i].replica, podEvents[i].pod)
           Listed == \A r \in Replicas : Told(r, sPods[r])
<1>1. \A r, p : Told(r, p) => Told(r, p)'
  BY CausesStay
<1>2. /\ pods \in PodsType /\ cPods \in PodsType
      /\ podEvents \in Seq([replica : Replicas, pod : PodType])
  BY DEF TypeOK
<1>3. Stored /\ Sent /\ Listed
  BY DEF PodsTold
<1>4. Listed'
  <2>1. CASE ResetLocals
    <3>1. \A r \in Replicas : sPods'[r] = NoPod
      BY <2>1 DEF ResetLocals
    <3>2. \A r, p : p = NoPod => Told(r, p)'
      BY NewPodTold
    <3> QED BY <3>1, <3>2
  <2>2. CASE StartSync
    <3>1. sPods' = cPods
      BY <2>2 DEF StartSync, ReadCaches
    <3> QED BY <1>1, <1>3, <3>1
  <2>3. CASE sPods' = sPods
    BY <1>1, <1>3, <2>3
  <2> QED BY <2>1, <2>2, <2>3, ListedStep
<1>5. Stored' /\ Sent'
  <2>1. CASE PodsKept
    BY <1>1, <1>3, <2>1 DEF PodsKept
  <2>2. CASE DeliverPod
    <3> DEFINE e == Head(podEvents)
    <3>1. /\ podEvents # <<>> /\ podEvents' = Tail(podEvents) /\ pods' = pods
          /\ cPods' = [cPods EXCEPT ![e.replica] = e.pod]
      BY <2>2 DEF DeliverPod, api
    <3>2. Len(podEvents) > 0 /\ e = podEvents[1]
      BY <1>2, <3>1
    <3>3. Told(e.replica, e.pod)
      BY <1>2, <1>3, <3>2
    <3>4. \A r \in Replicas : cPods'[r] = cPods[r] \/ (r = e.replica /\ cPods'[r] = e.pod)
      BY <1>2, <3>1 DEF PodsType
    <3>5. \A i \in 1 .. Len(podEvents') :
             i + 1 \in 1 .. Len(podEvents) /\ podEvents'[i] = podEvents[i + 1]
      BY <1>2, <3>1, <3>2
    <3> HIDE DEF e
    <3>6. Stored'
      BY <1>1, <1>3, <3>1, <3>3, <3>4
    <3>7. Sent'
      BY <1>1, <1>3, <3>5
    <3> QED BY <3>6, <3>7
  <2>3. CASE Restart
    <3>1. pods' = pods /\ cPods' = pods /\ podEvents' = <<>>
      BY <2>3 DEF Restart, api
    <3>2. Len(podEvents') = 0
      BY <3>1
    <3>3. Stored'
      BY <1>1, <1>3, <3>1
    <3>4. Sent'
      BY <3>2
    <3> QED BY <3>3, <3>4
  <2>4. ASSUME NEW q \in Replicas, PodChanges(q) PROVE Stored' /\ Sent'
    <3>1. PICK pod : SetPod(q, pod) /\ Told(q, pod)'
      BY <2>4, ChangeTells
    <3>2. cPods' = cPods
      BY <2>4 DEF PodChanges
    <3>3. \A r \in Replicas : pods'[r] = pods[r] \/ (r = q /\ pods'[r] = pod)
      BY <1>2, <3>1 DEF SetPod, PodsType
    <3> DEFINE e == [replica |-> q, pod |-> pod]
    <3>4. podEvents' = Append(podEvents, e) /\ e.replica = q /\ e.pod = pod
      BY <3>1 DEF SetPod
    <3> HIDE DEF e
    <3>5. \A i \in 1 .. Len(podEvents') :
            podEvents'[i] = e \/ (i \in 1 .. Len(podEvents) /\ podEvents'[i] = podEvents[i])
      BY <1>2, <3>4
    <3>6. Stored'
      BY <1>1, <1>3, <3>1, <3>2, <3>3
    <3>7. Sent'
      BY <1>1, <1>3, <3>1, <3>4, <3>5
    <3> QED BY <3>6, <3>7
  <2> QED BY <2>1, <2>2, <2>3, <2>4, PodStep
<1> QED BY <1>4, <1>5 DEF PodsTold

\* The last event of the job shows what is stored.
LEMMA StepLatestKnown ==
    ASSUME TypeOK, LatestKnown, Next
    PROVE  LatestKnown'
<1>1. jobEvents \in Seq(JobType)
  BY DEF TypeOK
<1>2. CASE StoreKept
  BY <1>2 DEF StoreKept, LatestKnown, Accepted
<1>3. CASE KeepsStatus \/ UpdateStatusCall
  <2>1. jobEvents' = Append(jobEvents, job')
    BY <1>3 DEF KeepsStatus, UpdateStatusCall, SetJob
  <2>2. jobEvents' # <<>> /\ jobEvents'[Len(jobEvents')] = job'
    BY <1>1, <2>1
  <2> QED BY <2>2 DEF LatestKnown
<1>4. CASE DeliverJob
  <2>1. /\ jobEvents # <<>> /\ jobEvents' = Tail(jobEvents) /\ job' = job
        /\ cJob' = Head(jobEvents) \/ cJob' = Accepted(Head(jobEvents))
    BY <1>4 DEF DeliverJob, api
  <2>2. jobEvents[Len(jobEvents)] = job /\ Len(jobEvents) > 0
    BY <1>1, <2>1 DEF LatestKnown
  <2>3. /\ jobEvents' \in Seq(JobType) /\ Len(jobEvents') = Len(jobEvents) - 1
        /\ Head(jobEvents) = jobEvents[1]
        /\ \A i \in 1 .. Len(jobEvents') : jobEvents'[i] = jobEvents[i + 1]
    BY <1>1, <2>1, <2>2
  <2>4. Len(jobEvents) \in Nat /\ Len(<<>>) = 0
    BY <1>1
  <2>5. CASE Len(jobEvents) = 1
    <3>1. Head(jobEvents) = job
      BY <2>2, <2>3, <2>5
    <3>2. jobEvents' = <<>>
      BY <2>3, <2>5, EmptySeq
    <3> QED BY <2>1, <3>1, <3>2 DEF LatestKnown, Accepted
  <2>6. CASE Len(jobEvents) > 1
    <3>1. Len(jobEvents') \in 1 .. Len(jobEvents') /\ jobEvents' # <<>>
      BY <2>3, <2>4, <2>6
    <3>2. jobEvents'[Len(jobEvents')] = job
      BY <2>2, <2>3, <2>4, <3>1
    <3> QED BY <2>1, <3>1, <3>2 DEF LatestKnown
  <2>7. Len(jobEvents) = 1 \/ Len(jobEvents) > 1
    <3>1. \A n \in Nat : n > 0 => n = 1 \/ n > 1
      OBVIOUS
    <3> QED BY <2>2, <2>4, <3>1, Zenon
  <2> QED BY <2>5, <2>6, <2>7
<1>5. CASE Restart
  <2>1. /\ jobEvents' = <<>> /\ job' = job
        /\ cJob' = job \/ cJob' = Accepted(job)
    BY <1>5 DEF Restart, api
  <2> QED BY <2>1 DEF LatestKnown, Accepted
<1> QED BY <1>2, <1>3, <1>4, <1>5, StoreStep

\* While a sync may still write, nobody else writes the job.
LEMMA StoreWhileFresh ==
    ASSUME TypeOK, Next, fresh'
    PROVE  job' = job /\ ~ResetLocals
<1>1. ~ResetLocals
  BY DEF ResetLocals
<1>2. ~KeepsStatus /\ ~UpdateStatusCall
  BY DEF KeepsStatus, UpdateStatusCall, SetJob
<1> QED BY <1>1, <1>2, StoreStep DEF StoreKept, DeliverJob, Restart, api

\* A sync reaches the cleaning of an unfinished job only over a limit.
LEMMA StepLimitsTold ==
    ASSUME TypeOK, PodsTold, LimitsTold, Next
    PROVE  LimitsTold'
<1> SUFFICES ASSUME pc' \in {"clean", "ttl"}, ~Terminal(my'.conds) PROVE Broken'
  BY DEF LimitsTold
<1>1. CASE StartSync
  <2>1. my' = cJob.status /\ (Terminal(cJob.status.conds) \/ jobExceedsLimit)
    BY <1>1 DEF StartSync, ReadCaches
  <2>2. Broken
    BY <2>1, LimitsHaveCauses
  <2> QED BY <2>2, CausesStay
<1>2. CASE ~StartSync
  <2>1. UNCHANGED my /\ pc \in {"clean", "ttl"}
    BY <1>2, CopyStep DEF CopyKept, ResetLocals, Moves, Cleaned, StartType, EndType
  <2>2. Broken
    BY <2>1 DEF LimitsTold
  <2> QED BY <2>2, CausesStay
<1> QED BY <1>1, <1>2

\* The counts of a type come from the listed pods, and both stay to its last pod.
LEMMA StepCountsRead ==
    ASSUME TypeOK, CountsRead, Next
    PROVE  CountsRead'
<1> SUFFICES ASSUME pc' = "calls" PROVE my'.replicas[cur'] = ReplicaStatus(cur)'
  BY DEF CountsRead
<1>1. ~StartSync
  BY DEF StartSync
<1>2. ASSUME NEW rt \in Rtypes, StartType(rt)
      PROVE  my'.replicas[cur'] = ReplicaStatus(cur)'
  <2>1. /\ cur' = rt /\ sPods' = sPods
        /\ my' = [my EXCEPT !.replicas[rt] = ReplicaStatus(rt)]
    BY <1>2 DEF StartType
  <2>2. my'.replicas[rt] = ReplicaStatus(rt)
    BY <2>1 DEF TypeOK, StatusType, StatusOver
  <2>3. ReplicaStatus(cur)' = ReplicaStatus(rt)
    BY <2>1 DEF ReplicaStatus, CountIn
  <2> QED BY <2>1, <2>2, <2>3
<1>3. CASE UNCHANGED <<pc, my, cur, sPods>>
  <2>1. ReplicaStatus(cur)' = ReplicaStatus(cur)
    BY <1>3 DEF ReplicaStatus, CountIn
  <2> QED BY <1>3, <2>1 DEF CountsRead
<1> QED BY <1>1, <1>2, <1>3, ActsStep

\* A sync starts from what is stored if no newer version is on its way, and
\* gives the status only what there is a cause for.
LEMMA StepCopyProgresses ==
    ASSUME TypeOK, LifeInv, Next
    PROVE  CopyProgresses'
<1> DEFINE c == job.status.conds
<1> SUFFICES ASSUME fresh'
             PROVE  Progress(c, my'.conds, Finished', Broken')
  BY StoreWhileFresh DEF CopyProgresses
<1>1. (Finished => Finished') /\ (Broken => Broken')
  BY CausesStay
<1>2. /\ job \in JobType /\ c \in Conditions /\ my \in StatusType /\ cur \in Rtypes
      /\ my.conds \in Conditions
  BY DEF TypeOK, JobType, StatusType, StatusOver
<1> HIDE DEF c
<1>3. CASE StartSync
  <2>1. jobEvents = <<>> /\ my' = cJob.status
    BY <1>3 DEF StartSync, ReadCaches
  <2>2. cJob \in {job, Accepted(job)}
    BY <2>1, LifeInv DEF LatestKnown, LifeInv
  <2>3. Progress(c, c, Finished', Broken')
    BY ProgressStays
  <2>4. CASE cJob = job
    BY <2>1, <2>3, <2>4 DEF c
  <2>5. CASE cJob = Accepted(job)
    <3>1. my'.conds = setCondition(c, "Created")
      BY <1>2, <2>1, <2>5 DEF Accepted, JobType, StatusType, StatusOver, c
    <3>2. "Created" \in CondTypes
      BY DEF CondTypes
    <3>3. Progress(c, setCondition(c, "Created"), Finished', Broken')
      BY <1>2, <2>3, <3>2, SetConditionProgress
    <3> QED BY <3>1, <3>3
  <2> QED BY <2>2, <2>4, <2>5
<1>4. CASE ~StartSync
  <2>1. fresh /\ ~ResetLocals
    BY <1>4, StoreWhileFresh, CopyStep DEF CopyKept, Moves, StartType, EndType
  <2>2. Progress(c, my.conds, Finished, Broken)
    BY <2>1 DEF LifeInv, CopyProgresses, c
  <2>3. CASE my'.conds = my.conds
    <3>1. Progress(c, my.conds, Finished', Broken')
      BY <1>1, <2>2, ProgressStays
    <3> QED BY <2>3, <3>1
  <2>4. CASE CopyKept \/ Moves("clean", "ttl") \/ Moves("service", "types")
    BY <2>3, <2>4 DEF CopyKept, Moves
  <2>5. ASSUME NEW rt \in Rtypes, StartType(rt)
        PROVE  Progress(c, my'.conds, Finished', Broken')
    <3>1. my' = [my EXCEPT !.replicas[rt] = ReplicaStatus(rt)]
      BY <2>5 DEF StartType
    <3>2. my'.conds = my.conds
      BY <1>2, <3>1 DEF StatusType, StatusOver
    <3> QED BY <2>3, <3>2
  <2>6. CASE CleaningDone /\ Cleaned
    <3>1. CASE Terminal(my.conds)
      <4>1. my' = foldActive(my)
        BY <2>6, <3>1 DEF Cleaned, CleanedStatus
      <4>2. my'.conds = my.conds
        BY <1>2, <4>1, FoldActive DEF StatusType
      <4> QED BY <2>3, <4>2
    <3>2. CASE ~Terminal(my.conds)
      <4>1. my' = failStatus(my)
        BY <2>6, <3>2 DEF Cleaned, CleanedStatus
      <4>2. my'.conds = setCondition(my.conds, "Failed")
        BY <1>2, <4>1 DEF failStatus, StatusType, StatusOver
      <4>3. Broken
        BY <2>6, <3>2 DEF CleaningDone, LifeInv, LimitsTold
      <4>4. "Failed" \in CondTypes
        BY DEF CondTypes
      <4>5. Progress(c, my.conds, Finished', Broken') /\ Broken'
        BY <1>1, <2>2, <4>3, ProgressStays
      <4>6. Progress(c, setCondition(my.conds, "Failed"), Finished', Broken')
        BY <1>2, <4>4, <4>5, SetConditionProgress
      <4> QED BY <4>2, <4>6
    <3> QED BY <3>1, <3>2
  <2>7. CASE EndType
    <3> DEFINE restart == \E r \in Of(cur) : Restarts(r)
    <3>1. pc = "calls" /\ my' = updateStatusSingle(my, cur, Size(cur), restart)
      BY <2>7 DEF EndType
    <3>2. /\ cur = "Master" /\ my.replicas[cur].succeeded = Size(cur) => Finished
          /\ my.replicas[cur].failed > 0 /\ ~restart => Broken
      BY <3>1, CountsHaveCauses DEF LifeInv
    <3>3. restart \in BOOLEAN
      OBVIOUS
    <3> HIDE DEF restart
    <3>4. /\ cur = "Master" /\ my.replicas[cur].succeeded = Size(cur) => Finished'
          /\ my.replicas[cur].failed > 0 /\ ~restart => Broken'
      BY <1>1, <3>2
    <3>5. Progress(c, my.conds, Finished', Broken')
      BY <1>1, <2>2, ProgressStays
    <3>6. Progress(c, updateStatusSingle(my, cur, Size(cur), restart).conds, Finished', Broken')
      BY <1>2, <3>3, <3>4, <3>5, UpdateProgress
    <3> QED BY <3>1, <3>6
  <2> QED BY <1>4, <2>1, <2>4, <2>5, <2>6, <2>7, CopyStep
<1> QED BY <1>3, <1>4

\* At the start nothing is told of anything.
LEMMA InitLife == Init => LifeInv
<1> SUFFICES ASSUME Init PROVE LifeInv
  OBVIOUS
<1>1. /\ cPods = [r \in Replicas |-> NoPod] /\ pods = cPods /\ sPods = cPods
      /\ podEvents = <<>> /\ jobEvents = <<job>> /\ pc = "idle" /\ ~fresh
  BY DEF Init
<1>2. PodsTold
  <2>1. \A r \in Replicas : cPods[r] = NoPod
    BY <1>1
  <2>2. \A r : Told(r, NoPod)
    BY NewPodTold
  <2>3. Len(podEvents) = 0
    BY <1>1
  <2>4. \A i \in 1 .. Len(podEvents) : FALSE
    BY <2>3
  <2> QED BY <1>1, <2>1, <2>2, <2>4 DEF PodsTold
<1>3. LatestKnown
  <2>1. jobEvents # <<>> /\ jobEvents[Len(jobEvents)] = job
    BY <1>1
  <2> QED BY <2>1 DEF LatestKnown
<1> QED BY <1>1, <1>2, <1>3 DEF LifeInv, CopyProgresses, CountsRead, LimitsTold

\* Every step keeps what is known of the causes.
LEMMA StepLife == TypeOK /\ LifeInv /\ [Next]_vars => LifeInv'
<1>1. ASSUME TypeOK, LifeInv, Next PROVE LifeInv'
  <2>1. PodsTold' /\ LatestKnown' /\ CountsRead' /\ LimitsTold'
    BY <1>1, StepPodsTold, StepLatestKnown, StepCountsRead, StepLimitsTold DEF LifeInv
  <2>2. CopyProgresses'
    BY <1>1, StepCopyProgresses
  <2> QED BY <2>1, <2>2 DEF LifeInv
<1>2. ASSUME LifeInv, UNCHANGED vars PROVE LifeInv'
  BY <1>2 DEF LifeInv, PodsTold, Told, LatestKnown, Accepted, CopyProgresses, CountsRead,
              ReplicaStatus, CountIn, LimitsTold, Finished, Broken, vars, api, streams,
              caches, locals, clocks, history
<1> QED BY <1>1, <1>2

-----------------------------------------------------------------------------
(* The refinement. *)

\* A new job starts its life.
LEMMA InitMaps == Init => Lifecycle!Init
<1> SUFFICES ASSUME Init PROVE Lifecycle!Init
  OBVIOUS
<1>1. /\ job.state = "live" /\ job.status = NewStatus(Rtypes)
      /\ seen = {} /\ late = FALSE
  BY DEF Init
<1>2. \A t \in CondTypes : ~hasCondition(job.status.conds, t)
  BY <1>1 DEF NewStatus, hasCondition
<1>3. Phase = "New"
  BY <1>1, <1>2 DEF Phase, isSucceeded, isFailed, CondTypes
<1>4. ("master succeeded" \in seen) = FALSE /\ Broken \in BOOLEAN
  BY <1>1 DEF Broken
<1> QED BY <1>3, <1>4 DEF Lifecycle!Init

\* Phase of a job that is there.
PhaseOf(c) ==
    IF isSucceeded(c) THEN "Succeeded"
    ELSE IF isFailed(c) THEN "Failed"
    ELSE IF hasCondition(c, "Running") THEN "Running"
    ELSE IF hasCondition(c, "Restarting") THEN "Restarting"
    ELSE "New"

\* A write of the status moves the phase on only as the life of a job allows.
LEMMA WriteMaps ==
    ASSUME NEW c, NEW d, Progress(c, d, Finished, Broken),
           NEW p, NEW q, p = PhaseOf(c), q = PhaseOf(d)
    PROVE  \/ q = p
           \/ /\ p \in {"New", "Running", "Restarting"}
              /\ \/ q \in {"Running", "Restarting"}
                 \/ q = "Succeeded" /\ Finished
                 \/ q = "Failed" /\ Broken
<1>1. CASE Terminal(c)
  BY <1>1 DEF Progress, Terminal, PhaseOf
<1>2. CASE ~Terminal(c)
  <2>1. p \in {"New", "Running", "Restarting"} /\ (p # "New" => Started(c))
    BY <1>2 DEF Terminal, Started, PhaseOf
  <2>2. CASE isSucceeded(d)
    BY <1>2, <2>1, <2>2 DEF Progress, Terminal, PhaseOf
  <2>3. CASE isFailed(d) /\ ~isSucceeded(d)
    BY <1>2, <2>1, <2>3 DEF Progress, Terminal, PhaseOf
  <2>4. CASE ~isFailed(d) /\ ~isSucceeded(d)
    <3>1. p # "New" => q \in {"Running", "Restarting"}
      BY <2>1, <2>4 DEF Progress, Terminal, Started, PhaseOf
    <3>2. q \in {"Running", "Restarting", "New"}
      BY <2>4 DEF PhaseOf
    <3> QED BY <2>1, <3>1, <3>2
  <2> QED BY <2>2, <2>3, <2>4
<1> QED BY <1>1, <1>2

\* Every step of the system is a step in the life of the job, or shows nothing of it.
LEMMA StepMaps ==
    ASSUME TypeOK, LifeInv, Next
    PROVE  [Lifecycle!Next]_(Lifecycle!vars)
<1> DEFINE f == "master succeeded" \in seen
<1>1. job \in JobType /\ my \in StatusType
  BY DEF TypeOK
<1>2. spec' = spec /\ (f => f') /\ (Broken => Broken')
  <2>1. seen \subseteq seen'
    BY CausesStep
  <2> QED BY <2>1, CausesStay
<1>3. f \in BOOLEAN /\ f' \in BOOLEAN /\ Broken \in BOOLEAN /\ Broken' \in BOOLEAN
  BY DEF Broken
<1>4. CASE job' = job
  <2>1. Phase' = Phase
    BY <1>4 DEF Phase
  <2>2. CASE Broken' = Broken /\ f' = f
    BY <2>1, <2>2 DEF Lifecycle!vars
  <2>3. CASE Broken' = Broken /\ f' # f
    <3>1. f' = TRUE
      BY <1>2, <1>3, <2>3
    <3> QED BY <2>1, <2>3, <3>1 DEF Lifecycle!Next, Lifecycle!MasterFinishes
  <2>4. CASE Broken' # Broken
    <3>1. Broken' = TRUE /\ f' \in {f, TRUE}
      BY <1>2, <1>3, <2>4
    <3> QED BY <2>1, <3>1 DEF Lifecycle!Next, Lifecycle!Breaks
  <2> QED BY <2>2, <2>3, <2>4
<1>5. CASE job' # job
  <2>1. f' = f /\ Broken' = Broken
    BY <1>2, <1>5, CausesStep DEF Broken
  <2>2. KeepsStatus \/ UpdateStatusCall
    BY <1>5, StoreStep DEF StoreKept, DeliverJob, Restart, api
  <2>3. job.state = "gone" => job'.state = "gone"
    BY StateStep DEF UserDeletesJob, DeletingJobGoes
  <2>4. CASE job.state = "gone"
    <3>1. Phase = "Gone" /\ Phase' = "Gone"
      BY <2>3, <2>4 DEF Phase
    <3> QED BY <2>1, <3>1 DEF Lifecycle!vars
  <2>5. CASE job.state # "gone" /\ job'.state = "gone"
    <3>1. Phase # "Gone" /\ Phase' = "Gone"
      BY <2>5 DEF Phase
    <3> QED BY <2>1, <3>1 DEF Lifecycle!Next, Lifecycle!Goes
  <2>6. CASE job.state # "gone" /\ job'.state # "gone" /\ KeepsStatus
    <3>1. job'.status = job.status
      BY <2>6 DEF KeepsStatus, SetJob
    <3>2. Phase' = Phase
      BY <2>6, <3>1 DEF Phase
    <3> QED BY <2>1, <3>2 DEF Lifecycle!vars
  <2>7. CASE job.state # "gone" /\ job'.state # "gone" /\ UpdateStatusCall
    <3>1. job'.status = my
      BY <1>1, <2>7 DEF UpdateStatusCall, SetJob, JobType
    <3>2. Progress(job.status.conds, my.conds, Finished, Broken)
      BY <2>7 DEF UpdateStatusCall, LifeInv, CopyProgresses
    <3>3. PICK p, q : p = Phase /\ q = Phase'
      OBVIOUS
    <3>4. /\ p = PhaseOf(job.status.conds) /\ q = PhaseOf(my.conds)
      BY <2>7, <3>1, <3>3 DEF Phase, PhaseOf
    <3>5. \/ q = p
          \/ /\ p \in {"New", "Running", "Restarting"}
             /\ \/ q \in {"Running", "Restarting"}
                \/ q = "Succeeded" /\ Finished
                \/ q = "Failed" /\ Broken
      BY <3>2, <3>4, WriteMaps
    <3>6. CASE q = p
      BY <2>1, <3>3, <3>6 DEF Lifecycle!vars
    <3>7. CASE p \in {"New", "Running", "Restarting"} /\ q \in {"Running", "Restarting"}
      BY <2>1, <3>3, <3>7 DEF Lifecycle!Next, Lifecycle!Trains, Lifecycle!Open
    <3>8. CASE p \in {"New", "Running", "Restarting"} /\ q = "Succeeded" /\ Finished
      BY <2>1, <3>3, <3>8 DEF Lifecycle!Next, Lifecycle!Succeeds, Lifecycle!Open, Finished
    <3>9. CASE p \in {"New", "Running", "Restarting"} /\ q = "Failed" /\ Broken
      BY <2>1, <3>3, <3>9 DEF Lifecycle!Next, Lifecycle!Fails, Lifecycle!Open
    <3> QED BY <3>5, <3>6, <3>7, <3>8, <3>9
  <2> QED BY <2>2, <2>4, <2>5, <2>6, <2>7
<1> QED BY <1>4, <1>5

\* What a user reads of a job is its life: it starts, ends once, and only for a
\* reason, although syncs fail half-way, work on old versions and are lost in
\* crashes, and although users edit and delete what the controller works on.
THEOREM LifecycleImplemented == Safety => LifecycleSpec
<1>1. IInv => TypeOK
  BY DEF IInv
<1>2. IInv /\ LifeInv /\ [Next]_vars => [Lifecycle!Next]_(Lifecycle!vars)
  <2>1. UNCHANGED vars => UNCHANGED Lifecycle!vars
    BY DEF Lifecycle!vars, Phase, Broken, vars, api, clocks, history
  <2> QED BY <1>1, <2>1, StepMaps
<1> QED BY <1>1, <1>2, InitLife, InitMaps, StepLife, Invariance, PTL
        DEF Safety, LifecycleSpec, Lifecycle!Spec

-----------------------------------------------------------------------------
(* What a life promises, and so what the stored status does. *)

\* A phase that ends a life has its cause.
OutcomesCaused ==
    /\ Phase = "Succeeded" => "master succeeded" \in seen
    /\ Phase = "Failed" => Broken

\* A life that ended well or badly stays so until the job is deleted, and a life
\* that began does not begin again.
PhasesInOrder ==
    [][/\ Phase \in {"Succeeded", "Failed"} => Phase' \in {Phase, "Gone"}
       /\ Phase # "New" => Phase' # "New"
       /\ Phase = "Gone" => Phase' = "Gone"]_vars

\* No job is stored as succeeded before the container of its master was, and none
\* as failed without a pod that failed for good, a deadline that passed or, under a
\* backoff limit, a container that failed, a container that completed and was
\* restarted, or a limit that is negative from the start: UpdateStatus never tells
\* a user of an end for which there is nothing in the job's life or its spec.
THEOREM OutcomesHaveCauses == Safety => []OutcomesCaused
<1>1. Lifecycle!Init => OutcomesCaused
  BY DEF Lifecycle!Init, OutcomesCaused
<1>2. OutcomesCaused /\ [Lifecycle!Next]_(Lifecycle!vars) => OutcomesCaused'
  <2>1. ASSUME OutcomesCaused, Lifecycle!MasterFinishes \/ Lifecycle!Breaks
        PROVE  OutcomesCaused'
    BY <2>1 DEF OutcomesCaused, Lifecycle!MasterFinishes, Lifecycle!Breaks
  <2>2. ASSUME OutcomesCaused,
               \/ Lifecycle!Trains \/ Lifecycle!Succeeds \/ Lifecycle!Fails
               \/ Lifecycle!Goes
        PROVE  OutcomesCaused'
    BY <2>2 DEF OutcomesCaused, Lifecycle!Trains, Lifecycle!Succeeds, Lifecycle!Fails,
                Lifecycle!Goes
  <2>3. ASSUME OutcomesCaused, UNCHANGED Lifecycle!vars PROVE OutcomesCaused'
    BY <2>3 DEF OutcomesCaused, Lifecycle!vars
  <2> QED BY <2>1, <2>2, <2>3 DEF Lifecycle!Next
<1> QED BY <1>1, <1>2, LifecycleImplemented, PTL DEF LifecycleSpec, Lifecycle!Spec

\* An outcome that users have read is never taken back, and what they have seen to
\* run never looks new again, although syncs work on old copies of the job.
THEOREM PhasesAreInOrder == Safety => PhasesInOrder
<1> DEFINE A == /\ Phase \in {"Succeeded", "Failed"} => Phase' \in {Phase, "Gone"}
                /\ Phase # "New" => Phase' # "New"
                /\ Phase = "Gone" => Phase' = "Gone"
<1>1. [Lifecycle!Next]_(Lifecycle!vars) => A
  <2>1. Lifecycle!MasterFinishes \/ Lifecycle!Breaks \/ UNCHANGED Lifecycle!vars => A
    BY DEF Lifecycle!MasterFinishes, Lifecycle!Breaks, Lifecycle!vars
  <2>2. Lifecycle!Trains \/ Lifecycle!Succeeds \/ Lifecycle!Fails \/ Lifecycle!Goes => A
    BY DEF Lifecycle!Trains, Lifecycle!Succeeds, Lifecycle!Fails, Lifecycle!Goes,
           Lifecycle!Open
  <2> QED BY <2>1, <2>2 DEF Lifecycle!Next
<1>2. LifecycleSpec => [][A]_vars
  BY <1>1, PTL DEF LifecycleSpec, Lifecycle!Spec
<1> QED BY <1>2, LifecycleImplemented, PTL DEF PhasesInOrder
=============================================================================
