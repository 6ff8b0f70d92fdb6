---------------------- MODULE PyTorchControllerTypes ----------------------
(***************************************************************************)
(* Type correctness of PyTorchController for any number of workers, any    *)
(* job specifications, any lag of the watches and any budget of mishaps.   *)
(* TypeOK is inductive; it is proved part by part, one lemma per action.   *)
(***************************************************************************)
EXTENDS PyTorchController, JobConditionsProofs, FiniteSetTheorems, TLAPS

-----------------------------------------------------------------------------
(* The constants, and the parts of the state. *)

\* A job has finitely many replicas.
LEMMA ReplicasFinite == IsFiniteSet(Replicas)
<1> DEFINE I == 0 .. NumWorkers - 1
           f == [i \in I |-> <<"Worker", i>>]
           W == {<<"Worker", i>> : i \in I}
<1>1. IsFiniteSet(I)
  BY NumWorkersAssumption, FS_Interval
<1>2. f \in Surjection(I, W)
  BY DEF Surjection
<1>3. IsFiniteSet(W)
  BY <1>1, <1>2, FS_Surjection
<1>4. IsFiniteSet({<<"Master", 0>>})
  BY FS_Singleton
<1> QED BY <1>3, <1>4, FS_Union DEF Replicas

\* Every job has a master.
LEMMA RtypesHasMaster == "Master" \in Rtypes /\ Master \in Replicas
BY DEF Rtypes, Master, Replicas

\* What kubelets and calls make of a pod is a pod.
LEMMA PodValues ==
    /\ NoPod \in PodType /\ NewPod \in PodType
    /\ \A pod \in PodType, p \in Phases : [pod EXCEPT !.phase = p] \in PodType
    /\ \A pod \in PodType : /\ [pod EXCEPT !.deleting = TRUE] \in PodType
                            /\ [pod EXCEPT !.restarts = @ + 1] \in PodType
<1>1. NoPod \in PodType /\ NewPod \in PodType
  BY DEF NoPod, NewPod, PodType, Phases
<1>2. ASSUME NEW pod \in PodType
      PROVE  /\ \A p \in Phases : [pod EXCEPT !.phase = p] \in PodType
             /\ [pod EXCEPT !.deleting = TRUE] \in PodType
             /\ [pod EXCEPT !.restarts = @ + 1] \in PodType
  <2>1. \A p \in Phases : [pod EXCEPT !.phase = p] \in PodType
    BY DEF PodType
  <2>2. [pod EXCEPT !.deleting = TRUE] \in PodType
    BY DEF PodType
  <2>3. pod.restarts + 1 \in Nat
    BY DEF PodType
  <2>4. [pod EXCEPT !.restarts = pod.restarts + 1] \in PodType
    BY <2>3 DEF PodType
  <2> QED BY <2>1, <2>2, <2>4
<1> QED BY <1>1, <1>2

\* Counting the pods of a type gives numbers.
LEMMA ReplicaStatusType ==
    ASSUME NEW rt \in Rtypes
    PROVE  ReplicaStatus(rt) \in [active : Nat, succeeded : Nat, failed : Nat]
<1>1. ASSUME NEW phases PROVE CountIn(rt, phases) \in Nat
  <2>1. {r \in Of(rt) : sPods[r].phase \in phases} \in SUBSET Replicas
    BY DEF Of
  <2>2. IsFiniteSet({r \in Of(rt) : sPods[r].phase \in phases})
    BY <2>1, ReplicasFinite, FS_Subset
  <2> QED BY <2>2, FS_CardinalityType DEF CountIn
<1> QED BY <1>1 DEF ReplicaStatus

-----------------------------------------------------------------------------
(* Types. *)

ApiType ==
    /\ job \in JobType
    /\ pods \in PodsType
    /\ svc \in BOOLEAN
StreamsType ==
    /\ jobEvents \in Seq(JobType)
    /\ podEvents \in Seq([replica : Replicas, pod : PodType])
    /\ svcEvents \in Seq(BOOLEAN)
CachesType ==
    /\ cJob \in JobType
    /\ cPods \in PodsType
    /\ cSvc \in BOOLEAN
QueueType == queued \in BOOLEAN /\ requeues \in 0 .. MaxRequeues
LocalsType ==
    /\ my \in StatusType /\ old \in StatusType
    /\ sPods \in PodsType /\ sSvc \in BOOLEAN
    /\ todo \subseteq Rtypes /\ cur \in Rtypes /\ acts \subseteq Replicas
WorkerType ==
    /\ LocalsType
    /\ fresh \in BOOLEAN
    /\ pc \in {"idle", "clean", "ttl", "types", "calls", "service"}
RestType ==
    /\ spec \in JobSpecs
    /\ expecting \subseteq ExpectationKeys
    /\ late \in BOOLEAN /\ expired \in BOOLEAN
    /\ left \in [Mishaps -> Nat]
    /\ seen \subseteq Facts /\ retries \in Nat

\* The parts into which the proofs split the type invariant.
LEMMA TypeParts ==
    TypeOK <=> /\ ApiType /\ StreamsType /\ CachesType /\ QueueType
               /\ WorkerType /\ RestType
BY DEF TypeOK, ApiType, StreamsType, CachesType, QueueType, LocalsType,
       WorkerType, RestType

\* ... and how they are put together again after a step.
LEMMA TypePartsNext ==
    ASSUME ApiType', StreamsType', CachesType', QueueType', WorkerType', RestType'
    PROVE  TypeOK'
BY DEF TypeOK, ApiType, StreamsType, CachesType, QueueType, LocalsType,
       WorkerType, RestType

\* The initial state has its types.
LEMMA InitTypes == Init => TypeOK
<1> SUFFICES ASSUME Init PROVE TypeOK
  OBVIOUS
<1>1. NewStatus(Rtypes) \in StatusType
  BY NewStatusType DEF StatusType
<1>2. job \in JobType /\ cJob \in JobType
  BY <1>1 DEF Init, JobType, States
<1>3. pods \in PodsType /\ cPods \in PodsType /\ sPods \in PodsType
  BY PodValues DEF Init, PodsType
<1>4. jobEvents \in Seq(JobType)
  BY <1>2 DEF Init
<1>5. ApiType /\ StreamsType /\ CachesType
  <2>1. svc = FALSE /\ cSvc = FALSE /\ podEvents = <<>> /\ svcEvents = <<>>
    BY DEF Init
  <2>2. svc \in BOOLEAN /\ cSvc \in BOOLEAN
    BY <2>1
  <2>3. /\ podEvents \in Seq([replica : Replicas, pod : PodType])
        /\ svcEvents \in Seq(BOOLEAN)
    BY <2>1
  <2> QED BY <1>2, <1>3, <1>4, <2>2, <2>3 DEF ApiType, StreamsType, CachesType
<1>6. QueueType
  <2>1. queued = FALSE /\ requeues = 0
    BY DEF Init
  <2>2. requeues \in 0 .. MaxRequeues
    BY <2>1, BoundsAssumption
  <2>3. queued \in BOOLEAN
    BY <2>1
  <2> QED BY <2>2, <2>3 DEF QueueType
<1>7. WorkerType
  <2>1. /\ my = NewStatus(Rtypes) /\ old = NewStatus(Rtypes) /\ fresh = FALSE
        /\ pc = "idle" /\ sSvc = FALSE /\ todo = {} /\ cur = "Master" /\ acts = {}
    BY DEF Init
  <2> QED BY <1>1, <1>3, <2>1, RtypesHasMaster DEF WorkerType, LocalsType
<1>8. RestType
  <2>1. /\ spec \in JobSpecs /\ expecting = {} /\ late = FALSE /\ expired = FALSE
        /\ left = Budget[spec] /\ seen = {} /\ retries = 0
    BY DEF Init
  <2> QED BY <2>1, BoundsAssumption DEF RestType
<1> QED BY <1>5, <1>6, <1>7, <1>8, TypeParts

\* Writes to the API server.
LEMMA SetPodType ==
    ASSUME ApiType, StreamsType, NEW r \in Replicas, NEW pod \in PodType, SetPod(r, pod)
    PROVE  /\ pods' \in PodsType
           /\ podEvents' \in Seq([replica : Replicas, pod : PodType])
BY DEF ApiType, StreamsType, SetPod, PodsType

\* A write of the job keeps the types of the store and of its watch.
LEMMA SetJobType ==
    ASSUME StreamsType, NEW j \in JobType, SetJob(j)
    PROVE  job' \in JobType /\ jobEvents' \in Seq(JobType) /\ fresh' = FALSE
BY DEF StreamsType, SetJob

\* A write of the service does so too.
LEMMA SetSvcType ==
    ASSUME StreamsType, NEW b \in BOOLEAN, SetSvc(b)
    PROVE  svc' \in BOOLEAN /\ svcEvents' \in Seq(BOOLEAN)
BY DEF StreamsType, SetSvc

\* A mishap that is left is a number.
LEMMA SpendType ==
    ASSUME RestType, NEW m \in Mishaps, Spend(m)
    PROVE  left' \in [Mishaps -> Nat]
BY DEF RestType, Spend

\* A worker whose sync ended has its types.
LEMMA ResetType == ResetLocals => WorkerType'
BY NewStatusType, PodValues, RtypesHasMaster
   DEF ResetLocals, WorkerType, LocalsType, StatusType, PodsType

\* The counter of requeues stays within its bound.
LEMMA AddRateLimitedType == QueueType /\ AddRateLimited => QueueType'
BY BoundsAssumption DEF QueueType, AddRateLimited

\* A job whose deletion advances is a job.
LEMMA JobStateType ==
    ASSUME NEW j \in JobType, NEW s \in States
    PROVE  [j EXCEPT !.state = s] \in JobType
BY DEF JobType

\* addPyTorchJob keeps the type, the outcome and the consistency of a job.
LEMMA AcceptedType ==
    ASSUME NEW j \in JobType
    PROVE  /\ Accepted(j) \in JobType
           /\ Terminal(Accepted(j).status.conds) <=> Terminal(j.status.conds)
           /\ Consistent(j.status) => Consistent(Accepted(j).status)
<1>1. j.status \in StatusType /\ j.status.conds \in Conditions
  BY DEF JobType, StatusType, StatusOver
<1>2. setCondition(j.status.conds, "Created") \in Conditions
  BY <1>1, AcceptedConditions
<1>3. /\ Accepted(j) \in JobType
      /\ Accepted(j).status.conds = setCondition(j.status.conds, "Created")
      /\ Accepted(j).status.completed = j.status.completed
  BY <1>2 DEF Accepted, JobType, StatusType, StatusOver
<1> QED BY <1>1, <1>3, AcceptedConditions DEF Consistent

\* A part that a step leaves alone keeps its type.
LEMMA Keeps ==
    ASSUME TypeOK
    PROVE  /\ UNCHANGED api => ApiType'
           /\ UNCHANGED streams => StreamsType'
           /\ UNCHANGED caches => CachesType'
           /\ UNCHANGED queue => QueueType'
           /\ UNCHANGED <<locals, fresh, pc>> => WorkerType'
           /\ UNCHANGED <<spec, expecting, clocks, left, history>> => RestType'
<1>1. UNCHANGED api => ApiType'
  BY TypeParts DEF ApiType, api
<1>2. UNCHANGED streams => StreamsType'
  BY TypeParts DEF StreamsType, streams
<1>3. UNCHANGED caches => CachesType'
  BY TypeParts DEF CachesType, caches
<1>4. UNCHANGED queue => QueueType'
  BY TypeParts DEF QueueType, queue
<1>5. UNCHANGED <<locals, fresh, pc>> => WorkerType'
  BY TypeParts DEF WorkerType, LocalsType, locals
<1>6. UNCHANGED <<spec, expecting, clocks, left, history>> => RestType'
  BY TypeParts DEF RestType, clocks, history
<1> QED BY <1>1, <1>2, <1>3, <1>4, <1>5, <1>6

-----------------------------------------------------------------------------
(* Types: kubelets, the garbage collector, users, clocks. *)

\* A change of a pod keeps the types.
LEMMA KubeletSetsTypes ==
    ASSUME TypeOK, NEW r \in Replicas, NEW pod \in PodType, KubeletSets(r, pod),
           left' \in [Mishaps -> Nat], seen' \subseteq Facts
    PROVE  TypeOK'
<1>1. ApiType /\ StreamsType /\ RestType
  BY TypeParts
<1>2. /\ pods' \in PodsType
      /\ podEvents' \in Seq([replica : Replicas, pod : PodType])
  BY <1>1, SetPodType DEF KubeletSets
<1>3. ApiType' /\ StreamsType'
  BY <1>1, <1>2 DEF KubeletSets, ApiType, StreamsType
<1>4. CachesType' /\ QueueType' /\ WorkerType'
  BY Keeps DEF KubeletSets
<1>5. RestType'
  BY <1>1 DEF KubeletSets, RestType, clocks
<1> QED BY <1>3, <1>4, <1>5, TypePartsNext

\* The steps of kubelets, and the deletion of a pod, keep the types.
LEMMA PodStepTypes ==
    ASSUME TypeOK, NEW r \in Replicas,
           \/ PodStarts(r) \/ PodSucceeds(r) \/ ContainerCompletes(r) \/ ContainerFails(r)
           \/ PodEvicted(r) \/ UserDeletesPod(r) \/ PodRemoved(r)
    PROVE  TypeOK'
<1>1. /\ pods[r] \in PodType
      /\ left \in [Mishaps -> Nat] /\ seen \subseteq Facts /\ RestType
  BY TypeParts DEF ApiType, PodsType, RestType
<1>2. /\ "Running" \in Phases /\ "Succeeded" \in Phases
      /\ "Permanent" \in Phases /\ "Retryable" \in Phases
      /\ "fail" \in Mishaps /\ "evict" \in Mishaps /\ "remove" \in Mishaps
      /\ {"master succeeded", "container restarted", "container failed", "pod failed"}
           \subseteq Facts
  BY DEF Phases, Mishaps, Facts
<1>3. CASE PodStarts(r)
  BY <1>1, <1>2, <1>3, PodValues, KubeletSetsTypes DEF PodStarts
<1>4. CASE PodSucceeds(r)
  <2>1. seen' \subseteq Facts /\ left' = left
    BY <1>1, <1>2, <1>4 DEF PodSucceeds
  <2> QED BY <1>1, <1>2, <1>4, <2>1, PodValues, KubeletSetsTypes DEF PodSucceeds
<1>5. CASE ContainerFails(r)
  <2>1. left' \in [Mishaps -> Nat]
    BY <1>1, <1>2, <1>5, SpendType DEF ContainerFails
  <2>2. CASE spec.restart[r[1]] \in {"OnFailure", "Always"}
    <3>1. /\ KubeletSets(r, [pods[r] EXCEPT !.restarts = @ + 1])
          /\ seen' = seen \cup {"container failed"}
      BY <1>5, <2>2 DEF ContainerFails
    <3>2. [pods[r] EXCEPT !.restarts = @ + 1] \in PodType
      BY <1>1, PodValues
    <3>3. seen' \subseteq Facts
      BY <1>1, <1>2, <3>1
    <3> QED BY <2>1, <3>1, <3>2, <3>3, KubeletSetsTypes
  <2>3. CASE spec.restart[r[1]] \notin {"OnFailure", "Always"}
    <3>1. PICK phase \in {"Retryable", "Permanent"} :
            /\ KubeletSets(r, [pods[r] EXCEPT !.phase = phase])
            /\ seen' = seen \cup {"container failed"}
                            \cup (IF phase = "Permanent" THEN {"pod failed"} ELSE {})
      BY <1>5, <2>3 DEF ContainerFails
    <3>2. phase \in Phases
      BY <1>2
    <3>3. [pods[r] EXCEPT !.phase = phase] \in PodType
      BY <1>1, <3>2, PodValues
    <3>4. seen' \subseteq Facts
      BY <1>1, <1>2, <3>1
    <3> QED BY <2>1, <3>1, <3>3, <3>4, KubeletSetsTypes
  <2> QED BY <2>2, <2>3
<1>6. CASE PodEvicted(r)
  <2>1. seen' \subseteq Facts
    BY <1>1, <1>2, <1>6 DEF PodEvicted
  <2>2. left' \in [Mishaps -> Nat]
    BY <1>1, <1>2, <1>6, SpendType DEF PodEvicted
  <2> QED BY <1>1, <1>2, <1>6, <2>1, <2>2, PodValues, KubeletSetsTypes DEF PodEvicted
<1>7. CASE UserDeletesPod(r)
  <2>1. left' \in [Mishaps -> Nat] /\ seen' = seen
    BY <1>1, <1>2, <1>7, SpendType DEF UserDeletesPod
  <2> QED BY <1>1, <1>7, <2>1, PodValues, KubeletSetsTypes DEF UserDeletesPod
<1>8. CASE PodRemoved(r)
  BY <1>1, <1>8, PodValues, KubeletSetsTypes DEF PodRemoved
<1>9. CASE ContainerCompletes(r)
  <2>1. left' \in [Mishaps -> Nat] /\ seen' \subseteq Facts
    BY <1>1, <1>2, <1>9, SpendType DEF ContainerCompletes
  <2>2. [pods[r] EXCEPT !.restarts = @ + 1] \in PodType
    BY <1>1, PodValues
  <2> QED BY <1>9, <2>1, <2>2, KubeletSetsTypes DEF ContainerCompletes
<1> QED BY <1>3, <1>4, <1>5, <1>6, <1>7, <1>8, <1>9

\* Steps that write the job, and may spend a mishap, and do nothing else.
LEMMA JobWriteTypes ==
    ASSUME TypeOK, NEW j \in JobType, SetJob(j), left' \in [Mishaps -> Nat],
           UNCHANGED <<spec, pods, svc, podEvents, svcEvents, caches, expecting,
                       queue, pc, locals, clocks, history>>
    PROVE  TypeOK'
<1>1. ApiType /\ StreamsType /\ WorkerType /\ RestType
  BY TypeParts
<1>2. job' \in JobType /\ jobEvents' \in Seq(JobType) /\ fresh' = FALSE
  BY <1>1, SetJobType
<1>3. ApiType' /\ StreamsType'
  BY <1>1, <1>2 DEF ApiType, StreamsType
<1>4. CachesType' /\ QueueType'
  BY Keeps
<1>5. WorkerType'
  BY <1>1, <1>2 DEF WorkerType, LocalsType, locals
<1>6. RestType'
  BY <1>1 DEF RestType, clocks, history
<1> QED BY <1>3, <1>4, <1>5, <1>6, TypePartsNext

\* The steps of users, of the garbage collector and of the clock keep the types.
LEMMA UserStepTypes ==
    ASSUME TypeOK,
           \/ UserEditsJob \/ UserDeletesJob \/ DeletingJobGoes
           \/ DeadlinePasses \/ TTLPasses
    PROVE  TypeOK'
<1>1. job \in JobType /\ RestType /\ left \in [Mishaps -> Nat]
  BY TypeParts DEF ApiType, RestType
<1>2. /\ "edit" \in Mishaps /\ "remove" \in Mishaps
      /\ "deleting" \in States /\ "gone" \in States
  BY DEF Mishaps, States
<1>3. CASE UserEditsJob
  <2>1. left' \in [Mishaps -> Nat]
    BY <1>1, <1>2, <1>3, SpendType DEF UserEditsJob
  <2> QED BY <1>1, <1>3, <2>1, JobWriteTypes DEF UserEditsJob
<1>4. CASE UserDeletesJob
  <2>1. left' \in [Mishaps -> Nat]
    BY <1>1, <1>2, <1>4, SpendType DEF UserDeletesJob
  <2>2. PICK s \in {"deleting", "gone"} : SetJob([job EXCEPT !.state = s])
    BY <1>4 DEF UserDeletesJob
  <2>3. [job EXCEPT !.state = s] \in JobType
    BY <1>1, <1>2, JobStateType
  <2> QED BY <1>4, <2>1, <2>2, <2>3, JobWriteTypes DEF UserDeletesJob
<1>5. CASE DeletingJobGoes
  <2>1. [job EXCEPT !.state = "gone"] \in JobType
    BY <1>1, <1>2, JobStateType
  <2>2. left' \in [Mishaps -> Nat]
    BY <1>1, <1>5 DEF DeletingJobGoes
  <2> QED BY <1>5, <2>1, <2>2, JobWriteTypes DEF DeletingJobGoes
<1>6. CASE DeadlinePasses
  <2>1. RestType'
    BY <1>1, <1>6 DEF DeadlinePasses, RestType, history
  <2> QED BY <1>6, <2>1, Keeps, TypePartsNext DEF DeadlinePasses
<1>7. CASE TTLPasses
  <2>1. RestType'
    BY <1>1, <1>7 DEF TTLPasses, RestType, history
  <2> QED BY <1>7, <2>1, Keeps, TypePartsNext DEF TTLPasses
<1> QED BY <1>3, <1>4, <1>5, <1>6, <1>7

\* Everything around the controller keeps the types.
LEMMA EnvironmentTypes == TypeOK /\ Environment => TypeOK'
BY PodStepTypes, UserStepTypes DEF Environment

-----------------------------------------------------------------------------
(* Types: informers, timers, crashes. *)

\* The event handlers keep the types.
LEMMA DeliverTypes == TypeOK /\ Deliver => TypeOK'
<1> SUFFICES ASSUME TypeOK, Deliver PROVE TypeOK'
  OBVIOUS
<1>1. ApiType /\ StreamsType /\ CachesType /\ QueueType /\ RestType
  BY TypeParts
<1>2. CASE DeliverJob
  <2>1. Head(jobEvents) \in JobType /\ jobEvents' \in Seq(JobType)
    BY <1>1, <1>2 DEF DeliverJob, StreamsType
  <2>2. cJob' \in JobType
    BY <1>2, <2>1, AcceptedType DEF DeliverJob
  <2>3. StreamsType'
    BY <1>1, <1>2, <2>1 DEF DeliverJob, StreamsType
  <2>4. CachesType'
    BY <1>1, <1>2, <2>2 DEF DeliverJob, CachesType
  <2>5. QueueType'
    BY <1>1, <1>2 DEF DeliverJob, Wake, QueueType
  <2> QED BY <1>2, <2>3, <2>4, <2>5, Keeps, TypePartsNext DEF DeliverJob
<1>3. CASE DeliverPod
  <2>1. /\ Head(podEvents) \in [replica : Replicas, pod : PodType]
        /\ podEvents' \in Seq([replica : Replicas, pod : PodType])
    <3> DEFINE E == [replica : Replicas, pod : PodType]
    <3>1. podEvents \in Seq(E) /\ podEvents # <<>> /\ podEvents' = Tail(podEvents)
      BY <1>1, <1>3 DEF DeliverPod, StreamsType
    <3> HIDE DEF E
    <3>2. Head(podEvents) \in E /\ podEvents' \in Seq(E)
      BY <3>1
    <3> QED BY <3>2 DEF E
  <2>2. cPods' = [cPods EXCEPT ![Head(podEvents).replica] = Head(podEvents).pod]
    BY <1>3 DEF DeliverPod
  <2>3. cPods' \in PodsType
    BY <1>1, <2>1, <2>2 DEF CachesType, PodsType
  <2>4. StreamsType'
    BY <1>1, <1>3, <2>1 DEF DeliverPod, StreamsType
  <2>5. CachesType'
    BY <1>1, <1>3, <2>3 DEF DeliverPod, CachesType
  <2>6. queued' \in BOOLEAN
    BY <1>1, <1>3 DEF DeliverPod, WakeOwner, QueueType
  <2>7. QueueType'
    BY <1>1, <1>3, <2>6 DEF DeliverPod, QueueType
  <2>8. expecting' \subseteq expecting
    BY <1>3 DEF DeliverPod
  <2>9. RestType'
    BY <1>1, <1>3, <2>8 DEF DeliverPod, RestType, clocks, history
  <2> QED BY <1>3, <2>4, <2>5, <2>7, <2>9, Keeps, TypePartsNext DEF DeliverPod
<1>4. CASE DeliverService
  <2>1. Head(svcEvents) \in BOOLEAN /\ svcEvents' \in Seq(BOOLEAN)
    BY <1>1, <1>4 DEF DeliverService, StreamsType
  <2>2. StreamsType'
    BY <1>1, <1>4, <2>1 DEF DeliverService, StreamsType
  <2>3. CachesType'
    BY <1>1, <1>4, <2>1 DEF DeliverService, CachesType
  <2>4. queued' \in BOOLEAN
    BY <1>1, <1>4 DEF DeliverService, WakeOwner, QueueType
  <2>5. QueueType'
    BY <1>1, <1>4, <2>4 DEF DeliverService, QueueType
  <2>6. expecting' \subseteq expecting
    BY <1>4 DEF DeliverService
  <2>7. RestType'
    BY <1>1, <1>4, <2>6 DEF DeliverService, RestType, clocks, history
  <2> QED BY <1>4, <2>2, <2>3, <2>5, <2>7, Keeps, TypePartsNext DEF DeliverService
<1> QED BY <1>2, <1>3, <1>4 DEF Deliver

\* Resync and expired expectations keep the types.
LEMMA TimerTypes == TypeOK /\ Timers => TypeOK'
<1> SUFFICES ASSUME TypeOK, Timers PROVE TypeOK'
  OBVIOUS
<1>1. QueueType /\ RestType
  BY TypeParts
<1>2. CASE Resync
  <2>1. QueueType'
    BY <1>1, <1>2 DEF Resync, Wake, QueueType
  <2> QED BY <1>2, <2>1, Keeps, TypePartsNext DEF Resync
<1>3. ASSUME NEW k \in ExpectationKeys, ExpectationExpires(k) PROVE TypeOK'
  <2>1. RestType'
    BY <1>1, <1>3 DEF ExpectationExpires, RestType, clocks, history
  <2> QED BY <1>3, <2>1, Keeps, TypePartsNext DEF ExpectationExpires
<1> QED BY <1>2, <1>3 DEF Timers

\* A restart, whatever its cause, with what is left of the mishaps.
LEMMA RestartTypes ==
    ASSUME TypeOK, Restart, left' \in [Mishaps -> Nat]
    PROVE  TypeOK'
<1>1. ApiType /\ RestType
  BY TypeParts
<1>2. cJob' \in JobType
  BY <1>1, AcceptedType DEF Restart, ApiType
<1>3. CachesType'
  BY <1>1, <1>2 DEF Restart, CachesType, ApiType
<1>4. StreamsType'
  BY DEF Restart, StreamsType
<1>5. QueueType'
  <2>1. requeues' \in 0 .. MaxRequeues
    BY BoundsAssumption DEF Restart
  <2>2. queued' \in BOOLEAN
    BY DEF Restart
  <2> QED BY <2>1, <2>2 DEF QueueType
<1>6. WorkerType'
  BY ResetType DEF Restart
<1>7. RestType'
  <2>1. expecting' = {}
    BY DEF Restart
  <2> QED BY <1>1, <2>1 DEF Restart, RestType, clocks, history
<1>8. ApiType'
  BY Keeps DEF Restart
<1> QED BY <1>3, <1>4, <1>5, <1>6, <1>7, <1>8, TypePartsNext

\* A crash keeps the types.
LEMMA CrashTypes == TypeOK /\ Crash => TypeOK'
<1>1. "crash" \in Mishaps
  BY DEF Mishaps
<1> QED BY <1>1, RestartTypes, SpendType, TypeParts DEF Crash

-----------------------------------------------------------------------------
(* Types: the steps of a sync. *)

\* Calls of the controller to the API server.
LEMMA CallTypes ==
    ASSUME TypeOK
    PROVE  /\ NoCall => ApiType' /\ StreamsType'
           /\ \A r \in Replicas :
                DeletePodCall(r) \/ CreatePodCall(r) => ApiType' /\ StreamsType'
           /\ DeleteServiceCall \/ CreateServiceCall => ApiType' /\ StreamsType'
           /\ DeleteJobCall /\ fresh' \in BOOLEAN => ApiType' /\ StreamsType'
           /\ UpdateStatusCall => ApiType' /\ StreamsType'
<1>1. ApiType /\ StreamsType /\ WorkerType
  BY TypeParts
<1>2. NoCall => ApiType' /\ StreamsType'
  BY Keeps DEF NoCall
<1>3. ASSUME NEW r \in Replicas, DeletePodCall(r) \/ CreatePodCall(r)
      PROVE  ApiType' /\ StreamsType'
  <2>1. UNCHANGED <<job, svc, jobEvents, svcEvents>>
    BY <1>3 DEF DeletePodCall, CreatePodCall
  <2>2. \/ UNCHANGED <<pods, podEvents>>
        \/ SetPod(r, NewPod)
        \/ SetPod(r, [pods[r] EXCEPT !.deleting = TRUE])
    BY <1>3 DEF DeletePodCall, CreatePodCall
  <2>3. pods[r] \in PodType
    BY <1>1 DEF ApiType, PodsType
  <2>4. /\ pods' \in PodsType
        /\ podEvents' \in Seq([replica : Replicas, pod : PodType])
    <3>1. CASE UNCHANGED <<pods, podEvents>>
      BY <1>1, <3>1 DEF ApiType, StreamsType
    <3>2. CASE SetPod(r, NewPod)
      BY <1>1, <3>2, PodValues, SetPodType
    <3>3. CASE SetPod(r, [pods[r] EXCEPT !.deleting = TRUE])
      BY <1>1, <2>3, <3>3, PodValues, SetPodType
    <3> QED BY <2>2, <3>1, <3>2, <3>3
  <2> QED BY <1>1, <2>1, <2>4 DEF ApiType, StreamsType
<1>4. ASSUME DeleteServiceCall \/ CreateServiceCall
      PROVE  ApiType' /\ StreamsType'
  <2>1. UNCHANGED <<job, pods, jobEvents, podEvents>>
    BY <1>4 DEF DeleteServiceCall, CreateServiceCall
  <2>2. SetSvc(TRUE) \/ SetSvc(FALSE) \/ UNCHANGED <<svc, svcEvents>>
    BY <1>4 DEF DeleteServiceCall, CreateServiceCall
  <2>3. svc' \in BOOLEAN /\ svcEvents' \in Seq(BOOLEAN)
    BY <1>1, <2>2, SetSvcType DEF ApiType, StreamsType
  <2> QED BY <1>1, <2>1, <2>3 DEF ApiType, StreamsType
<1>5. ASSUME DeleteJobCall
      PROVE  ApiType' /\ StreamsType'
  <2>1. UNCHANGED <<pods, svc, podEvents, svcEvents>>
    BY <1>5 DEF DeleteJobCall
  <2>2. SetJob([job EXCEPT !.state = "gone"]) \/ UNCHANGED <<job, jobEvents>>
    BY <1>5 DEF DeleteJobCall
  <2>3. [job EXCEPT !.state = "gone"] \in JobType
    BY <1>1, JobStateType DEF ApiType, States
  <2>4. job' \in JobType /\ jobEvents' \in Seq(JobType)
    BY <1>1, <2>2, <2>3, SetJobType DEF ApiType, StreamsType
  <2> QED BY <1>1, <2>1, <2>4 DEF ApiType, StreamsType
<1>6. ASSUME UpdateStatusCall
      PROVE  ApiType' /\ StreamsType'
  <2>1. /\ UNCHANGED <<pods, svc, podEvents, svcEvents>>
        /\ SetJob([job EXCEPT !.status = my])
    BY <1>6 DEF UpdateStatusCall
  <2>2. [job EXCEPT !.status = my] \in JobType
    BY <1>1 DEF ApiType, WorkerType, LocalsType, JobType
  <2>3. job' \in JobType /\ jobEvents' \in Seq(JobType)
    BY <1>1, <2>1, <2>2, SetJobType
  <2> QED BY <1>1, <2>1, <2>3 DEF ApiType, StreamsType
<1> QED BY <1>2, <1>3, <1>4, <1>5, <1>6

\* A call that fails ends the sync.
LEMMA SyncFailsTypes == TypeOK /\ SyncFails => QueueType' /\ WorkerType'
BY TypeParts, ResetType, AddRateLimitedType DEF SyncFails

\* The remaining parts, when a step only adds expectations, facts and retries.
LEMMA RestTypeStep ==
    ASSUME TypeOK, UNCHANGED <<spec, clocks>>, expecting' \subseteq ExpectationKeys,
           left' \in [Mishaps -> Nat], seen' \subseteq Facts, retries' \in Nat
    PROVE  RestType'
BY TypeParts DEF RestType, clocks

\* The beginning of a sync keeps the types.
LEMMA BeginTypes == TypeOK /\ (JobIsGone \/ SkipSync \/ StartSync) => TypeOK'
<1> SUFFICES ASSUME TypeOK, JobIsGone \/ SkipSync \/ StartSync PROVE TypeOK'
  OBVIOUS
<1>1. QueueType /\ CachesType /\ WorkerType /\ StreamsType
  BY TypeParts
<1>2. CASE JobIsGone
  <2>1. QueueType'
    BY <1>1, <1>2 DEF JobIsGone, Get, QueueType
  <2> QED BY <1>2, <2>1, Keeps, TypePartsNext DEF JobIsGone
<1>3. CASE SkipSync
  <2>1. requeues' \in 0 .. MaxRequeues
    BY <1>3, BoundsAssumption DEF SkipSync
  <2>2. QueueType'
    BY <1>3, <2>1 DEF SkipSync, Get, QueueType
  <2> QED BY <1>3, <2>2, Keeps, TypePartsNext DEF SkipSync
<1>4. CASE StartSync
  <2>1. QueueType'
    BY <1>1, <1>4 DEF StartSync, Get, QueueType
  <2>2. /\ my' \in StatusType /\ old' \in StatusType
        /\ sPods' \in PodsType /\ sSvc' \in BOOLEAN /\ cur' \in Rtypes
    BY <1>1, <1>4 DEF StartSync, ReadCaches, CachesType, JobType, WorkerType, LocalsType
  <2>3. fresh' \in BOOLEAN
    BY <1>4 DEF StartSync, ReadCaches
  <2>4. Doomed \subseteq Replicas
    BY DEF Doomed
  <2>5. /\ acts' \subseteq Replicas /\ todo' \subseteq Rtypes
        /\ pc' \in {"clean", "types"}
    BY <1>4, <2>4 DEF StartSync
  <2>6. WorkerType'
    BY <2>2, <2>3, <2>5 DEF WorkerType, LocalsType
  <2> QED BY <1>4, <2>1, <2>6, Keeps, TypePartsNext DEF StartSync
<1> QED BY <1>2, <1>3, <1>4

\* deletePodsAndServices keeps the types: a pod,
LEMMA CleanPodTypes ==
    ASSUME TypeOK, NEW r \in Replicas, CleanPod(r)
    PROVE  TypeOK'
<1>1. WorkerType /\ QueueType /\ RestType /\ left \in [Mishaps -> Nat] /\ seen \subseteq Facts
  BY TypeParts DEF RestType
<1>2. "error" \in Mishaps /\ {"cleaned", "killed"} \subseteq Facts
  BY DEF Mishaps, Facts
<1>3. ApiType' /\ StreamsType'
  BY CallTypes DEF CleanPod
<1>4. left' \in [Mishaps -> Nat] /\ seen' \subseteq Facts
  BY <1>1, <1>2, SpendType DEF CleanPod
<1>5. RestType'
  BY <1>1, <1>4, RestTypeStep DEF CleanPod, RestType
<1>6. QueueType' /\ WorkerType'
  <2>1. CASE SyncFails
    BY <2>1, SyncFailsTypes
  <2>2. CASE PodDone(r) /\ UNCHANGED <<pc, fresh, queue>>
    BY <1>1, <2>2, Keeps DEF PodDone, WorkerType, LocalsType
  <2> QED BY <2>1, <2>2 DEF CleanPod
<1>7. CachesType'
  BY Keeps DEF CleanPod
<1> QED BY <1>3, <1>5, <1>6, <1>7, TypePartsNext

\* ... and the service.
LEMMA CleanServiceTypes == TypeOK /\ CleanService => TypeOK'
<1> SUFFICES ASSUME TypeOK, CleanService PROVE TypeOK'
  OBVIOUS
<1>1. WorkerType /\ RestType /\ left \in [Mishaps -> Nat]
  BY TypeParts DEF RestType
<1>2. "error" \in Mishaps
  BY DEF Mishaps
<1>3. ApiType' /\ StreamsType'
  BY CallTypes DEF CleanService
<1>4. RestType'
  <2>1. left' \in [Mishaps -> Nat]
    BY <1>1, <1>2, SpendType DEF CleanService
  <2> QED BY <1>1, <2>1, RestTypeStep DEF CleanService, RestType, history
<1>5. QueueType' /\ WorkerType'
  <2>1. CASE SyncFails
    BY <2>1, SyncFailsTypes
  <2>2. CASE pc' = "ttl" /\ UNCHANGED <<locals, fresh, queue>>
    BY <1>1, <2>2, Keeps DEF WorkerType, LocalsType, locals
  <2> QED BY <2>1, <2>2 DEF CleanService
<1>6. CachesType'
  BY Keeps DEF CleanService
<1> QED BY <1>3, <1>4, <1>5, <1>6, TypePartsNext

\* The status after cleaning up.
LEMMA CleanedStatusType == TypeOK => CleanedStatus \in StatusType
BY TypeParts, FoldActive, FailStatus
   DEF CleanedStatus, WorkerType, LocalsType, StatusType

\* The status after cleaning has its type.
LEMMA CleanedTypes ==
    ASSUME TypeOK, Cleaned, fresh' \in BOOLEAN
    PROVE  WorkerType'
BY TypeParts, CleanedStatusType DEF Cleaned, WorkerType, LocalsType

\* cleanupPyTorchJob keeps the types without a TTL that has passed,
LEMMA EndCleaningTypes == TypeOK /\ EndCleaning => TypeOK'
<1> SUFFICES ASSUME TypeOK, EndCleaning PROVE TypeOK'
  OBVIOUS
<1>1. WorkerType' 
  BY CleanedTypes, TypeParts DEF EndCleaning, WorkerType
<1>2. QueueType'
  BY TypeParts, AddRateLimitedType, Keeps DEF EndCleaning
<1> QED BY <1>1, <1>2, Keeps, TypePartsNext DEF EndCleaning

\* ... when it deletes the job,
LEMMA DeleteJobTypes == TypeOK /\ DeleteJob => TypeOK'
<1> SUFFICES ASSUME TypeOK, DeleteJob PROVE TypeOK'
  OBVIOUS
<1>1. WorkerType /\ RestType /\ left \in [Mishaps -> Nat] /\ fresh \in BOOLEAN
  BY TypeParts DEF RestType, WorkerType
<1>2. "error" \in Mishaps
  BY DEF Mishaps
<1>3. DeleteJobCall => fresh' \in BOOLEAN
  <2>1. DeleteJobCall => fresh' = FALSE \/ fresh' = fresh
    BY DEF DeleteJobCall, SetJob
  <2> QED BY <1>1, <2>1
<1>4. ApiType' /\ StreamsType'
  BY <1>3, CallTypes DEF DeleteJob
<1>5. RestType'
  <2>1. left' \in [Mishaps -> Nat]
    BY <1>1, <1>2, SpendType DEF DeleteJob
  <2> QED BY <1>1, <2>1, RestTypeStep DEF DeleteJob, RestType, history
<1>6. QueueType' /\ WorkerType'
  <2>1. CASE SyncFails
    BY <2>1, SyncFailsTypes
  <2>2. CASE DeleteJobCall /\ Cleaned /\ UNCHANGED queue
    BY <1>3, <2>2, CleanedTypes, Keeps
  <2> QED BY <2>1, <2>2 DEF DeleteJob
<1>7. CachesType'
  BY Keeps DEF DeleteJob
<1> QED BY <1>4, <1>5, <1>6, <1>7, TypePartsNext

\* ... and when it panics.
LEMMA TTLPanicsTypes == TypeOK /\ TTLPanics => TypeOK'
BY TypeParts, RestartTypes DEF TTLPanics, RestType

\* The start of reconcilePods keeps the types.
LEMMA StartTypeTypes ==
    ASSUME TypeOK, NEW rt \in Rtypes, StartType(rt)
    PROVE  TypeOK'
<1>1. WorkerType /\ my \in StatusType
  BY TypeParts DEF WorkerType, LocalsType
<1>2. my' = [my EXCEPT !.replicas[rt] = ReplicaStatus(rt)]
  BY DEF StartType
<1>3. my' \in StatusType
  BY <1>1, <1>2, ReplicaStatusType DEF StatusType, StatusOver
<1>4. acts' \subseteq Replicas /\ todo' \subseteq Rtypes /\ cur' \in Rtypes /\ pc' = "calls"
  BY <1>1 DEF StartType, Of, WorkerType, LocalsType
<1>5. WorkerType'
  BY <1>1, <1>3, <1>4 DEF StartType, WorkerType, LocalsType
<1> QED BY <1>5, Keeps, TypePartsNext DEF StartType

\* Steps of the inner loop that add an expectation or count a restart.
LEMMA PodCallTypes ==
    ASSUME TypeOK, NEW r \in Replicas, CreatePod(r) \/ RestartPod(r)
    PROVE  TypeOK'
<1>1. /\ WorkerType /\ RestType /\ left \in [Mishaps -> Nat] /\ retries \in Nat
      /\ cur \in Rtypes /\ expecting \subseteq ExpectationKeys /\ seen \subseteq Facts
  BY TypeParts DEF RestType, WorkerType, LocalsType
<1>2. "error" \in Mishaps
  BY DEF Mishaps
<1>3. ApiType' /\ StreamsType'
  BY CallTypes DEF CreatePod, RestartPod
<1>4. left' \in [Mishaps -> Nat]
  BY <1>1, <1>2, SpendType DEF CreatePod, RestartPod
<1>5. expecting' \subseteq ExpectationKeys
  BY <1>1 DEF CreatePod, RestartPod, ExpectationKeys
<1>6. seen' \subseteq Facts
  BY <1>1 DEF CreatePod, RestartPod, history
<1>7. retries' \in Nat
  <2>1. retries' = retries \/ retries' = retries + 1
    BY DEF CreatePod, RestartPod, history
  <2> QED BY <1>1, <2>1
<1>8. RestType'
  BY <1>4, <1>5, <1>6, <1>7, RestTypeStep DEF CreatePod, RestartPod
<1>9. QueueType' /\ WorkerType'
  <2>1. CASE SyncFails
    BY <2>1, SyncFailsTypes
  <2>2. CASE PodDone(r) /\ UNCHANGED <<pc, fresh, queue>>
    BY <1>1, <2>2, Keeps DEF PodDone, WorkerType, LocalsType
  <2> QED BY <2>1, <2>2 DEF CreatePod, RestartPod
<1>10. CachesType'
  BY Keeps DEF CreatePod, RestartPod
<1> QED BY <1>3, <1>8, <1>9, <1>10, TypePartsNext

\* updateStatusSingle keeps the types.
LEMMA EndTypeTypes == TypeOK /\ EndType => TypeOK'
<1> SUFFICES ASSUME TypeOK, EndType PROVE TypeOK'
  OBVIOUS
<1>1. WorkerType /\ QueueType /\ my \in StatusType /\ cur \in Rtypes
  BY TypeParts DEF WorkerType, LocalsType
<1>2. (\E r \in Of(cur) : Restarts(r)) \in BOOLEAN
  OBVIOUS
<1>3. my' \in StatusType
  BY <1>1, <1>2, UpdateStatusSingle DEF EndType, StatusType
<1>4. pc' \in {"service", "types"}
  BY DEF EndType
<1>5. WorkerType'
  BY <1>1, <1>3, <1>4 DEF EndType, WorkerType, LocalsType
<1>6. queued' \in BOOLEAN
  BY <1>1 DEF EndType, QueueType
<1>7. QueueType'
  BY <1>1, <1>6 DEF EndType, QueueType
<1> QED BY <1>5, <1>7, Keeps, TypePartsNext DEF EndType

\* createNewService keeps the types.
LEMMA CreateServiceTypes == TypeOK /\ CreateService => TypeOK'
<1> SUFFICES ASSUME TypeOK, CreateService PROVE TypeOK'
  OBVIOUS
<1>1. /\ WorkerType /\ RestType /\ left \in [Mishaps -> Nat]
      /\ expecting \subseteq ExpectationKeys
  BY TypeParts DEF RestType
<1>2. "error" \in Mishaps
  BY DEF Mishaps
<1>3. ApiType' /\ StreamsType'
  BY CallTypes DEF CreateService
<1>4. RestType'
  <2>1. left' \in [Mishaps -> Nat]
    BY <1>1, <1>2, SpendType DEF CreateService
  <2>2. expecting' \subseteq ExpectationKeys
    BY <1>1, RtypesHasMaster DEF CreateService, ExpectationKeys
  <2> QED BY <1>1, <2>1, <2>2, RestTypeStep DEF CreateService, RestType, history
<1>5. QueueType' /\ WorkerType'
  <2>1. CASE SyncFails
    BY <2>1, SyncFailsTypes
  <2>2. CASE pc' = "types" /\ UNCHANGED <<locals, fresh, queue>>
    BY <1>1, <2>2, Keeps DEF WorkerType, LocalsType, locals
  <2> QED BY <2>1, <2>2 DEF CreateService
<1>6. CachesType'
  BY Keeps DEF CreateService
<1> QED BY <1>3, <1>4, <1>5, <1>6, TypePartsNext

\* The end of reconcilePyTorchJobs keeps the types.
LEMMA EndSyncTypes == TypeOK /\ (StatusUnchanged \/ UpdateStatus) => TypeOK'
<1> SUFFICES ASSUME TypeOK, StatusUnchanged \/ UpdateStatus PROVE TypeOK'
  OBVIOUS
<1>1. QueueType /\ RestType /\ left \in [Mishaps -> Nat]
  BY TypeParts DEF RestType
<1>2. "error" \in Mishaps
  BY DEF Mishaps
<1>3. SyncEnds => QueueType' /\ WorkerType'
  <2>1. SyncEnds => requeues' \in 0 .. MaxRequeues
    BY BoundsAssumption DEF SyncEnds
  <2> QED BY <1>1, <2>1, ResetType DEF SyncEnds, QueueType
<1>4. CASE StatusUnchanged
  BY <1>3, <1>4, Keeps, TypePartsNext DEF StatusUnchanged
<1>5. CASE UpdateStatus
  <2>1. ApiType' /\ StreamsType'
    BY <1>5, CallTypes DEF UpdateStatus
  <2>2. QueueType' /\ WorkerType'
    BY <1>3, <1>5, SyncFailsTypes DEF UpdateStatus
  <2>3. left' \in [Mishaps -> Nat]
    BY <1>1, <1>2, <1>5, SpendType DEF UpdateStatus
  <2>4. RestType'
    BY <1>1, <1>5, <2>3, RestTypeStep DEF UpdateStatus, RestType, history
  <2>5. CachesType'
    BY <1>5, Keeps DEF UpdateStatus
  <2> QED BY <2>1, <2>2, <2>4, <2>5, TypePartsNext
<1> QED BY <1>4, <1>5

\* Every step keeps the types.
LEMMA StepTypes == TypeOK /\ [Next]_vars => TypeOK'
<1> SUFFICES ASSUME TypeOK, [Next]_vars PROVE TypeOK'
  OBVIOUS
<1>1. CASE UNCHANGED vars
  BY <1>1, Keeps, TypePartsNext DEF vars
<1>2. CASE Sync
  BY <1>2, BeginTypes, CleanPodTypes, CleanServiceTypes, TTLPanicsTypes,
     EndCleaningTypes, DeleteJobTypes, StartTypeTypes, PodCallTypes,
     EndTypeTypes, CreateServiceTypes, EndSyncTypes DEF Sync
<1> QED BY <1>1, <1>2, EnvironmentTypes, DeliverTypes, TimerTypes, CrashTypes DEF Next

\* Every variable of the controller and its world keeps its type.
THEOREM TypeCorrect == Safety => []TypeOK
BY InitTypes, StepTypes, PTL DEF Safety

=============================================================================
