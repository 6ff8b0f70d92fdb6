-------------------------- MODULE IncarnationsProofs --------------------------
(***************************************************************************)
(* The jobs of one name do not act for one another: proofs for any         *)
(* number of jobs, events and incidents and any set of specs.              *)
(*                                                                         *)
(* The argument is an order.  Uids grow with every job that is created,    *)
(* and whatever the controller holds of a job is handed on in the order    *)
(* in which it was stored: from the watch to the cache to the copy of the  *)
(* sync.  The owner of a pod or a service was once such a copy, so no      *)
(* copy is of an earlier job than an owner; and the owner that a cache     *)
(* shows is not later than the one that is stored.  So when the cached     *)
(* owner is the job of the sync, the stored one is too, or is nobody.      *)
(***************************************************************************)
EXTENDS Incarnations, JobSpecProofs, TLAPS

\* Of two jobs, if there are two, u is not the later one.
NotLater(u, v) == u # 0 /\ v # 0 => u <= v

\* The last event under way shows what is stored, and so does the cache when
\* there is none, though addPyTorchJob may have failed an invalid job there.
LastIsStored ==
    IF jobEvents = <<>>
    THEN cJob.uid = job.uid /\ (isValid(cJob) => cJob.status = job.status)
    ELSE jobEvents[Len(jobEvents)] = job

\* The copy, the cache and the events are of jobs in the order of creation.
JobOrder ==
    /\ job.uid \in {0, born}
    /\ my.uid <= born /\ cJob.uid <= born
    /\ \A i \in 1 .. Len(jobEvents) : jobEvents[i].uid <= born
    /\ NotLater(my.uid, cJob.uid)
    /\ \A i \in 1 .. Len(jobEvents) :
         /\ NotLater(my.uid, jobEvents[i].uid)
         /\ NotLater(cJob.uid, jobEvents[i].uid)
         /\ \A j \in 1 .. Len(jobEvents) :
              i < j => NotLater(jobEvents[i].uid, jobEvents[j].uid)

\* u owns something: no copy of a job is earlier.
Owner(u) ==
    /\ u \in Nat /\ u <= born
    /\ NotLater(u, my.uid) /\ NotLater(u, cJob.uid)
    /\ \A i \in 1 .. Len(jobEvents) : NotLater(u, jobEvents[i].uid)

PodOrder ==
    /\ Owner(pod.owner) /\ Owner(cPod.owner)
    /\ NotLater(cPod.owner, pod.owner)
    /\ \A i \in 1 .. Len(podEvents) :
         Owner(podEvents[i].owner) /\ NotLater(podEvents[i].owner, pod.owner)

SvcOrder ==
    /\ Owner(svc) /\ Owner(cSvc)
    /\ NotLater(cSvc, svc)
    /\ \A i \in 1 .. Len(svcEvents) :
         Owner(svcEvents[i]) /\ NotLater(svcEvents[i], svc)

\* A pod that has succeeded, in whatever copy, is remembered with its job.
PodRan(p) == p.done => p.owner \in ran
PodsRan ==
    /\ PodRan(pod) /\ PodRan(cPod) /\ PodRan(sPod)
    /\ \A i \in 1 .. Len(podEvents) : PodRan(podEvents[i])

\* A job that has succeeded did so by its pod.
JobRan(j) == j.status = "Succeeded" => j.uid \in ran
JobsRan ==
    /\ JobRan(job) /\ JobRan(cJob) /\ JobRan(my)
    /\ \A i \in 1 .. Len(jobEvents) : JobRan(jobEvents[i])

\* What a sync listed is its job's.
Listing == sPod.done => sPod.owner = my.uid

\* What a sync is about to delete is its job's, or gone.
Cleaning ==
    /\ at = "cleanPod" => pod.owner \in {0, my.uid}
    /\ at = "cleanService" \/ (at = "cleanPod" /\ sSvc) => svc \in {0, my.uid}

\* The copy of a sync that is up to date.
FreshCopy ==
    fresh => jobEvents = <<>> /\ my.uid = job.uid /\ my.status = job.status

\* A sync that looks after the replicas found the job unfinished.
NotOver == at \in {"pod", "service", "status"} => ~Terminal(my)

IInv ==
    /\ TypeOK
    /\ LastIsStored /\ JobOrder /\ PodOrder /\ SvcOrder
    /\ PodsRan /\ JobsRan
    /\ Listing /\ Cleaning /\ FreshCopy /\ NotOver

-----------------------------------------------------------------------------
(* What steps do to the job and its copies, to the pod and to the service. *)

Over == {"pod", "service", "status"}
Places == {"idle", "pod", "service", "status", "cleanPod", "cleanService", "ttl"}

\* The job and what is seen of it stay; a sync may end.
JobIdles ==
    /\ UNCHANGED <<job, jobEvents, cJob, born>>
    /\ \/ my' = my /\ fresh' = fresh
       \/ my' = NoJob /\ fresh' = FALSE

\* The beginning of a sync.
JobCopied ==
    /\ UNCHANGED <<job, jobEvents, cJob, born>>
    /\ isValid(cJob)
    /\ my' \in Stored /\ isValid(my')
    /\ my'.uid = cJob.uid /\ my'.status = cJob.status
    /\ fresh' = (jobEvents = <<>>)

\* What a write of the job makes of it: another job or none, or the same one
\* with its status, or with the one that a sync has found.
JobChange ==
    \/ job.uid # 0 /\ job'.uid = 0 /\ born' = born /\ job'.status = "New"
    \/ job'.uid = born + 1 /\ born' = born + 1 /\ job'.status = "New"
    \/ /\ job'.uid = job.uid /\ born' = born
       /\ \/ job'.status = job.status
          \/ at = "status" /\ fresh /\ job'.status = newStatus

JobWritten ==
    /\ job' \in Stored
    /\ jobEvents' = Append(jobEvents, job')
    /\ cJob' = cJob
    /\ my' \in {my, NoJob}
    /\ fresh' = FALSE
    /\ JobChange

\* What the cache makes of an event.
Cached(j) ==
    /\ cJob' \in Stored
    /\ cJob'.uid = j.uid
    /\ cJob'.status = "Succeeded" => j.status = "Succeeded"
    /\ isValid(cJob') => cJob'.status = j.status

JobRead ==
    /\ jobEvents # <<>>
    /\ jobEvents' = Tail(jobEvents)
    /\ Cached(Head(jobEvents))
    /\ UNCHANGED <<job, my, fresh, born>>

\* addPyTorchJob fails an invalid job whose event was the last.
JobRejected ==
    /\ jobEvents # <<>> /\ Tail(jobEvents) = <<>>
    /\ ~isValid(Head(jobEvents)) /\ Head(jobEvents).uid # 0
    /\ Cached(Head(jobEvents))
    /\ job' = [job EXCEPT !.status = "Failed"]
    /\ jobEvents' = <<job'>>
    /\ fresh' = FALSE
    /\ UNCHANGED <<my, born>>

JobRelisted ==
    /\ Len(jobEvents) > 1
    /\ jobEvents' = Latest(jobEvents)
    /\ UNCHANGED <<job, cJob, my, fresh, born>>

JobForgotten ==
    /\ UNCHANGED <<job, born>>
    /\ cJob' = NoJob /\ my' = NoJob /\ fresh' = FALSE
    /\ jobEvents' = IF job.uid = 0 THEN <<>> ELSE <<job>>

JobStep == JobIdles \/ JobCopied \/ JobWritten \/ JobRead \/ JobRejected
           \/ JobRelisted \/ JobForgotten

\* Where the worker goes, and what it has listed.
Stays == UNCHANGED <<at, my, sPod, sSvc>>
Leaves == at' = "idle" /\ my' = NoJob /\ sPod' = NoPod /\ sSvc' = FALSE
Begins ==
    /\ isValid(my')
    /\ my'.uid = cJob.uid /\ my'.status = cJob.status
    /\ sPod' = Listed(cPod)
    /\ sSvc' = (cSvc = cJob.uid)
    /\ at' \in Places
    /\ at' \in Over => ~Terminal(cJob)
    /\ at' = "cleanPod" => sPod'.owner # 0
    /\ at' = "cleanService" => sSvc'
    /\ cJob.uid # 0
    /\ UNCHANGED <<pod, svc>>
Goes ==
    /\ at # "idle"
    /\ UNCHANGED my
    /\ sPod' \in {sPod, NoPod}
    /\ sSvc' = FALSE
    /\ at' \in Places \ {"cleanPod"}
    /\ at' \in Over => at \in Over
    /\ at' = "cleanService" => at = "cleanPod" /\ sSvc

WorkerStep == Stays \/ Leaves \/ Begins \/ Goes

PodChange ==
    /\ pod' \in PodType
    /\ pod'.owner \in {0, pod.owner} \/ (at \in Over /\ pod'.owner = my.uid)
    /\ pod'.done => pod'.owner \in ran' \/ (pod.done /\ pod'.owner = pod.owner)
    /\ pod'.deleting /\ ~pod.deleting => at = "cleanPod" /\ pod'.owner = pod.owner /\ pod.owner # 0

PodIdles == UNCHANGED <<pod, podEvents, cPod>>
PodWritten == PodChange /\ podEvents' = Append(podEvents, pod') /\ cPod' = cPod
PodRead ==
    /\ podEvents # <<>>
    /\ podEvents' = Tail(podEvents) /\ cPod' = Head(podEvents) /\ pod' = pod
PodRelisted ==
    /\ Len(podEvents) > 1
    /\ podEvents' = Latest(podEvents) /\ UNCHANGED <<pod, cPod>>
PodForgotten == pod' = pod /\ podEvents' = <<>> /\ cPod' = pod

PodStep == PodIdles \/ PodWritten \/ PodRead \/ PodRelisted \/ PodForgotten

SvcIdles == UNCHANGED <<svc, svcEvents, cSvc>>
SvcWritten ==
    /\ svc' = 0 \/ (at \in Over /\ svc' = my.uid)
    /\ svcEvents' = Append(svcEvents, svc') /\ cSvc' = cSvc
SvcRead ==
    /\ svcEvents # <<>>
    /\ svcEvents' = Tail(svcEvents) /\ cSvc' = Head(svcEvents) /\ svc' = svc
SvcRelisted ==
    /\ Len(svcEvents) > 1
    /\ svcEvents' = Latest(svcEvents) /\ UNCHANGED <<svc, cSvc>>
SvcForgotten == svc' = svc /\ svcEvents' = <<>> /\ cSvc' = svc

SvcStep == SvcIdles \/ SvcWritten \/ SvcRead \/ SvcRelisted \/ SvcForgotten

\* A success that was seen stays in mind.
Remembers == ran \subseteq ran'

Steps == JobStep /\ WorkerStep /\ PodStep /\ SvcStep /\ Remembers

-----------------------------------------------------------------------------
(* Sequences of events, and jobs. *)

\* What Append, Tail and Latest do, element by element.
LEMMA AppendElems ==
    ASSUME NEW S, NEW s \in Seq(S), NEW e \in S
    PROVE  /\ Append(s, e) \in Seq(S) /\ Append(s, e) # <<>>
           /\ Len(s) \in Nat /\ Len(Append(s, e)) = Len(s) + 1
           /\ Append(s, e)[Len(s) + 1] = e
           /\ \A i \in 1 .. Len(s) : Append(s, e)[i] = s[i]
OBVIOUS

\* The element that a delivery takes, and those it leaves.
LEMMA TailElems ==
    ASSUME NEW S, NEW s \in Seq(S), s # <<>>
    PROVE  /\ Len(s) \in Nat /\ 1 \in 1 .. Len(s)
           /\ Head(s) = s[1] /\ Head(s) \in S
           /\ Tail(s) \in Seq(S) /\ Len(Tail(s)) = Len(s) - 1
           /\ \A i \in 1 .. Len(Tail(s)) : i + 1 \in 1 .. Len(s) /\ Tail(s)[i] = s[i + 1]
OBVIOUS

\* The one event that a relist leaves.
LEMMA LatestElems ==
    ASSUME NEW S, NEW s \in Seq(S), Len(s) > 1
    PROVE  /\ Len(s) \in 1 .. Len(s) /\ s[Len(s)] \in S
           /\ Latest(s) \in Seq(S) /\ Latest(s) # <<>> /\ Len(Latest(s)) = 1
           /\ Latest(s)[1] = s[Len(s)]
BY DEF Latest

\* A sequence of one event.
LEMMA OneElem ==
    ASSUME NEW S, NEW e \in S
    PROVE  /\ <<e>> \in Seq(S) /\ <<e>> # <<>> /\ Len(<<e>>) = 1 /\ <<e>>[1] = e
OBVIOUS

\* The fields of a job, and the jobs that writes make of it.
LEMMA StoredFields ==
    ASSUME NEW j \in Stored
    PROVE  /\ j.uid \in Nat /\ j.status \in Statuses
           /\ j.uid # 0 => j.spec \in JobSpecType
           /\ \A t \in Statuses :
                LET k == [j EXCEPT !.status = t] IN
                  k \in Stored /\ k.uid = j.uid /\ k.spec = j.spec /\ k.status = t
           /\ j.uid # 0 => \A s \in JobSpecType :
                LET k == [j EXCEPT !.spec = s] IN
                  k \in Stored /\ k.uid = j.uid /\ k.spec = s /\ k.status = j.status
           /\ \A k \in Stored : j.uid = k.uid /\ j.spec = k.spec /\ j.status = k.status => j = k
BY DEF Stored, Statuses

\* Nobody's job.
LEMMA NoJobStored ==
    NoJob \in Stored /\ NoJob.uid = 0 /\ NoJob.status = "New" /\ ~isValid(NoJob)
BY DEF NoJob, Stored, Statuses, isValid

\* A valid job with its defaults is a valid job.
LEMMA DefaultsStored ==
    ASSUME NEW j \in Stored, isValid(j), NEW d \in SetDefaults_PyTorchJob(j.spec)
    PROVE  LET k == [j EXCEPT !.spec = d] IN
             k \in Stored /\ isValid(k) /\ k.uid = j.uid /\ k.status = j.status
<1>1. j.uid # 0 /\ j.spec \in JobSpecType /\ ValidateV1PyTorchJobSpec(j.spec)
  BY StoredFields DEF isValid
<1>2. d = Defaulted(j.spec)
  BY <1>1, OneOutcome
<1>3. d \in JobSpecType /\ ValidateV1PyTorchJobSpec(d)
  BY <1>1, <1>2, DefaultedIsValid
<1> QED BY <1>1, <1>3, StoredFields DEF isValid

-----------------------------------------------------------------------------
(* Every step is one of these. *)

UnderWay == <<api, streams, caches, born, ran>>

\* A step that leaves the objects, their copies and the worker alone.
LEMMA QuietStep ==
    ASSUME UNCHANGED <<UnderWay, locals, fresh>> PROVE Steps
BY DEF UnderWay, api, streams, caches, locals, Steps, JobStep, JobIdles, WorkerStep, Stays,
       PodStep, PodIdles, SvcStep, SvcIdles, Remembers

\* The end of a sync, whatever it did before.
LEMMA Leaving == ResetLocals => Leaves /\ my' = NoJob /\ fresh' = FALSE
BY DEF ResetLocals, Leaves

\* A new process.
LEMMA RestartSteps == ASSUME Restart PROVE Steps
BY DEF Restart, ResetLocals, api, history, Steps, JobStep, JobForgotten, WorkerStep, Leaves,
       PodStep, PodForgotten, SvcStep, SvcForgotten, Remembers

\* The steps of users, kubelets, the garbage collector and time.
LEMMA EnvironmentSteps == ASSUME TypeOK, Environment PROVE Steps
<1> USE DEF Steps, WorkerStep, Stays, Remembers, locals
<1>0. job \in Stored /\ pod \in PodType /\ born \in Nat
  BY DEF TypeOK
<1>1. CASE UserCreatesJob
  <2>1. PICK s \in manifests : UserWrites([uid |-> born', spec |-> s, status |-> "New"])
    BY <1>1 DEF UserCreatesJob
  <2>2. born' = born + 1 /\ s \in JobSpecType
    BY <1>1, <2>1 DEF UserCreatesJob, TypeOK
  <2>3. job' = [uid |-> born', spec |-> s, status |-> "New"]
    BY <2>1 DEF UserWrites, SetJob
  <2>4. job' \in Stored
    BY <1>0, <2>2, <2>3 DEF Stored, Statuses
  <2> QED
    BY <1>0, <2>1, <2>2, <2>3, <2>4
    DEF UserWrites, SetJob, caches, JobStep, JobWritten, JobChange, PodStep, PodIdles,
        SvcStep, SvcIdles
<1>2. CASE UserDeletesJob
  BY <1>2, NoJobStored
  DEF UserDeletesJob, UserWrites, SetJob, caches, JobStep, JobWritten, JobChange, PodStep,
      PodIdles, SvcStep, SvcIdles
<1>3. CASE UserEditsSpec
  <2>1. PICK s \in manifests : UserWrites([job EXCEPT !.spec = s])
    BY <1>3 DEF UserEditsSpec
  <2>2. job.uid # 0 /\ born' = born /\ s \in JobSpecType
    BY <1>3, <2>1 DEF UserEditsSpec, TypeOK
  <2>3. job' \in Stored /\ job'.uid = job.uid /\ job'.status = job.status
    BY <1>0, <2>1, <2>2, StoredFields DEF UserWrites, SetJob
  <2> QED
    BY <2>1, <2>2, <2>3
    DEF UserWrites, SetJob, caches, JobStep, JobWritten, JobChange, PodStep, PodIdles,
        SvcStep, SvcIdles
<1>4. CASE PodSucceeds
  BY <1>0, <1>4
  DEF PodSucceeds, SetPod, caches, PodType, PodStep, PodWritten, PodChange, JobStep, JobIdles,
      SvcStep, SvcIdles
<1>5. CASE PodRemoved
  BY <1>0, <1>5
  DEF PodRemoved, SetPod, NoPod, caches, history, PodType, PodStep, PodWritten, PodChange,
      JobStep, JobIdles, SvcStep, SvcIdles
<1>6. CASE ServiceRemoved
  BY <1>6
  DEF ServiceRemoved, SetSvc, caches, history, PodStep, PodIdles, JobStep, JobIdles, SvcStep,
      SvcWritten
<1>7. CASE TTLPasses
  BY <1>7, QuietStep DEF TTLPasses, UnderWay
<1> QED BY <1>1, <1>2, <1>3, <1>4, <1>5, <1>6, <1>7 DEF Environment

\* The events of the job.
LEMMA DeliverJobSteps == ASSUME TypeOK, DeliverJob PROVE Steps
<1> DEFINE j == Head(jobEvents)
<1>0. jobEvents \in Seq(Stored) /\ jobEvents # <<>>
  BY DEF DeliverJob, ValidJobAdded, InvalidJobAdded, JobUpdated, JobDeleted, NextJob, TypeOK
<1>1. j \in Stored
  BY <1>0, TailElems
<1> HIDE DEF j
<1>2. CASE ValidJobAdded
  <2>1. PICK d \in SetDefaults_PyTorchJob(j.spec) : cJob' = [j EXCEPT !.spec = d]
    BY <1>2 DEF ValidJobAdded, j
  <2>2. Cached(j)
    BY <1>1, <1>2, <2>1, DefaultsStored DEF ValidJobAdded, Cached, j
  <2> QED
    BY <1>0, <1>2, <2>2
    DEF ValidJobAdded, NextJob, j, api, locals, history, Steps, JobStep, JobRead, WorkerStep,
        Stays, PodStep, PodIdles, SvcStep, SvcIdles, Remembers
<1>3. CASE InvalidJobAdded
  <2>1. cJob' \in {j, [j EXCEPT !.status = "Failed"]} /\ j.uid # 0 /\ ~isValid(j)
    BY <1>3 DEF InvalidJobAdded, j
  <2>2. Cached(j)
    <3>1. CASE cJob' = j
      BY <1>1, <2>1, <3>1, StoredFields DEF Cached
    <3>2. CASE cJob' = [j EXCEPT !.status = "Failed"]
      BY <1>1, <2>1, <3>2, StoredFields DEF Cached, Statuses, isValid
    <3> QED BY <2>1, <3>1, <3>2
  <2>3. /\ UNCHANGED <<pod, svc, podEvents, svcEvents, cPod, cSvc, locals, history>>
        /\ Stays /\ PodIdles /\ SvcIdles /\ Remembers
    BY <1>3 DEF InvalidJobAdded, locals, history, Stays, PodIdles, SvcIdles, Remembers
  <2>4. JobRejected \/ JobRead
    BY <1>0, <1>3, <2>1, <2>2, <2>3
    DEF InvalidJobAdded, JobRejected, JobRead, j, locals, history
  <2> QED BY <2>3, <2>4 DEF Steps, JobStep, WorkerStep, PodStep, SvcStep
<1>4. CASE JobUpdated
  <2>1. Cached(j)
    BY <1>1, <1>4 DEF JobUpdated, Cached, j
  <2> QED
    BY <1>0, <1>4, <2>1
    DEF JobUpdated, NextJob, j, api, locals, history, Steps, JobStep, JobRead, WorkerStep,
        Stays, PodStep, PodIdles, SvcStep, SvcIdles, Remembers
<1>5. CASE JobDeleted
  <2>1. Cached(j)
    BY <1>1, <1>5, NoJobStored DEF JobDeleted, Cached, j
  <2> QED
    BY <1>0, <1>5, <2>1
    DEF JobDeleted, NextJob, j, api, locals, history, Steps, JobStep, JobRead, WorkerStep,
        Stays, PodStep, PodIdles, SvcStep, SvcIdles, Remembers
<1> QED BY <1>2, <1>3, <1>4, <1>5 DEF DeliverJob


\* The events of the pod and of the service.
LEMMA DeliverPodSteps == ASSUME DeliverPod PROVE Steps
BY DEF DeliverPod, api, locals, history, Steps, JobStep, JobIdles, WorkerStep, Stays, PodStep,
       PodRead, SvcStep, SvcIdles, Remembers

\* The same for the service.
LEMMA DeliverServiceSteps == ASSUME DeliverService PROVE Steps
BY DEF DeliverService, api, locals, history, Steps, JobStep, JobIdles, WorkerStep, Stays,
       PodStep, PodIdles, SvcStep, SvcRead, Remembers

\* A watch that lists again.
LEMMA WatchBreaksSteps == ASSUME WatchBreaks PROVE Steps
<1> /\ UNCHANGED <<job, pod, svc, cJob, cPod, cSvc, my, fresh, born, ran>> /\ Stays
  BY DEF WatchBreaks, api, caches, locals, history, Stays
<1> USE DEF WatchBreaks, Steps, JobStep, WorkerStep, PodStep, SvcStep, Remembers
<1>1. CASE Len(jobEvents) > 1 /\ jobEvents' = Latest(jobEvents)
           /\ UNCHANGED <<podEvents, svcEvents>>
  BY <1>1 DEF JobRelisted, PodIdles, SvcIdles
<1>2. CASE Len(podEvents) > 1 /\ podEvents' = Latest(podEvents)
           /\ UNCHANGED <<jobEvents, svcEvents>>
  BY <1>2 DEF JobIdles, PodRelisted, SvcIdles
<1>3. CASE Len(svcEvents) > 1 /\ svcEvents' = Latest(svcEvents)
           /\ UNCHANGED <<jobEvents, podEvents>>
  BY <1>3 DEF JobIdles, PodIdles, SvcRelisted
<1> QED BY <1>1, <1>2, <1>3

\* Resyncs and expiring expectations.
LEMMA TimersSteps == ASSUME Timers PROVE Steps
BY QuietStep DEF Timers, Resync, ExpectationExpires, UnderWay, api, streams, caches, locals,
                 history

\* The sync up to its first call.
LEMMA StartSyncSteps == ASSUME TypeOK, StartSync PROVE Steps
<1>1. PICK d \in SetDefaults_PyTorchJob(cJob.spec), running \in BOOLEAN :
        /\ my' = [cJob EXCEPT !.spec = d]
        /\ sPod' = Listed(cPod)
        /\ sSvc' = (cSvc = cJob.uid)
        /\ at' = IF ~Terminal(cJob) THEN "pod"
                 ELSE IF PodDoomed(d, sPod', running) THEN "cleanPod"
                 ELSE IF SvcDoomed(d, sPod', sSvc') THEN "cleanService"
                 ELSE "ttl"
  BY DEF StartSync
<1>2. isValid(cJob) /\ cJob \in Stored
  BY DEF StartSync, CanSync, TypeOK
<1>3. my' \in Stored /\ isValid(my') /\ my'.uid = cJob.uid /\ my'.status = cJob.status
  BY <1>1, <1>2, DefaultsStored
<1>4. Begins
  BY <1>1, <1>2, <1>3
  DEF Begins, StartSync, api, PodDoomed, SvcDoomed, Over, Places, isValid
<1>5. JobCopied
  BY <1>2, <1>3 DEF JobCopied, StartSync, api, streams, caches, history
<1> QED
  BY <1>4, <1>5
  DEF StartSync, api, streams, caches, history, Steps, JobStep, WorkerStep, PodStep, PodIdles,
      SvcStep, SvcIdles, Remembers

\* The steps of a sync that make no call.
LEMMA NoCallSteps ==
    ASSUME TypeOK,
           JobIsGone \/ InvalidPanics \/ SkipSync \/ EndCleaning \/ TTLPanics \/ PodIsThere
             \/ StatusUnchanged
    PROVE  Steps
<1>1. CASE JobIsGone \/ SkipSync
  BY <1>1, QuietStep DEF JobIsGone, SkipSync, UnderWay, history
<1>2. CASE InvalidPanics \/ TTLPanics
  BY <1>2, RestartSteps DEF InvalidPanics, TTLPanics
<1>3. CASE EndCleaning \/ StatusUnchanged
  <2>1. Leaves /\ my' = NoJob /\ fresh' = FALSE
    BY <1>3, Leaving DEF EndCleaning, StatusUnchanged, SyncEnds, SyncFails
  <2>2. UNCHANGED UnderWay
    BY <1>3 DEF EndCleaning, StatusUnchanged, UnderWay, history
  <2> QED
    BY <2>1, <2>2
    DEF UnderWay, api, streams, caches, Steps, JobStep, JobIdles, WorkerStep, PodStep, PodIdles,
        SvcStep, SvcIdles, Remembers
<1>4. CASE PodIsThere
  <2>1. Goes
    BY <1>4 DEF PodIsThere, Goes, Goto, AfterPod, Over, Places
  <2>2. UNCHANGED <<UnderWay, my, fresh>>
    BY <1>4, <2>1 DEF PodIsThere, UnderWay, Goes, history
  <2> QED
    BY <2>1, <2>2
    DEF UnderWay, api, streams, caches, Steps, JobStep, JobIdles, WorkerStep, PodStep, PodIdles,
        SvcStep, SvcIdles, Remembers
<1> QED BY <1>1, <1>2, <1>3, <1>4

\* A call about the pod or the service, and where the sync goes from there.
LEMMA CallSteps ==
    ASSUME UNCHANGED <<job, jobEvents, caches, history>>,
           PodStep, SvcStep,
           (Leaves /\ fresh' = FALSE) \/ (Goes /\ fresh' = fresh)
    PROVE  Steps
BY DEF caches, history, Goes, Leaves, Steps, JobStep, JobIdles, WorkerStep, Remembers

\* Deletions and creations of the pod.
LEMMA PodCallSteps == ASSUME TypeOK, CleanPod \/ CreatePod PROVE Steps
<1>0. /\ pod \in PodType /\ my \in Stored
      /\ UNCHANGED <<caches, history>>
  BY DEF TypeOK, CleanPod, CreatePod
<1> DEFINE Called == UNCHANGED <<job, jobEvents, svc, svcEvents>> /\ PodStep
<1>1. NoCall => Called
  BY <1>0 DEF NoCall, api, streams, caches, PodStep, PodIdles
<1>2. CASE CleanPod
  <2>1. DeletePodCall => Called
    BY <1>0, <1>2
    DEF CleanPod, DeletePodCall, SetPod, PodType, PodStep, PodIdles, PodWritten, PodChange,
        caches, history
  <2>2. SyncFails => Leaves /\ fresh' = FALSE
    BY Leaving DEF SyncFails
  <2>3. Goto(IF SvcDoomed(my.spec, sPod, sSvc) THEN "cleanService" ELSE "ttl") => Goes
    BY <1>2 DEF CleanPod, Goto, Goes, SvcDoomed, Over, Places
  <2>4. Called /\ ((Leaves /\ fresh' = FALSE) \/ (Goes /\ fresh' = fresh))
    <3> HIDE DEF Called
    <3> QED BY <1>1, <1>2, <2>1, <2>2, <2>3 DEF CleanPod
  <2>5. PodStep /\ SvcStep /\ UNCHANGED <<job, jobEvents>>
    BY <1>0, <2>4 DEF SvcStep, SvcIdles, caches
  <2> HIDE DEF Called
  <2> QED BY <1>0, <2>4, <2>5, CallSteps
<1>3. CASE CreatePod
  <2>1. CreatePodCall => Called
    BY <1>0, <1>3, StoredFields
    DEF CreatePod, CreatePodCall, SetPod, NoPod, PodType, PodStep, PodWritten, PodChange, Over,
        caches
  <2>2. SyncFails => Leaves /\ fresh' = FALSE
    BY Leaving DEF SyncFails
  <2>3. Goto(AfterPod) => Goes
    BY <1>3 DEF CreatePod, AfterPod, Goto, Goes, Over, Places
  <2>4. Called /\ ((Leaves /\ fresh' = FALSE) \/ (Goes /\ fresh' = fresh))
    <3> HIDE DEF Called
    <3> QED BY <1>1, <1>3, <2>1, <2>2, <2>3 DEF CreatePod
  <2>5. PodStep /\ SvcStep /\ UNCHANGED <<job, jobEvents>>
    BY <1>0, <2>4 DEF SvcStep, SvcIdles, caches
  <2> HIDE DEF Called
  <2> QED BY <1>0, <2>4, <2>5, CallSteps
<1> QED BY <1>2, <1>3

\* Deletions and creations of the service.
LEMMA ServiceCallSteps == ASSUME TypeOK, CleanService \/ CreateService PROVE Steps
<1>0. /\ svc \in Nat /\ my \in Stored
      /\ UNCHANGED <<caches, history>>
  BY DEF TypeOK, CleanService, CreateService
<1> DEFINE Called == UNCHANGED <<job, jobEvents, pod, podEvents>> /\ SvcStep
<1>1. NoCall => Called
  BY <1>0 DEF NoCall, api, streams, caches, SvcStep, SvcIdles
<1>2. SyncFails => Leaves /\ fresh' = FALSE
  BY Leaving DEF SyncFails
<1>3. CASE CleanService
  <2>1. DeleteServiceCall => Called
    BY <1>0 DEF DeleteServiceCall, SetSvc, SvcStep, SvcIdles, SvcWritten, caches
  <2>2. Goto("ttl") => Goes
    BY <1>3 DEF CleanService, Goto, Goes, Over, Places
  <2>3. Called /\ ((Leaves /\ fresh' = FALSE) \/ (Goes /\ fresh' = fresh))
    <3> HIDE DEF Called
    <3> QED BY <1>1, <1>2, <1>3, <2>1, <2>2 DEF CleanService
  <2>4. PodStep /\ SvcStep /\ UNCHANGED <<job, jobEvents>>
    BY <1>0, <2>3 DEF PodStep, PodIdles, caches
  <2> HIDE DEF Called
  <2> QED BY <1>0, <2>3, <2>4, CallSteps
<1>4. CASE CreateService
  <2>1. CreateServiceCall => Called
    BY <1>0, <1>4
    DEF CreateService, CreateServiceCall, SetSvc, SvcStep, SvcWritten, Over, caches
  <2>2. Goto("status") => Goes
    BY <1>4 DEF CreateService, Goto, Goes, Over, Places
  <2>3. Called /\ ((Leaves /\ fresh' = FALSE) \/ (Goes /\ fresh' = fresh))
    <3> HIDE DEF Called
    <3> QED BY <1>1, <1>2, <1>4, <2>1, <2>2 DEF CreateService
  <2>4. PodStep /\ SvcStep /\ UNCHANGED <<job, jobEvents>>
    BY <1>0, <2>3 DEF PodStep, PodIdles, caches
  <2> HIDE DEF Called
  <2> QED BY <1>0, <2>3, <2>4, CallSteps
<1> QED BY <1>3, <1>4

\* The deletion of the job and the update of its status.
LEMMA JobCallSteps == ASSUME TypeOK, DeleteJob \/ UpdateStatus PROVE Steps
<1>0. job \in Stored
  BY DEF TypeOK
<1>1. /\ UNCHANGED <<pod, svc, podEvents, svcEvents, caches, history>>
      /\ SyncEnds \/ SyncFails
  BY DEF DeleteJob, UpdateStatus
<1>2. Leaves /\ my' = NoJob /\ fresh' = FALSE
  BY <1>1, Leaving DEF SyncEnds, SyncFails
<1>3. CASE UNCHANGED <<job, jobEvents>>
  BY <1>1, <1>2, <1>3
  DEF caches, history, Steps, JobStep, JobIdles, WorkerStep, PodStep, PodIdles, SvcStep,
      SvcIdles, Remembers
<1>4. CASE DeleteJob /\ job.uid # 0 /\ job' = NoJob /\ jobEvents' = Append(jobEvents, NoJob)
  BY <1>1, <1>2, <1>4, NoJobStored
  DEF caches, history, Steps, JobStep, JobWritten, JobChange, WorkerStep, PodStep, PodIdles,
      SvcStep, SvcIdles, Remembers
<1>5. CASE UpdateStatus /\ UpdateStatusCall
  <2>1. newStatus \in Statuses
    BY DEF newStatus, Statuses
  <2>2. /\ job' \in Stored /\ job'.uid = job.uid /\ job'.status = newStatus
        /\ fresh /\ at = "status" /\ jobEvents' = Append(jobEvents, job')
    BY <1>0, <1>5, <2>1, StoredFields DEF UpdateStatus, UpdateStatusCall, SetJob
  <2> QED
    BY <1>1, <1>2, <2>2
    DEF caches, history, Steps, JobStep, JobWritten, JobChange, WorkerStep, PodStep, PodIdles,
        SvcStep, SvcIdles, Remembers
<1> QED BY <1>3, <1>4, <1>5 DEF DeleteJob, UpdateStatus

\* Every step of the system is one of those kinds.
LEMMA NextSteps == ASSUME TypeOK, [Next]_vars PROVE Steps
<1>1. CASE UNCHANGED vars
  BY <1>1, QuietStep DEF vars, UnderWay, history
<1>2. CASE Crash
  BY <1>2, RestartSteps DEF Crash
<1>3. CASE Sync
  BY <1>3, StartSyncSteps, NoCallSteps, PodCallSteps, ServiceCallSteps, JobCallSteps DEF Sync
<1> QED
  BY <1>1, <1>2, <1>3, EnvironmentSteps, DeliverJobSteps, DeliverPodSteps,
     DeliverServiceSteps, WatchBreaksSteps, TimersSteps
  DEF Next, Deliver

-----------------------------------------------------------------------------
(* Types. *)

\* The job, its copies and its events.
LEMMA JobTyped ==
    ASSUME TypeOK, JobStep
    PROVE  /\ job' \in Stored /\ cJob' \in Stored /\ my' \in Stored
           /\ jobEvents' \in Seq(Stored)
           /\ fresh' \in BOOLEAN
           /\ born' \in Nat /\ born <= born'
<1>0. /\ job \in Stored /\ cJob \in Stored /\ my \in Stored
      /\ jobEvents \in Seq(Stored) /\ fresh \in BOOLEAN /\ born \in Nat
      /\ NoJob \in Stored
  BY NoJobStored DEF TypeOK
<1> DEFINE Kept == /\ job' \in Stored /\ cJob' \in Stored /\ my' \in Stored
                   /\ jobEvents' \in Seq(Stored)
                   /\ born' \in Nat /\ born <= born'
<1>1. ASSUME JobIdles \/ JobCopied PROVE Kept
  BY <1>0, <1>1 DEF JobIdles, JobCopied
<1>2. ASSUME JobWritten PROVE Kept
  <2>1. jobEvents' \in Seq(Stored)
    BY <1>0, <1>2, AppendElems DEF JobWritten
  <2> QED BY <1>0, <1>2, <2>1 DEF JobWritten, JobChange
<1>3. ASSUME JobRead PROVE Kept
  <2>1. jobEvents' \in Seq(Stored)
    BY <1>0, <1>3, TailElems DEF JobRead
  <2> QED BY <1>0, <1>3, <2>1 DEF JobRead, Cached
<1>4. ASSUME JobRejected PROVE Kept
  <2>1. job' \in Stored
    BY <1>0, <1>4, StoredFields DEF JobRejected, Statuses
  <2> QED BY <1>0, <1>4, <2>1, OneElem DEF JobRejected, Cached
<1>5. ASSUME JobRelisted PROVE Kept
  <2>1. jobEvents' \in Seq(Stored)
    BY <1>0, <1>5, LatestElems DEF JobRelisted
  <2> QED BY <1>0, <1>5, <2>1 DEF JobRelisted
<1>6. ASSUME JobForgotten PROVE Kept
  <2>1. jobEvents' \in Seq(Stored)
    BY <1>0, <1>6, OneElem DEF JobForgotten
  <2> QED BY <1>0, <1>6, <2>1 DEF JobForgotten
<1> HIDE DEF Kept
<1>7. fresh' \in BOOLEAN
  BY <1>0, Zenon
  DEF JobStep, JobIdles, JobCopied, JobWritten, JobRead, JobRejected, JobRelisted, JobForgotten
<1>8. Kept
  BY <1>1, <1>2, <1>3, <1>4, <1>5, <1>6 DEF JobStep
<1> QED BY <1>7, <1>8 DEF Kept

\* The pod and the service, their events, and what is cached and listed of them.
LEMMA ReplicasTyped ==
    ASSUME TypeOK, PodStep, SvcStep, WorkerStep
    PROVE  /\ pod' \in PodType /\ cPod' \in PodType /\ sPod' \in PodType
           /\ podEvents' \in Seq(PodType)
           /\ svc' \in Nat /\ cSvc' \in Nat /\ sSvc' \in BOOLEAN
           /\ svcEvents' \in Seq(Nat)
<1>0. /\ pod \in PodType /\ cPod \in PodType /\ sPod \in PodType /\ podEvents \in Seq(PodType)
      /\ svc \in Nat /\ cSvc \in Nat /\ sSvc \in BOOLEAN /\ svcEvents \in Seq(Nat)
      /\ my.uid \in Nat
  BY StoredFields DEF TypeOK
<1>1. pod' \in PodType /\ cPod' \in PodType /\ podEvents' \in Seq(PodType)
  <2>1. CASE PodIdles
    BY <1>0, <2>1 DEF PodIdles
  <2>2. CASE PodWritten
    BY <1>0, <2>2, AppendElems DEF PodWritten, PodChange
  <2>3. CASE PodRead
    BY <1>0, <2>3, TailElems DEF PodRead
  <2>4. CASE PodRelisted
    BY <1>0, <2>4, LatestElems DEF PodRelisted
  <2>5. CASE PodForgotten
    BY <1>0, <2>5 DEF PodForgotten
  <2> QED BY <2>1, <2>2, <2>3, <2>4, <2>5 DEF PodStep
<1>2. svc' \in Nat /\ cSvc' \in Nat /\ svcEvents' \in Seq(Nat)
  <2>1. CASE SvcIdles
    BY <1>0, <2>1 DEF SvcIdles
  <2>2. CASE SvcWritten
    BY <1>0, <2>2, AppendElems DEF SvcWritten
  <2>3. CASE SvcRead
    BY <1>0, <2>3, TailElems DEF SvcRead
  <2>4. CASE SvcRelisted
    BY <1>0, <2>4, LatestElems DEF SvcRelisted
  <2>5. CASE SvcForgotten
    BY <1>0, <2>5 DEF SvcForgotten
  <2> QED BY <2>1, <2>2, <2>3, <2>4, <2>5 DEF SvcStep
<1>3. sPod' \in PodType /\ sSvc' \in BOOLEAN
  <2>1. Listed(cPod) \in PodType /\ NoPod \in PodType
    BY <1>0 DEF Listed, NoPod, PodType
  <2> QED BY <1>0, <2>1 DEF WorkerStep, Stays, Leaves, Begins, Goes
<1> QED BY <1>1, <1>2, <1>3

\* Where the worker is.
LEMMA WorkerTyped ==
    ASSUME TypeOK, WorkerStep
    PROVE  at' \in Places /\ (at' # "idle" => isValid(my)')
<1>1. at \in Places /\ (at # "idle" => isValid(my))
  BY DEF TypeOK, Places
<1> QED BY <1>1 DEF WorkerStep, Stays, Leaves, Begins, Goes, Places, isValid

\* What the order of jobs does not depend on.
Rest ==
    /\ expecting \subseteq Kinds
    /\ queued \in BOOLEAN
    /\ manifests \subseteq JobSpecType
    /\ left \in [Incidents -> Nat]
    /\ ran \subseteq Nat /\ expired \subseteq Nat

\* An incident that is spent leaves natural numbers.
LEMMA Spending ==
    ASSUME NEW m \in Incidents, left \in [Incidents -> Nat], Spend(m)
    PROVE  left' \in [Incidents -> Nat]
BY DEF Spend

\* The steps of the environment keep the types of the rest.
LEMMA EnvironmentRest == ASSUME TypeOK, Environment PROVE Rest'
<1>0. /\ Rest /\ job \in Stored /\ pod \in PodType
      /\ "create" \in Incidents /\ "invalid" \in Incidents /\ "edit" \in Incidents
  BY DEF TypeOK, Rest, Incidents
<1>1. CASE UserCreatesJob
  <2>1. PICK s \in manifests :
          LET bad == IF ValidateV1PyTorchJobSpec(s) THEN 0 ELSE 1 IN
            /\ left["invalid"] >= bad
            /\ left' = [left EXCEPT !["create"] = @ - 1, !["invalid"] = @ - bad]
            /\ UserWrites([uid |-> born', spec |-> s, status |-> "New"])
    BY <1>1 DEF UserCreatesJob
  <2>2. left' \in [Incidents -> Nat]
    <3>1. PICK bad \in {0, 1} :
            /\ left["invalid"] >= bad
            /\ left' = [left EXCEPT !["create"] = @ - 1, !["invalid"] = @ - bad]
      BY <2>1
    <3>2. left["create"] > 0 /\ left["create"] \in Nat /\ left["invalid"] \in Nat
      BY <1>0, <1>1 DEF UserCreatesJob, Rest
    <3>3. left["create"] - 1 \in Nat /\ left["invalid"] - bad \in Nat
      BY <3>1, <3>2
    <3> QED BY <1>0, <3>1, <3>3 DEF Rest
  <2>3. UNCHANGED <<expecting, queued, manifests, ran, expired>>
    BY <2>1 DEF UserWrites
  <2> QED BY <1>0, <2>2, <2>3 DEF Rest
<1>2. CASE UserDeletesJob
  BY <1>0, <1>2 DEF UserDeletesJob, UserWrites, Rest
<1>3. CASE UserEditsSpec
  <2>1. left' \in [Incidents -> Nat]
    BY <1>0, <1>3, Spending DEF UserEditsSpec, Rest
  <2> QED BY <1>0, <1>3, <2>1 DEF UserEditsSpec, UserWrites, Rest
<1>4. CASE PodSucceeds
  <2>1. pod.owner \in Nat
    BY <1>0 DEF PodType
  <2> QED BY <1>0, <1>4, <2>1 DEF PodSucceeds, Rest
<1>5. CASE PodRemoved \/ ServiceRemoved
  BY <1>0, <1>5 DEF PodRemoved, ServiceRemoved, history, Rest
<1>6. CASE TTLPasses
  <2>1. job.uid \in Nat
    BY <1>0, StoredFields
  <2> QED BY <1>0, <1>6, <2>1 DEF TTLPasses, Rest
<1> QED BY <1>1, <1>2, <1>3, <1>4, <1>5, <1>6 DEF Environment

\* So do the informers and timers.
LEMMA DeliveriesRest ==
    ASSUME TypeOK, Deliver \/ WatchBreaks \/ Timers PROVE Rest'
<1>0. Rest /\ "error" \in Incidents /\ "relist" \in Incidents
  BY DEF TypeOK, Rest, Incidents
<1> USE DEF history
<1>1. CASE ValidJobAdded
  BY <1>0, <1>1 DEF ValidJobAdded, Rest
<1>2. CASE InvalidJobAdded
  <2>1. left' \in [Incidents -> Nat]
    BY <1>0, <1>2, Spending DEF InvalidJobAdded, Rest
  <2>2. UNCHANGED <<expecting, queued, history>>
    BY <1>2 DEF InvalidJobAdded
  <2> QED BY <1>0, <2>1, <2>2 DEF Rest
<1>3. CASE JobUpdated
  <2>1. queued' \in BOOLEAN
    BY <1>3 DEF JobUpdated
  <2> QED BY <1>0, <1>3, <2>1 DEF JobUpdated, Rest
<1>4. CASE JobDeleted
  <2>1. queued' \in BOOLEAN
    BY <1>4 DEF JobDeleted
  <2> QED BY <1>0, <1>4, <2>1 DEF JobDeleted, Rest
<1>5. CASE DeliverPod
  <2>1. UNCHANGED <<left, history>>
    BY <1>5 DEF DeliverPod
  <2>2. queued' \in BOOLEAN
    BY <1>0, <1>5 DEF DeliverPod, Rest
  <2>3. expecting' \subseteq expecting
    BY <1>5 DEF DeliverPod
  <2> QED BY <1>0, <2>1, <2>2, <2>3 DEF Rest
<1>6. CASE DeliverService
  <2>1. UNCHANGED <<left, history>>
    BY <1>6 DEF DeliverService
  <2>2. queued' \in BOOLEAN /\ expecting' \subseteq expecting
    BY <1>0, <1>6 DEF DeliverService, Rest
  <2> QED BY <1>0, <2>1, <2>2 DEF Rest
<1>7. CASE WatchBreaks
  <2>1. left' \in [Incidents -> Nat]
    BY <1>0, <1>7, Spending DEF WatchBreaks, Rest
  <2> QED BY <1>0, <1>7, <2>1 DEF WatchBreaks, Rest
<1>8. CASE Timers
  BY <1>0, <1>8 DEF Timers, Resync, ExpectationExpires, Rest
<1> QED BY <1>1, <1>2, <1>3, <1>4, <1>5, <1>6, <1>7, <1>8 DEF Deliver, DeliverJob

\* So does the process, alive or dying.
LEMMA ProcessRest == ASSUME TypeOK, Crash \/ Sync PROVE Rest'
<1>0. Rest /\ "error" \in Incidents /\ "crash" \in Incidents
      /\ "pods" \in Kinds /\ "services" \in Kinds
  BY DEF TypeOK, Rest, Incidents, Kinds
<1> DEFINE Kept == left' \in [Incidents -> Nat]
<1>1. Restart => UNCHANGED history /\ expecting' \subseteq Kinds /\ queued' \in BOOLEAN
  BY DEF Restart
<1>2. (SyncEnds \/ SyncFails) => queued' \in BOOLEAN
  BY <1>0 DEF SyncEnds, SyncFails, Rest
<1>3. Spend("error") \/ Spend("crash") \/ UNCHANGED left => Kept
  BY <1>0, Spending DEF Rest
<1> HIDE DEF Kept
<1>4. CASE Crash \/ InvalidPanics \/ TTLPanics
  <2>1. Restart /\ Kept
    BY <1>3, <1>4 DEF Crash, InvalidPanics, TTLPanics
  <2> QED BY <1>0, <1>1, <2>1 DEF Rest, history, Kept
<1>5. CASE JobIsGone \/ SkipSync \/ StartSync \/ PodIsThere
  <2>1. UNCHANGED <<expecting, left, history>> /\ queued' \in BOOLEAN
    BY <1>0, <1>5 DEF JobIsGone, SkipSync, StartSync, PodIsThere, Rest
  <2> QED BY <1>0, <2>1 DEF Rest, history
<1>6. CASE CleanPod \/ CleanService \/ EndCleaning \/ DeleteJob \/ StatusUnchanged
           \/ UpdateStatus
  <2>1. UNCHANGED <<expecting, history>>
    BY <1>6 DEF CleanPod, CleanService, EndCleaning, DeleteJob, StatusUnchanged, UpdateStatus
  <2>2. Kept
    BY <1>3, <1>6
    DEF CleanPod, CleanService, EndCleaning, DeleteJob, StatusUnchanged, UpdateStatus
  <2>3. queued' \in BOOLEAN
    BY <1>0, <1>2, <1>6
    DEF CleanPod, CleanService, EndCleaning, DeleteJob, StatusUnchanged, UpdateStatus, Rest
  <2> QED BY <1>0, <2>1, <2>2, <2>3 DEF Rest, history, Kept
<1>7. CASE CreatePod \/ CreateService
  <2>1. UNCHANGED history /\ expecting' \subseteq Kinds
    BY <1>0, <1>7 DEF CreatePod, CreateService, Rest
  <2>2. Kept
    BY <1>3, <1>7 DEF CreatePod, CreateService
  <2>3. queued' \in BOOLEAN
    BY <1>0, <1>2, <1>7 DEF CreatePod, CreateService, Rest
  <2> QED BY <1>0, <2>1, <2>2, <2>3 DEF Rest, history, Kept
<1> QED BY <1>4, <1>5, <1>6, <1>7 DEF Sync

\* The types are kept.
LEMMA Typed == ASSUME TypeOK, [Next]_vars PROVE TypeOK'
<1>1. Steps
  BY NextSteps
<1>2. Rest'
  <2>1. Rest
    BY DEF TypeOK, Rest
  <2>2. CASE UNCHANGED vars
    BY <2>1, <2>2 DEF vars, history, Rest
  <2> QED BY <2>2, EnvironmentRest, DeliveriesRest, ProcessRest DEF Next
<1> QED
  BY <1>1, <1>2, JobTyped, ReplicasTyped, WorkerTyped DEF Steps, Rest, TypeOK, Places

-----------------------------------------------------------------------------
(* The job, from what is stored to the copy of a sync. *)

\* What is known of the fields of the job and its copies.
LEMMA JobFields ==
    ASSUME TypeOK
    PROVE  /\ job \in Stored /\ cJob \in Stored /\ my \in Stored
           /\ job.uid \in Nat /\ cJob.uid \in Nat /\ my.uid \in Nat /\ born \in Nat
           /\ jobEvents \in Seq(Stored) /\ Len(jobEvents) \in Nat
           /\ \A i \in 1 .. Len(jobEvents) :
                jobEvents[i] \in Stored /\ jobEvents[i].uid \in Nat
<1>1. /\ job \in Stored /\ cJob \in Stored /\ my \in Stored /\ born \in Nat
      /\ jobEvents \in Seq(Stored)
  BY DEF TypeOK
<1>2. Len(jobEvents) \in Nat /\ \A i \in 1 .. Len(jobEvents) : jobEvents[i] \in Stored
  BY <1>1
<1> QED BY <1>1, <1>2, StoredFields

\* The watch shows the present in the end.
LEMMA LastIsStoredKept == ASSUME TypeOK, LastIsStored, JobStep PROVE LastIsStored'
<1>0. jobEvents \in Seq(Stored) /\ cJob \in Stored /\ job \in Stored
  BY DEF TypeOK
<1> USE DEF LastIsStored
<1>1. CASE JobIdles \/ JobCopied
  BY <1>1 DEF JobIdles, JobCopied, isValid
<1>2. CASE JobWritten
  <2>1. jobEvents' # <<>> /\ jobEvents'[Len(jobEvents')] = job'
    BY <1>0, <1>2, AppendElems DEF JobWritten
  <2> QED BY <2>1
<1>3. CASE JobRead
  <2>1. jobEvents # <<>> /\ jobEvents' = Tail(jobEvents) /\ job' = job
    BY <1>3 DEF JobRead
  <2>2. jobEvents[Len(jobEvents)] = job
    BY <2>1
  <2>3. CASE jobEvents' = <<>>
    <3>1. Len(jobEvents') = 0
      BY <2>3
    <3>2. Head(jobEvents) = job
      BY <1>0, <2>1, <2>2, <3>1, TailElems
    <3> QED BY <1>3, <2>1, <2>3, <3>2 DEF JobRead, Cached, isValid
  <2>4. CASE jobEvents' # <<>>
    <3>1. jobEvents'[Len(jobEvents')] = job
      <4>1. Len(jobEvents') \in 1 .. Len(jobEvents')
        BY <1>0, <2>1, <2>4
      <4> QED BY <1>0, <2>1, <2>2, <4>1, TailElems
    <3> QED BY <2>1, <2>4, <3>1
  <2> QED BY <2>3, <2>4
<1>4. CASE JobRejected
  <2>1. jobEvents' = <<job'>>
    BY <1>4 DEF JobRejected
  <2> QED BY <2>1
<1>5. CASE JobRelisted
  BY <1>0, <1>5, LatestElems DEF JobRelisted
<1>6. CASE JobForgotten
  <2>1. CASE job.uid = 0
    BY <1>6, <2>1, NoJobStored DEF JobForgotten, isValid
  <2>2. CASE job.uid # 0
    <3>1. jobEvents' = <<job'>>
      BY <1>6, <2>2 DEF JobForgotten
    <3> QED BY <3>1
  <2> QED BY <2>1, <2>2
<1> QED BY <1>1, <1>2, <1>3, <1>4, <1>5, <1>6 DEF JobStep

\* No event is of an earlier job than the copy, the cache, or an event before it.
LEMMA JobOrderKept == ASSUME TypeOK, JobOrder, JobStep PROVE JobOrder'
<1>0. /\ job \in Stored /\ jobEvents \in Seq(Stored)
      /\ job.uid \in Nat /\ cJob.uid \in Nat /\ my.uid \in Nat /\ born \in Nat
      /\ \A i \in 1 .. Len(jobEvents) : jobEvents[i].uid \in Nat
  BY JobFields
<1>00. NoJob.uid = 0
  BY NoJobStored
<1> USE DEF NotLater
<1>1. CASE JobIdles
  BY <1>0, <1>00, <1>1 DEF JobIdles, JobOrder
<1>2. CASE JobCopied
  BY <1>0, <1>2 DEF JobCopied, JobOrder
<1>3. CASE JobWritten
  <2>1. job'.uid \in {0, job.uid, born + 1} /\ born' \in {born, born + 1}
        /\ (job'.uid = born + 1 => born' = born + 1)
        /\ (born' = born + 1 => job'.uid = born + 1)
    BY <1>0, <1>3 DEF JobWritten, JobChange, JobOrder
  <2>2. /\ Len(jobEvents) \in Nat
        /\ Len(jobEvents') = Len(jobEvents) + 1
        /\ jobEvents'[Len(jobEvents) + 1] = job'
        /\ \A i \in 1 .. Len(jobEvents) : jobEvents'[i] = jobEvents[i]
    BY <1>0, <1>3, AppendElems DEF JobWritten
  <2>3. \A i \in 1 .. Len(jobEvents') : i \in 1 .. Len(jobEvents) \/ i = Len(jobEvents) + 1
    BY <2>2
  <2>4. my'.uid \in {my.uid, 0} /\ cJob' = cJob
    BY <1>00, <1>3 DEF JobWritten
  <2>5. /\ job'.uid \in {0, born'}
        /\ my'.uid <= born' /\ cJob'.uid <= born'
        /\ \A i \in 1 .. Len(jobEvents) : jobEvents[i].uid <= born'
        /\ NotLater(my'.uid, cJob'.uid)
        /\ NotLater(my'.uid, job'.uid) /\ NotLater(cJob'.uid, job'.uid)
        /\ \A i \in 1 .. Len(jobEvents) :
             /\ NotLater(my'.uid, jobEvents[i].uid)
             /\ NotLater(cJob'.uid, jobEvents[i].uid)
             /\ NotLater(jobEvents[i].uid, job'.uid)
    BY <1>0, <2>1, <2>4 DEF JobOrder
  <2>6. \A i, j \in 1 .. Len(jobEvents) :
          i < j => NotLater(jobEvents'[i].uid, jobEvents'[j].uid)
    BY <2>2 DEF JobOrder
  <2>7. \A i, j \in 1 .. Len(jobEvents') :
          i < j => NotLater(jobEvents'[i].uid, jobEvents'[j].uid)
    <3> SUFFICES ASSUME NEW i \in 1 .. Len(jobEvents'), NEW j \in 1 .. Len(jobEvents'), i < j
                 PROVE  NotLater(jobEvents'[i].uid, jobEvents'[j].uid)
      OBVIOUS
    <3>1. i \in 1 .. Len(jobEvents)
      BY <2>2
    <3>2. CASE j \in 1 .. Len(jobEvents)
      BY <2>6, <3>1, <3>2
    <3>3. CASE j = Len(jobEvents) + 1
      BY <2>2, <2>5, <3>1, <3>3
    <3> QED BY <2>3, <3>2, <3>3
  <2>8. \A i \in 1 .. Len(jobEvents') :
          /\ jobEvents'[i].uid <= born'
          /\ NotLater(my'.uid, jobEvents'[i].uid)
          /\ NotLater(cJob'.uid, jobEvents'[i].uid)
    <3> SUFFICES ASSUME NEW i \in 1 .. Len(jobEvents')
                 PROVE  /\ jobEvents'[i].uid <= born'
                        /\ NotLater(my'.uid, jobEvents'[i].uid)
                        /\ NotLater(cJob'.uid, jobEvents'[i].uid)
      OBVIOUS
    <3>1. CASE i \in 1 .. Len(jobEvents)
      BY <2>2, <2>5, <3>1
    <3>2. CASE i = Len(jobEvents) + 1
      BY <1>0, <2>1, <2>2, <2>5, <3>2
    <3> QED BY <2>3, <3>1, <3>2
  <2> QED BY <2>5, <2>7, <2>8 DEF JobOrder
<1>4. CASE JobRead
  <2>1. /\ jobEvents # <<>> /\ jobEvents' = Tail(jobEvents)
        /\ UNCHANGED <<job, my, born>>
        /\ cJob'.uid = Head(jobEvents).uid
    BY <1>4 DEF JobRead, Cached
  <2>2. /\ 1 \in 1 .. Len(jobEvents)
        /\ cJob'.uid = jobEvents[1].uid
        /\ Len(jobEvents) \in Nat /\ Len(jobEvents') \in Nat
        /\ \A i \in 1 .. Len(jobEvents') :
             i + 1 \in 1 .. Len(jobEvents) /\ jobEvents'[i] = jobEvents[i + 1]
    BY <1>0, <2>1, TailElems
  <2>3. \A i \in 1 .. Len(jobEvents') :
          /\ jobEvents'[i].uid <= born'
          /\ NotLater(my'.uid, jobEvents'[i].uid)
          /\ NotLater(cJob'.uid, jobEvents'[i].uid)
    BY <1>0, <2>1, <2>2 DEF JobOrder
  <2>4. \A i, j \in 1 .. Len(jobEvents') :
          i < j => NotLater(jobEvents'[i].uid, jobEvents'[j].uid)
    <3> SUFFICES ASSUME NEW i \in 1 .. Len(jobEvents'), NEW j \in 1 .. Len(jobEvents'), i < j
                 PROVE  NotLater(jobEvents'[i].uid, jobEvents'[j].uid)
      OBVIOUS
    <3>1. i + 1 \in 1 .. Len(jobEvents) /\ j + 1 \in 1 .. Len(jobEvents) /\ i + 1 < j + 1
      BY <2>2
    <3> QED BY <2>2, <3>1 DEF JobOrder
  <2> QED BY <1>0, <2>1, <2>2, <2>3, <2>4 DEF JobOrder
<1>5. CASE JobRejected
  <2>1. /\ jobEvents # <<>> /\ jobEvents' = <<job'>>
        /\ UNCHANGED <<my, born>>
        /\ cJob'.uid = Head(jobEvents).uid
        /\ job'.uid = job.uid
    BY <1>0, <1>5, StoredFields DEF JobRejected, Cached, Statuses
  <2>2. 1 \in 1 .. Len(jobEvents) /\ cJob'.uid = jobEvents[1].uid
    BY <1>0, <2>1, TailElems
  <2>3. Len(jobEvents') = 1 /\ jobEvents'[1] = job'
    BY <2>1
  <2> QED BY <1>0, <2>1, <2>2, <2>3 DEF JobOrder
<1>6. CASE JobRelisted
  <2>1. UNCHANGED <<job, cJob, my, born>>
    BY <1>6 DEF JobRelisted
  <2>2. /\ Len(jobEvents) \in 1 .. Len(jobEvents)
        /\ Len(jobEvents') = 1 /\ jobEvents'[1] = jobEvents[Len(jobEvents)]
    BY <1>0, <1>6, LatestElems DEF JobRelisted
  <2> QED BY <1>0, <2>1, <2>2 DEF JobOrder
<1>7. CASE JobForgotten
  <2>1. job' = job /\ born' = born /\ cJob'.uid = 0 /\ my'.uid = 0
    BY <1>00, <1>7 DEF JobForgotten
  <2>2. jobEvents' = <<>> \/ jobEvents' = <<job>>
    BY <1>7 DEF JobForgotten
  <2>3. \A i \in 1 .. Len(jobEvents') : i = 1 /\ jobEvents'[i] = job
    <3>1. CASE jobEvents' = <<>>
      BY <3>1
    <3>2. CASE jobEvents' = <<job>>
      <4>1. Len(jobEvents') = 1 /\ jobEvents'[1] = job
        BY <3>2
      <4> QED BY <4>1
    <3> QED BY <2>2, <3>1, <3>2
  <2> QED BY <1>0, <2>1, <2>3 DEF JobOrder
<1> QED BY <1>1, <1>2, <1>3, <1>4, <1>5, <1>6, <1>7 DEF JobStep

-----------------------------------------------------------------------------
(* The owners of the pod and the service. *)

\* What owns something goes on doing so, to whoever looks at it.
LEMMA OwnerKept ==
    ASSUME TypeOK, JobOrder, JobStep, NEW u \in Nat, Owner(u)
    PROVE  /\ u <= born'
           /\ NotLater(u, my'.uid) /\ NotLater(u, cJob'.uid)
           /\ \A i \in 1 .. Len(jobEvents') : NotLater(u, jobEvents'[i].uid)
<1>0. /\ job \in Stored /\ jobEvents \in Seq(Stored)
      /\ job.uid \in Nat /\ cJob.uid \in Nat /\ my.uid \in Nat /\ born \in Nat
      /\ Len(jobEvents) \in Nat
      /\ NoJob.uid = 0
  BY JobFields, NoJobStored
<1>1. /\ u <= born
      /\ NotLater(u, my.uid) /\ NotLater(u, cJob.uid)
      /\ \A i \in 1 .. Len(jobEvents) : NotLater(u, jobEvents[i].uid)
  BY DEF Owner
<1>2. NotLater(u, job.uid)
  BY <1>0, <1>1 DEF JobOrder, NotLater
<1> USE DEF NotLater
<1>3. CASE JobIdles
  BY <1>0, <1>1, <1>3 DEF JobIdles
<1>4. CASE JobCopied
  BY <1>0, <1>1, <1>4 DEF JobCopied
<1>5. CASE JobWritten
  <2>1. /\ job'.uid \in {0, job.uid, born + 1} /\ born' \in {born, born + 1}
        /\ my'.uid \in {my.uid, 0} /\ cJob' = cJob
    BY <1>0, <1>5 DEF JobWritten, JobChange
  <2>2. /\ Len(jobEvents') = Len(jobEvents) + 1
        /\ jobEvents'[Len(jobEvents) + 1] = job'
        /\ \A i \in 1 .. Len(jobEvents) : jobEvents'[i] = jobEvents[i]
    BY <1>0, <1>5, AppendElems DEF JobWritten
  <2>3. u <= born' /\ NotLater(u, job'.uid) /\ NotLater(u, my'.uid) /\ NotLater(u, cJob'.uid)
    BY <1>0, <1>1, <1>2, <2>1
  <2>4. \A i \in 1 .. Len(jobEvents') : NotLater(u, jobEvents'[i].uid)
    <3> SUFFICES ASSUME NEW i \in 1 .. Len(jobEvents') PROVE NotLater(u, jobEvents'[i].uid)
      OBVIOUS
    <3>1. CASE i \in 1 .. Len(jobEvents)
      BY <1>1, <2>2, <3>1
    <3>2. CASE i = Len(jobEvents) + 1
      BY <2>2, <2>3, <3>2
    <3> QED BY <1>0, <2>2, <3>1, <3>2
  <2> QED BY <2>3, <2>4
<1>6. CASE JobRead
  <2>1. /\ jobEvents # <<>> /\ jobEvents' = Tail(jobEvents)
        /\ UNCHANGED <<my, born>>
        /\ cJob'.uid = Head(jobEvents).uid
    BY <1>6 DEF JobRead, Cached
  <2>2. /\ 1 \in 1 .. Len(jobEvents)
        /\ cJob'.uid = jobEvents[1].uid
        /\ \A i \in 1 .. Len(jobEvents') :
             i + 1 \in 1 .. Len(jobEvents) /\ jobEvents'[i] = jobEvents[i + 1]
    BY <1>0, <2>1, TailElems
  <2> QED BY <1>1, <2>1, <2>2
<1>7. CASE JobRejected
  <2>1. /\ jobEvents # <<>> /\ jobEvents' = <<job'>>
        /\ UNCHANGED <<my, born>>
        /\ cJob'.uid = Head(jobEvents).uid
        /\ job'.uid = job.uid
    BY <1>0, <1>7, StoredFields DEF JobRejected, Cached, Statuses
  <2>2. 1 \in 1 .. Len(jobEvents) /\ cJob'.uid = jobEvents[1].uid
    BY <1>0, <2>1, TailElems
  <2>3. Len(jobEvents') = 1 /\ jobEvents'[1] = job'
    BY <2>1
  <2> QED BY <1>1, <1>2, <2>1, <2>2, <2>3
<1>8. CASE JobRelisted
  <2>1. UNCHANGED <<cJob, my, born>>
    BY <1>8 DEF JobRelisted
  <2>2. /\ Len(jobEvents) \in 1 .. Len(jobEvents)
        /\ Len(jobEvents') = 1 /\ jobEvents'[1] = jobEvents[Len(jobEvents)]
    BY <1>0, <1>8, LatestElems DEF JobRelisted
  <2> QED BY <1>1, <2>1, <2>2
<1>9. CASE JobForgotten
  <2>1. born' = born /\ cJob'.uid = 0 /\ my'.uid = 0
    BY <1>0, <1>9 DEF JobForgotten
  <2>2. \A i \in 1 .. Len(jobEvents') : jobEvents'[i] = job
    <3>1. CASE jobEvents' = <<>>
      BY <3>1
    <3>2. CASE jobEvents' = <<job>>
      <4>1. Len(jobEvents') = 1 /\ jobEvents'[1] = job
        BY <3>2
      <4> QED BY <4>1
    <3> QED BY <1>9, <3>1, <3>2 DEF JobForgotten
  <2> QED BY <1>1, <1>2, <2>1, <2>2
<1> QED BY <1>3, <1>4, <1>5, <1>6, <1>7, <1>8, <1>9 DEF JobStep

\* Who is looked at or nobody owns something, so far as the order goes.
LEMMA Owners == ASSUME TypeOK, JobOrder PROVE Owner(0) /\ Owner(my.uid)
BY JobFields DEF JobOrder, Owner, NotLater

\* The owners of pods are in order.
LEMMA PodOrderKept ==
    ASSUME TypeOK, JobOrder, PodOrder, JobStep, PodStep, WorkerStep PROVE PodOrder'
<1> DEFINE Kept(u) ==
        /\ u \in Nat /\ u <= born'
        /\ NotLater(u, my'.uid) /\ NotLater(u, cJob'.uid)
        /\ \A i \in 1 .. Len(jobEvents') : NotLater(u, jobEvents'[i].uid)
<1>0. /\ podEvents \in Seq(PodType) /\ Len(podEvents) \in Nat
      /\ pod \in PodType /\ cPod \in PodType /\ my.uid \in Nat
      /\ pod.owner \in Nat /\ cPod.owner \in Nat
  BY JobFields DEF TypeOK, PodType
<1>1. \A u \in Nat : Owner(u) => Kept(u)
  BY OwnerKept
<1>2. Kept(0) /\ Kept(my.uid) /\ Kept(pod.owner) /\ Kept(cPod.owner)
  <2> HIDE DEF Kept
  <2> QED BY <1>0, <1>1, Owners DEF PodOrder
<1>3. \A i \in 1 .. Len(podEvents) :
        /\ Kept(podEvents[i].owner)
        /\ podEvents[i].owner \in Nat
        /\ NotLater(podEvents[i].owner, pod.owner)
        /\ NotLater(podEvents[i].owner, my.uid)
  <2> HIDE DEF Kept
  <2>1. \A i \in 1 .. Len(podEvents) : podEvents[i].owner \in Nat
    <3>1. \A i \in 1 .. Len(podEvents) : podEvents[i] \in PodType
      BY <1>0
    <3> QED BY <3>1 DEF PodType
  <2> QED BY <1>1, <2>1 DEF PodOrder, Owner
<1>4. NotLater(cPod.owner, pod.owner) /\ NotLater(cPod.owner, my.uid)
      /\ NotLater(pod.owner, my.uid)
  BY DEF PodOrder, Owner
<1> SUFFICES
      /\ Kept(pod'.owner) /\ Kept(cPod'.owner)
      /\ NotLater(cPod'.owner, pod'.owner)
      /\ \A i \in 1 .. Len(podEvents') :
           Kept(podEvents'[i].owner) /\ NotLater(podEvents'[i].owner, pod'.owner)
  BY DEF PodOrder, Owner
<1> HIDE DEF Kept
<1>5. CASE PodIdles
  BY <1>2, <1>3, <1>4, <1>5 DEF PodIdles
<1>6. CASE PodWritten
  <2>1. pod' \in PodType /\ pod'.owner \in {0, pod.owner, my.uid} /\ cPod' = cPod
        /\ podEvents' = Append(podEvents, pod')
    BY <1>6 DEF PodWritten, PodChange
  <2>2. /\ Kept(pod'.owner)
        /\ NotLater(cPod.owner, pod'.owner) /\ NotLater(pod'.owner, pod'.owner)
        /\ \A i \in 1 .. Len(podEvents) : NotLater(podEvents[i].owner, pod'.owner)
    BY <1>0, <1>2, <1>3, <1>4, <2>1 DEF NotLater
  <2>3. /\ Len(podEvents') = Len(podEvents) + 1
        /\ podEvents'[Len(podEvents) + 1] = pod'
        /\ \A i \in 1 .. Len(podEvents) : podEvents'[i] = podEvents[i]
    BY <1>0, <2>1, AppendElems
  <2>4. \A i \in 1 .. Len(podEvents') :
          Kept(podEvents'[i].owner) /\ NotLater(podEvents'[i].owner, pod'.owner)
    <3> SUFFICES ASSUME NEW i \in 1 .. Len(podEvents')
                 PROVE  Kept(podEvents'[i].owner) /\ NotLater(podEvents'[i].owner, pod'.owner)
      OBVIOUS
    <3>1. CASE i \in 1 .. Len(podEvents)
      BY <1>3, <2>2, <2>3, <3>1
    <3>2. CASE i = Len(podEvents) + 1
      BY <2>2, <2>3, <3>2
    <3> QED BY <1>0, <2>3, <3>1, <3>2
  <2> QED BY <1>2, <2>1, <2>2, <2>4
<1>7. CASE PodRead
  <2>1. podEvents # <<>> /\ podEvents' = Tail(podEvents) /\ cPod' = Head(podEvents)
        /\ pod' = pod
    BY <1>7 DEF PodRead
  <2>2. /\ 1 \in 1 .. Len(podEvents) /\ cPod' = podEvents[1]
        /\ \A i \in 1 .. Len(podEvents') :
             i + 1 \in 1 .. Len(podEvents) /\ podEvents'[i] = podEvents[i + 1]
    BY <1>0, <2>1, TailElems
  <2> QED BY <1>2, <1>3, <2>1, <2>2
<1>8. CASE PodRelisted
  <2>1. /\ UNCHANGED <<pod, cPod>>
        /\ Len(podEvents) \in 1 .. Len(podEvents)
        /\ Len(podEvents') = 1 /\ podEvents'[1] = podEvents[Len(podEvents)]
    BY <1>0, <1>8, LatestElems DEF PodRelisted
  <2> QED BY <1>2, <1>3, <1>4, <2>1
<1>9. CASE PodForgotten
  <2>1. pod' = pod /\ cPod' = pod /\ Len(podEvents') = 0
    BY <1>9 DEF PodForgotten
  <2> QED BY <1>0, <1>2, <2>1 DEF NotLater
<1> QED BY <1>5, <1>6, <1>7, <1>8, <1>9 DEF PodStep

\* The owners of services are in order.
LEMMA SvcOrderKept ==
    ASSUME TypeOK, JobOrder, SvcOrder, JobStep, SvcStep, WorkerStep PROVE SvcOrder'
<1> DEFINE Kept(u) ==
        /\ u \in Nat /\ u <= born'
        /\ NotLater(u, my'.uid) /\ NotLater(u, cJob'.uid)
        /\ \A i \in 1 .. Len(jobEvents') : NotLater(u, jobEvents'[i].uid)
<1>0. /\ svcEvents \in Seq(Nat) /\ Len(svcEvents) \in Nat
      /\ svc \in Nat /\ cSvc \in Nat /\ my.uid \in Nat
  BY JobFields DEF TypeOK
<1>1. \A u \in Nat : Owner(u) => Kept(u)
  BY OwnerKept
<1>2. Kept(0) /\ Kept(my.uid) /\ Kept(svc) /\ Kept(cSvc)
  <2> HIDE DEF Kept
  <2> QED BY <1>0, <1>1, Owners DEF SvcOrder
<1>3. \A i \in 1 .. Len(svcEvents) :
        /\ Kept(svcEvents[i])
        /\ svcEvents[i] \in Nat
        /\ NotLater(svcEvents[i], svc)
        /\ NotLater(svcEvents[i], my.uid)
  <2> HIDE DEF Kept
  <2>1. \A i \in 1 .. Len(svcEvents) : svcEvents[i] \in Nat
    BY <1>0
  <2> QED BY <1>1, <2>1 DEF SvcOrder, Owner
<1>4. NotLater(cSvc, svc) /\ NotLater(cSvc, my.uid) /\ NotLater(svc, my.uid)
  BY DEF SvcOrder, Owner
<1> SUFFICES
      /\ Kept(svc') /\ Kept(cSvc')
      /\ NotLater(cSvc', svc')
      /\ \A i \in 1 .. Len(svcEvents') : Kept(svcEvents'[i]) /\ NotLater(svcEvents'[i], svc')
  BY DEF SvcOrder, Owner
<1> HIDE DEF Kept
<1>5. CASE SvcIdles
  BY <1>2, <1>3, <1>4, <1>5 DEF SvcIdles
<1>6. CASE SvcWritten
  <2>1. svc' \in {0, my.uid} /\ cSvc' = cSvc /\ svcEvents' = Append(svcEvents, svc')
    BY <1>6 DEF SvcWritten
  <2>2. /\ svc' \in Nat /\ Kept(svc')
        /\ NotLater(cSvc, svc') /\ NotLater(svc', svc')
        /\ \A i \in 1 .. Len(svcEvents) : NotLater(svcEvents[i], svc')
    BY <1>0, <1>2, <1>3, <1>4, <2>1 DEF NotLater
  <2>3. /\ Len(svcEvents') = Len(svcEvents) + 1
        /\ svcEvents'[Len(svcEvents) + 1] = svc'
        /\ \A i \in 1 .. Len(svcEvents) : svcEvents'[i] = svcEvents[i]
    BY <1>0, <2>1, <2>2, AppendElems
  <2>4. \A i \in 1 .. Len(svcEvents') : Kept(svcEvents'[i]) /\ NotLater(svcEvents'[i], svc')
    <3> SUFFICES ASSUME NEW i \in 1 .. Len(svcEvents')
                 PROVE  Kept(svcEvents'[i]) /\ NotLater(svcEvents'[i], svc')
      OBVIOUS
    <3>1. CASE i \in 1 .. Len(svcEvents)
      BY <1>3, <2>2, <2>3, <3>1
    <3>2. CASE i = Len(svcEvents) + 1
      BY <2>2, <2>3, <3>2
    <3> QED BY <1>0, <2>3, <3>1, <3>2
  <2> QED BY <1>2, <2>1, <2>2, <2>4
<1>7. CASE SvcRead
  <2>1. svcEvents # <<>> /\ svcEvents' = Tail(svcEvents) /\ cSvc' = Head(svcEvents)
        /\ svc' = svc
    BY <1>7 DEF SvcRead
  <2>2. /\ 1 \in 1 .. Len(svcEvents) /\ cSvc' = svcEvents[1]
        /\ \A i \in 1 .. Len(svcEvents') :
             i + 1 \in 1 .. Len(svcEvents) /\ svcEvents'[i] = svcEvents[i + 1]
    BY <1>0, <2>1, TailElems
  <2> QED BY <1>2, <1>3, <2>1, <2>2
<1>8. CASE SvcRelisted
  <2>1. /\ UNCHANGED <<svc, cSvc>>
        /\ Len(svcEvents) \in 1 .. Len(svcEvents)
        /\ Len(svcEvents') = 1 /\ svcEvents'[1] = svcEvents[Len(svcEvents)]
    BY <1>0, <1>8, LatestElems DEF SvcRelisted
  <2> QED BY <1>2, <1>3, <1>4, <2>1
<1>9. CASE SvcForgotten
  <2>1. svc' = svc /\ cSvc' = svc /\ Len(svcEvents') = 0
    BY <1>9 DEF SvcForgotten
  <2> QED BY <1>0, <1>2, <2>1 DEF NotLater
<1> QED BY <1>5, <1>6, <1>7, <1>8, <1>9 DEF SvcStep

-----------------------------------------------------------------------------
(* Successes, and what a sync is up to. *)

\* What is listed is what is cached, or nothing.
LEMMA ListedPods ==
    ASSUME TypeOK
    PROVE  /\ Listed(cPod).owner \in {0, cPod.owner}
           /\ Listed(cPod).owner # 0 \/ Listed(cPod).done
                => cPod.owner = cJob.uid /\ Listed(cPod).owner = cJob.uid
           /\ Listed(cPod).done => cPod.done
           /\ NoPod.owner = 0 /\ ~NoPod.done
<1>1. cPod \in PodType
  BY DEF TypeOK
<1>2. NoPod.owner = 0 /\ ~NoPod.done
  BY DEF NoPod
<1>3. CASE cPod.owner = cJob.uid
  <2>1. Listed(cPod) = [cPod EXCEPT !.deleting = FALSE]
    BY <1>3 DEF Listed
  <2>2. Listed(cPod).owner = cPod.owner /\ Listed(cPod).done = cPod.done
    BY <1>1, <2>1 DEF PodType
  <2> QED BY <1>2, <1>3, <2>2
<1>4. CASE cPod.owner # cJob.uid
  BY <1>2, <1>4 DEF Listed
<1> QED BY <1>3, <1>4

\* The pods that have succeeded stay in mind.
LEMMA PodsRanKept ==
    ASSUME TypeOK, PodsRan, PodStep, WorkerStep, Remembers PROVE PodsRan'
<1>0. podEvents \in Seq(PodType) /\ Len(podEvents) \in Nat /\ pod \in PodType
  BY DEF TypeOK
<1> DEFINE Ran(p) == p.done => p.owner \in ran'
<1>1. /\ Ran(pod) /\ Ran(cPod) /\ Ran(sPod)
      /\ \A i \in 1 .. Len(podEvents) : Ran(podEvents[i])
  BY DEF PodsRan, PodRan, Remembers
<1>2. Ran(NoPod) /\ Ran(Listed(cPod))
  BY <1>1, ListedPods
<1>3. Ran(sPod')
  BY <1>1, <1>2 DEF WorkerStep, Stays, Leaves, Begins, Goes
<1> SUFFICES /\ Ran(pod') /\ Ran(cPod')
             /\ \A i \in 1 .. Len(podEvents') : Ran(podEvents'[i])
  BY <1>3 DEF PodsRan, PodRan
<1>4. CASE PodIdles
  BY <1>1, <1>4 DEF PodIdles
<1>5. CASE PodWritten
  <2>1. pod' \in PodType /\ Ran(pod') /\ cPod' = cPod /\ podEvents' = Append(podEvents, pod')
    BY <1>1, <1>5 DEF PodWritten, PodChange
  <2> HIDE DEF Ran
  <2>2. /\ Len(podEvents') = Len(podEvents) + 1
        /\ podEvents'[Len(podEvents) + 1] = pod'
        /\ \A i \in 1 .. Len(podEvents) : podEvents'[i] = podEvents[i]
    BY <1>0, <2>1, AppendElems
  <2>3. \A i \in 1 .. Len(podEvents') : i \in 1 .. Len(podEvents) \/ i = Len(podEvents) + 1
    BY <1>0, <2>2
  <2> QED BY <1>1, <2>1, <2>2, <2>3
<1>6. CASE PodRead
  <2>1. podEvents # <<>> /\ podEvents' = Tail(podEvents) /\ cPod' = Head(podEvents)
        /\ pod' = pod
    BY <1>6 DEF PodRead
  <2>2. /\ 1 \in 1 .. Len(podEvents) /\ cPod' = podEvents[1]
        /\ \A i \in 1 .. Len(podEvents') :
             i + 1 \in 1 .. Len(podEvents) /\ podEvents'[i] = podEvents[i + 1]
    BY <1>0, <2>1, TailElems
  <2> HIDE DEF Ran
  <2> QED BY <1>1, <2>1, <2>2
<1>7. CASE PodRelisted
  <2>1. /\ UNCHANGED <<pod, cPod>>
        /\ Len(podEvents) \in 1 .. Len(podEvents)
        /\ Len(podEvents') = 1 /\ podEvents'[1] = podEvents[Len(podEvents)]
    BY <1>0, <1>7, LatestElems DEF PodRelisted
  <2> HIDE DEF Ran
  <2> QED BY <1>1, <2>1
<1>8. CASE PodForgotten
  <2>1. pod' = pod /\ cPod' = pod /\ Len(podEvents') = 0
    BY <1>8 DEF PodForgotten
  <2> HIDE DEF Ran
  <2> QED BY <1>1, <2>1
<1> QED BY <1>4, <1>5, <1>6, <1>7, <1>8 DEF PodStep

\* The status that a sync writes is that of the job it has read.
LEMMA SyncReports ==
    ASSUME TypeOK, PodsRan, Listing, FreshCopy, fresh
    PROVE  my.uid = job.uid /\ (newStatus = "Succeeded" => job.uid \in ran)
BY DEF PodsRan, PodRan, Listing, FreshCopy, newStatus

\* The jobs that have succeeded did so by their pods.
LEMMA JobsRanKept ==
    ASSUME TypeOK, JobsRan, PodsRan, Listing, FreshCopy, JobStep, Remembers PROVE JobsRan'
<1>0. /\ job \in Stored /\ jobEvents \in Seq(Stored) /\ Len(jobEvents) \in Nat
      /\ NoJob.status = "New"
  BY JobFields, NoJobStored
<1> DEFINE Ran(j) == j.status = "Succeeded" => j.uid \in ran'
<1>1. /\ Ran(job) /\ Ran(cJob) /\ Ran(my) /\ Ran(NoJob)
      /\ \A i \in 1 .. Len(jobEvents) : Ran(jobEvents[i])
  BY <1>0 DEF JobsRan, JobRan, Remembers
<1> SUFFICES /\ Ran(job') /\ Ran(cJob') /\ Ran(my')
             /\ \A i \in 1 .. Len(jobEvents') : Ran(jobEvents'[i])
  BY DEF JobsRan, JobRan
<1>2. CASE JobIdles
  BY <1>1, <1>2 DEF JobIdles
<1>3. CASE JobCopied
  BY <1>1, <1>3 DEF JobCopied
<1>4. CASE JobWritten
  <2>1. job' \in Stored /\ jobEvents' = Append(jobEvents, job') /\ cJob' = cJob
        /\ my' \in {my, NoJob}
    BY <1>4 DEF JobWritten
  <2>2. Ran(job')
    <3>1. CASE job'.status = "New"
      BY <3>1
    <3>2. CASE job'.uid = job.uid /\ job'.status = job.status
      BY <1>1, <3>2
    <3>3. CASE job'.uid = job.uid /\ fresh /\ job'.status = newStatus
      BY <3>3, SyncReports DEF Remembers
    <3> QED BY <1>4, <3>1, <3>2, <3>3 DEF JobWritten, JobChange
  <2> HIDE DEF Ran
  <2>3. /\ Len(jobEvents') = Len(jobEvents) + 1
        /\ jobEvents'[Len(jobEvents) + 1] = job'
        /\ \A i \in 1 .. Len(jobEvents) : jobEvents'[i] = jobEvents[i]
    BY <1>0, <2>1, AppendElems
  <2>4. \A i \in 1 .. Len(jobEvents') : i \in 1 .. Len(jobEvents) \/ i = Len(jobEvents) + 1
    BY <1>0, <2>3
  <2> QED BY <1>1, <2>1, <2>2, <2>3, <2>4
<1>5. CASE JobRead
  <2>1. jobEvents # <<>> /\ jobEvents' = Tail(jobEvents) /\ UNCHANGED <<job, my>>
    BY <1>5 DEF JobRead
  <2>2. /\ 1 \in 1 .. Len(jobEvents) /\ Head(jobEvents) = jobEvents[1]
        /\ \A i \in 1 .. Len(jobEvents') :
             i + 1 \in 1 .. Len(jobEvents) /\ jobEvents'[i] = jobEvents[i + 1]
    BY <1>0, <2>1, TailElems
  <2>3. Ran(cJob')
    BY <1>1, <1>5, <2>2 DEF JobRead, Cached
  <2> HIDE DEF Ran
  <2> QED BY <1>1, <2>1, <2>2, <2>3
<1>6. CASE JobRejected
  <2>1. jobEvents # <<>> /\ jobEvents' = <<job'>> /\ my' = my /\ job'.status = "Failed"
    BY <1>0, <1>6, StoredFields DEF JobRejected, Statuses
  <2>2. 1 \in 1 .. Len(jobEvents) /\ Head(jobEvents) = jobEvents[1]
    BY <1>0, <2>1, TailElems
  <2>3. Ran(cJob') /\ Ran(job')
    BY <1>1, <1>6, <2>1, <2>2 DEF JobRejected, Cached
  <2> HIDE DEF Ran
  <2>4. Len(jobEvents') = 1 /\ jobEvents'[1] = job'
    BY <2>1
  <2> QED BY <1>1, <2>1, <2>3, <2>4
<1>7. CASE JobRelisted
  <2>1. /\ UNCHANGED <<job, cJob, my>>
        /\ Len(jobEvents) \in 1 .. Len(jobEvents)
        /\ Len(jobEvents') = 1 /\ jobEvents'[1] = jobEvents[Len(jobEvents)]
    BY <1>0, <1>7, LatestElems DEF JobRelisted
  <2> HIDE DEF Ran
  <2> QED BY <1>1, <2>1
<1>8. CASE JobForgotten
  <2>1. job' = job /\ cJob' = NoJob /\ my' = NoJob
    BY <1>8 DEF JobForgotten
  <2>2. \A i \in 1 .. Len(jobEvents') : jobEvents'[i] = job
    <3>1. CASE jobEvents' = <<>>
      BY <3>1
    <3>2. CASE jobEvents' = <<job>>
      <4>1. Len(jobEvents') = 1 /\ jobEvents'[1] = job
        BY <3>2
      <4> QED BY <4>1
    <3> QED BY <1>8, <3>1, <3>2 DEF JobForgotten
  <2> HIDE DEF Ran
  <2> QED BY <1>1, <2>1, <2>2
<1> QED BY <1>2, <1>3, <1>4, <1>5, <1>6, <1>7, <1>8 DEF JobStep

\* A sync lists what its job owns.
LEMMA ListingKept == ASSUME TypeOK, Listing, WorkerStep PROVE Listing'
<1> USE DEF Listing
<1>1. CASE Stays
  BY <1>1 DEF Stays
<1>2. CASE Leaves
  BY <1>2, ListedPods DEF Leaves
<1>3. CASE Begins
  BY <1>3, ListedPods DEF Begins
<1>4. CASE Goes
  BY <1>4, ListedPods DEF Goes
<1> QED BY <1>1, <1>2, <1>3, <1>4 DEF WorkerStep

\* What a sync is about to delete is its job's, or gone.
LEMMA CleaningKept ==
    ASSUME TypeOK, PodOrder, SvcOrder, Cleaning, PodStep, SvcStep, WorkerStep PROVE Cleaning'
<1>0. /\ cJob.uid \in Nat /\ pod.owner \in Nat /\ cPod.owner \in Nat
      /\ svc \in Nat /\ cSvc \in Nat
  BY JobFields DEF TypeOK, PodType
<1>1. at \notin Over => pod'.owner \in {0, pod.owner} /\ svc' \in {0, svc}
  BY DEF PodStep, PodIdles, PodWritten, PodChange, PodRead, PodRelisted, PodForgotten,
         SvcStep, SvcIdles, SvcWritten, SvcRead, SvcRelisted, SvcForgotten
<1>2. "cleanPod" \notin Over /\ "cleanService" \notin Over
  BY DEF Over
<1>3. CASE Stays
  BY <1>1, <1>2, <1>3 DEF Stays, Cleaning
<1>4. CASE Leaves
  BY <1>4 DEF Leaves, Cleaning
<1>5. CASE Begins
  <2>1. UNCHANGED <<pod, svc>> /\ my'.uid = cJob.uid /\ cJob.uid # 0
    BY <1>5 DEF Begins
  <2>2. at' = "cleanPod" => cPod.owner = cJob.uid
    BY <1>5, ListedPods DEF Begins
  <2>3. at' = "cleanService" \/ sSvc' => cSvc = cJob.uid
    BY <1>5 DEF Begins
  <2>4. cPod.owner = cJob.uid => pod.owner \in {0, cJob.uid}
    BY <1>0, <2>1 DEF PodOrder, Owner, NotLater
  <2>5. cSvc = cJob.uid => svc \in {0, cJob.uid}
    BY <1>0, <2>1 DEF SvcOrder, Owner, NotLater
  <2> QED BY <2>1, <2>2, <2>3, <2>4, <2>5 DEF Cleaning
<1>6. CASE Goes
  BY <1>1, <1>2, <1>6 DEF Goes, Cleaning
<1> QED BY <1>3, <1>4, <1>5, <1>6 DEF WorkerStep

\* A copy that is up to date.
LEMMA FreshCopyKept == ASSUME TypeOK, LastIsStored, FreshCopy, JobStep PROVE FreshCopy'
<1> USE DEF FreshCopy
<1>0. jobEvents \in Seq(Stored)
  BY DEF TypeOK
<1>1. CASE JobIdles
  BY <1>1 DEF JobIdles
<1>2. CASE JobCopied
  BY <1>2 DEF JobCopied, LastIsStored
<1>3. CASE JobWritten \/ JobRejected \/ JobForgotten
  BY <1>3 DEF JobWritten, JobRejected, JobForgotten
<1>4. CASE JobRead
  BY <1>4 DEF JobRead
<1>5. CASE JobRelisted
  <2>1. jobEvents # <<>>
    BY <1>0, <1>5 DEF JobRelisted
  <2> QED BY <1>5, <2>1 DEF JobRelisted
<1> QED BY <1>1, <1>2, <1>3, <1>4, <1>5 DEF JobStep

\* A sync that looks after the replicas found the job unfinished.
LEMMA NotOverKept == ASSUME NotOver, WorkerStep PROVE NotOver'
BY DEF NotOver, Terminal, Over, WorkerStep, Stays, Leaves, Begins, Goes

-----------------------------------------------------------------------------
(* The inductive invariant. *)

\* It holds at first.
LEMMA InitIInv == ASSUME Init PROVE IInv
<1>0. /\ job = NoJob /\ cJob = NoJob /\ my = NoJob /\ jobEvents = <<>>
      /\ pod = NoPod /\ cPod = NoPod /\ sPod = NoPod /\ podEvents = <<>>
      /\ svc = 0 /\ cSvc = 0 /\ svcEvents = <<>>
      /\ at = "idle" /\ born = 0
  BY DEF Init
<1>1. NoJob \in Stored /\ NoJob.uid = 0 /\ NoJob.status = "New" /\ ~isValid(NoJob)
  BY NoJobStored
<1>2. NoPod \in PodType /\ NoPod.owner = 0 /\ ~NoPod.done
  BY DEF NoPod, PodType
<1>3. ~fresh /\ fresh \in BOOLEAN /\ sSvc \in BOOLEAN /\ queued \in BOOLEAN
  BY Zenon DEF Init
<1>4. manifests \subseteq JobSpecType /\ left \in [Incidents -> Nat]
  <2>1. PICK s \in Scenarios : manifests = s.specs /\ left = s.incidents
    BY DEF Init
  <2>2. s \in [specs : SUBSET JobSpecType, incidents : [Incidents -> Nat]]
    BY ScenariosAssumption
  <2> QED BY <2>1, <2>2
<1>5. TypeOK
  <2>1. jobEvents \in Seq(Stored) /\ podEvents \in Seq(PodType) /\ svcEvents \in Seq(Nat)
    BY <1>0
  <2>2. expecting = {} /\ ran = {} /\ expired = {}
    BY DEF Init
  <2> QED BY <1>0, <1>1, <1>2, <1>3, <1>4, <2>1, <2>2 DEF TypeOK
<1>6. LastIsStored
  BY <1>0, <1>1 DEF LastIsStored
<1>7. Len(jobEvents) = 0 /\ Len(podEvents) = 0 /\ Len(svcEvents) = 0
  BY <1>0
<1>8. JobOrder /\ PodOrder /\ SvcOrder
  BY <1>0, <1>1, <1>2, <1>7 DEF JobOrder, PodOrder, SvcOrder, Owner, NotLater
<1>9. PodsRan /\ JobsRan
  BY <1>0, <1>1, <1>2, <1>7 DEF PodsRan, PodRan, JobsRan, JobRan
<1>10. Listing /\ Cleaning /\ FreshCopy /\ NotOver
  BY <1>0, <1>2, <1>3 DEF Listing, Cleaning, FreshCopy, NotOver
<1> QED BY <1>5, <1>6, <1>8, <1>9, <1>10 DEF IInv

\* Every step keeps it.
LEMMA NextIInv == ASSUME IInv, [Next]_vars PROVE IInv'
<1>1. Steps /\ TypeOK'
  BY NextSteps, Typed DEF IInv
<1> QED
  BY <1>1, LastIsStoredKept, JobOrderKept, PodOrderKept, SvcOrderKept, PodsRanKept,
     JobsRanKept, ListingKept, CleaningKept, FreshCopyKept, NotOverKept
  DEF IInv, Steps

\* So it holds throughout.
LEMMA AlwaysIInv == Spec => []IInv
<1>1. Init => IInv
  BY InitIInv
<1>2. IInv /\ [Next]_vars => IInv'
  BY NextIInv
<1> QED BY <1>1, <1>2, PTL DEF Spec, Safety

-----------------------------------------------------------------------------
(* Theorems. *)

\* Every variable keeps its type, and the copy of a sync is a valid job.
THEOREM TypeCorrect == Spec => []TypeOK
BY AlwaysIInv, PTL DEF IInv

\* A job succeeds by a pod of its own, however many jobs had its name before
\* (updateStatusSingle on what GetPodsForJob has claimed).
THEOREM SuccessIsOwn == Spec => []SuccessIsItsOwn
<1>1. IInv => SuccessIsItsOwn
  BY DEF IInv, JobsRan, JobRan, SuccessIsItsOwn
<1> QED BY <1>1, AlwaysIInv, PTL

\* A step deletes the pod and the service, and writes the status, of the job
\* that the sync has read, though the calls go by the name (deletePodsAndServices,
\* UpdateStatus).
LEMMA StepActsOnItsOwn ==
    ASSUME IInv, [Next]_vars
    PROVE  /\ ~pod.deleting /\ pod'.deleting => pod.owner = my.uid
           /\ at = "cleanService" /\ svc' # svc => svc = my.uid
           /\ at = "status" /\ job' # job /\ job'.uid = job.uid /\ job'.spec = job.spec
                => my.uid = job.uid \/ job'.status = "Failed"
<1>0. /\ Steps /\ TypeOK /\ Cleaning /\ FreshCopy /\ JobOrder
      /\ job \in Stored /\ job' \in Stored /\ job.uid \in Nat /\ born \in Nat
  BY NextSteps, JobTyped, JobFields DEF IInv, Steps
<1>1. ~pod.deleting /\ pod'.deleting => pod.owner = my.uid
  BY <1>0
  DEF Steps, PodStep, PodIdles, PodWritten, PodChange, PodRead, PodRelisted, PodForgotten,
      Cleaning
<1>2. at = "cleanService" /\ svc' # svc => svc = my.uid
  <2>1. at = "cleanService" /\ svc' # svc => svc' = 0
    BY <1>0
    DEF Steps, SvcStep, SvcIdles, SvcWritten, SvcRead, SvcRelisted, SvcForgotten, Over
  <2> QED BY <1>0, <2>1 DEF Cleaning
<1>3. at = "status" /\ job' # job /\ job'.uid = job.uid /\ job'.spec = job.spec
        => my.uid = job.uid \/ job'.status = "Failed"
  <2> SUFFICES ASSUME job' # job, job'.uid = job.uid, job'.spec = job.spec
               PROVE  my.uid = job.uid \/ job'.status = "Failed"
    OBVIOUS
  <2>1. job'.status # job.status
    BY <1>0, StoredFields
  <2>2. CASE JobWritten
    BY <1>0, <2>1, <2>2 DEF JobWritten, JobChange, JobOrder, FreshCopy
  <2>3. CASE JobRejected
    BY <1>0, <2>3, StoredFields DEF JobRejected, Statuses
  <2> QED
    BY <1>0, <2>2, <2>3
    DEF Steps, JobStep, JobIdles, JobCopied, JobRead, JobRelisted, JobForgotten
<1> QED BY <1>1, <1>2, <1>3

\* So a sync acts on its own job only.
THEOREM ActsOnItsOwn == Spec => SyncActsOnItsOwn
<1>1. IInv /\ [Next]_vars =>
        [/\ ~pod.deleting /\ pod'.deleting => pod.owner = my.uid
         /\ at = "cleanService" /\ svc' # svc => svc = my.uid
         /\ at = "status" /\ job' # job /\ job'.uid = job.uid /\ job'.spec = job.spec
              => my.uid = job.uid \/ job'.status = "Failed"]_vars
  BY StepActsOnItsOwn
<1> QED BY <1>1, AlwaysIInv, PTL DEF Spec, Safety, SyncActsOnItsOwn

\* The outcome of a valid job is not overwritten: neither by a sync, which
\* would have to read it unfinished, nor by addPyTorchJob.
LEMMA StepKeepsOutcome ==
    ASSUME IInv, [Next]_vars, Terminal(job), isValid(job), job'.uid = job.uid
    PROVE  job'.status = job.status
<1>0. /\ Steps /\ TypeOK /\ FreshCopy /\ NotOver /\ JobOrder /\ LastIsStored
      /\ job.uid \in Nat /\ born \in Nat /\ job.uid # 0
      /\ jobEvents \in Seq(Stored)
  BY NextSteps, JobFields DEF IInv, isValid
<1>1. CASE JobWritten
  <2>1. CASE at = "status" /\ fresh
    <3>1. my.status = job.status /\ ~Terminal(my)
      BY <1>0, <2>1 DEF FreshCopy, NotOver
    <3> QED BY <3>1 DEF Terminal
  <2> QED BY <1>0, <1>1, <2>1 DEF JobWritten, JobChange, JobOrder
<1>2. ~JobRejected
  <2> SUFFICES ASSUME JobRejected PROVE FALSE
    OBVIOUS
  <2>1. jobEvents # <<>> /\ Tail(jobEvents) = <<>> /\ ~isValid(Head(jobEvents))
    BY DEF JobRejected
  <2>2. Len(<<>>) = 0
    OBVIOUS
  <2>3. /\ Len(jobEvents) \in Nat /\ Head(jobEvents) = jobEvents[1]
        /\ Len(Tail(jobEvents)) = Len(jobEvents) - 1
    BY <1>0, <2>1, TailElems
  <2>4. Len(Tail(jobEvents)) = 0
    BY <2>1, <2>2, Zenon
  <2>5. Len(jobEvents) = 1
    BY <2>3, <2>4
  <2>6. Head(jobEvents) = jobEvents[Len(jobEvents)]
    BY <2>3, <2>5
  <2> QED BY <1>0, <2>1, <2>6 DEF LastIsStored
<1> QED
  BY <1>0, <1>1, <1>2
  DEF Steps, JobStep, JobIdles, JobCopied, JobRead, JobRelisted, JobForgotten

\* So the outcome is final.
THEOREM OutcomeStays == Spec => OutcomeIsFinal
<1>1. IInv /\ [Next]_vars =>
        [Terminal(job) /\ isValid(job) /\ job'.uid = job.uid => job'.status = job.status]_vars
  BY StepKeepsOutcome
<1> QED BY <1>1, AlwaysIInv, PTL DEF Spec, Safety, OutcomeIsFinal

\* Whatever the specs that users have, those that pass the validation can be
\* run (ValidateV1PyTorchJobSpec, SetDefaults_PyTorchJob).
THEOREM SpecsAreUsable == Spec => []ValidSpecsAreUsable
<1>1. TypeOK => ValidSpecsAreUsable
  BY ValidSpecsUsable DEF TypeOK, ValidSpecsAreUsable
<1> QED BY <1>1, TypeCorrect, PTL

\* And their pods form process groups (setClusterSpec).
THEOREM RanksAreThoseOfTheWorld == Spec => []RanksFormTheWorld
<1>1. TypeOK => RanksFormTheWorld
  BY RanksAreComplete DEF TypeOK, RanksFormTheWorld
<1> QED BY <1>1, TypeCorrect, PTL
=============================================================================
