---------------------------- MODULE Incarnations ----------------------------
(***************************************************************************)
(* The jobs that bear one name, one after the other.  A job may be deleted *)
(* and created anew, or edited from a valid spec to an invalid one and     *)
(* back, while the controller still acts on what it read.  The pod, the    *)
(* service, the key in the work queue and the expectations go by the name  *)
(* of the job; only their owner's uid tells one job from the next.         *)
(*                                                                         *)
(* The jobs here have a master and no workers, and neither deadline nor    *)
(* backoff limit; PyTorchController follows one valid job through          *)
(* everything else that can happen to it.                                  *)
(***************************************************************************)
EXTENDS JobSpec

CONSTANTS
    MaxWrites,       \* events the watch of the job holds before users wait,
    MaxLag,          \* the other watches before the rest of the world waits
    Scenarios        \* one is chosen: the specs that users have for the jobs of
                     \* this name, and how often each kind of incident may happen

Incidents == {"create", "invalid", "edit", "error", "crash", "relist"}

ASSUME ScenariosAssumption ==
    Scenarios \subseteq [specs : SUBSET JobSpecType, incidents : [Incidents -> Nat]]
ASSUME BoundsAssumption ==
    /\ MaxWrites \in Nat
    /\ MaxLag \in Nat

VARIABLES
    job, pod, svc,                      \* API server: svc is the owner's uid
    jobEvents, podEvents, svcEvents,    \* watch events not delivered yet
    cJob, cPod, cSvc,                   \* informer caches
    expecting,                          \* unfulfilled, unexpired expectations
    queued,                             \* the key in the work queue
    at,                                 \* where the worker is
    my, sPod, sSvc,                     \* the job it copied, what it listed
    fresh,                              \* its copy is the version stored
    manifests, left,                    \* the specs of the scenario, and what is
                                        \* left of its incidents
    born, ran, expired                  \* history: jobs created, finished by
                                        \* their pod, past their TTL

api == <<job, pod, svc>>
streams == <<jobEvents, podEvents, svcEvents>>
caches == <<cJob, cPod, cSvc>>
locals == <<at, my, sPod, sSvc>>
history == <<manifests, born, ran, expired>>
vars == <<api, streams, caches, expecting, queued, locals, fresh, left, history>>

\* Uid 0 stands for nobody: an absent job, pod or service.  The status Failed
\* is here that of addPyTorchJob, which has no CompletionTime.
Statuses == {"New", "Started", "Succeeded", "Failed"}
NoJob == [uid |-> 0, spec |-> Absent, status |-> "New"]
NoPod == [owner |-> 0, done |-> FALSE, deleting |-> FALSE]

isValid(j) == j.uid # 0 /\ ValidateV1PyTorchJobSpec(j.spec)
Terminal(j) == j.status \in {"Succeeded", "Failed"}

Init ==
    /\ job = NoJob /\ pod = NoPod /\ svc = 0
    /\ jobEvents = <<>> /\ podEvents = <<>> /\ svcEvents = <<>>
    /\ cJob = NoJob /\ cPod = NoPod /\ cSvc = 0
    /\ expecting = {}
    /\ queued = FALSE
    /\ at = "idle" /\ my = NoJob /\ sPod = NoPod /\ sSvc = FALSE
    /\ fresh = FALSE
    /\ \E s \in Scenarios : manifests = s.specs /\ left = s.incidents
    /\ born = 0 /\ ran = {} /\ expired = {}

-----------------------------------------------------------------------------
(* The API server: a write changes the stored object and feeds the watch. *)

Spend(m) == left[m] > 0 /\ left' = [left EXCEPT ![m] = @ - 1]

SetJob(j) ==
    /\ job' = j
    /\ jobEvents' = Append(jobEvents, j)
    /\ fresh' = FALSE

SetPod(p) == pod' = p /\ podEvents' = Append(podEvents, p)
SetSvc(u) == svc' = u /\ svcEvents' = Append(svcEvents, u)

-----------------------------------------------------------------------------
(* Users, the kubelet, the garbage collector. *)

UserWrites(j) ==
    /\ Len(jobEvents) < MaxWrites
    /\ SetJob(j)
    /\ UNCHANGED <<pod, svc, podEvents, svcEvents, caches, expecting, queued,
                   locals, manifests, ran, expired>>

\* A new job of the name; "invalid" limits those that are born invalid.
UserCreatesJob ==
    /\ job.uid = 0 /\ left["create"] > 0
    /\ born' = born + 1
    /\ \E s \in manifests :
         LET bad == IF ValidateV1PyTorchJobSpec(s) THEN 0 ELSE 1 IN
           /\ left["invalid"] >= bad
           /\ left' = [left EXCEPT !["create"] = @ - 1, !["invalid"] = @ - bad]
           /\ UserWrites([uid |-> born', spec |-> s, status |-> "New"])

UserDeletesJob ==
    /\ job.uid # 0
    /\ UserWrites(NoJob)
    /\ UNCHANGED <<born, left>>

UserEditsSpec ==
    /\ job.uid # 0
    /\ Spend("edit")
    /\ \E s \in manifests \ {job.spec} : UserWrites([job EXCEPT !.spec = s])
    /\ UNCHANGED born

PodSucceeds ==
    /\ pod.owner # 0 /\ ~pod.done /\ Len(podEvents) < MaxLag
    /\ SetPod([pod EXCEPT !.done = TRUE])
    /\ ran' = ran \cup {pod.owner}
    /\ UNCHANGED <<job, svc, jobEvents, svcEvents, caches, expecting, queued,
                   locals, fresh, left, manifests, born, expired>>

\* The end of a graceful deletion, and garbage collection of an orphan.
PodRemoved ==
    /\ pod.owner # 0
    /\ pod.deleting \/ pod.owner # job.uid
    /\ Len(podEvents) < MaxLag
    /\ SetPod(NoPod)
    /\ UNCHANGED <<job, svc, jobEvents, svcEvents, caches, expecting, queued,
                   locals, fresh, left, history>>

ServiceRemoved ==
    /\ svc # 0 /\ svc # job.uid
    /\ Len(svcEvents) < MaxLag
    /\ SetSvc(0)
    /\ UNCHANGED <<job, pod, jobEvents, podEvents, caches, expecting, queued,
                   locals, fresh, left, history>>

\* TTLSecondsAfterFinished after CompletionTime.
TTLPasses ==
    /\ job.status = "Succeeded" /\ job.spec.ttl
    /\ expired' = expired \cup {job.uid}
    /\ expired' # expired
    /\ UNCHANGED <<api, streams, caches, expecting, queued, locals, fresh, left,
                   manifests, born, ran>>

Environment ==
    \/ UserCreatesJob \/ UserDeletesJob \/ UserEditsSpec
    \/ PodSucceeds \/ PodRemoved \/ ServiceRemoved \/ TTLPasses

-----------------------------------------------------------------------------
(* Informers.  A cache replaces what it has under the name: an event is an *)
(* add, an update or a deletion by what the cache held before, whatever    *)
(* the uids say.                                                           *)

NextJob == jobEvents # <<>> /\ jobEvents' = Tail(jobEvents)

\* addPyTorchJob of a valid job: the cache gets its defaults.
ValidJobAdded ==
    /\ NextJob
    /\ cJob.uid = 0 /\ isValid(Head(jobEvents))
    /\ \E d \in SetDefaults_PyTorchJob(Head(jobEvents).spec) :
         cJob' = [Head(jobEvents) EXCEPT !.spec = d]
    /\ queued' = TRUE
    /\ UNCHANGED <<api, podEvents, svcEvents, cPod, cSvc, expecting, locals,
                   fresh, left, history>>

\* addPyTorchJob of an invalid one: a status of its own making goes into the
\* object in the cache and, by one call that no one repeats, to the API server,
\* which takes it unless the job has changed since; neither happens when no
\* client for the call can be made.  Nothing is queued.
InvalidJobAdded ==
    /\ jobEvents # <<>>
    /\ LET j == Head(jobEvents) IN
         /\ cJob.uid = 0 /\ j.uid # 0 /\ ~isValid(j)
         /\ \/ /\ cJob' = [j EXCEPT !.status = "Failed"]
               /\ Tail(jobEvents) = <<>>
               /\ job' = [job EXCEPT !.status = "Failed"]
               /\ jobEvents' = <<job'>>
               /\ fresh' = FALSE
               /\ UNCHANGED left
            \/ /\ cJob' = [j EXCEPT !.status = "Failed"]
               /\ (Tail(jobEvents) # <<>> /\ UNCHANGED left) \/ Spend("error")
               /\ jobEvents' = Tail(jobEvents)
               /\ UNCHANGED <<job, fresh>>
            \/ /\ cJob' = j
               /\ Spend("error")
               /\ jobEvents' = Tail(jobEvents)
               /\ UNCHANGED <<job, fresh>>
    /\ UNCHANGED <<pod, svc, podEvents, svcEvents, cPod, cSvc, expecting, queued,
                   locals, history>>

\* updatePyTorchJob: nothing is queued unless both versions are valid.
JobUpdated ==
    /\ NextJob
    /\ cJob.uid # 0 /\ Head(jobEvents).uid # 0
    /\ cJob' = Head(jobEvents)
    /\ queued' = (queued \/ (isValid(cJob) /\ isValid(Head(jobEvents))))
    /\ UNCHANGED <<api, podEvents, svcEvents, cPod, cSvc, expecting, locals,
                   fresh, left, history>>

\* A deletion; a cache that never saw the job has nothing to delete.
JobDeleted ==
    /\ NextJob
    /\ Head(jobEvents).uid = 0
    /\ cJob' = NoJob
    /\ queued' = (queued \/ cJob.uid # 0)
    /\ UNCHANGED <<api, podEvents, svcEvents, cPod, cSvc, expecting, locals,
                   fresh, left, history>>

\* resolveControllerRef: the cached job of that uid, if its spec is valid.
Resolves(u) == u # 0 /\ u = cJob.uid /\ isValid(cJob)

DeliverPod ==
    /\ podEvents # <<>>
    /\ podEvents' = Tail(podEvents)
    /\ LET p == Head(podEvents)
           added == cPod.owner = 0 /\ p.owner # 0
       IN /\ cPod' = p
          /\ IF added /\ p.deleting
             THEN UNCHANGED <<queued, expecting>>
             ELSE /\ queued' = (queued \/ Resolves(cPod.owner) \/ Resolves(p.owner))
                  /\ expecting' = IF added /\ Resolves(p.owner) THEN expecting \ {"pods"}
                                  ELSE expecting
    /\ UNCHANGED <<api, jobEvents, svcEvents, cJob, cSvc, locals, fresh, left, history>>

\* AddService; UpdateService and DeleteService do nothing.
DeliverService ==
    /\ svcEvents # <<>>
    /\ svcEvents' = Tail(svcEvents)
    /\ cSvc' = Head(svcEvents)
    /\ IF cSvc = 0 /\ Resolves(Head(svcEvents))
       THEN queued' = TRUE /\ expecting' = expecting \ {"services"}
       ELSE UNCHANGED <<queued, expecting>>
    /\ UNCHANGED <<api, jobEvents, podEvents, cJob, cPod, locals, fresh, left, history>>

\* A watch that broke lists again: only the last state of the object arrives.
Latest(events) == <<events[Len(events)]>>

WatchBreaks ==
    /\ Spend("relist")
    /\ \/ /\ Len(jobEvents) > 1 /\ jobEvents' = Latest(jobEvents)
          /\ UNCHANGED <<podEvents, svcEvents>>
       \/ /\ Len(podEvents) > 1 /\ podEvents' = Latest(podEvents)
          /\ UNCHANGED <<jobEvents, svcEvents>>
       \/ /\ Len(svcEvents) > 1 /\ svcEvents' = Latest(svcEvents)
          /\ UNCHANGED <<jobEvents, podEvents>>
    /\ UNCHANGED <<api, caches, expecting, queued, locals, fresh, history>>

\* Every resyncPeriod updatePyTorchJob gets the cached job twice.
ResyncMutant == FALSE /\ UNCHANGED vars

Resync ==
    /\ isValid(cJob)
    /\ queued' = TRUE
    /\ UNCHANGED <<api, streams, caches, expecting, locals, fresh, left, history>>

Kinds == {"pods", "services"}

\* True as soon as the pods or the services of the master are not expected;
\* what a deleted job expected, the next job of the name still expects.
satisfiedExpectations == expecting # Kinds

\* ExpectationsTimeout.
ExpectationExpires(k) ==
    /\ ~satisfiedExpectations
    /\ expecting' = expecting \ {k}
    /\ UNCHANGED <<api, streams, caches, queued, locals, fresh, left, history>>

-----------------------------------------------------------------------------
(* The end of a sync, and of the process. *)

ResetLocals ==
    /\ at' = "idle" /\ my' = NoJob /\ sPod' = NoPod /\ sSvc' = FALSE
    /\ fresh' = FALSE

SyncEnds == ResetLocals /\ UNCHANGED queued

\* AddRateLimited.
SyncFails == ResetLocals /\ queued' = TRUE

\* The process dies and starts again: pods and services are listed and so is
\* the job, which addPyTorchJob gets before a worker can.
Restart ==
    /\ ResetLocals
    /\ cJob' = NoJob /\ cPod' = pod /\ cSvc' = svc
    /\ jobEvents' = IF job.uid = 0 THEN <<>> ELSE <<job>>
    /\ podEvents' = <<>> /\ svcEvents' = <<>>
    /\ expecting' = {}
    /\ queued' = FALSE
    /\ UNCHANGED <<api, history>>

Crash == Spend("crash") /\ Restart

-----------------------------------------------------------------------------
(* A sync: processNextWorkItem and syncPyTorchJob. *)

Get == at = "idle" /\ queued

\* Nothing is forgotten of a job that is gone, nor of what it expected.
JobIsGone ==
    /\ Get
    /\ cJob.uid = 0
    /\ queued' = FALSE
    /\ UNCHANGED <<api, streams, caches, expecting, locals, fresh, left, history>>

\* The error message of an invalid job is made from a job that is nil.
InvalidPanics ==
    /\ Get
    /\ cJob.uid # 0 /\ ~isValid(cJob)
    /\ Restart
    /\ UNCHANGED left

CanSyncMutant == cJob.uid # 0 /\ satisfiedExpectations

CanSync == isValid(cJob) /\ satisfiedExpectations

SkipSync ==
    /\ Get
    /\ isValid(cJob) /\ ~satisfiedExpectations
    /\ queued' = FALSE
    /\ UNCHANGED <<api, streams, caches, expecting, locals, fresh, left, history>>

\* GetPodsForJob claims what the uid of the job owns.
ListedMutant(p) == [p EXCEPT !.deleting = FALSE]
Listed(p) == IF p.owner = cJob.uid THEN [p EXCEPT !.deleting = FALSE] ELSE NoPod

\* deletePodsAndServices: which pod goes, and whether the service does.
PodDoomed(s, p, running) ==
    /\ p.owner # 0
    /\ s.clean = "All" \/ (s.clean = "Running" /\ ~p.done /\ running)
SvcDoomed(s, p, listed) == s.clean # "None" /\ p.owner # 0 /\ listed

\* A listed pod that is not done is pending or running: either.
StartSync ==
    /\ Get
    /\ CanSync
    /\ queued' = FALSE
    /\ \E d \in SetDefaults_PyTorchJob(cJob.spec), running \in BOOLEAN :
         /\ my' = [cJob EXCEPT !.spec = d]
         /\ sPod' = Listed(cPod)
         /\ sSvc' = (cSvc = cJob.uid)
         /\ at' = IF ~Terminal(cJob) THEN "pod"
                  ELSE IF PodDoomed(d, sPod', running) THEN "cleanPod"
                  ELSE IF SvcDoomed(d, sPod', sSvc') THEN "cleanService"
                  ELSE "ttl"
    /\ fresh' = (jobEvents = <<>>)
    /\ UNCHANGED <<api, streams, caches, expecting, left, history>>

\* A call that changes nothing at the API server.
NoCall == UNCHANGED <<api, streams>>

\* What was listed is forgotten where it is not used any more.
Goto(where) ==
    /\ at' = where
    /\ sPod' = IF where = "ttl" THEN NoPod ELSE sPod
    /\ sSvc' = FALSE
    /\ UNCHANGED my

\* DeletePod goes by the name, and skips a pod that is being deleted.
DeletePodCall ==
    /\ IF pod.owner # 0 /\ ~pod.deleting
       THEN SetPod([pod EXCEPT !.deleting = TRUE])
       ELSE UNCHANGED <<pod, podEvents>>
    /\ UNCHANGED <<job, svc, jobEvents, svcEvents>>

CleanPod ==
    /\ at = "cleanPod"
    /\ \/ /\ DeletePodCall
          /\ Goto(IF SvcDoomed(my.spec, sPod, sSvc) THEN "cleanService" ELSE "ttl")
          /\ UNCHANGED <<fresh, queued, left>>
       \/ Spend("error") /\ (NoCall \/ DeletePodCall) /\ SyncFails
    /\ UNCHANGED <<caches, expecting, history>>

DeleteServiceCall ==
    /\ IF svc # 0 THEN SetSvc(0) ELSE UNCHANGED <<svc, svcEvents>>
    /\ UNCHANGED <<job, pod, jobEvents, podEvents>>

CleanService ==
    /\ at = "cleanService"
    /\ \/ DeleteServiceCall /\ Goto("ttl") /\ UNCHANGED <<fresh, queued, left>>
       \/ Spend("error") /\ (NoCall \/ DeleteServiceCall) /\ SyncFails
    /\ UNCHANGED <<caches, expecting, history>>

\* cleanupPyTorchJob: without a TTL nothing is left to do; before it has
\* passed the key comes back later.
EndCleaning ==
    /\ at = "ttl"
    /\ \/ ~my.spec.ttl /\ SyncEnds
       \/ my.spec.ttl /\ my.status = "Succeeded" /\ my.uid \notin expired /\ SyncFails
    /\ UNCHANGED <<api, streams, caches, expecting, left, history>>

\* It reads the CompletionTime, which a job that addPyTorchJob failed lacks.
TTLPanics ==
    /\ at = "ttl"
    /\ my.spec.ttl /\ my.status = "Failed"
    /\ Restart
    /\ UNCHANGED left

\* deletePyTorchJob: by the name, whichever job has it now.
DeleteJob ==
    /\ at = "ttl"
    /\ my.spec.ttl /\ my.status = "Succeeded" /\ my.uid \in expired
    /\ \/ /\ job.uid # 0
          /\ job' = NoJob /\ jobEvents' = Append(jobEvents, NoJob)
          /\ SyncEnds \/ SyncFails
          /\ UNCHANGED left
       \/ /\ (job.uid = 0 /\ UNCHANGED left) \/ Spend("error")
          /\ UNCHANGED <<job, jobEvents>>
          /\ SyncFails
    /\ UNCHANGED <<pod, svc, podEvents, svcEvents, caches, expecting, history>>

\* What follows once there is a pod: the service, or the status.
AfterPod == IF sSvc THEN "status" ELSE "service"

PodIsThere ==
    /\ at = "pod"
    /\ sPod.owner # 0
    /\ Goto(AfterPod)
    /\ UNCHANGED <<api, streams, caches, expecting, queued, fresh, left, history>>

CreatePodCall ==
    /\ pod.owner = 0
    /\ SetPod([NoPod EXCEPT !.owner = my.uid])
    /\ UNCHANGED <<job, svc, jobEvents, svcEvents>>

\* createNewPod; its name is that of the pod of every job of this name.  A call
\* that times out counts as a success.
CreatePod ==
    /\ at = "pod"
    /\ sPod.owner = 0
    /\ expecting' = expecting \cup {"pods"}
    /\ \/ CreatePodCall /\ Goto(AfterPod) /\ UNCHANGED <<fresh, queued, left>>
       \/ Spend("error") /\ NoCall /\ Goto(AfterPod) /\ UNCHANGED <<fresh, queued>>
       \/ pod.owner # 0 /\ NoCall /\ SyncFails /\ UNCHANGED left
       \/ Spend("error") /\ (NoCall \/ CreatePodCall) /\ SyncFails
    /\ UNCHANGED <<caches, history>>

CreateServiceCall ==
    /\ svc = 0
    /\ SetSvc(my.uid)
    /\ UNCHANGED <<job, pod, jobEvents, podEvents>>

CreateService ==
    /\ at = "service"
    /\ expecting' = expecting \cup {"services"}
    /\ \/ CreateServiceCall /\ Goto("status") /\ UNCHANGED <<fresh, queued, left>>
       \/ svc # 0 /\ NoCall /\ SyncFails /\ UNCHANGED left
       \/ Spend("error") /\ (NoCall \/ CreateServiceCall) /\ SyncFails
    /\ UNCHANGED <<caches, history>>

\* updateStatusSingle: the job succeeds with its master.
newStatus == IF sPod.done THEN "Succeeded" ELSE "Started"

StatusUnchanged ==
    /\ at = "status"
    /\ newStatus = my.status
    /\ SyncEnds
    /\ UNCHANGED <<api, streams, caches, expecting, left, history>>

UpdateStatusCallMutant ==
    /\ job.uid # 0
    /\ SetJob([job EXCEPT !.status = newStatus])

\* UpdateStatus succeeds on the version that was read.
UpdateStatusCall ==
    /\ job.uid # 0 /\ fresh
    /\ SetJob([job EXCEPT !.status = newStatus])

UpdateStatus ==
    /\ at = "status"
    /\ newStatus # my.status
    /\ \/ UpdateStatusCall /\ SyncEnds /\ UNCHANGED left
       \/ UpdateStatusCall /\ Spend("error") /\ SyncFails
       \/ /\ job.uid = 0 \/ ~fresh
          /\ UNCHANGED <<job, jobEvents, left>>
          /\ SyncFails
       \/ Spend("error") /\ UNCHANGED <<job, jobEvents>> /\ SyncFails
    /\ UNCHANGED <<pod, svc, podEvents, svcEvents, caches, expecting, history>>

Sync ==
    \/ JobIsGone \/ InvalidPanics \/ SkipSync \/ StartSync
    \/ CleanPod \/ CleanService \/ EndCleaning \/ TTLPanics \/ DeleteJob
    \/ PodIsThere \/ CreatePod \/ CreateService
    \/ StatusUnchanged \/ UpdateStatus

DeliverJob == ValidJobAdded \/ InvalidJobAdded \/ JobUpdated \/ JobDeleted
Deliver == DeliverJob \/ DeliverPod \/ DeliverService
Timers == Resync \/ \E k \in Kinds : ExpectationExpires(k)

Next == Environment \/ Deliver \/ WatchBreaks \/ Timers \/ Crash \/ Sync

\* Workers run, watches deliver, timers fire, the garbage collector collects,
\* deletions end.  Nothing is assumed of users, pods, failures and time.
Fairness ==
    /\ WF_vars(Sync)
    /\ WF_vars(DeliverJob) /\ WF_vars(DeliverPod) /\ WF_vars(DeliverService)
    /\ WF_vars(Resync)
    /\ \A k \in Kinds : WF_vars(ExpectationExpires(k))
    /\ WF_vars(PodRemoved) /\ WF_vars(ServiceRemoved)

Safety == Init /\ [][Next]_vars
Spec == Safety /\ Fairness
-----------------------------------------------------------------------------
(* Properties. *)

Stored == [uid : {0}, spec : {Absent}, status : Statuses] \cup
          [uid : Nat \ {0}, spec : JobSpecType, status : Statuses]
PodType == [owner : Nat, done : BOOLEAN, deleting : BOOLEAN]

\* Every variable has its type, and a sync works on a job that is valid.
TypeOK ==
    /\ at # "idle" => isValid(my)
    /\ job \in Stored /\ cJob \in Stored /\ my \in Stored
    /\ pod \in PodType /\ cPod \in PodType /\ sPod \in PodType
    /\ svc \in Nat /\ cSvc \in Nat /\ sSvc \in BOOLEAN
    /\ jobEvents \in Seq(Stored)
    /\ podEvents \in Seq(PodType)
    /\ svcEvents \in Seq(Nat)
    /\ expecting \subseteq Kinds
    /\ queued \in BOOLEAN
    /\ at \in {"idle", "pod", "service", "status", "cleanPod", "cleanService", "ttl"}
    /\ fresh \in BOOLEAN
    /\ manifests \subseteq JobSpecType
    /\ left \in [Incidents -> Nat]
    /\ born \in Nat /\ ran \subseteq Nat /\ expired \subseteq Nat

\* Whatever passes the validation can be run: see Usable.
ValidSpecsAreUsable == \A s \in manifests : Usable(s)

\* The pods of every valid job form a process group: see FormsTheWorld.
RanksFormTheWorld == \A s \in manifests : FormsTheWorld(s)

\* Every call but the deletion of a job goes by a name, and yet a sync deletes
\* only the pod and the service of the job it read, and writes the status of
\* no other.
SyncActsOnItsOwn ==
    [][/\ ~pod.deleting /\ pod'.deleting => pod.owner = my.uid
       /\ at = "cleanService" /\ svc' # svc => svc = my.uid
       /\ at = "status" /\ job' # job /\ job'.uid = job.uid /\ job'.spec = job.spec
            => my.uid = job.uid \/ job'.status = "Failed"]_vars

\* A job succeeds by a pod of its own, in every copy of its status: what a
\* predecessor of the same name left behind does not count.
SuccessIsItsOwn ==
    \A j \in {job, cJob, my} : j.status = "Succeeded" => j.uid \in ran

\* The outcome of a job is final, as long as its spec stays valid.
OutcomeIsFinal ==
    [][Terminal(job) /\ isValid(job) /\ job'.uid = job.uid => job'.status = job.status]_vars

\* A new job gets a pod of its own, whatever of its predecessor is still
\* cached, listed, expected or queued under its name.
NewJobGetsItsPod ==
    []<>(~isValid(job) \/ Terminal(job) \/ pod.owner = job.uid)
=============================================================================
