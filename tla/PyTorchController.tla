------------------------- MODULE PyTorchController -------------------------
(***************************************************************************)
(* One PyTorchJob, the controller that drives it, and what it talks to:    *)
(* the API server that stores the job, its pods and the service of its     *)
(* master; the watch streams and informer caches through which the         *)
(* controller sees them; the kubelets that run the pods; users.            *)
(*                                                                         *)
(* A sync reads the caches once and then makes API calls one at a time;    *)
(* everything else may happen between two calls.  The work queue hands one *)
(* key to one worker at a time (WorkQueue), so one job has one sync: its   *)
(* key is queued or not, and the worker idle or somewhere in a sync.       *)
(***************************************************************************)
EXTENDS JobConditions, Integers, Sequences, Functions

CONSTANTS
    NumWorkers,      \* replicas of type Worker; 0: the job has no such type
    JobSpecs,        \* the job specifications to consider
    MaxLag,          \* events a watch stream holds before the kubelets wait
    MaxRequeues,     \* where the model stops counting requeues of the key
    Budget,          \* how often each kind of mishap may befall a job, by its spec
    NoLimit          \* stands for a BackoffLimit that is not set

Policies == {"Always", "OnFailure", "Never", "ExitCode"}
CleanPolicies == {"None", "Running", "All"}

Rtypes == IF NumWorkers = 0 THEN {"Master"} ELSE {"Master", "Worker"}
Size(rt) == IF rt = "Master" THEN 1 ELSE NumWorkers
Replicas == {<<"Master", 0>>} \cup {<<"Worker", i>> : i \in 0 .. NumWorkers - 1}
Master == <<"Master", 0>>
Of(rt) == {r \in Replicas : r[1] = rt}
Total == 1 + NumWorkers

\* PyTorchJobSpec after defaulting; deadline and ttl say whether they are set.
\* The validation lets any BackoffLimit pass, a negative one too.
SpecType == [restart : [Rtypes -> Policies], clean : CleanPolicies,
             backoff : {NoLimit} \cup Int, deadline : BOOLEAN, ttl : BOOLEAN]

Mishaps == {"fail", "evict", "error", "crash", "edit", "remove"}

ASSUME NoLimitAssumption == NoLimit \notin Int
ASSUME NumWorkersAssumption == NumWorkers \in Nat
ASSUME JobSpecsAssumption == JobSpecs \subseteq SpecType
ASSUME BoundsAssumption ==
    /\ MaxLag \in Nat \ {0}
    /\ MaxRequeues \in Nat
    /\ Budget \in [JobSpecs -> [Mishaps -> Nat]]

VARIABLES
    spec,                              \* the job's spec
    job, pods, svc,                    \* API server
    jobEvents, podEvents, svcEvents,   \* watch events not delivered yet
    cJob, cPods, cSvc,                 \* informer caches
    expecting,                         \* unfulfilled, unexpired expectations
    queued, requeues,                  \* the key in the work queue
    pc,                                \* where the worker is
    my, old, fresh,                    \* its copy of the status, see StartSync
    sPods, sSvc,                       \* the pods and service it listed
    todo, cur, acts,                   \* what is left to do
    late, expired,                     \* the deadline, the TTL have passed
    left,                              \* what is left of Budget[spec]
    seen, retries                      \* history: facts, restarts by exit code

api == <<job, pods, svc>>
streams == <<jobEvents, podEvents, svcEvents>>
caches == <<cJob, cPods, cSvc>>
queue == <<queued, requeues>>
locals == <<my, old, sPods, sSvc, todo, cur, acts>>
clocks == <<late, expired>>
history == <<seen, retries>>
vars == <<spec, api, streams, caches, expecting, queue, pc, locals, fresh,
          clocks, left, history>>

\* A pod.  The phase Failed is split by what IsRetryableExitCode says of the
\* exit code of its pytorch container; an evicted pod has none and counts as
\* permanent.  restarts counts in-place restarts by the kubelet.
Phases == {"None", "Pending", "Running", "Succeeded", "Retryable", "Permanent"}
NoPod == [phase |-> "None", deleting |-> FALSE, restarts |-> 0]
NewPod == [NoPod EXCEPT !.phase = "Pending"]
Exists(pod) == pod.phase # "None"
Failed(pod) == pod.phase \in {"Retryable", "Permanent"}

States == {"live", "deleting", "gone"}

Init ==
    /\ spec \in JobSpecs
    /\ job = [state |-> "live", status |-> NewStatus(Rtypes)]
    /\ pods = [r \in Replicas |-> NoPod]
    /\ svc = FALSE
    /\ jobEvents = <<job>>
    /\ podEvents = <<>>
    /\ svcEvents = <<>>
    /\ cJob = [job EXCEPT !.state = "gone"]
    /\ cPods = pods
    /\ cSvc = FALSE
    /\ expecting = {}
    /\ queued = FALSE
    /\ requeues = 0
    /\ pc = "idle"
    /\ my = job.status
    /\ old = job.status
    /\ fresh = FALSE
    /\ sPods = pods
    /\ sSvc = FALSE
    /\ todo = {}
    /\ cur = "Master"
    /\ acts = {}
    /\ late = FALSE
    /\ expired = FALSE
    /\ left = Budget[spec]
    /\ seen = {}
    /\ retries = 0

-----------------------------------------------------------------------------
(* The API server: a write changes the stored object and feeds the watch. *)

Spend(m) == left[m] > 0 /\ left' = [left EXCEPT ![m] = @ - 1]

SetPod(r, pod) ==
    /\ pods' = [pods EXCEPT ![r] = pod]
    /\ podEvents' = Append(podEvents, [replica |-> r, pod |-> pod])

SetJob(j) ==
    /\ job' = j
    /\ jobEvents' = Append(jobEvents, j)
    /\ fresh' = FALSE

SetSvc(b) ==
    /\ svc' = b
    /\ svcEvents' = Append(svcEvents, b)

-----------------------------------------------------------------------------
(* Kubelets, the garbage collector and users. *)

KubeletSets(r, pod) ==
    /\ Len(podEvents) < MaxLag
    /\ SetPod(r, pod)
    /\ UNCHANGED <<spec, job, svc, jobEvents, svcEvents, caches, expecting,
                   queue, pc, locals, fresh, clocks, retries>>

PodStarts(r) ==
    /\ pods[r].phase = "Pending"
    /\ KubeletSets(r, [pods[r] EXCEPT !.phase = "Running"])
    /\ UNCHANGED <<left, seen>>

PodSucceeds(r) ==
    /\ pods[r].phase = "Running"
    /\ spec.restart[r[1]] # "Always"
    /\ KubeletSets(r, [pods[r] EXCEPT !.phase = "Succeeded"])
    /\ seen' = IF r = Master THEN seen \cup {"master succeeded"} ELSE seen
    /\ UNCHANGED left

\* The container completes where the policy is Always: the kubelet restarts it.
\* The budget for failures bounds these restarts too.
ContainerCompletes(r) ==
    /\ pods[r].phase = "Running"
    /\ spec.restart[r[1]] = "Always"
    /\ Spend("fail")
    /\ KubeletSets(r, [pods[r] EXCEPT !.restarts = @ + 1])
    /\ seen' = seen \cup {"container restarted"}

\* The container exits with an error: the pod fails, or the kubelet restarts
\* the container where the replica's policy is OnFailure or Always.
ContainerFails(r) ==
    /\ pods[r].phase = "Running"
    /\ Spend("fail")
    /\ IF spec.restart[r[1]] \in {"OnFailure", "Always"}
       THEN /\ KubeletSets(r, [pods[r] EXCEPT !.restarts = @ + 1])
            /\ seen' = seen \cup {"container failed"}
       ELSE \E phase \in IF spec.restart[r[1]] = "ExitCode"
                         THEN {"Retryable", "Permanent"} ELSE {"Permanent"} :
            /\ KubeletSets(r, [pods[r] EXCEPT !.phase = phase])
            /\ seen' = seen \cup {"container failed"}
                            \cup (IF phase = "Permanent" THEN {"pod failed"} ELSE {})

PodEvicted(r) ==
    /\ pods[r].phase \in {"Pending", "Running"}
    /\ Spend("evict")
    /\ KubeletSets(r, [pods[r] EXCEPT !.phase = "Permanent"])
    /\ seen' = seen \cup {"pod failed"}

UserDeletesPod(r) ==
    /\ Exists(pods[r]) /\ ~pods[r].deleting
    /\ Spend("remove")
    /\ KubeletSets(r, [pods[r] EXCEPT !.deleting = TRUE])
    /\ UNCHANGED seen

\* The end of a graceful deletion, and garbage collection of an orphan.
PodRemoved(r) ==
    /\ Exists(pods[r])
    /\ pods[r].deleting \/ job.state # "live"
    /\ KubeletSets(r, NoPod)
    /\ UNCHANGED <<left, seen>>

\* Anybody else writes the job: labels, annotations, spec.
UserEditsJob ==
    /\ job.state # "gone"
    /\ Spend("edit")
    /\ SetJob(job)
    /\ UNCHANGED <<spec, pods, svc, podEvents, svcEvents, caches, expecting,
                   queue, pc, locals, clocks, history>>

\* Deletion in the foreground sets the deletion timestamp, any other removes.
UserDeletesJob ==
    /\ job.state = "live"
    /\ Spend("remove")
    /\ \E s \in {"deleting", "gone"} : SetJob([job EXCEPT !.state = s])
    /\ UNCHANGED <<spec, pods, svc, podEvents, svcEvents, caches, expecting,
                   queue, pc, locals, clocks, history>>

DeletingJobGoes ==
    /\ job.state = "deleting"
    /\ \A r \in Replicas : ~Exists(pods[r])
    /\ SetJob([job EXCEPT !.state = "gone"])
    /\ UNCHANGED <<spec, pods, svc, podEvents, svcEvents, caches, expecting,
                   queue, pc, locals, clocks, left, history>>

\* ActiveDeadlineSeconds after StartTime, TTLSecondsAfterFinished after
\* CompletionTime.
DeadlinePasses ==
    /\ spec.deadline /\ job.status.started /\ ~late
    /\ late' = TRUE
    /\ UNCHANGED <<spec, api, streams, caches, expecting, queue, pc, locals,
                   fresh, expired, left, history>>

TTLPasses ==
    /\ spec.ttl /\ job.status.completed /\ ~expired
    /\ expired' = TRUE
    /\ UNCHANGED <<spec, api, streams, caches, expecting, queue, pc, locals,
                   fresh, late, left, history>>

Environment ==
    \/ \E r \in Replicas :
         \/ PodStarts(r) \/ PodSucceeds(r) \/ ContainerCompletes(r)
         \/ ContainerFails(r) \/ PodEvicted(r) \/ UserDeletesPod(r) \/ PodRemoved(r)
    \/ UserEditsJob \/ UserDeletesJob \/ DeletingJobGoes
    \/ DeadlinePasses \/ TTLPasses

-----------------------------------------------------------------------------
(* Informers: an event updates the cache and its handler runs.  A handler  *)
(* finds the job in the cache or does nothing (resolveControllerRef).      *)

Wake == queued' = TRUE
WakeOwner == queued' = (queued \/ cJob.state # "gone")

\* addPyTorchJob adds the Created condition to the object in the cache, and
\* only there; the next version that arrives replaces it.
Accepted(j) ==
    [j EXCEPT !.status.conds = setCondition(j.status.conds, "Created")]

DeliverJob ==
    /\ jobEvents # <<>>
    /\ jobEvents' = Tail(jobEvents)
    /\ LET j == Head(jobEvents) IN
         cJob' = IF cJob.state = "gone" THEN Accepted(j) ELSE j
    /\ Wake
    /\ UNCHANGED <<spec, api, podEvents, svcEvents, cPods, cSvc, expecting,
                   requeues, pc, locals, fresh, clocks, left, history>>

\* AddPod, UpdatePod, DeletePod.  A deletion only lowers the expected
\* deletions, of which there are none.
DeliverPod ==
    /\ podEvents # <<>>
    /\ podEvents' = Tail(podEvents)
    /\ LET r == Head(podEvents).replica
           pod == Head(podEvents).pod
           added == Exists(pod) /\ ~Exists(cPods[r])
       IN /\ cPods' = [cPods EXCEPT ![r] = pod]
          /\ IF added /\ pod.deleting
             THEN UNCHANGED <<queued, expecting>>
             ELSE /\ WakeOwner
                  /\ expecting' = IF added /\ cJob.state # "gone"
                                  THEN expecting \ {<<"pods", r[1]>>} ELSE expecting
    /\ UNCHANGED <<spec, api, jobEvents, svcEvents, cJob, cSvc,
                   requeues, pc, locals, fresh, clocks, left, history>>

\* AddService; UpdateService and DeleteService do nothing.
DeliverService ==
    /\ svcEvents # <<>>
    /\ svcEvents' = Tail(svcEvents)
    /\ cSvc' = Head(svcEvents)
    /\ IF cSvc' /\ ~cSvc
       THEN /\ WakeOwner
            /\ expecting' = IF cJob.state # "gone"
                            THEN expecting \ {<<"services", "Master">>} ELSE expecting
       ELSE UNCHANGED <<queued, expecting>>
    /\ UNCHANGED <<spec, api, jobEvents, podEvents, cJob, cPods,
                   requeues, pc, locals, fresh, clocks, left, history>>

\* Every resyncPeriod the job informer repeats its objects to its handlers.
Resync ==
    /\ cJob.state # "gone"
    /\ Wake
    /\ UNCHANGED <<spec, api, streams, caches, expecting, requeues, pc,
                   locals, fresh, clocks, left, history>>

ExpectationKeys == {"pods", "services"} \X Rtypes

\* True as soon as one of the keys expects nothing.
satisfiedExpectations == \E k \in ExpectationKeys : k \notin expecting

ExpectationExpiresMutant(k) == k \notin ExpectationKeys /\ UNCHANGED vars

\* An expectation older than ExpectationsTimeout counts as satisfied; until
\* that makes a difference it does not matter whether it has.
ExpectationExpires(k) ==
    /\ k \in expecting
    /\ ~satisfiedExpectations
    /\ expecting' = expecting \ {k}
    /\ UNCHANGED <<spec, api, streams, caches, queue, pc, locals, fresh, clocks,
                   left, history>>

\* The process dies and is started again: what was in memory is lost, the
\* caches are listed afresh, and every job is added again.
ResetLocals ==
    /\ pc' = "idle"
    /\ my' = NewStatus(Rtypes)
    /\ old' = NewStatus(Rtypes)
    /\ fresh' = FALSE
    /\ sPods' = [r \in Replicas |-> NoPod]
    /\ sSvc' = FALSE
    /\ todo' = {}
    /\ cur' = "Master"
    /\ acts' = {}

Restart ==
    /\ ResetLocals
    /\ cJob' = IF job.state = "gone" THEN job ELSE Accepted(job)
    /\ cPods' = pods
    /\ cSvc' = svc
    /\ jobEvents' = <<>>
    /\ podEvents' = <<>>
    /\ svcEvents' = <<>>
    /\ expecting' = {}
    /\ queued' = (job.state # "gone")
    /\ requeues' = 0
    /\ UNCHANGED <<spec, api, clocks, history>>

Crash == Spend("crash") /\ Restart

-----------------------------------------------------------------------------
(* The end of a sync in processNextWorkItem. *)

\* The delay of a delayed add is that of the Get that follows, which may come
\* at any time.
AddRateLimited ==
    /\ queued' = TRUE
    /\ requeues' = IF requeues < MaxRequeues THEN requeues + 1 ELSE requeues

\* Forget, then Done.
SyncEnds ==
    /\ ResetLocals
    /\ requeues' = 0
    /\ UNCHANGED queued

\* AddRateLimited, then Done; whatever the sync learned is dropped.
SyncFails ==
    /\ ResetLocals
    /\ AddRateLimited

-----------------------------------------------------------------------------
(* The beginning: Get, the job from the cache, satisfiedExpectations, the  *)
(* listed pods and services, and what kind of sync this is.                *)

Get == pc = "idle" /\ queued /\ queued' = FALSE

\* errNotExists: neither Forget nor AddRateLimited.
JobIsGone ==
    /\ Get
    /\ cJob.state = "gone"
    /\ UNCHANGED <<spec, api, streams, caches, expecting, requeues, pc,
                   locals, fresh, clocks, left, history>>

NeedsSync == satisfiedExpectations /\ cJob.state = "live"

SkipSync ==
    /\ Get
    /\ cJob.state # "gone"
    /\ ~NeedsSync
    /\ requeues' = 0
    /\ UNCHANGED <<spec, api, streams, caches, expecting, pc, locals,
                   fresh, clocks, left, history>>

Active(pod) == pod.phase \in {"Pending", "Running"} /\ ~pod.deleting

\* Failures the status does not tell of yet, and the key was requeued too often.
exceedsBackoffLimit ==
    /\ Cardinality({r \in Replicas : Failed(cPods[r])})
         > SumFunction([rt \in Rtypes |-> cJob.status.replicas[rt].failed])
    /\ Cardinality({r \in Replicas : Active(cPods[r])}) # Total
    /\ requeues + 1 > spec.backoff

pastBackoffLimitMutant ==
    LET counted == {r \in Replicas : /\ spec.restart[r[1]] \in {"OnFailure", "Always"}
                                     /\ cPods[r].phase \in {"Pending", "Running"}}
        result == SumFunctionOnSet([r \in Replicas |-> cPods[r].restarts], counted)
    IN result >= spec.backoff - 1

\* Containers restarted in place too often, over the replicas whose policy
\* restarts them and the pods that have not ended.
pastBackoffLimit ==
    LET counted == {r \in Replicas : /\ spec.restart[r[1]] \in {"OnFailure", "Always"}
                                     /\ cPods[r].phase \in {"Pending", "Running"}}
        result == SumFunctionOnSet([r \in Replicas |-> cPods[r].restarts], counted)
    IN IF spec.backoff = 0 THEN result > 0 ELSE result >= spec.backoff

pastActiveDeadline == spec.deadline /\ cJob.status.started /\ late

jobExceedsLimitMutant ==
    spec.backoff # NoLimit /\ (exceedsBackoffLimit \/ pastBackoffLimit \/ pastActiveDeadline)

jobExceedsLimit ==
    \/ spec.backoff # NoLimit /\ (exceedsBackoffLimit \/ pastBackoffLimit)
    \/ pastActiveDeadline

DoomedMutant ==
    IF spec.clean = "None" THEN {} ELSE {r \in Replicas : cPods[r].phase = "Running"}

\* deletePodsAndServices: the pods it deletes.
Doomed ==
    CASE spec.clean = "None" -> {}
      [] spec.clean = "Running" -> {r \in Replicas : cPods[r].phase = "Running"}
      [] OTHER -> {r \in Replicas : Exists(cPods[r])}

ReadCaches ==
    /\ my' = cJob.status
    /\ old' = cJob.status
    /\ fresh' = (jobEvents = <<>>)
    /\ sPods' = cPods
    /\ sSvc' = cSvc
    /\ UNCHANGED cur

StartSync ==
    /\ Get
    /\ NeedsSync
    /\ ReadCaches
    /\ IF Terminal(cJob.status.conds) \/ jobExceedsLimit
       THEN pc' = "clean" /\ acts' = Doomed /\ todo' = {}
       ELSE pc' = "types" /\ acts' = {} /\ todo' = Rtypes
    /\ UNCHANGED <<spec, api, streams, caches, expecting, requeues,
                   clocks, left, history>>

-----------------------------------------------------------------------------
(* Cleaning up a finished job, or one that exceeds a limit. *)

DeletableMutant(r) == pods[r].phase = "Running" /\ ~pods[r].deleting

\* PodControl.DeletePod reads the pod first; one that is gone or already being
\* deleted is left alone.
Deletable(r) == Exists(pods[r]) /\ ~pods[r].deleting

DeletePodCall(r) ==
    /\ IF Deletable(r)
       THEN SetPod(r, [pods[r] EXCEPT !.deleting = TRUE])
       ELSE UNCHANGED <<pods, podEvents>>
    /\ UNCHANGED <<job, svc, jobEvents, svcEvents>>

NoCall == UNCHANGED <<api, streams>>

PodDone(r) == acts' = acts \ {r} /\ UNCHANGED <<my, old, sPods, sSvc, todo, cur>>

\* A call succeeds, or fails before or after it had its effect.
CleanPod(r) ==
    /\ pc = "clean"
    /\ r \in acts
    /\ \/ /\ DeletePodCall(r)
          /\ PodDone(r)
          /\ seen' = seen \cup {IF Terminal(my.conds) THEN "cleaned" ELSE "killed"}
          /\ UNCHANGED <<pc, fresh, queue, left>>
       \/ /\ Spend("error")
          /\ \/ NoCall /\ UNCHANGED seen
             \/ /\ DeletePodCall(r)
                /\ seen' = seen \cup {IF Terminal(my.conds) THEN "cleaned" ELSE "killed"}
          /\ SyncFails
    /\ UNCHANGED <<spec, caches, expecting, clocks, retries>>

\* deletePodsAndServices leaves the service alone when it deletes no pod
\* for want of pods or because of the policy.
ServiceDoomed ==
    /\ sSvc
    /\ spec.clean # "None"
    /\ \E r \in Replicas : Exists(sPods[r])

DeleteServiceCall ==
    /\ IF svc THEN SetSvc(FALSE) ELSE UNCHANGED <<svc, svcEvents>>
    /\ UNCHANGED <<job, pods, jobEvents, podEvents>>

CleanService ==
    /\ pc = "clean"
    /\ acts = {}
    /\ ServiceDoomed
    /\ \/ /\ DeleteServiceCall
          /\ pc' = "ttl"
          /\ UNCHANGED <<locals, fresh, queue, left>>
       \/ /\ Spend("error")
          /\ NoCall \/ DeleteServiceCall
          /\ SyncFails
    /\ UNCHANGED <<spec, caches, expecting, clocks, history>>

CleaningDone == pc = "ttl" \/ (pc = "clean" /\ acts = {} /\ ~ServiceDoomed)

\* cleanupPyTorchJob reads CompletionTime, which a job that only now exceeds
\* its limit does not have: the process panics.
TTLPanics ==
    /\ CleaningDone
    /\ spec.ttl
    /\ ~my.completed
    /\ Restart
    /\ UNCHANGED left

\* The status of a job whose pods were cleaned up.
CleanedStatus == IF Terminal(my.conds) THEN foldActive(my) ELSE failStatus(my)

CleanedMutant ==
    /\ pc' = "types"
    /\ my' = CleanedStatus
    /\ todo' = Rtypes
    /\ UNCHANGED <<old, sPods, sSvc, cur, acts>>

Cleaned ==
    /\ pc' = "types"
    /\ my' = CleanedStatus
    /\ UNCHANGED <<old, sPods, sSvc, todo, cur, acts>>

\* No TTL, or one that has not passed: the key comes back later.
EndCleaning ==
    /\ CleaningDone
    /\ spec.ttl => my.completed /\ ~expired
    /\ Cleaned
    /\ IF spec.ttl THEN AddRateLimited ELSE UNCHANGED queue
    /\ UNCHANGED <<spec, api, streams, caches, expecting, fresh, clocks,
                   left, history>>

DeleteJobCallMutant ==
    /\ job.state # "gone"
    /\ UNCHANGED <<api, streams, fresh>>

DeleteJobCall ==
    /\ job.state # "gone"
    /\ IF job.state = "live"
       THEN SetJob([job EXCEPT !.state = "gone"])
       ELSE UNCHANGED <<job, jobEvents, fresh>>
    /\ UNCHANGED <<pods, svc, podEvents, svcEvents>>

\* The TTL has passed: the job itself is deleted, unless it is gone already.
DeleteJob ==
    /\ CleaningDone
    /\ spec.ttl /\ my.completed /\ expired
    /\ \/ DeleteJobCall /\ Cleaned /\ UNCHANGED <<queue, left>>
       \/ job.state = "gone" /\ NoCall /\ SyncFails /\ UNCHANGED left
       \/ Spend("error") /\ (NoCall \/ DeleteJobCall) /\ SyncFails
    /\ UNCHANGED <<spec, caches, expecting, clocks, history>>

-----------------------------------------------------------------------------
(* One replica type after the other, in the order of a Go map: any.        *)

CountIn(rt, phases) == Cardinality({r \in Of(rt) : sPods[r].phase \in phases})

ReplicaStatus(rt) ==
    [active |-> CountIn(rt, {"Running"}),
     succeeded |-> CountIn(rt, {"Succeeded"}),
     failed |-> CountIn(rt, {"Retryable", "Permanent"})]

RestartsMutant(r) == spec.restart[r[1]] = "ExitCode" /\ Exists(sPods[r])

\* A failed pod that the ExitCode policy replaces.
Restarts(r) == spec.restart[r[1]] = "ExitCode" /\ sPods[r].phase = "Retryable"

StartTypeMutant(rt) ==
    /\ pc = "types"
    /\ rt \in todo
    /\ todo' = todo \ {rt}
    /\ cur' = rt
    /\ acts' = {r \in Of(rt) : ~Exists(sPods[r]) \/ Restarts(r)}
    /\ my' = [my EXCEPT !.replicas[rt] =
                [f \in DOMAIN @ |-> IF @[f] > ReplicaStatus(rt)[f] THEN @[f]
                                    ELSE ReplicaStatus(rt)[f]]]
    /\ pc' = "calls"
    /\ UNCHANGED <<spec, api, streams, caches, expecting, queue, old, sPods, sSvc,
                   fresh, clocks, left, history>>

\* reconcilePods starts: the statuses of the type are initialised and counted
\* from the listed pods (the counts are used only after the last pod), and
\* acts is what needs a call: a pod that is missing, a pod to replace.
StartType(rt) ==
    /\ pc = "types"
    /\ rt \in todo
    /\ todo' = todo \ {rt}
    /\ cur' = rt
    /\ acts' = {r \in Of(rt) : ~Exists(sPods[r]) \/ Restarts(r)}
    /\ my' = [my EXCEPT !.replicas[rt] = ReplicaStatus(rt)]
    /\ pc' = "calls"
    /\ UNCHANGED <<spec, api, streams, caches, expecting, queue, old, sPods, sSvc,
                   fresh, clocks, left, history>>

\* Pods are handled in the order of their index.
NextPod(r) == pc = "calls" /\ r \in acts /\ \A q \in acts : r[2] <= q[2]

CreatePodCall(r) ==
    /\ ~Exists(pods[r])
    /\ SetPod(r, NewPod)
    /\ UNCHANGED <<job, svc, jobEvents, svcEvents>>

\* createNewPod.  Its name is the replica's, so a pod that the cache does not
\* show yet makes the call fail; a call that times out is taken for a success.
\* What is expected stays expected when the call fails.
CreatePod(r) ==
    /\ NextPod(r)
    /\ ~Exists(sPods[r])
    /\ expecting' = expecting \cup {<<"pods", cur>>}
    /\ \/ /\ CreatePodCall(r)
          /\ PodDone(r)
          /\ UNCHANGED <<pc, fresh, queue, left>>
       \/ /\ Spend("error")
          /\ NoCall
          /\ PodDone(r)
          /\ UNCHANGED <<pc, fresh, queue>>
       \/ /\ Exists(pods[r])
          /\ NoCall
          /\ SyncFails
          /\ UNCHANGED left
       \/ /\ Spend("error")
          /\ NoCall \/ CreatePodCall(r)
          /\ SyncFails
    /\ UNCHANGED <<spec, caches, clocks, history>>

RestartPodMutant(r) ==
    /\ NextPod(r)
    /\ Exists(sPods[r])
    /\ SetPod(r, NewPod)
    /\ UNCHANGED <<job, svc, jobEvents, svcEvents>>
    /\ PodDone(r)
    /\ retries' = IF Deletable(r) THEN retries + 1 ELSE retries
    /\ UNCHANGED <<pc, fresh, queue, left, spec, caches, expecting, clocks, seen>>

\* The ExitCode policy deletes a failed pod; a later sync replaces it.
RestartPod(r) ==
    /\ NextPod(r)
    /\ Exists(sPods[r])
    /\ \/ /\ DeletePodCall(r)
          /\ PodDone(r)
          /\ retries' = IF Deletable(r) THEN retries + 1 ELSE retries
          /\ UNCHANGED <<pc, fresh, queue, left>>
       \/ /\ Spend("error")
          /\ \/ NoCall /\ UNCHANGED retries
             \/ /\ DeletePodCall(r)
                /\ retries' = IF Deletable(r) THEN retries + 1 ELSE retries
          /\ SyncFails
    /\ UNCHANGED <<spec, caches, expecting, clocks, seen>>

\* updateStatusSingle; the first time AddAfter also brings the key back at the
\* deadline.
EndType ==
    /\ pc = "calls"
    /\ acts = {}
    /\ my' = updateStatusSingle(my, cur, Size(cur), \E r \in Of(cur) : Restarts(r))
    /\ pc' = IF cur = "Master" /\ ~sSvc THEN "service" ELSE "types"
    /\ queued' = (queued \/ (spec.deadline /\ ~my.started))
    /\ UNCHANGED <<spec, api, streams, caches, expecting, requeues, old,
                   sPods, sSvc, todo, cur, acts, fresh, clocks, left, history>>

CreateServiceCall ==
    /\ ~svc
    /\ SetSvc(TRUE)
    /\ UNCHANGED <<job, pods, jobEvents, podEvents>>

\* reconcileServices and createNewService, for the master only.
CreateService ==
    /\ pc = "service"
    /\ expecting' = expecting \cup {<<"services", "Master">>}
    /\ \/ /\ CreateServiceCall
          /\ pc' = "types"
          /\ UNCHANGED <<locals, fresh, queue, left>>
       \/ svc /\ NoCall /\ SyncFails /\ UNCHANGED left
       \/ Spend("error") /\ (NoCall \/ CreateServiceCall) /\ SyncFails
    /\ UNCHANGED <<spec, caches, clocks, history>>

-----------------------------------------------------------------------------
(* The end: write the status if it changed. *)

StatusDone == pc = "types" /\ todo = {}

StatusUnchanged ==
    /\ StatusDone
    /\ my = old
    /\ SyncEnds
    /\ UNCHANGED <<spec, api, streams, caches, expecting, clocks, left, history>>

UpdateStatusCallMutant ==
    /\ job.state # "gone"
    /\ SetJob([job EXCEPT !.status = my])
    /\ UNCHANGED <<pods, svc, podEvents, svcEvents>>

\* UpdateStatus succeeds on the version of the job that was read.
UpdateStatusCall ==
    /\ job.state # "gone" /\ fresh
    /\ SetJob([job EXCEPT !.status = my])
    /\ UNCHANGED <<pods, svc, podEvents, svcEvents>>

UpdateStatus ==
    /\ StatusDone
    /\ my # old
    /\ \/ UpdateStatusCall /\ SyncEnds /\ UNCHANGED left
       \/ (job.state = "gone" \/ ~fresh) /\ NoCall /\ SyncFails /\ UNCHANGED left
       \/ Spend("error") /\ (NoCall \/ UpdateStatusCall) /\ SyncFails
    /\ UNCHANGED <<spec, caches, expecting, clocks, history>>

Sync ==
    \/ JobIsGone \/ SkipSync \/ StartSync
    \/ CleanService \/ TTLPanics \/ EndCleaning \/ DeleteJob
    \/ EndType \/ CreateService
    \/ StatusUnchanged \/ UpdateStatus
    \/ \E r \in Replicas : CleanPod(r) \/ CreatePod(r) \/ RestartPod(r)
    \/ \E rt \in Rtypes : StartType(rt)

Deliver == DeliverJob \/ DeliverPod \/ DeliverService
Timers == Resync \/ \E k \in ExpectationKeys : ExpectationExpires(k)

Next == Environment \/ Deliver \/ Timers \/ Crash \/ Sync

\* Workers run, watches deliver, timers fire, pods start, deletions end, the
\* garbage collector collects.  Nothing is assumed of users, failures, how
\* long a container runs, or when a deadline passes.
Fairness ==
    /\ WF_vars(Sync)
    /\ WF_vars(DeliverJob) /\ WF_vars(DeliverPod) /\ WF_vars(DeliverService)
    /\ WF_vars(Resync)
    /\ \A k \in ExpectationKeys : WF_vars(ExpectationExpires(k))
    /\ \A r \in Replicas : WF_vars(PodStarts(r)) /\ WF_vars(PodRemoved(r))
    /\ WF_vars(DeletingJobGoes)

Safety == Init /\ [][Next]_vars
Spec == Safety /\ Fairness

-----------------------------------------------------------------------------
(* Properties. *)

Over == job.state # "live" \/ Terminal(job.status.conds)

StatusType == StatusOver(Rtypes)
JobType == [state : States, status : StatusType]
PodType == [phase : Phases, deleting : BOOLEAN, restarts : Nat]
PodsType == [Replicas -> PodType]
Facts == {"master succeeded", "container restarted", "container failed",
          "pod failed", "cleaned", "killed"}

\* Every variable has its type.
TypeOK ==
    /\ spec \in JobSpecs
    /\ job \in JobType /\ cJob \in JobType
    /\ pods \in PodsType /\ cPods \in PodsType /\ sPods \in PodsType
    /\ svc \in BOOLEAN /\ cSvc \in BOOLEAN /\ sSvc \in BOOLEAN
    /\ jobEvents \in Seq(JobType)
    /\ podEvents \in Seq([replica : Replicas, pod : PodType])
    /\ svcEvents \in Seq(BOOLEAN)
    /\ expecting \subseteq ExpectationKeys
    /\ queued \in BOOLEAN
    /\ requeues \in 0 .. MaxRequeues
    /\ pc \in {"idle", "clean", "ttl", "types", "calls", "service"}
    /\ my \in StatusType /\ old \in StatusType
    /\ fresh \in BOOLEAN
    /\ todo \subseteq Rtypes /\ cur \in Rtypes /\ acts \subseteq Replicas
    /\ late \in BOOLEAN /\ expired \in BOOLEAN
    /\ left \in [Mishaps -> Nat]
    /\ seen \subseteq Facts /\ retries \in Nat

\* In every copy of the status, stored, cached or in the hands of a sync: the
\* job is not running and restarting at once, a finished job is not running,
\* has one outcome, and has a completion time, without which
\* cleanupPyTorchJob would panic.
ConditionsAgree ==
    \A st \in {job.status, cJob.status, my} : Consistent(st)

\* The stored counts of a type never exceed its size, however often a finished
\* job is synced again.
CountsAddUp ==
    \A rt \in Rtypes :
      LET rs == job.status.replicas[rt]
      IN rs.active + rs.succeeded + rs.failed <= Size(rt)

\* What may end a job as failed: a pod that failed for good, a deadline, or,
\* with a backoff limit, a container that failed or that completed and was
\* restarted.  A negative limit is exceeded before anything has happened.
Broken ==
    \/ "pod failed" \in seen
    \/ late
    \/ /\ spec.backoff # NoLimit
       /\ \/ "container failed" \in seen
          \/ "container restarted" \in seen
          \/ spec.backoff < 0

\* Cleaning up starts only when the outcome is stored, so no later sync and no
\* restart of the controller can see the job unfinished again.
CleanedIsOver == "cleaned" \in seen => Over

\* A pod of a finished job that was cleaned up never comes back, although the
\* caches lag and syncs fail half-way.
NoPodAfterCleanup ==
    [][\A r \in Replicas :
         "cleaned" \in seen => ~(~Exists(pods[r]) /\ Exists(pods'[r]))]_vars

\* The restart of a replica by name never hits the pod that replaced it, as
\* long as nobody else deletes pods or the job: what the controller deletes
\* itself it lists again before it creates the next.
Untouched == left["remove"] = Budget[spec]["remove"]
ReplacesOnlyFailed ==
    [][\A r \in Replicas :
         Untouched /\ retries' # retries /\ pods'[r] # pods[r] => Failed(pods[r])]_vars

\* The stored status follows the life of a job: an outcome has its cause and
\* is final, a started job stays started.
Phase ==
    IF job.state = "gone" THEN "Gone"
    ELSE IF isSucceeded(job.status.conds) THEN "Succeeded"
    ELSE IF isFailed(job.status.conds) THEN "Failed"
    ELSE IF hasCondition(job.status.conds, "Running") THEN "Running"
    ELSE IF hasCondition(job.status.conds, "Restarting") THEN "Restarting"
    ELSE "New"
Lifecycle == INSTANCE JobLifecycle
    WITH phase <- Phase, finished <- "master succeeded" \in seen, broken <- Broken
LifecycleSpec == Lifecycle!Spec

-----------------------------------------------------------------------------
(* What eventually happens. *)

\* Every replica gets its pod, and gets it back after losing it, and so does the
\* master its service, whatever calls fail or time out on the way and although
\* a failed creation leaves an expectation that no event ever lowers.
JobGetsItsPods ==
    /\ \A r \in Replicas : []<>(Over \/ Exists(pods[r]))
    /\ []<>(Over \/ svc)

\* A pod that failed with a retryable exit code does not stay.
RetryableIsReplaced ==
    \A r \in Replicas : pods[r].phase = "Retryable" ~> Over \/ pods[r].phase # "Retryable"

\* The end of the master, and a permanent failure, end up in the status.
OutcomeIsReported ==
    /\ "master succeeded" \in seen ~> Over
    /\ "pod failed" \in seen ~> Over

\* The pods of a finished job go as its clean pod policy says.
PodsAreCleaned ==
    \A r \in Replicas :
      Terminal(job.status.conds) ~>
        \/ spec.clean = "None"
        \/ spec.clean = "Running" /\ pods[r].phase # "Running"
        \/ ~Exists(pods[r])

\* A job past its deadline is finished.
DeadlineEnforced == late ~> Over

\* A finished job whose TTL has passed is deleted.
TTLDeletesJob == expired ~> job.state = "gone"

-----------------------------------------------------------------------------
(* What comments, docs and tests of the repository say and the code does   *)
(* not do.                                                                 *)

\* "satisfiedExpectations returns true if the required adds/dels for the given
\* job have been observed": no sync starts while something is expected.
SyncOnlyWhenSatisfied == [][pc = "idle" /\ pc' # "idle" => expecting = {}]_vars

\* BackoffLimit is the "number of retries before marking this job as failed":
\* a job whose pods were deleted over the limit does not succeed.
BackoffKillIsFinal == "killed" \in seen => ~isSucceeded(job.status.conds)

\* "If the PyTorchJob is terminated, delete all pods and services."
ServiceIsCleaned ==
    Terminal(job.status.conds) ~> ~svc \/ spec.clean = "None" \/ job.state # "live"

\* A job whose master succeeded does not fail because of a worker
\* (status_test.go, "Master is succeeded, workers are failed").
MasterSuccessWins ==
    isFailed(job.status.conds) => job.status.replicas["Master"].succeeded = 0
=============================================================================
