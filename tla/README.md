# PyTorch operator: a TLA+ development

The repository is the Kubernetes operator for `PyTorchJob`: a controller that
creates the pods and the service of a distributed PyTorch training job, watches
them, restarts what may be restarted, and keeps the job's status. This
directory models its core in TLA+, checks it with TLC on small instances, and
proves the main results with TLAPS for every value of the constants.

Contents: 1 the system, 2 the modules, 3 the runs, 4 fairness, 5 the proofs,
6 where code and documentation disagree, 7 what is not modelled, 8 the plan.
Paths are relative to `src/`; `controller.go`, `job.go`, `pod.go`, `service.go`,
`status.go` and `informer.go` are in `pkg/controller.v1/pytorch/`.

## 1. The system

| Component | State | Operations | Interacts with |
| --- | --- | --- | --- |
| **API server** (external) | jobs, pods, services; resource versions | create, delete, update of the status; watches | everybody |
| **Kubelets, garbage collector, users** (external) | containers | run, end, restart in place, evict, delete, edit | API server |
| **Informers and caches** (`informer.go`, handlers in `job.go` and the vendored `jobcontroller`) | a cache per kind, watch streams | add, update, delete handlers, resync | feed the work queue, lower expectations |
| **Expectations** (vendored `controller_utils.go`) | a count of unobserved creations per job, replica type and kind | ExpectCreations, CreationObserved, SatisfiedExpectations, expiry after 5 minutes | set by a sync, lowered by handlers |
| **Work queue** (vendored `client-go/util/workqueue`) | `queue`, `dirty`, `processing`; delayed keys; requeue counters; shutdown flag | Add, Get, Done, AddAfter, AddRateLimited, Forget, ShutDown | handlers, workers |
| **Workers** (`controller.go`: Run, runWorker, processNextWorkItem) | the key each holds | take a key, sync, Forget or AddRateLimited, Done | work queue, sync |
| **Sync** (`controller.go`: syncPyTorchJob, reconcilePyTorchJobs; `pod.go`, `service.go`, `job.go`) | a copy of the job, listed pods and services, the old status | limits, cleaning, TTL, pods, service, status update | caches, expectations, API server, queue |
| **Conditions** (`status.go`) | conditions, replica counts, StartTime, CompletionTime | setCondition, updateStatusSingle | sync |
| **Pod and service control** (vendored `tf-operator/pkg/control`) | none | create with owner, get and delete | API server |
| **Operator process** (`cmd/pytorch-operator.v1/app/server.go`, vendored `leaderelection`) | lease record, what each process observed of it, timers, signals | start, acquire, renew, lose the lease, stop | runs all of the above |
| **Defaults and validation** (`pkg/apis/pytorch/v1/defaults.go`, `pkg/apis/pytorch/validation/`) | none (pure functions) | SetDefaults_PyTorchJob, ValidateV1PyTorchJobSpec | handlers, sync |
| **Cluster environment** (`pod.go` 234-289, `util.go`), exit codes | none (pure functions) | setClusterSpec, GetPortFromPyTorchJob | creation of pods and services |

What is hard about it:

* **Stale reads.** A sync reads caches that lag behind the API server, each on
  its own, and then makes API calls one by one; everything else happens between
  two calls. Pods are addressed by name, and a new pod has its predecessor's name.
* **Lost writes.** The status is written with the version that was read. A
  conflict, an error, a crash or a panic drops all a sync learned *after* it
  created and deleted pods.
* **Ordering.** Handlers, timers and workers share the work queue; replica types
  are reconciled in the random order of a Go map; one watch stream overtakes
  another.
* **Partial failure.** Every API call can fail before or after its effect, and
  the sync stops there.
* **One name, several jobs.** Pods, services, queue keys and expectations go by the
  name of the job; a job may be deleted and created again, and edited from valid to
  invalid, while its predecessor's pod, cache entries and expectations are still there.
* **Time without a common clock.** Leadership is a lease in a record; a leader must
  notice that it lost it before anyone else may take it.
* **Things that must eventually happen** although informers lag, calls fail and
  the process crashes: pods are created, failures are noticed, deadlines and
  TTLs are enforced, pods are cleaned up.

What makes each part correct:

* Work queue: one worker per job; no event is lost, none is doubled; delayed
  keys come back; shutdown drains (`WorkQueue`, `JobWork`).
* Conditions: an outcome is final; Running excludes Restarting and the outcomes;
  a finished job has a completion time (`JobConditions`, `ConditionsAgree`).
* Sync: the stored status follows the life of a job, and a job only ends for a
  reason (`JobLifecycle`); restarts hit only failed pods; finished jobs are
  cleaned up once and for all; counts add up; progress (`PyTorchController`).

* Jobs of one name: each succeeds by its own pod, a sync touches only what its own job
  owns, outcomes are final, a new job gets its pod (`Incarnations`).
* Specs: what passes the validation is usable after the defaults, and the ranks of the
  pods form the world that torch waits for (`JobSpec`).
* Election: two leaders at once only when one learned too late that it had won, and there
  is one again and again (`LeaderElection`).

`PROJECT.json` lists every component with its status, and every hazard with the
line where it bites and the properties that cover it.

## 2. The modules

| Module | Models | Lines of code it stands for |
| --- | --- | --- |
| `JobWork` | abstract: keys that are pending and keys being worked on | what the controller relies on |
| `WorkQueue` | the work queue, its workers, handlers and shutdown | `workqueue/*.go`, `controller.go` 188-282 |
| `MCWorkQueue` | its instance for TLC | |
| `JobConditions` | conditions and replica counts, as operators | `status.go`, `controller.go` 385-392, 452-461 |
| `JobLifecycle` | abstract: the phase of a job as its users read it | documentation of the condition types |
| `PyTorchController` | one job, its sync, informers, API server, kubelets, users | `controller.go`, `job.go`, `pod.go`, `service.go`, handlers, control |
| `MCPyTorchController` | job specifications and budgets for TLC | |
| `JobSpec` | specs, validation, defaults, ranks and addresses, as operators | `validation.go`, `defaults.go`, `pod.go` 234-289, `util.go` |
| `Incarnations` | the jobs of one name, one after the other, valid or not; composes `JobSpec` with the handlers and the sync | `job.go`, `informer.go`, `controller.go`, handlers, control |
| `MCIncarnations` | specs and scenarios for TLC | |
| `LeaderElection` | processes that compete for the lease | `server.go`, `leaderelection.go`, `endpointslock.go` |
| `WorkQueueProofs`, `JobConditionsProofs`, `PyTorchControllerTypes`, `PyTorchControllerProofs`, `JobLifecycleProofs`, `JobSpecProofs`, `IncarnationsProofs`, `LeaderElectionProofs` | theorems, section 5 | |

**WorkQueue.** `queue`, `dirty`, `processing` are the fields of `workqueue.Type`;
each method that takes its lock is an operator with the method's name, used by
the actions that call it. `waiting` is the delaying layer; times are abstracted,
so an entry may be ready at any moment. A worker is at `get`, `sync`, `done` or
`exited`. During a sync it may delay its own key (TTL, deadline). Definitions
named `...Mutant` are deliberate defects that show that a property can fail.

**JobConditions.** `filterOutCondition` keeps at most one entry of a type, so the
list of conditions is a function from types to Absent, True or False. Times,
messages and order are left out, and so is the reason: each type is only ever set
with one. `StartTime` and `CompletionTime` are Booleans, set or not.

**PyTorchController.** One `PyTorchJob` with one master and `NumWorkers` workers.

* `job`, `pods`, `svc` are what the API server stores; `cJob`, `cPods`, `cSvc` are
  the caches; the three sequences of events are what a watch has not delivered.
  A write appends an event; `DeliverJob`, `DeliverPod`, `DeliverService` update the
  cache and run the handler. `DeliverJob` of a job that is not in the cache adds
  the Created condition to the cached object, and only there, as
  `addPyTorchJob` does.
* The sync: `StartSync` reads the caches and decides between cleaning and
  reconciling. Then one action per API call: `CleanPod`, `CleanService`,
  `DeleteJob`; or, per replica type in any order, `StartType`, `CreatePod` or
  `RestartPod` for each pod that needs a call, in the order of the index,
  `EndType` (updateStatusSingle) and `CreateService`; at last `UpdateStatus` or
  `StatusUnchanged`. Each call may succeed, fail, or take effect and fail; the
  last two spend a mishap. A failed call ends the sync: its local state is
  dropped and the key is added again (`SyncFails`).
* `fresh` is the resource version of the sync's copy, reduced to whether it is
  still the stored one: set in `StartSync` when no event is under way, cleared by
  every write of the job. `UpdateStatus` succeeds exactly when it holds.
* `expecting` is the set of expectation keys with an unobserved creation. A
  Boolean per key is exact: `ExpectCreations` sets the count to one, it never
  adds. `ExpectationExpires` is enabled where it changes `satisfiedExpectations`.
* `Restart` is what a crash and a panic (`TTLPanics`) have in common: memory is lost,
  caches are listed afresh, every job is added. A standby that takes over has caches
  of its own, which may lag; that is not modelled.
* The phase Failed is split into Retryable and Permanent, by what
  `IsRetryableExitCode` says of the exit code.
* Under the policy Always the kubelet restarts a container also when it completes
  (`ContainerCompletes`); both kinds of restart raise the RestartCount that pastBackoffLimit
  adds up, those of init containers included. `backoff` is any integer or `NoLimit`: no
  validation refuses a negative one.
* `seen` and `retries` are history: they only occur in properties.
* `Untouched`, that no user has deleted a pod or the job, guards `ReplacesOnlyFailed`. Without
  it the property is false, as TLC shows: a sync that read the caches before the pod
  appeared in them is held up; the pod fails and a user's deletion frees its name; the
  sync creates the pod's successor; the next one, whose cache still shows the failed pod,
  deletes the successor by its name. Deletions have no precondition on the uid.

**JobSpec.** A spec has what the functions look at: per container its name, whether it
has an image and its first port of the right name; per replica type the count, the
restart policy and the containers; `Unset` where users give nothing. The map of types
is a function on `Names`, the spellings of Master and Worker and one foreign name. A
loop over a Go map that stops at the first match is a set of outcomes
(`setTypeNameToCamelCase`), and it is a property that the set has one member.

**Incarnations.** `job`, `pod` and `svc` are what is stored under the name of the job; `uid`
and `owner` number the incarnations. The sync is that of `PyTorchController`, reduced
to a master without deadline and backoff limit, because here it is ownership that
matters; a pod that is not done is pending or running, so that `PodDoomed` under the clean
policy Running is either. `ValidJobAdded`, `InvalidJobAdded`, `JobUpdated` and `JobDeleted` are told apart by what the *cache* holds,
not by the uids, as `client-go` does: after `WatchBreaks` the successor of a job is an
update of it. `InvalidJobAdded` writes Failed into the cached object and, by one call, to the
API server, or does neither when it gets no client. `InvalidPanics` is the nil job at `controller.go` 262, `TTLPanics` the nil
CompletionTime at `job.go` 197; both restart the process. `Listed` is the check of the
controller's uid in GetPodsForJob. `ran`, `expired` and `born` are history; `expired` also
stands for the clock that `cleanupPyTorchJob` reads. `manifests` are the specs that users
have in a scenario; they are valid or not, and `ValidSpecsAreUsable` and
`RanksFormTheWorld` are about them.

**LeaderElection.** A process is `down`, on `standby` (acquire), has `won` (its update was taken,
the answer is under way, for any time), or leads: in a `window` of `RenewDeadline`, or at
`rest` for `RetryPeriod` between two. An attempt is a Get, an Update that arrives or not, and an
answer that arrives or not; `current` is the resource version it got, reduced to whether
it is still stored. `seen` and `age` are observedRecord and observedTime. A process that
ends may leave an update behind that arrives later (`ghost`). Clocks run at one speed;
a timeout is handled before time goes on. Only renewals have a timeout: `acquire` and its
client have none, so a process may learn at any time that it has won. `late` is history:
the leaders that learned it when less than `RenewDeadline` was left of the lease
(`LateAfter`) and have not renewed since. `stopped` is stopCh: after the first signal the
process keeps its lease and syncs nothing.

Abstractions of `PyTorchController`: a delayed add of the key is an add, since the `Get` that follows may
come at any time; `GetPodsForJob` and `GetServicesForJob` are read with the job
in one step; a cache changes together with its handlers; DeletePod gets a pod and deletes it in one
step, since nothing depends on what comes between; the key in the queue is
a Boolean, and there is one sync at a time, which is what `WorkQueue` establishes
(`OneWorkerPerKey`, `QueueHoldsIdleDirty`).

## 3. The runs

Bounds. `MaxLag` is the number of pod events under way at which kubelets wait
(writes of the controller itself are not held back, so the streams get longer);
`MaxRequeues` is where NumRequeues saturates; `Budget` says how often each mishap
may happen: `fail` (a container ends with an error, or
completes under the policy Always and is restarted), `evict`, `error` (an API
call fails), `crash`, `edit` (somebody else writes the job), `remove` (a user
deletes the job or a pod). All else is unbounded: syncs, resyncs, events,
successful steps of the pods.

| Run | Instance | Shows |
| --- | --- | --- |
| `queue` | 3 keys, 2 workers | `TypeOK`, `OneWorkerPerKey`, `QueueHoldsIdleDirty`, `ProcessingIsHeld`, `DrainedAtExit`; refinement of `JobWork` with its liveness; `MarkedKeyIsTaken`, `DelayedKeyIsSynced` |
| `workers` | master and worker; ExitCode/All, Never/All; one failing container | `TypeOK`, `CountsAddUp`, `ReplacesOnlyFailed`, refinement of `JobLifecycle`; `OutcomeIsReported`, `PodsAreCleaned` with two types in either order; no deadlock |
| `end` | master; Never/All, OnFailure/Running with TTL (error, crash, remove once each, fail once where there is no TTL); backoff limit 1 (OnFailure), 2 (Always) and -1 (Never), limit 0 and deadline (ExitCode), deadline and TTL (Always) (edit once each, fail once or as often as the limit is, evict where there is no such limit); ExitCode/All (fail twice, remove once) | `CleanedIsOver`, `NoPodAfterCleanup`, `ConditionsAgree`, `ReplacesOnlyFailed`, refinement of `JobLifecycle` |
| `progress` | master; ExitCode/All, Never/All with deadline, Never/Running with TTL; fail, error, crash once each | `JobGetsItsPods`, `RetryableIsReplaced`, `OutcomeIsReported`, `PodsAreCleaned`, `DeadlineEnforced`, `TTLDeletesJob` |
| `incarnations` | two creations and a relist; two creations, one of them invalid; one creation, valid or not, and an edit; one creation, a failed call and a crash. One scenario with no job and 104424 specs, 2112 of them valid | `TypeOK`, `SuccessIsItsOwn`, `SyncActsOnItsOwn`, `OutcomeIsFinal`, `NewJobGetsItsPod`; `ValidSpecsAreUsable`, `RanksFormTheWorld` over all specs |
| `election` | 3 processes; 6, 2 and 1 seconds; a crash and a signal | `TypeOK`, `OneLeader`, `JobsAreSynced`; no deadlock |
| `expectations`, `backoff_kill`, `service`, `ttl_deadline`, `map_order`, `late_answer` | the smallest that shows it | violations, section 6 |

Why these are enough. Two workers and three keys give the queue a key in each of
its roles at once (held, marked while held, waiting behind another), and two
workers competing. A master and a worker give two replica types in either order,
a pod that fails while another runs, a restart flag of one type. One mishap of
each kind can strike at every point of every sync, and a second failure meets the
recovery from the first (`end`). Runs that need a long recovery have one replica:
`JobGetsItsPods` fails without the expiry of expectations only after a stuck
expectation for the service (created twice over a cache that lagged) and another
for a pod (its re-creation failed), and the run reaches that.

`incarnations`: two creations suffice for a predecessor and a successor; deletion is
unbounded, so they meet at every step of a sync, with every lag of the three watches
up to `MaxWrites` job events and `MaxLag` others. The scenarios take the incidents that
interact: a relist hides a deletion only between two jobs; an invalid job comes before or
after a valid one; an edit turns a job invalid or valid; an error and a crash meet the
recovery of one job. The specs have
every container list of length at most two that the functions tell apart, 0 to 2 or unset
replicas, two names out of all spellings.

`election`: three processes give a leader, a candidate that waits and one whose late
update is under way. Answers may take any time. Lease, window and pause are 6, 2 and 1, which
satisfy the same assumption as the 15, 5 and 3 of `server.go`, with which the graph and its
liveness are too large; the theorem covers both, and `late_answer` runs with those of `server.go`.
With them and a RenewDeadline of 6 the assumption fails, and TLC finds two leaders of which neither
learned late that it had won; so it does when a winner counts as late only a second later.
Both conditions are tight.

`end` has eight specifications. Limits of 1 and 2 are reached by restarts alone, after a
failure or, under Always, after success too; the negative one fails a job at its first sync.

`end` uses the VIEW `Counted`, which leaves out the number of requeues of jobs without a
backoff limit. `workers` and `map_order` use the VIEW `Relevant`: a job with workers has a
key under which nothing is ever expected, so `satisfiedExpectations` is true and no
step depends on `expecting`. `workers` and `election` check for deadlock; the other runs allow
the system to stop, since a job may be gone and its operator have nothing to do,
and a queue that is shut down stops.

`PROJECT.json` names a defect of the code (a mutant) for each property, and the
property catches it in its run: a lost mark in Done, a sync that keeps its reset
status, a status written over a conflict, counts that are not reset, an expectation
that does not expire, and so on.

## 4. Fairness

* `WF(Sync)`, `WF(Get \/ Exit)`, ...: goroutines run, API calls return (client
  timeouts), and workers loop until shutdown.
* `WF(DeliverJob)` and its siblings: an informer keeps its watch and lists again
  when it breaks.
* `WF(Resync)`: the job informer has a resync period of 30 seconds
  (`informer.go` 24), whose update events add every job again.
* `WF(ExpectationExpires(k))`: time passes; ExpectationsTimeout is 5 minutes.
* `WF(PodStarts)`, `WF(PodRemoved)`, `WF(DeletingJobGoes)`: the cluster schedules
  pods and ends deletions.
* `WF(WaitingFires(k))`: timers of the delaying queue fire.
* `Incarnations`: the same for its sync, watches, resync and expectations, and the garbage
  collector removes what a deleted job owned.
* `LeaderElection`: time passes; processes are restarted (a Deployment) and killed after
  a termination; attempts are made every RetryPeriod (`JitterUntil`, `wait.Until`), an update
  that was refused is answered; *strong* fairness for the update and the answer of a candidate,
  since a conflict with another candidate may disable them again and again: who keeps
  trying succeeds once. Nothing is assumed of a leader's renewals: it may lose its lease
  any number of times.

Nothing is assumed of users, of failures, of when a container ends or a deadline
passes; the budgets make mishaps finite (the scenarios of `MCIncarnations` too), so that each liveness property says
"when mishaps stop, then eventually".

## 5. The proofs

All theorems hold for any number of workers, keys and replicas, any set of job
specifications, any bounds and any durations within the assumptions. The only assumptions are the named ones in the
modules: `NoKey` is no key, `MaxFailures` and `MaxLag` are positive, `NumWorkers`
and the budgets are natural numbers, `NoLimit` is no integer, job specifications and the specs
of scenarios are specifications; for the election `2 * RenewDeadline + RetryPeriod <
LeaseDuration`, which holds of the durations in `server.go`. Nothing is assumed of how long
calls and answers take; `OneLeader` names the one answer that must not be late, and
`late_answer` shows what happens when it is. TLC evaluates the assumptions in every run.

**WorkQueueProofs.** The inductive invariant `IInv` is the conjunction of `TypeOK`,
`OneWorkerPerKey`, `QueueHoldsIdleDirty`, `ProcessingIsHeld`, `DrainedAtExit` and
`ExitedAfterShutDown` (a worker leaves only a queue that is shutting down). None is
inductive alone: that no two workers hold a key rests on the queue holding only keys
that are not being processed, which rests on each standing there once and on
`processing` being what the workers hold; that nothing is marked after the last worker
left rests on no key being marked after the shutdown. Theorems: `TypeCorrect`, `MutualExclusion`, `NoMarkLost`,
`ProcessingCorrect`, `ShutDownDrains`. `Refinement` proves that every step is a
step of `JobWork` (Add is Mark, Get is Start, Done is Finish) or a stutter.

**JobConditionsProofs.** Lemmas on the functions of `status.go`: they keep the type, an
outcome is final (`OutcomeIsFinal`), conditions stay exclusive
(`SetConditionExclusive`), and `updateStatusSingle`, the failure over a limit and
the folding of active replicas keep a status consistent.

**PyTorchControllerTypes.** `TypeCorrect`, one lemma per action, over groups of
variables so that a step mentions only what it touches.

**PyTorchControllerProofs.** `IInv` has, besides the types:

* `StatusesAgree`: `ConditionsAgree` for the stored and the cached status and the
  copy of the sync, and for every event under way, since a cache takes its status
  from an event.
* `CacheFollows`: an outcome in the cache or in an event is stored, later events
  have it too, and the last event, or the cache when there is none, knows what
  is stored.
* `CopyFollows`: while the copy of a sync is fresh, it knows a stored outcome. So a
  successful UpdateStatus never removes an outcome: the heart of the argument,
  which needs optimistic concurrency and breaks with the mutant that ignores `fresh`.
* `CleansClosed`: a sync that cleans up on account of an outcome saw it in the cache and
  has no replica type left to reconcile.
* `CleanedStaysClosed`: after a clean-up the cache has the outcome, and no sync
  is at a place from which it could create a pod.

Theorems: `StatusConsistent` (`ConditionsAgree`), `CleanedJobsAreOver`
(`CleanedIsOver`), `NoPodComesBack` (`NoPodAfterCleanup`). TLC also checked the
invariant itself, on a part of the instance of `end`, before it was proved.

`CountsNeverExceed` (`CountsAddUp`) has an invariant of its own, `CountsFit`: the counts of
each type fit its size in the stored job, in every event, in the cache and in the copy of a
sync. `CountedOnce` says that one listing counts a replica once, `FoldFits` that folding the
active into the succeeded moves counts and makes none, so that repeating it is harmless.

`RestartsHitFailedPods` (`ReplacesOnlyFailed`) needs to know what a sync that acts on a *name*
may still believe. `OrderInv` is about the versions of a pod: what the cache has and, in
order, what the events under way will make of it (`Version`). While nobody else deletes
(`Calm`), `OneChange` says that on the way to the cache a pod appears or disappears at most once;
`DeletedIsKnown` that the controller deletes only a pod whose creation the cache knows;
`FailedIsDead` that a name of which a failed pod is known has no live pod; `MayCreate` and
`MayDelete` carry this to a running sync, by what it listed. They depend on each other: a
sync can create a pod only if it listed none, then no version of one is under way, so the next
pod of the name is the first that the cache will see. `ActsFit` says that a sync deletes only
what it found, and `GoneIsClosed` that a job the controller deleted itself (TTL) is over
before. TLC checked `OrderInv`, and `LifeInv` below, on four instances before they were proved.

**JobLifecycleProofs.** `LifecycleImplemented`: PyTorchController implements `JobLifecycle`. The
refinement mapping is in `PyTorchController`: the phase is that of the stored job, `finished`
and `broken` are read off the history and the clock. The invariant `LifeInv` says that whatever the
controller believes has happened:

* `PodsTold`: every version of a pod, stored, cached, listed or under way, tells of nothing
  that has not happened (`Told`): a succeeded master of a success, a restart of a failure.
* `LimitsTold`: an unfinished job is cleaned up for a reason (`LimitsHaveCauses`: each of the
  disjuncts of `jobExceedsLimit` implies `Broken`). With a limit, the causes are a container that
  failed or, under Always, was restarted after it completed, and a limit below zero, which
  is there from the start: so `JobLifecycle` starts with `broken` of either value.
* `CountsRead`: the counts from which updateStatusSingle concludes are those of the listed pods
  (`CountsHaveCauses`).
* `LatestKnown`, `CopyProgresses`: a copy that may still be written (`fresh`) is `Progress` over what
  is stored: an outcome that it adds has its cause, one that is stored stays, and what was
  started stays started or has ended. `SetConditionProgress` shows that for every condition
  that is set, `UpdateProgress` for updateStatusSingle as a whole.

That a sum of restarts is positive only if a summand is, `SumOfZeros`, is about a fold of the
community modules. Their definition is a CHOOSE of a recursive function; `SumValue` shows that any
function with its equation has its value, by the least set on which they differ
(`LeastNatural`, from the well-foundedness of the natural numbers), so here no induction
with an operator is needed.

Two corollaries are proved of the abstract specification and carried over by the
refinement: `OutcomesHaveCauses` (no success without the master's, no failure without a cause)
and `PhasesAreInOrder` (an outcome is never taken back, a started job never looks new).

What the proofs found in the model: `Phase` was a CASE whose guards overlapped, since a job that
ends straight from Restarting keeps that condition, so that its value was not
determined; it is now a chain of IF in which the outcome comes first.
`ReplacesOnlyFailed` was stated without `Untouched`; its runs had no deletions by users, and the
attempt at a proof showed that it needs them to be absent (`end` now has one).

**JobSpecProofs.** `ValidSpecsUsable` and `RanksAreComplete` for any set of specs. A valid map of
types has no foreign spelling, so renaming does nothing and `SetDefaults_PyTorchJob(s)` is the
singleton of `Defaulted(s)` (`OneOutcome`); `TrainerIsNamed` says that the container that gets the
port is named pytorch, which is what GetPortFromPyTorchJob looks for; that there is a first
such container is the well-foundedness of the natural numbers.

**IncarnationsProofs.** A step is first reduced to what it does to the job and its copies, to the
worker, to the pod and to the service (`Steps`, six to seven kinds for each); the invariant
is then preserved kind by kind. The argument is an order. Uids grow with every job that is
created, and what the controller holds of a job is handed on in the order in which it was
stored, from the watch to the cache to the copy of the sync (`JobOrder`). The owner of a pod
or a service was once such a copy, so that no copy is of an earlier job than an owner, and a
cached owner is not later than the stored one (`PodOrder`, `SvcOrder`). So when the cached
owner is the job of the sync, the stored one is too, or nobody is (`Cleaning`): a call by name hits
the right object. `LastIsStored` and `FreshCopy` say that the last event shows what is stored and
that a copy with the stored version is the stored job; with `NotOver` that makes outcomes final.
`PodsRan`, `JobsRan` and `Listing` carry the success from the pod to the status. Theorems:
`TypeCorrect`, `SuccessIsOwn`, `ActsOnItsOwn`, `OutcomeStays`, `SpecsAreUsable`,
`RanksAreThoseOfTheWorld`. TLC checked the invariant on the instance of `incarnations` first.

**LeaderElectionProofs.** `OneLeader` is not inductive. A process `Holds` the lease when it has
won and its answer is not late yet, or leads and was not late or has renewed since. The
invariant adds to the types: `CallsFit` and `LateFits` (updates, answers and lateness fit the
modes), `HolderRecorded` (who holds the lease is in the record), `LeaseIsYoung` (no observation
of a held lease is older than `Oldest` of its holder, a bound made of the holder's own timers:
a window after a window and a pause, or after an answer that was not late) and `NoOtherWrite`
(while a process holds the lease, no update but its own would be taken). `LeaseAssumption` keeps
`Oldest` below `LeaseDuration`, so that no candidate finds the lease expired. `AtMostOneLeader`
follows from `HolderRecorded`: two leaders that are not late would both be in the record.

Only model-checked: everything that eventually happens, which is out of the prover's
reach: the liveness of `WorkSpec` (its safety is `Refinement`), `MarkedKeyIsTaken`,
`DelayedKeyIsSynced`, the properties of `progress` and `workers`, `NewJobGetsItsPod`,
`JobsAreSynced`; and the violations, which are counterexamples. Every invariant and every
action property of a passing run is a theorem.

## 6. Where code and documentation disagree

Each is a run whose counterexample TLC finds, quoted in `PROJECT.json`:

* `expectations`: satisfiedExpectations (`controller.go` 505-524) ORs the expectations
  it is documented to AND.
* `backoff_kill`: a job over its backoff limit loses its pods before Failed is
  stored; when the write of the status is refused, it starts again, without the
  restart counts that went with the pods, and may succeed.
* `service`: deletePodsAndServices returns when there are no pods, so a service whose
  deletion failed once stays.
* `ttl_deadline`: cleanupPyTorchJob dereferences a CompletionTime that reconcilePyTorchJobs
  sets only afterwards; a job with a deadline and a TTL makes the operator panic
  again and again.
* `map_order`: whether a job with a succeeded master and a failed worker is
  Succeeded or Failed depends on the order of a map.

* `late_answer`: nothing bounds the answer to the update that wins the lease. A process that
  gets it when the lease is over leads for up to `RenewDeadline`, while another may lead too. The
  election package says that it gives no such guarantee; `server.go` (60, 136) speaks
  of the leader, and of not having two active.

Seen while modelling, without a run: Run (`controller.go` 184-212) says it waits for
its workers and returns at once; restarts under the ExitCode policy are never
counted against BackoffLimit; Succeeded is documented as the success of all
sub-resources and means that of the master; a job that failed or succeeded
straight from Restarting keeps Restarting true. Under the policy Always a container that completes
is restarted, and pastBackoffLimit (`controller.go` 547-563) counts that as a retry: a job
in which nothing failed is stored as failed, and a negative limit does it without any
restart (both are in `end`, and `Broken` names them). "Log the failure to conditions"
(`controller.go` 258) logs it to a nil job and panics. The deletion for a TTL goes by the
name and may hit a job that was created since. A job that addPyTorchJob failed and that
is edited to a valid spec with a TTL makes the operator panic until it is deleted. The
defaults that correct the case of replica types (`defaults.go` 70) come after a validation that
refuses any other case. The API type says
that a restart policy defaults to Never; `defaults.go` makes it OnFailure. The first
termination signal stops the workers and keeps the lease.

## 7. What is not modelled

Several jobs of different names in one run: they share only the work queue, whose
module has three keys. Deadlines, backoff limits and workers of jobs that are created again
(the requeue counter that a successor inherits). A standby's caches at takeover, and
what a process that lost its lease still writes before it exits: `OneLeader` says when it
has exited, not what its last call does. Edits of the number of replicas while a job
runs (`WORLD_SIZE` of old and new pods then differs). Gang scheduling (off unless a flag is
set); adoption of orphans and pods with foreign labels; the table of exit codes and
the template of the init container, which are constants; Kubernetes events, metrics and
logs; flags; generated clients, the Python SDK, manifests, scripts, examples. The work queue's
times are abstracted, and with them that it keeps the earlier of two times for a key.

## 8. The plan

Done: `JobWork`, `WorkQueue`, `JobConditions`, `JobLifecycle`, `PyTorchController`, `JobSpec`,
`Incarnations`, `LeaderElection`; their runs and the proofs of section 5. Next, in this order:

1. Gang scheduling: the pod group of a job, created before its pods and deleted with them.
2. The composition of an election with the sync: a standby's caches, and the calls that a
   leader has under way when its lease ends. `OneLeader` and `LifecycleSpec` are the parts that
   its proof can rest on.
3. Proofs of what the liveness properties rest on: that a key with work left is queued, or
   an event, a timer or a resync will queue it; that an expectation that blocks a job expires.
