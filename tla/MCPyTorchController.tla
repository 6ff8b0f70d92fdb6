------------------------- MODULE MCPyTorchController -------------------------
(* The job specifications and budgets of the runs of PyTorchController. *)
EXTENDS PyTorchController

\* A job whose replicas all have one restart policy.
Job(policy, clean, backoff, deadline, ttl) ==
    [restart |-> [rt \in Rtypes |-> policy], clean |-> clean,
     backoff |-> backoff, deadline |-> deadline, ttl |-> ttl]

\* fail, evict, error, crash, edit and remove.
Mishap(f, v, e, c, d, r) ==
    [fail |-> f, evict |-> v, error |-> e, crash |-> c, edit |-> d, remove |-> r]

\* A job with workers has a key under which nothing is ever expected, the
\* services of its workers: then satisfiedExpectations is true and no step
\* depends on the rest of expecting.
Relevant == <<spec, api, streams, caches, queue, pc, locals, fresh, clocks, left,
              history, satisfiedExpectations>>

ExitCodeJobs == {Job("ExitCode", "All", NoLimit, FALSE, FALSE)}
CleanupJobs == {Job("Never", "All", NoLimit, FALSE, FALSE),
                Job("OnFailure", "Running", NoLimit, FALSE, TRUE)}
LimitJobs == {Job("OnFailure", "All", 1, FALSE, FALSE),
              Job("ExitCode", "Running", 0, TRUE, FALSE),
              Job("Always", "None", NoLimit, TRUE, TRUE),
              Job("Always", "Running", 2, FALSE, FALSE),
              Job("Never", "All", -1, FALSE, FALSE)}
ProgressJobs == {Job("ExitCode", "All", NoLimit, FALSE, FALSE),
                 Job("Never", "All", NoLimit, TRUE, FALSE),
                 Job("Never", "Running", NoLimit, FALSE, TRUE)}
TTLDeadlineJobs == {Job("OnFailure", "All", NoLimit, TRUE, TRUE)}
BackoffJobs == {Job("OnFailure", "All", 1, FALSE, FALSE)}
NeverJobs == {Job("Never", "All", NoLimit, FALSE, FALSE)}
TwoReplicaJobs == ExitCodeJobs \cup NeverJobs

\* A mishap budget that is the same for every job of a set.
Same(jobs, mishap) == [s \in jobs |-> mishap]

OutcomeBudget == Same(JobSpecs, Mishap(1, 0, 1, 1, 0, 0))
TwoReplicaBudget == Same(JobSpecs, Mishap(1, 0, 0, 0, 0, 0))
NoBudget == Same(JobSpecs, Mishap(0, 0, 0, 0, 0, 0))
OneErrorBudget == Same(JobSpecs, Mishap(0, 0, 1, 0, 0, 0))
FailAndEditBudget == Same(JobSpecs, Mishap(1, 0, 0, 0, 1, 0))

\* A job that is cleaned up suffers a call that fails, a crash and a deletion;
\* one that replaces its pods two failures and a deletion; one with limits an edit
\* of the job, as many restarts as its backoff limit allows, and where it has no
\* such limit a container that fails and an eviction.
EndJobs == CleanupJobs \cup ExitCodeJobs \cup LimitJobs
EndBudget ==
    [s \in EndJobs |->
       CASE s \in CleanupJobs -> Mishap(IF s.ttl THEN 0 ELSE 1, 0, 1, 1, 0, 1)
         [] s \in ExitCodeJobs -> Mishap(2, 0, 0, 0, 0, 1)
         [] s.backoff \in {1, 2} -> Mishap(s.backoff, 0, 0, 0, 1, 0)
         [] OTHER -> Mishap(1, 1, 0, 0, 1, 0)]

\* The number of requeues of the key counts only against a backoff limit.
Counted == <<spec, api, streams, caches, expecting, queued, pc, locals, fresh,
             clocks, left, history, IF spec.backoff = NoLimit THEN 0 ELSE requeues>>
=============================================================================
