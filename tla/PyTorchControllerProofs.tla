---------------------- MODULE PyTorchControllerProofs ----------------------
(***************************************************************************)
(* Safety of PyTorchController, for any number of workers, any job         *)
(* specifications, any lag of the watches and any budget of mishaps: the   *)
(* conditions of a status never contradict each other, its counts add up,  *)
(* a job whose cleaning up has begun is over for good and gets no pod      *)
(* again, and a restart of a replica hits the pod that failed.             *)
(*                                                                         *)
(* That a cleaned job is over rests on an order: an outcome, once stored,  *)
(* is in the stored job, in every later event, and, once delivered, in the *)
(* cache.  So a worker that saw the outcome in its cache knows that it is  *)
(* stored; and a worker that did not see it can store its own status only  *)
(* if its copy was the latest version, and then the outcome was not stored *)
(* either.  That a restart hits the failed pod rests on another: of the    *)
(* versions of a pod that the cache has or will get, the creation of the   *)
(* pod, or its end, is in at most one place, so a sync that listed the     *)
(* failed pod has yet to learn that it is gone before it can replace it.   *)
(***************************************************************************)
EXTENDS PyTorchControllerTypes

\* j is a version of the job that has its outcome.
Closed(j) == Terminal(j.status.conds)

\* Along cache, events and store, an outcome once there stays; the last event
\* that is not delivered yet, or else the cache, knows what is stored.
CacheFollows ==
    /\ Closed(cJob) => Closed(job) /\ \A i \in 1 .. Len(jobEvents) : Closed(jobEvents[i])
    /\ \A i, j \in 1 .. Len(jobEvents) :
         i <= j /\ Closed(jobEvents[i]) => Closed(jobEvents[j])
    /\ \A i \in 1 .. Len(jobEvents) : Closed(jobEvents[i]) => Closed(job)
    /\ jobEvents = <<>> /\ Closed(job) => Closed(cJob)
    /\ jobEvents # <<>> /\ Closed(job) => Closed(jobEvents[Len(jobEvents)])

\* A copy that may still be written knows of the outcome that is stored.
CopyFollows == fresh /\ Closed(job) => Terminal(my.conds)

\* A sync that cleans up on account of an outcome read it from the cache; it
\* has no replica type to reconcile.
CleansClosed ==
    pc \in {"clean", "ttl"} => /\ todo = {}
                               /\ Terminal(my.conds) => Closed(cJob)

\* No sync is about to reconcile the replicas.
OnlyCleans == pc \in {"idle", "clean", "ttl"} \/ (pc = "types" /\ todo = {})

\* Once a pod was cleaned up, syncs only clean up.
CleanedStaysClosed == "cleaned" \in seen => Closed(cJob) /\ OnlyCleans

OutcomeInv == CacheFollows /\ CopyFollows /\ CleansClosed /\ CleanedStaysClosed

\* Every version of the status there is.
StatusesAgree ==
    /\ ConditionsAgree
    /\ \A i \in 1 .. Len(jobEvents) : Consistent(jobEvents[i].status)

IInv == TypeOK /\ StatusesAgree /\ OutcomeInv

-----------------------------------------------------------------------------
(* What a step can do to the parts of the state the invariant is about.    *)

\* A write of the job that keeps its status.
KeepsStatus ==
    \E j \in JobType : SetJob(j) /\ j.status = job.status /\ UNCHANGED cJob

StoreKept == UNCHANGED <<job, jobEvents, cJob>>

\* Deleting the job, by a user or for its TTL, keeps its status.
LEMMA KeepsStatusIntro ==
    ASSUME TypeOK, NEW s \in States, SetJob([job EXCEPT !.state = s]), UNCHANGED cJob
    PROVE  KeepsStatus
<1>1. job \in JobType
  BY DEF TypeOK
<1>2. /\ [job EXCEPT !.state = s] \in JobType
      /\ [job EXCEPT !.state = s].status = job.status
  BY <1>1, JobStateType DEF JobType
<1> QED BY <1>2 DEF KeepsStatus

\* No kubelet and no user writes the status of the job.
LEMMA EnvironmentStore == TypeOK /\ Environment => StoreKept \/ KeepsStatus
<1> SUFFICES ASSUME TypeOK, Environment PROVE StoreKept \/ KeepsStatus
  OBVIOUS
<1>1. ASSUME NEW r \in Replicas,
             \/ PodStarts(r) \/ PodSucceeds(r) \/ ContainerCompletes(r) \/ ContainerFails(r)
             \/ PodEvicted(r) \/ UserDeletesPod(r) \/ PodRemoved(r)
      PROVE  StoreKept
  BY <1>1 DEF PodStarts, PodSucceeds, ContainerCompletes, ContainerFails,
              PodEvicted, UserDeletesPod, PodRemoved, KubeletSets, StoreKept, caches
<1>2. CASE UserEditsJob
  <2>1. job \in JobType /\ SetJob(job) /\ UNCHANGED cJob
    BY <1>2 DEF UserEditsJob, TypeOK, caches
  <2> QED BY <2>1 DEF KeepsStatus
<1>3. CASE UserDeletesJob
  <2>1. PICK s \in {"deleting", "gone"} : SetJob([job EXCEPT !.state = s])
    BY <1>3 DEF UserDeletesJob
  <2>2. s \in States /\ UNCHANGED cJob
    BY <1>3 DEF States, UserDeletesJob, caches
  <2> QED BY <2>1, <2>2, KeepsStatusIntro
<1>4. CASE DeletingJobGoes
  <2>1. "gone" \in States /\ SetJob([job EXCEPT !.state = "gone"]) /\ UNCHANGED cJob
    BY <1>4 DEF States, DeletingJobGoes, caches
  <2> QED BY <2>1, KeepsStatusIntro
<1>5. CASE DeadlinePasses \/ TTLPasses
  BY <1>5 DEF DeadlinePasses, TTLPasses, StoreKept, api, streams, caches
<1> QED BY <1>1, <1>2, <1>3, <1>4, <1>5 DEF Environment

\* The only call of a sync that changes the stored status is UpdateStatus; a panic
\* fills the cache anew.
LEMMA SyncStore ==
    TypeOK /\ Sync => StoreKept \/ KeepsStatus \/ (UpdateStatusCall /\ UNCHANGED cJob)
                                \/ Restart
<1> SUFFICES ASSUME TypeOK, Sync
             PROVE  StoreKept \/ KeepsStatus \/ (UpdateStatusCall /\ UNCHANGED cJob)
                              \/ Restart
  OBVIOUS
<1>1. CASE JobIsGone \/ SkipSync \/ StartSync \/ EndCleaning \/ EndType \/ StatusUnchanged
  BY <1>1 DEF JobIsGone, SkipSync, StartSync, EndCleaning, EndType, StatusUnchanged,
              StoreKept, api, streams, caches
<1>2. CASE CleanService \/ CreateService
  BY <1>2 DEF CleanService, CreateService, DeleteServiceCall, CreateServiceCall,
              NoCall, StoreKept, api, streams, caches
<1>3. CASE TTLPanics
  BY <1>3 DEF TTLPanics
<1>4. CASE DeleteJob
  <2>1. UNCHANGED cJob
    BY <1>4 DEF DeleteJob, caches
  <2>2. NoCall \/ DeleteJobCall
    BY <1>4 DEF DeleteJob
  <2>3. UNCHANGED <<job, jobEvents>> \/ SetJob([job EXCEPT !.state = "gone"])
    BY <2>2 DEF NoCall, DeleteJobCall, api, streams
  <2> QED BY <2>1, <2>3, KeepsStatusIntro DEF StoreKept, States
<1>5. CASE UpdateStatus
  <2>1. UNCHANGED cJob
    BY <1>5 DEF UpdateStatus, caches
  <2>2. NoCall \/ UpdateStatusCall
    BY <1>5 DEF UpdateStatus
  <2> QED BY <2>1, <2>2 DEF NoCall, StoreKept, api, streams
<1>6. ASSUME NEW r \in Replicas, CleanPod(r) \/ CreatePod(r) \/ RestartPod(r)
      PROVE  StoreKept
  BY <1>6 DEF CleanPod, CreatePod, RestartPod, DeletePodCall, CreatePodCall,
              NoCall, StoreKept, api, streams, caches
<1>7. ASSUME NEW rt \in Rtypes, StartType(rt) PROVE StoreKept
  BY <1>7 DEF StartType, StoreKept, api, streams, caches
<1> QED BY <1>1, <1>2, <1>3, <1>4, <1>5, <1>6, <1>7 DEF Sync

\* How a step changes the store, its stream and its cache.
LEMMA StoreStep ==
    TypeOK /\ Next => \/ StoreKept \/ KeepsStatus
                      \/ UpdateStatusCall /\ UNCHANGED cJob
                      \/ DeliverJob \/ Restart
<1> SUFFICES ASSUME TypeOK, Next
             PROVE  \/ StoreKept \/ KeepsStatus
                    \/ UpdateStatusCall /\ UNCHANGED cJob
                    \/ DeliverJob \/ Restart
  OBVIOUS
<1>1. CASE DeliverPod \/ DeliverService
  BY <1>1 DEF DeliverPod, DeliverService, StoreKept, api
<1>2. CASE Timers
  BY <1>2 DEF Timers, Resync, ExpectationExpires, StoreKept, api, streams, caches
<1>3. CASE Crash
  BY <1>3 DEF Crash
<1> QED BY <1>1, <1>2, <1>3, EnvironmentStore, SyncStore DEF Next, Deliver

\* How a step changes the copy of the worker and where it is.
CopyKept == UNCHANGED <<my, pc, todo>> /\ (fresh' => fresh)
Moves(from, to) == /\ pc = from /\ pc' = to
                   /\ UNCHANGED <<my, todo>>
                   /\ fresh' => fresh

\* Events and timers leave the status that a running sync works on alone.
LEMMA EnvironmentCopy == Environment \/ Deliver \/ Timers => CopyKept
<1> SUFFICES ASSUME Environment \/ Deliver \/ Timers PROVE CopyKept
  OBVIOUS
<1>1. ASSUME NEW r \in Replicas,
             \/ PodStarts(r) \/ PodSucceeds(r) \/ ContainerCompletes(r) \/ ContainerFails(r)
             \/ PodEvicted(r) \/ UserDeletesPod(r) \/ PodRemoved(r)
      PROVE  CopyKept
  <2>1. \E pod : KubeletSets(r, pod)
    BY <1>1 DEF PodStarts, PodSucceeds, ContainerCompletes, ContainerFails,
                PodEvicted, UserDeletesPod, PodRemoved
  <2>2. UNCHANGED <<my, pc, todo, fresh>>
    BY <2>1 DEF KubeletSets, locals
  <2> QED BY <2>2 DEF CopyKept
<1>2. CASE UserEditsJob \/ UserDeletesJob \/ DeletingJobGoes
  <2>1. UNCHANGED <<my, pc, todo>>
    BY <1>2 DEF UserEditsJob, UserDeletesJob, DeletingJobGoes, locals
  <2>2. ~fresh'
    BY <1>2 DEF UserEditsJob, UserDeletesJob, DeletingJobGoes, SetJob
  <2> QED BY <2>1, <2>2 DEF CopyKept
<1>3. CASE DeadlinePasses \/ TTLPasses
  BY <1>3 DEF DeadlinePasses, TTLPasses, CopyKept, locals
<1>4. CASE Deliver
  BY <1>4 DEF Deliver, DeliverJob, DeliverPod, DeliverService, CopyKept, locals
<1>5. CASE Timers
  BY <1>5 DEF Timers, Resync, ExpectationExpires, CopyKept, locals
<1> QED BY <1>1, <1>2, <1>3, <1>4, <1>5 DEF Environment

\* The steps that change where a sync is or the status it works on, by what they do.
LEMMA CopyStep ==
    Next => \/ CopyKept
            \/ ResetLocals
            \/ StartSync
            \/ Moves("clean", "ttl") \/ Moves("service", "types")
            \/ CleaningDone /\ Cleaned /\ (fresh' => fresh)
            \/ \E rt \in Rtypes : StartType(rt)
            \/ EndType
<1> DEFINE Kinds == \/ CopyKept
                    \/ ResetLocals
                    \/ StartSync
                    \/ Moves("clean", "ttl") \/ Moves("service", "types")
                    \/ CleaningDone /\ Cleaned /\ (fresh' => fresh)
                    \/ \E rt \in Rtypes : StartType(rt)
                    \/ EndType
<1> SUFFICES ASSUME Next PROVE Kinds
  OBVIOUS
<1>1. CASE Crash \/ TTLPanics
  BY <1>1 DEF Crash, TTLPanics, Restart
<1>2. CASE JobIsGone \/ SkipSync
  BY <1>2 DEF JobIsGone, SkipSync, CopyKept, locals
<1>3. CASE CleanService
  BY <1>3 DEF CleanService, SyncFails, Moves, locals
<1>4. CASE EndCleaning
  BY <1>4 DEF EndCleaning
<1>5. CASE DeleteJob
  <2>1. DeleteJobCall => (fresh' => fresh)
    BY DEF DeleteJobCall, SetJob
  <2> QED BY <1>5, <2>1 DEF DeleteJob, SyncFails
<1>6. CASE CreateService
  BY <1>6 DEF CreateService, SyncFails, Moves, locals
<1>7. CASE StatusUnchanged \/ UpdateStatus
  BY <1>7 DEF StatusUnchanged, UpdateStatus, SyncEnds, SyncFails
<1>8. ASSUME NEW r \in Replicas, CleanPod(r) \/ CreatePod(r) \/ RestartPod(r)
      PROVE  Kinds
  BY <1>8 DEF CleanPod, CreatePod, RestartPod, PodDone, SyncFails, CopyKept
<1>9. CASE StartSync \/ EndType \/ \E rt \in Rtypes : StartType(rt)
  BY <1>9
<1>10. CASE Environment \/ Deliver \/ Timers
  BY <1>10, EnvironmentCopy
<1> QED BY <1>1, <1>2, <1>3, <1>4, <1>5, <1>6, <1>7, <1>8, <1>9, <1>10 DEF Next, Sync

\* Only cleaning up a finished job makes it a job that was cleaned up.
LEMMA SeenStep ==
    Next /\ "cleaned" \in seen' =>
      \/ "cleaned" \in seen
      \/ pc = "clean" /\ Terminal(my.conds) /\ pc' \in {"idle", "clean"} /\ UNCHANGED cJob
<1> SUFFICES ASSUME Next, "cleaned" \in seen', "cleaned" \notin seen
             PROVE  /\ pc = "clean" /\ Terminal(my.conds)
                    /\ pc' \in {"idle", "clean"} /\ UNCHANGED cJob
  OBVIOUS
<1>1. ~(Deliver \/ Timers \/ Crash)
  BY DEF Deliver, DeliverJob, DeliverPod, DeliverService, Timers, Resync,
         ExpectationExpires, Crash, Restart, history
<1>2. ~Environment
  <2>1. ASSUME NEW r \in Replicas,
               \/ PodStarts(r) \/ PodSucceeds(r) \/ ContainerCompletes(r) \/ ContainerFails(r)
               \/ PodEvicted(r) \/ UserDeletesPod(r) \/ PodRemoved(r)
        PROVE  seen' \subseteq seen \cup {"master succeeded", "container restarted",
                                      "container failed", "pod failed"}
    <3>1. CASE ContainerFails(r)
      BY <3>1 DEF ContainerFails
    <3>2. CASE PodStarts(r) \/ PodSucceeds(r) \/ ContainerCompletes(r) \/ PodEvicted(r)
      BY <3>2 DEF PodStarts, PodSucceeds, ContainerCompletes, PodEvicted
    <3>3. CASE UserDeletesPod(r) \/ PodRemoved(r)
      BY <3>3 DEF UserDeletesPod, PodRemoved
    <3> QED BY <2>1, <3>1, <3>2, <3>3
  <2>2. UserEditsJob \/ UserDeletesJob \/ DeletingJobGoes \/ DeadlinePasses \/ TTLPasses
        => seen' = seen
    BY DEF UserEditsJob, UserDeletesJob, DeletingJobGoes, DeadlinePasses, TTLPasses, history
  <2> QED BY <2>1, <2>2 DEF Environment
<1>3. Sync
  BY <1>1, <1>2 DEF Next
<1>4. PICK r \in Replicas : CleanPod(r)
  BY <1>3 DEF Sync, JobIsGone, SkipSync, StartSync, CleanService, TTLPanics, Restart,
              EndCleaning, DeleteJob, EndType, CreateService, StatusUnchanged,
              UpdateStatus, CreatePod, RestartPod, StartType, history
<1>5. seen' = seen \/ seen' = seen \cup {IF Terminal(my.conds) THEN "cleaned" ELSE "killed"}
  BY <1>4 DEF CleanPod
<1>6. Terminal(my.conds)
  BY <1>5
<1> QED BY <1>4, <1>6 DEF CleanPod, SyncFails, ResetLocals, caches

-----------------------------------------------------------------------------
(* The statuses agree. *)

\* A new job's status is consistent in every copy.
LEMMA InitAgrees == Init => StatusesAgree
<1> SUFFICES ASSUME Init PROVE StatusesAgree
  OBVIOUS
<1>1. Consistent(NewStatus(Rtypes))
  BY NewStatusType
<1>2. /\ job.status = NewStatus(Rtypes) /\ cJob.status = NewStatus(Rtypes)
      /\ my = NewStatus(Rtypes)
  BY DEF Init
<1>3. \A i \in 1 .. Len(jobEvents) : jobEvents[i] = job
  BY DEF Init
<1> QED BY <1>1, <1>2, <1>3 DEF StatusesAgree, ConditionsAgree

\* The copy of the worker stays consistent ...
LEMMA CopyAgrees ==
    ASSUME TypeOK, StatusesAgree, Next
    PROVE  Consistent(my')
<1>1. /\ my \in StatusType /\ Consistent(my) /\ Consistent(cJob.status) /\ cur \in Rtypes
  BY DEF TypeOK, StatusesAgree, ConditionsAgree
<1>2. CASE CopyKept \/ Moves("clean", "ttl") \/ Moves("service", "types")
  <2>1. my' = my
    BY <1>2 DEF CopyKept, Moves
  <2> QED BY <1>1, <2>1
<1>3. CASE ResetLocals
  <2>1. my' = NewStatus(Rtypes)
    BY <1>3 DEF ResetLocals
  <2> QED BY <2>1, NewStatusType
<1>4. CASE StartSync
  <2>1. my' = cJob.status
    BY <1>4 DEF StartSync, ReadCaches
  <2> QED BY <1>1, <2>1
<1>5. CASE Cleaned
  <2>1. my' = foldActive(my) \/ my' = failStatus(my)
    BY <1>5 DEF Cleaned, CleanedStatus
  <2> QED BY <1>1, <2>1, FoldActive, FailStatus DEF StatusType
<1>6. ASSUME NEW rt \in Rtypes, StartType(rt) PROVE Consistent(my')
  <2>1. /\ my' = [my EXCEPT !.replicas[rt] = ReplicaStatus(rt)]
    BY <1>6 DEF StartType
  <2>2. my'.conds = my.conds /\ my'.completed = my.completed
    BY <1>1, <2>1 DEF StatusType, StatusOver
  <2> QED BY <1>1, <2>2 DEF Consistent
<1>7. CASE EndType
  <2> DEFINE restart == \E r \in Of(cur) : Restarts(r)
  <2>1. my' = updateStatusSingle(my, cur, Size(cur), restart)
    BY <1>7 DEF EndType
  <2>2. restart \in BOOLEAN
    OBVIOUS
  <2> HIDE DEF restart
  <2>3. my \in StatusOver(Rtypes)
    BY <1>1 DEF StatusType
  <2>4. Consistent(my) => Consistent(updateStatusSingle(my, cur, Size(cur), restart))
    BY <1>1, <2>2, <2>3, UpdateStatusSingle
  <2> QED BY <1>1, <2>1, <2>4
<1> QED BY <1>2, <1>3, <1>4, <1>5, <1>6, <1>7, CopyStep

\* ... and with it what is stored, on its way, and in the cache.
LEMMA StoreAgrees ==
    ASSUME TypeOK, StatusesAgree, Next
    PROVE  /\ Consistent(job'.status) /\ Consistent(cJob'.status)
           /\ \A i \in 1 .. Len(jobEvents') : Consistent(jobEvents'[i].status)
<1>1. /\ Consistent(job.status) /\ Consistent(cJob.status) /\ Consistent(my)
      /\ \A i \in 1 .. Len(jobEvents) : Consistent(jobEvents[i].status)
      /\ job \in JobType /\ jobEvents \in Seq(JobType) /\ my \in StatusType
  BY DEF TypeOK, StatusesAgree, ConditionsAgree
<1>2. CASE StoreKept
  BY <1>1, <1>2 DEF StoreKept
<1>3. ASSUME NEW j \in JobType, SetJob(j), Consistent(j.status), UNCHANGED cJob
      PROVE  /\ Consistent(job'.status) /\ Consistent(cJob'.status)
             /\ \A i \in 1 .. Len(jobEvents') : Consistent(jobEvents'[i].status)
  <2>1. job' = j /\ jobEvents' = Append(jobEvents, j)
    BY <1>3 DEF SetJob
  <2>2. \A i \in 1 .. Len(jobEvents') :
          jobEvents'[i] = j \/ (i \in 1 .. Len(jobEvents) /\ jobEvents'[i] = jobEvents[i])
    BY <1>1, <2>1
  <2> QED BY <1>1, <1>3, <2>1, <2>2
<1>4. CASE KeepsStatus
  BY <1>1, <1>3, <1>4 DEF KeepsStatus
<1>5. CASE UpdateStatusCall /\ UNCHANGED cJob
  <2> DEFINE j == [job EXCEPT !.status = my]
  <2>1. j \in JobType /\ j.status = my
    BY <1>1 DEF JobType
  <2>2. SetJob(j)
    BY <1>5 DEF UpdateStatusCall
  <2> QED BY <1>1, <1>3, <1>5, <2>1, <2>2
<1>6. CASE DeliverJob
  <2>1. /\ jobEvents # <<>> /\ jobEvents' = Tail(jobEvents) /\ UNCHANGED job
        /\ cJob' = IF cJob.state = "gone" THEN Accepted(Head(jobEvents))
                   ELSE Head(jobEvents)
    BY <1>6 DEF DeliverJob, api
  <2>2. Head(jobEvents) \in JobType /\ Consistent(Head(jobEvents).status)
    BY <1>1, <2>1
  <2>3. \A i \in 1 .. Len(jobEvents') : /\ i + 1 \in 1 .. Len(jobEvents)
                                        /\ jobEvents'[i] = jobEvents[i + 1]
    BY <1>1, <2>1
  <2> QED BY <1>1, <2>1, <2>2, <2>3, AcceptedType
<1>7. CASE Restart
  <2>1. /\ UNCHANGED job /\ jobEvents' = <<>>
        /\ cJob' = IF job.state = "gone" THEN job ELSE Accepted(job)
    BY <1>7 DEF Restart, api
  <2> QED BY <1>1, <2>1, AcceptedType
<1> QED BY <1>2, <1>4, <1>5, <1>6, <1>7, StoreStep

\* Every step keeps the copies of the status, and the queued events, consistent.
LEMMA StepAgrees == TypeOK /\ StatusesAgree /\ [Next]_vars => StatusesAgree'
<1>1. ASSUME TypeOK, StatusesAgree, Next PROVE StatusesAgree'
  BY <1>1, CopyAgrees, StoreAgrees DEF StatusesAgree, ConditionsAgree
<1>2. ASSUME StatusesAgree, UNCHANGED vars PROVE StatusesAgree'
  BY <1>2 DEF StatusesAgree, ConditionsAgree, vars, api, streams, caches, locals
<1> QED BY <1>1, <1>2

-----------------------------------------------------------------------------
(* The outcome is stored before anything is cleaned up. *)

\* Nothing is finished or cleaned up at the start.
LEMMA InitOutcome == Init => OutcomeInv
<1> SUFFICES ASSUME Init PROVE OutcomeInv
  OBVIOUS
<1>1. ~Terminal(NewStatus(Rtypes).conds)
  BY NewStatusType
<1>2. /\ job.status = NewStatus(Rtypes) /\ cJob.status = NewStatus(Rtypes)
  BY DEF Init
<1>3. jobEvents = <<job>>
  BY DEF Init
<1>4. ~Closed(job) /\ ~Closed(cJob)
  BY <1>1, <1>2 DEF Closed
<1>5. \A i \in 1 .. Len(jobEvents) : ~Closed(jobEvents[i])
  BY <1>3, <1>4
<1>6. CacheFollows
  BY <1>4, <1>5 DEF CacheFollows
<1> QED BY <1>4, <1>6 DEF Init, OutcomeInv, CopyFollows, CleansClosed, CleanedStaysClosed

\* The copy of a sync keeps an outcome until the sync ends.
LEMMA CopyKeepsOutcome ==
    ASSUME TypeOK, Next, Terminal(my.conds), ~ResetLocals, ~StartSync
    PROVE  Terminal(my'.conds)
<1>1. my \in StatusType /\ cur \in Rtypes
  BY DEF TypeOK
<1>2. CASE CopyKept \/ Moves("clean", "ttl") \/ Moves("service", "types")
  BY <1>2 DEF CopyKept, Moves
<1>3. CASE Cleaned
  <2>1. my' = foldActive(my)
    BY <1>3 DEF Cleaned, CleanedStatus
  <2> QED BY <1>1, <2>1, FoldActive DEF StatusType
<1>4. ASSUME NEW rt \in Rtypes, StartType(rt) PROVE Terminal(my'.conds)
  <2>1. /\ my' = [my EXCEPT !.replicas[rt] = ReplicaStatus(rt)]
    BY <1>4 DEF StartType
  <2>2. my'.conds = my.conds
    BY <1>1, <2>1 DEF StatusType, StatusOver
  <2> QED BY <2>2
<1>5. CASE EndType
  <2> DEFINE restart == \E r \in Of(cur) : Restarts(r)
  <2>1. my' = updateStatusSingle(my, cur, Size(cur), restart)
    BY <1>5 DEF EndType
  <2>2. restart \in BOOLEAN
    OBVIOUS
  <2> HIDE DEF restart
  <2>3. my \in StatusOver(Rtypes)
    BY <1>1 DEF StatusType
  <2>4. updateStatusSingle(my, cur, Size(cur), restart).conds = my.conds
    BY <1>1, <2>2, <2>3, UpdateStatusSingle
  <2> QED BY <2>1, <2>4
<1> QED BY <1>2, <1>3, <1>4, <1>5, CopyStep

\* A stored outcome is never overwritten.
LEMMA OutcomeStays ==
    ASSUME TypeOK, CopyFollows, Next, Closed(job)
    PROVE  Closed(job')
<1>1. job \in JobType /\ my \in StatusType
  BY DEF TypeOK
<1>2. CASE StoreKept \/ DeliverJob \/ Restart
  BY <1>2 DEF StoreKept, DeliverJob, Restart, api
<1>3. CASE KeepsStatus
  BY <1>3 DEF KeepsStatus, SetJob, Closed
<1>4. CASE UpdateStatusCall
  <2>1. fresh /\ job' = [job EXCEPT !.status = my]
    BY <1>4 DEF UpdateStatusCall, SetJob
  <2>2. Terminal(my.conds)
    BY <2>1 DEF CopyFollows
  <2>3. job'.status = my
    BY <1>1, <2>1 DEF JobType
  <2> QED BY <2>2, <2>3 DEF Closed
<1> QED BY <1>2, <1>3, <1>4, StoreStep

\* A write of the job adds the last event.
LEMMA WriteFollows ==
    ASSUME CacheFollows, jobEvents \in Seq(JobType), NEW j \in JobType, SetJob(j),
           UNCHANGED cJob, Closed(job) => Closed(j)
    PROVE  CacheFollows'
<1> DEFINE n == Len(jobEvents)
<1>1. job' = j /\ jobEvents' = Append(jobEvents, j)
  BY DEF SetJob
<1>2. /\ n \in Nat /\ Len(jobEvents') = n + 1
      /\ jobEvents' # <<>>
      /\ \A i \in 1 .. n : jobEvents'[i] = jobEvents[i]
      /\ jobEvents'[n + 1] = j
  BY <1>1
<1>3. \A i \in 1 .. n + 1 : i \in 1 .. n \/ i = n + 1
  BY <1>2
<1>4. \A i \in 1 .. n : Closed(jobEvents[i]) => Closed(j)
  BY DEF CacheFollows
<1>5. Closed(cJob') => Closed(job') /\ \A i \in 1 .. n + 1 : Closed(jobEvents'[i])
  BY <1>1, <1>2, <1>3 DEF CacheFollows
<1>6. \A i, k \in 1 .. n + 1 :
        i <= k /\ Closed(jobEvents'[i]) => Closed(jobEvents'[k])
  <2> SUFFICES ASSUME NEW i \in 1 .. n + 1, NEW k \in 1 .. n + 1, i <= k,
                      Closed(jobEvents'[i])
               PROVE  Closed(jobEvents'[k])
    OBVIOUS
  <2>1. CASE k = n + 1
    <3>1. Closed(j)
      BY <1>2, <1>3, <1>4
    <3> QED BY <1>2, <2>1, <3>1
  <2>2. CASE k \in 1 .. n
    <3>1. i \in 1 .. n
      BY <1>2, <2>2
    <3>2. Closed(jobEvents[i])
      BY <1>2, <3>1
    <3>3. Closed(jobEvents[k])
      BY <2>2, <3>1, <3>2 DEF CacheFollows
    <3> QED BY <1>2, <2>2, <3>3
  <2> QED BY <1>3, <2>1, <2>2
<1>7. \A i \in 1 .. n + 1 : Closed(jobEvents'[i]) => Closed(job')
  BY <1>1, <1>2, <1>3, <1>4
<1>8. Closed(job') => Closed(jobEvents'[Len(jobEvents')])
  BY <1>1, <1>2
<1> QED BY <1>2, <1>5, <1>6, <1>7, <1>8 DEF CacheFollows

\* A delivery moves the first event into the cache.
LEMMA DeliveryFollows ==
    ASSUME CacheFollows, jobEvents \in Seq(JobType), DeliverJob
    PROVE  CacheFollows'
<1> DEFINE n == Len(jobEvents)
<1>1. /\ jobEvents # <<>> /\ jobEvents' = Tail(jobEvents) /\ job' = job
      /\ cJob' = IF cJob.state = "gone" THEN Accepted(Head(jobEvents))
                 ELSE Head(jobEvents)
  BY DEF DeliverJob, api
<1>2. /\ n \in Nat \ {0} /\ Len(jobEvents') = n - 1
      /\ Head(jobEvents) = jobEvents[1] /\ jobEvents[1] \in JobType
      /\ \A i \in 1 .. n - 1 : jobEvents'[i] = jobEvents[i + 1] /\ i + 1 \in 1 .. n
      /\ jobEvents' = <<>> => n = 1
      /\ jobEvents' # <<>> => n - 1 \in 1 .. n - 1
  <2> DEFINE t == Tail(jobEvents)
  <2>1. /\ n \in Nat \ {0} /\ Len(t) = n - 1 /\ t \in Seq(JobType)
        /\ Head(jobEvents) = jobEvents[1] /\ jobEvents[1] \in JobType
    BY <1>1
  <2>2. \A i \in 1 .. n - 1 : t[i] = jobEvents[i + 1] /\ i + 1 \in 1 .. n
    BY <1>1, <2>1
  <2>3. t = <<>> <=> Len(t) = 0
    BY <2>1
  <2> QED BY <1>1, <2>1, <2>2, <2>3
<1>3. Closed(cJob') <=> Closed(jobEvents[1])
  BY <1>1, <1>2, AcceptedType DEF Closed
<1>4. Closed(jobEvents[1]) => Closed(job) /\ \A i \in 1 .. n : Closed(jobEvents[i])
  BY <1>2 DEF CacheFollows
<1>5. Closed(cJob') => Closed(job') /\ \A i \in 1 .. n - 1 : Closed(jobEvents'[i])
  BY <1>1, <1>2, <1>3, <1>4
<1>6. \A i, k \in 1 .. n - 1 :
        i <= k /\ Closed(jobEvents'[i]) => Closed(jobEvents'[k])
  <2> SUFFICES ASSUME NEW i \in 1 .. n - 1, NEW k \in 1 .. n - 1, i <= k,
                      Closed(jobEvents'[i])
               PROVE  Closed(jobEvents'[k])
    OBVIOUS
  <2>1. /\ i + 1 \in 1 .. n /\ k + 1 \in 1 .. n /\ i + 1 <= k + 1
        /\ Closed(jobEvents[i + 1])
    BY <1>2
  <2>2. Closed(jobEvents[k + 1])
    BY <2>1 DEF CacheFollows
  <2> QED BY <1>2, <2>2
<1>7. \A i \in 1 .. n - 1 : Closed(jobEvents'[i]) => Closed(job')
  BY <1>1, <1>2 DEF CacheFollows
<1>8. jobEvents' = <<>> /\ Closed(job') => Closed(cJob')
  BY <1>1, <1>2, <1>3 DEF CacheFollows
<1>9. jobEvents' # <<>> /\ Closed(job') => Closed(jobEvents'[Len(jobEvents')])
  <2> SUFFICES ASSUME jobEvents' # <<>>, Closed(job')
               PROVE  Closed(jobEvents'[Len(jobEvents')])
    OBVIOUS
  <2>1. Closed(jobEvents[n])
    BY <1>1 DEF CacheFollows
  <2>2. jobEvents'[n - 1] = jobEvents[n]
    BY <1>2
  <2> QED BY <1>2, <2>1, <2>2
<1> QED BY <1>2, <1>5, <1>6, <1>7, <1>8, <1>9 DEF CacheFollows

\* What is finished in the API server is finished in the cache once its events are
\* delivered, after every step.
LEMMA StepCacheFollows ==
    ASSUME TypeOK, CacheFollows, CopyFollows, Next
    PROVE  CacheFollows'
<1>1. job \in JobType /\ my \in StatusType /\ jobEvents \in Seq(JobType)
  BY DEF TypeOK
<1>2. CASE StoreKept
  BY <1>2 DEF StoreKept, CacheFollows
<1>3. CASE KeepsStatus
  <2>1. PICK j \in JobType : SetJob(j) /\ j.status = job.status /\ UNCHANGED cJob
    BY <1>3 DEF KeepsStatus
  <2> QED BY <1>1, <2>1, WriteFollows DEF Closed
<1>4. CASE UpdateStatusCall /\ UNCHANGED cJob
  <2> DEFINE j == [job EXCEPT !.status = my]
  <2>1. j \in JobType /\ j.status = my
    BY <1>1 DEF JobType
  <2>2. SetJob(j) /\ fresh
    BY <1>4 DEF UpdateStatusCall
  <2>3. Closed(job) => Closed(j)
    BY <2>1, <2>2 DEF CopyFollows, Closed
  <2> QED BY <1>1, <1>4, <2>1, <2>2, <2>3, WriteFollows
<1>5. CASE DeliverJob
  BY <1>1, <1>5, DeliveryFollows
<1>6. CASE Restart
  <2>1. /\ job' = job /\ jobEvents' = <<>>
        /\ cJob' = IF job.state = "gone" THEN job ELSE Accepted(job)
    BY <1>6 DEF Restart, api
  <2>2. Closed(cJob') <=> Closed(job)
    BY <1>1, <2>1, AcceptedType DEF Closed
  <2> QED BY <2>1, <2>2 DEF CacheFollows
<1> QED BY <1>2, <1>3, <1>4, <1>5, <1>6, StoreStep

\* Nothing in the cache forgets an outcome either.
LEMMA CacheStays ==
    ASSUME TypeOK, CacheFollows, Next, Closed(cJob)
    PROVE  Closed(cJob')
<1>1. job \in JobType /\ jobEvents \in Seq(JobType)
  BY DEF TypeOK
<1>2. CASE StoreKept \/ KeepsStatus \/ UNCHANGED cJob
  BY <1>2 DEF StoreKept, KeepsStatus
<1>3. CASE DeliverJob
  <2>1. /\ jobEvents # <<>>
        /\ cJob' = IF cJob.state = "gone" THEN Accepted(Head(jobEvents))
                   ELSE Head(jobEvents)
    BY <1>3 DEF DeliverJob
  <2>2. Head(jobEvents) \in JobType /\ Head(jobEvents) = jobEvents[1]
        /\ 1 \in 1 .. Len(jobEvents)
    BY <1>1, <2>1
  <2>3. Closed(Head(jobEvents))
    BY <2>2 DEF CacheFollows
  <2> QED BY <2>1, <2>2, <2>3, AcceptedType DEF Closed
<1>4. CASE Restart
  <2>1. cJob' = IF job.state = "gone" THEN job ELSE Accepted(job)
    BY <1>4 DEF Restart
  <2>2. Closed(job)
    BY DEF CacheFollows
  <2> QED BY <1>1, <2>1, <2>2, AcceptedType DEF Closed
<1> QED BY <1>2, <1>3, <1>4, StoreStep

\* While the version a sync read is current, a finished job is finished in its copy.
LEMMA StepCopyFollows ==
    ASSUME TypeOK, CacheFollows, CopyFollows, Next
    PROVE  CopyFollows'
<1> SUFFICES ASSUME fresh', Closed(job') PROVE Terminal(my'.conds)
  BY DEF CopyFollows
<1>1. ~ResetLocals
  BY DEF ResetLocals
<1>2. job' = job
  <2>1. ~KeepsStatus /\ ~UpdateStatusCall
    BY DEF KeepsStatus, UpdateStatusCall, SetJob
  <2> QED BY <2>1, StoreStep DEF StoreKept, DeliverJob, Restart, api
<1>3. CASE StartSync
  <2>1. jobEvents = <<>> /\ my' = cJob.status
    BY <1>3 DEF StartSync, ReadCaches
  <2>2. Closed(cJob)
    BY <1>2, <2>1 DEF CacheFollows
  <2> QED BY <2>1, <2>2 DEF Closed
<1>4. CASE ~StartSync
  <2>1. fresh
    BY <1>1, <1>4, CopyStep DEF CopyKept, Moves, StartType, EndType
  <2>2. Terminal(my.conds)
    BY <1>2, <2>1 DEF CopyFollows
  <2> QED BY <1>1, <1>4, <2>2, CopyKeepsOutcome
<1> QED BY <1>3, <1>4

\* A sync cleans up a finished job only on what the cache holds.
LEMMA StepCleansClosed ==
    ASSUME TypeOK, CacheFollows, CleansClosed, Next
    PROVE  CleansClosed'
<1> SUFFICES ASSUME pc' \in {"clean", "ttl"}
             PROVE  todo' = {} /\ (Terminal(my'.conds) => Closed(cJob'))
  BY DEF CleansClosed
<1>1. CASE StartSync
  <2>1. my' = cJob.status /\ cJob' = cJob /\ todo' = {}
    BY <1>1 DEF StartSync, ReadCaches, caches
  <2> QED BY <2>1 DEF Closed
<1>2. CASE ~StartSync
  <2>1. UNCHANGED <<my, todo>> /\ pc \in {"clean", "ttl"}
    BY <1>2, CopyStep DEF CopyKept, ResetLocals, Moves, Cleaned, StartType, EndType
  <2>2. todo' = {} /\ (Terminal(my.conds) => Closed(cJob))
    BY <2>1 DEF CleansClosed
  <2> QED BY <2>1, <2>2, CacheStays
<1> QED BY <1>1, <1>2

\* While the cache shows a finished job no sync reaches the replicas.
LEMMA OnlyCleansStays ==
    ASSUME CleansClosed, Next, Closed(cJob), OnlyCleans
    PROVE  OnlyCleans'
<1>1. CASE CopyKept
  BY <1>1 DEF CopyKept, OnlyCleans
<1>2. CASE ResetLocals
  BY <1>2 DEF ResetLocals, OnlyCleans
<1>3. CASE StartSync
  BY <1>3 DEF StartSync, Closed, OnlyCleans
<1>4. CASE Moves("clean", "ttl") \/ Moves("service", "types")
  BY <1>4 DEF Moves, OnlyCleans
<1>5. CASE CleaningDone /\ Cleaned
  BY <1>5 DEF CleaningDone, Cleaned, CleansClosed, OnlyCleans
<1>6. ASSUME NEW rt \in Rtypes, StartType(rt) PROVE FALSE
  BY <1>6 DEF StartType, OnlyCleans
<1>7. ~EndType
  BY DEF EndType, OnlyCleans
<1> QED BY <1>1, <1>2, <1>3, <1>4, <1>5, <1>6, <1>7, CopyStep

\* Once pods were cleaned up the cache stays finished and no sync reaches the replicas.
LEMMA StepCleanedStaysClosed ==
    ASSUME TypeOK, CacheFollows, CleansClosed, CleanedStaysClosed, Next
    PROVE  CleanedStaysClosed'
<1> SUFFICES ASSUME "cleaned" \in seen' PROVE Closed(cJob') /\ OnlyCleans'
  BY DEF CleanedStaysClosed, Closed
<1>1. CASE "cleaned" \notin seen
  <2>1. /\ pc = "clean" /\ Terminal(my.conds) /\ pc' \in {"idle", "clean"}
        /\ UNCHANGED cJob
    BY <1>1, SeenStep
  <2> QED BY <2>1 DEF CleansClosed, OnlyCleans
<1>2. CASE "cleaned" \in seen
  BY <1>2, CacheStays, OnlyCleansStays DEF CleanedStaysClosed
<1> QED BY <1>1, <1>2

\* Every step keeps the invariant about outcomes.
LEMMA StepOutcome == TypeOK /\ OutcomeInv /\ [Next]_vars => OutcomeInv'
<1>1. ASSUME TypeOK, OutcomeInv, Next PROVE OutcomeInv'
  BY <1>1, StepCacheFollows, StepCopyFollows, StepCleansClosed, StepCleanedStaysClosed
     DEF OutcomeInv
<1>2. ASSUME OutcomeInv, UNCHANGED vars PROVE OutcomeInv'
  BY <1>2 DEF OutcomeInv, CacheFollows, CopyFollows, CleansClosed, CleanedStaysClosed,
              OnlyCleans, vars, api, streams, caches, locals, history
<1> QED BY <1>1, <1>2

-----------------------------------------------------------------------------
(* The theorems. *)

\* The invariant holds of every reachable state.
THEOREM Invariance == Safety => []IInv
<1>1. Init => IInv
  BY InitTypes, InitAgrees, InitOutcome DEF IInv
<1>2. IInv /\ [Next]_vars => IInv'
  BY StepTypes, StepAgrees, StepOutcome DEF IInv
<1> QED BY <1>1, <1>2, PTL DEF Safety

\* No copy of the status is ever contradictory, and a finished job has its
\* completion time (setCondition, updateStatusSingle).
THEOREM StatusConsistent == Safety => []ConditionsAgree
<1>1. IInv => ConditionsAgree
  BY DEF IInv, StatusesAgree
<1> QED BY <1>1, Invariance, PTL

\* Pods are cleaned up only once the outcome is stored, and it stays stored
\* (reconcilePyTorchJobs, deletePodsAndServices).
THEOREM CleanedJobsAreOver == Safety => []CleanedIsOver
<1>1. IInv => CleanedIsOver
  BY DEF IInv, OutcomeInv, CleanedStaysClosed, CacheFollows, CleanedIsOver, Over, Closed
<1> QED BY <1>1, Invariance, PTL

\* Only createNewPod makes a pod that was not there.
LEMMA OnlySyncCreates ==
    ASSUME Next, NEW r \in Replicas, TypeOK, ~Exists(pods[r]), Exists(pods'[r])
    PROVE  pc = "calls"
<1>1. ~Exists(NoPod)
  BY DEF Exists, NoPod
<1>2. ASSUME NEW q \in Replicas, NEW pod, SetPod(q, pod), Exists(pods[q]) \/ ~Exists(pod)
      PROVE  FALSE
  BY <1>2 DEF SetPod, TypeOK, PodsType
<1>3. pods' # pods
  OBVIOUS
<1>4. CASE Environment
  BY <1>1, <1>2, <1>3, <1>4
     DEF Environment, PodStarts, PodSucceeds, ContainerCompletes, ContainerFails,
         PodEvicted, UserDeletesPod, PodRemoved, UserEditsJob, UserDeletesJob, DeletingJobGoes,
         DeadlinePasses, TTLPasses, KubeletSets, Exists, api
<1>5. ~(Deliver \/ Timers \/ Crash)
  BY <1>3 DEF Deliver, DeliverJob, DeliverPod, DeliverService, Timers, Resync,
              ExpectationExpires, Crash, Restart, api
<1>6. CASE Sync
  <2>1. ASSUME NEW q \in Replicas, CleanPod(q) PROVE FALSE
    BY <1>2, <1>3, <2>1 DEF CleanPod, DeletePodCall, Deletable, NoCall, api
  <2>2. ASSUME NEW q \in Replicas, CreatePod(q) \/ RestartPod(q) PROVE pc = "calls"
    BY <2>2 DEF CreatePod, RestartPod, NextPod
  <2> QED BY <1>3, <1>6, <2>1, <2>2
     DEF Sync, JobIsGone, SkipSync, StartSync, CleanService, TTLPanics, Restart,
         EndCleaning, DeleteJob, EndType, CreateService, StatusUnchanged, UpdateStatus,
         StartType, NoCall, DeleteServiceCall, CreateServiceCall, DeleteJobCall,
         UpdateStatusCall, api
<1> QED BY <1>4, <1>5, <1>6 DEF Next

\* A finished job that was cleaned up never gets a pod again, however stale
\* the caches are and whatever fails (reconcilePyTorchJobs, createNewPod).
THEOREM NoPodComesBack == Safety => NoPodAfterCleanup
<1> DEFINE A == \A r \in Replicas :
                  "cleaned" \in seen => ~(~Exists(pods[r]) /\ Exists(pods'[r]))
<1>1. IInv /\ [Next]_vars => [A]_vars
  <2> SUFFICES ASSUME IInv, Next PROVE A
    OBVIOUS
  <2>1. "cleaned" \in seen => pc # "calls"
    BY DEF IInv, OutcomeInv, CleanedStaysClosed, OnlyCleans
  <2> QED BY <2>1, OnlySyncCreates DEF IInv
<1>2. Safety => [][A]_vars
  BY <1>1, Invariance, PTL DEF Safety
<1> QED BY <1>2 DEF NoPodAfterCleanup

-----------------------------------------------------------------------------
(* The counts of a status. *)

\* The counts of every type fit the type.
Fits(st) ==
    \A rt \in Rtypes :
      LET rs == st.replicas[rt]
      IN rs.active + rs.succeeded + rs.failed <= Size(rt)

\* ... in what is stored, on its way, in the cache and in the hands of a sync.
CountsFit ==
    /\ Fits(job.status) /\ Fits(cJob.status) /\ Fits(my)
    /\ \A i \in 1 .. Len(jobEvents) : Fits(jobEvents[i].status)

\* A type has as many replicas as its size says.
LEMMA SizeIsCardinality ==
    ASSUME NEW rt \in Rtypes
    PROVE  IsFiniteSet(Of(rt)) /\ Cardinality(Of(rt)) = Size(rt)
<1>1. CASE rt = "Master"
  <2>1. Of(rt) = {<<"Master", 0>>}
    BY <1>1 DEF Of, Replicas
  <2> QED BY <1>1, <2>1, FS_Singleton DEF Size
<1>2. CASE rt # "Master"
  <2> DEFINE I == 0 .. NumWorkers - 1
             f == [i \in I |-> <<"Worker", i>>]
             W == {<<"Worker", i>> : i \in I}
  <2>1. rt = "Worker"
    BY <1>2 DEF Rtypes
  <2>2. Of(rt) = W
    BY <2>1 DEF Of, Replicas
  <2>3. f \in Bijection(I, W)
    <3>1. \A i, k \in I : f[i] = f[k] => i = k
      OBVIOUS
    <3>2. f \in [I -> W] /\ \A w \in W : \E i \in I : f[i] = w
      OBVIOUS
    <3> QED BY <3>1, <3>2 DEF Bijection, Injection, IsInjective, Surjection
  <2>4. IsFiniteSet(I) /\ Cardinality(I) = NumWorkers
    BY NumWorkersAssumption, FS_Interval
  <2>5. IsFiniteSet(W) /\ Cardinality(W) = Cardinality(I)
    <3>1. ExistsBijection(I, W)
      BY <2>3 DEF ExistsBijection
    <3> QED BY <2>4, <3>1, FS_Bijection
  <2> QED BY <1>2, <2>2, <2>4, <2>5 DEF Size
<1> QED BY <1>1, <1>2

\* A pod is counted at most once: it runs, or succeeded, or failed.
LEMMA CountedOnce ==
    ASSUME NEW rt \in Rtypes
    PROVE  LET rs == ReplicaStatus(rt)
           IN rs.active + rs.succeeded + rs.failed <= Size(rt)
<1> DEFINE A == {r \in Of(rt) : sPods[r].phase \in {"Running"}}
           B == {r \in Of(rt) : sPods[r].phase \in {"Succeeded"}}
           C == {r \in Of(rt) : sPods[r].phase \in {"Retryable", "Permanent"}}
<1>1. IsFiniteSet(Of(rt)) /\ Cardinality(Of(rt)) = Size(rt)
  BY SizeIsCardinality
<1>2. /\ ReplicaStatus(rt).active = Cardinality(A)
      /\ ReplicaStatus(rt).succeeded = Cardinality(B)
      /\ ReplicaStatus(rt).failed = Cardinality(C)
  BY DEF ReplicaStatus, CountIn
<1>3. /\ A \subseteq Of(rt) /\ B \subseteq Of(rt) /\ C \subseteq Of(rt)
      /\ A \cap B = {} /\ (A \cup B) \cap C = {}
  OBVIOUS
<1> HIDE DEF A, B, C
<1>4. IsFiniteSet(A) /\ IsFiniteSet(B) /\ IsFiniteSet(C)
  BY <1>1, <1>3, FS_Subset
<1>5. /\ Cardinality(A) \in Nat /\ Cardinality(B) \in Nat /\ Cardinality(C) \in Nat
      /\ Cardinality({}) = 0
  BY <1>4, FS_CardinalityType, FS_EmptySet
<1>6. IsFiniteSet(A \cup B) /\ Cardinality(A \cup B) = Cardinality(A) + Cardinality(B)
  <2>1. /\ IsFiniteSet(A \cup B)
        /\ Cardinality(A \cup B) = Cardinality(A) + Cardinality(B) - Cardinality(A \cap B)
    BY <1>4, FS_Union
  <2>2. Cardinality(A \cap B) = 0
    BY <1>3, <1>5
  <2> QED BY <1>5, <2>1, <2>2
<1>7. Cardinality((A \cup B) \cup C) = Cardinality(A) + Cardinality(B) + Cardinality(C)
  <2>1. Cardinality((A \cup B) \cup C)
          = Cardinality(A \cup B) + Cardinality(C) - Cardinality((A \cup B) \cap C)
    BY <1>4, <1>6, FS_Union
  <2>2. Cardinality((A \cup B) \cap C) = 0
    BY <1>3, <1>5
  <2> QED BY <1>5, <1>6, <2>1, <2>2
<1>8. Cardinality((A \cup B) \cup C) <= Cardinality(Of(rt))
  <2>1. (A \cup B) \cup C \subseteq Of(rt)
    BY <1>3
  <2> QED BY <1>1, <2>1, FS_Subset
<1> QED BY <1>1, <1>2, <1>7, <1>8

\* What a step leaves of the replicas of a status keeps them fitting.
LEMMA FitsKept ==
    ASSUME NEW st, NEW new, Fits(st), new.replicas = st.replicas
    PROVE  Fits(new)
BY DEF Fits

\* Folding counts nothing twice.
LEMMA FoldFits ==
    ASSUME NEW st \in StatusType, Fits(st)
    PROVE  Fits(foldActive(st))
<1>1. CASE isSucceeded(st.conds)
  <2> DEFINE folded == [rt \in Rtypes |-> Folded(st.replicas[rt])]
  <2>1. /\ st.replicas \in [Rtypes -> [active : Nat, succeeded : Nat, failed : Nat]]
        /\ foldActive(st) = [st EXCEPT !.replicas = folded]
    BY <1>1 DEF foldActive, StatusType, StatusOver
  <2>2. foldActive(st).replicas = folded
    BY <2>1 DEF StatusType, StatusOver
  <2>3. ASSUME NEW rt \in Rtypes
        PROVE  LET rs == folded[rt]
               IN rs.active + rs.succeeded + rs.failed <= Size(rt)
    <3> DEFINE rs == st.replicas[rt]
    <3>1. rs \in [active : Nat, succeeded : Nat, failed : Nat]
      BY <2>1
    <3>2. rs.active + rs.succeeded + rs.failed <= Size(rt)
      BY DEF Fits
    <3>3. /\ folded[rt].active = 0 /\ folded[rt].succeeded = rs.succeeded + rs.active
          /\ folded[rt].failed = rs.failed
      BY DEF Folded
    <3>4. 0 + (rs.succeeded + rs.active) + rs.failed = rs.active + rs.succeeded + rs.failed
      BY <3>1
    <3> QED BY <3>2, <3>3, <3>4
  <2> QED BY <2>2, <2>3 DEF Fits
<1>2. CASE ~isSucceeded(st.conds)
  BY <1>2 DEF foldActive
<1> QED BY <1>1, <1>2

\* The status of a new job counts nothing.
LEMMA NewFits == Fits(NewStatus(Rtypes))
<1>1. ASSUME NEW rt \in Rtypes
      PROVE  /\ NewStatus(Rtypes).replicas[rt] = NoReplicas
             /\ Size(rt) \in Nat
  BY NumWorkersAssumption DEF NewStatus, Size
<1>2. NoReplicas.active = 0 /\ NoReplicas.succeeded = 0 /\ NoReplicas.failed = 0
  BY DEF NoReplicas
<1> QED BY <1>1, <1>2 DEF Fits

\* The copy of the worker keeps fitting: its counts come from one listing.
LEMMA CopyFits ==
    ASSUME TypeOK, CountsFit, Next
    PROVE  Fits(my')
<1>1. my \in StatusType /\ Fits(my) /\ Fits(cJob.status) /\ cur \in Rtypes
  BY DEF TypeOK, CountsFit
<1>2. CASE CopyKept \/ Moves("clean", "ttl") \/ Moves("service", "types")
  BY <1>1, <1>2 DEF CopyKept, Moves
<1>3. CASE ResetLocals
  BY <1>3, NewFits DEF ResetLocals
<1>4. CASE StartSync
  BY <1>1, <1>4 DEF StartSync, ReadCaches
<1>5. CASE Cleaned
  <2>1. my' = foldActive(my) \/ my' = failStatus(my)
    BY <1>5 DEF Cleaned, CleanedStatus
  <2>2. failStatus(my).replicas = my.replicas
    BY <1>1 DEF failStatus, StatusType, StatusOver
  <2> QED BY <1>1, <2>1, <2>2, FoldFits, FitsKept
<1>6. ASSUME NEW rt \in Rtypes, StartType(rt) PROVE Fits(my')
  <2>1. my' = [my EXCEPT !.replicas[rt] = ReplicaStatus(rt)]
    BY <1>6 DEF StartType
  <2>2. \A q \in Rtypes : my'.replicas[q] = IF q = rt THEN ReplicaStatus(rt) ELSE my.replicas[q]
    BY <1>1, <2>1 DEF StatusType, StatusOver
  <2>3. ASSUME NEW q \in Rtypes
        PROVE  LET rs == my'.replicas[q]
               IN rs.active + rs.succeeded + rs.failed <= Size(q)
    <3>1. CASE q = rt
      BY <2>2, <3>1, CountedOnce
    <3>2. CASE q # rt
      BY <1>1, <2>2, <3>2 DEF Fits
    <3> QED BY <3>1, <3>2
  <2> QED BY <2>3 DEF Fits
<1>7. CASE EndType
  <2> DEFINE restart == \E r \in Of(cur) : Restarts(r)
  <2>1. my' = updateStatusSingle(my, cur, Size(cur), restart)
    BY <1>7 DEF EndType
  <2> HIDE DEF restart
  <2>2. updateStatusSingle(my, cur, Size(cur), restart).replicas = my.replicas
    BY <1>1 DEF updateStatusSingle, StatusType, StatusOver
  <2> QED BY <1>1, <2>1, <2>2, FitsKept
<1> QED BY <1>2, <1>3, <1>4, <1>5, <1>6, <1>7, CopyStep

\* What is stored, on its way or in the cache after a step is one of the statuses
\* before it, but for an acceptance.
LEMMA StoreFits ==
    ASSUME TypeOK, CountsFit, Next
    PROVE  /\ Fits(job'.status) /\ Fits(cJob'.status)
           /\ \A i \in 1 .. Len(jobEvents') : Fits(jobEvents'[i].status)
<1>1. /\ Fits(job.status) /\ Fits(cJob.status) /\ Fits(my)
      /\ \A i \in 1 .. Len(jobEvents) : Fits(jobEvents[i].status)
      /\ job \in JobType /\ jobEvents \in Seq(JobType) /\ my \in StatusType
  BY DEF TypeOK, CountsFit
<1>2. CASE StoreKept
  BY <1>1, <1>2 DEF StoreKept
<1>3. ASSUME NEW j \in JobType, SetJob(j), Fits(j.status), UNCHANGED cJob
      PROVE  /\ Fits(job'.status) /\ Fits(cJob'.status)
             /\ \A i \in 1 .. Len(jobEvents') : Fits(jobEvents'[i].status)
  <2>1. job' = j /\ jobEvents' = Append(jobEvents, j)
    BY <1>3 DEF SetJob
  <2>2. \A i \in 1 .. Len(jobEvents') :
          jobEvents'[i] = j \/ (i \in 1 .. Len(jobEvents) /\ jobEvents'[i] = jobEvents[i])
    BY <1>1, <2>1
  <2> QED BY <1>1, <1>3, <2>1, <2>2
<1>4. CASE KeepsStatus
  BY <1>1, <1>3, <1>4 DEF KeepsStatus
<1>5. CASE UpdateStatusCall /\ UNCHANGED cJob
  <2> DEFINE j == [job EXCEPT !.status = my]
  <2>1. j \in JobType /\ j.status = my
    BY <1>1 DEF JobType
  <2>2. SetJob(j)
    BY <1>5 DEF UpdateStatusCall
  <2> QED BY <1>1, <1>3, <1>5, <2>1, <2>2
<1>6. ASSUME NEW j \in JobType, Fits(j.status) PROVE Fits(Accepted(j).status)
  <2>1. Accepted(j).status.replicas = j.status.replicas
    BY DEF Accepted, JobType, StatusType, StatusOver
  <2> QED BY <1>6, <2>1, FitsKept
<1>7. CASE DeliverJob
  <2>1. /\ jobEvents # <<>> /\ jobEvents' = Tail(jobEvents) /\ UNCHANGED job
        /\ cJob' = IF cJob.state = "gone" THEN Accepted(Head(jobEvents))
                   ELSE Head(jobEvents)
    BY <1>7 DEF DeliverJob, api
  <2>2. Head(jobEvents) \in JobType /\ Fits(Head(jobEvents).status)
    BY <1>1, <2>1
  <2>3. \A i \in 1 .. Len(jobEvents') : /\ i + 1 \in 1 .. Len(jobEvents)
                                        /\ jobEvents'[i] = jobEvents[i + 1]
    BY <1>1, <2>1
  <2> QED BY <1>1, <1>6, <2>1, <2>2, <2>3
<1>8. CASE Restart
  <2>1. /\ UNCHANGED job /\ jobEvents' = <<>>
        /\ cJob' = IF job.state = "gone" THEN job ELSE Accepted(job)
    BY <1>8 DEF Restart, api
  <2> QED BY <1>1, <1>6, <2>1
<1> QED BY <1>2, <1>4, <1>5, <1>7, <1>8, StoreStep

\* The counts of a stored status never exceed the size of a type, however often a
\* finished job is folded again (updatePyTorchJobReplicaStatuses, reconcilePyTorchJobs).
THEOREM CountsNeverExceed == Safety => []CountsAddUp
<1>1. Init => CountsFit
  <2> SUFFICES ASSUME Init PROVE CountsFit
    OBVIOUS
  <2>1. /\ job.status = NewStatus(Rtypes) /\ cJob.status = NewStatus(Rtypes)
        /\ my = NewStatus(Rtypes)
    BY DEF Init
  <2>2. \A i \in 1 .. Len(jobEvents) : jobEvents[i] = job
    BY DEF Init
  <2> QED BY <2>1, <2>2, NewFits DEF CountsFit
<1>2. TypeOK /\ CountsFit /\ [Next]_vars => CountsFit'
  <2>1. ASSUME TypeOK, CountsFit, Next PROVE CountsFit'
    BY <2>1, CopyFits, StoreFits DEF CountsFit
  <2>2. ASSUME CountsFit, UNCHANGED vars PROVE CountsFit'
    BY <2>2 DEF CountsFit, Fits, vars, api, streams, caches, locals
  <2> QED BY <2>1, <2>2
<1>3. CountsFit => CountsAddUp
  BY DEF CountsFit, Fits, CountsAddUp
<1> QED BY <1>1, <1>2, <1>3, TypeCorrect, PTL DEF Safety

-----------------------------------------------------------------------------
(* Replacement by name. *)

\* A pod that will not run again: whoever deletes it by its name hits no other.
Dead(pod) == Failed(pod) \/ pod.deleting \/ ~Exists(pod)

\* What the cache knows, and learns from the events on their way, of a pod: the
\* versions of pod r, the cached one first.
About(r) == {0} \cup {i \in 1 .. Len(podEvents) : podEvents[i].replica = r}
Version(r, i) == IF i = 0 THEN cPods[r] ELSE podEvents[i].pod

\* A name whose failed pod was seen is not that of a live pod.
FailedIsDead(r) == \A i \in About(r) : Failed(Version(r, i)) => Dead(pods[r])

\* A pod is deleted only after the cache has learned of its creation.
DeletedIsKnown(r) == \A i \in About(r) : ~Exists(Version(r, i)) => ~pods[r].deleting

\* The pod is created, or it disappears, at most once on the way to the cache.
OneChange(r) ==
    \A i, j \in About(r) :
      i <= j /\ (Exists(Version(r, i)) <=> Exists(pods[r]))
        => (Exists(Version(r, j)) <=> Exists(pods[r]))

\* A sync that found no pod may create one: none was there that the cache has
\* yet to learn of.
MayCreate(r) ==
    pc # "idle" /\ ~Exists(sPods[r]) =>
      /\ ~pods[r].deleting
      /\ ~Exists(pods[r]) => \A i \in About(r) : ~Exists(Version(r, i))

\* A sync that found a pod may delete it: it creates none of that name.
MayDelete(r) ==
    pc # "idle" /\ Exists(sPods[r]) =>
      /\ Exists(pods[r]) => \A i \in About(r) : Exists(Version(r, i))
      /\ Failed(sPods[r]) => Dead(pods[r])

InOrder(r) ==
    /\ FailedIsDead(r) /\ DeletedIsKnown(r) /\ OneChange(r)
    /\ MayCreate(r) /\ MayDelete(r)

\* Nobody but the controller has deleted anything, and the job is there.
Calm == Untouched /\ job.state = "live"

\* What a sync is about to do: it deletes pods it found, and of those that
\* reconcilePods handles only the ones to replace.
ActsFit ==
    /\ pc = "clean" => \A r \in acts : Exists(sPods[r])
    /\ pc = "calls" => \A r \in acts : Exists(sPods[r]) => Restarts(r)

\* The controller itself deletes a job only for its TTL; then it is finished,
\* and no sync reaches its pods.
GoneIsClosed == Untouched /\ job.state # "live" => Closed(cJob) /\ OnlyCleans

OrderInv ==
    /\ left["remove"] <= Budget[spec]["remove"]
    /\ \A r \in Replicas : ~Exists(pods[r]) => ~pods[r].deleting
    /\ ActsFit
    /\ GoneIsClosed
    /\ Calm => \A r \in Replicas : InOrder(r)

\* A step spends at most one mishap, and no step changes the spec.
LEMMA LeftStep ==
    Next => spec' = spec /\ (left' = left \/ \E m \in Mishaps : Spend(m))
<1> DEFINE P == spec' = spec /\ (left' = left \/ \E m \in Mishaps : Spend(m))
<1> SUFFICES ASSUME Next PROVE P
  OBVIOUS
<1>1. Mishaps = {"fail", "evict", "error", "crash", "edit", "remove"}
  BY DEF Mishaps
<1>2. ASSUME NEW r \in Replicas,
             \/ PodStarts(r) \/ PodSucceeds(r) \/ ContainerCompletes(r) \/ ContainerFails(r)
             \/ PodEvicted(r) \/ UserDeletesPod(r) \/ PodRemoved(r)
      PROVE  P
  <2>1. \E pod : KubeletSets(r, pod)
    BY <1>2 DEF PodStarts, PodSucceeds, ContainerCompletes, ContainerFails,
                PodEvicted, UserDeletesPod, PodRemoved
  <2>2. spec' = spec
    BY <2>1 DEF KubeletSets
  <2>3. left' = left \/ \E m \in Mishaps : Spend(m)
    BY <1>1, <1>2 DEF PodStarts, PodSucceeds, ContainerCompletes, ContainerFails,
                      PodEvicted, UserDeletesPod, PodRemoved
  <2> QED BY <2>2, <2>3
<1>3. CASE UserEditsJob \/ UserDeletesJob \/ DeletingJobGoes \/ DeadlinePasses \/ TTLPasses
  BY <1>1, <1>3 DEF UserEditsJob, UserDeletesJob, DeletingJobGoes, DeadlinePasses, TTLPasses
<1>4. CASE Deliver \/ Timers
  BY <1>4 DEF Deliver, DeliverJob, DeliverPod, DeliverService, Timers, Resync,
              ExpectationExpires
<1>5. CASE Crash
  BY <1>1, <1>5 DEF Crash, Restart
<1>6. ASSUME NEW r \in Replicas, CleanPod(r) \/ CreatePod(r) \/ RestartPod(r)
      PROVE  P
  BY <1>1, <1>6 DEF CleanPod, CreatePod, RestartPod
<1>7. ASSUME NEW rt \in Rtypes, StartType(rt) PROVE P
  BY <1>7 DEF StartType
<1>8. CASE \/ JobIsGone \/ SkipSync \/ StartSync \/ EndCleaning \/ EndType \/ StatusUnchanged
           \/ TTLPanics
  BY <1>8 DEF JobIsGone, SkipSync, StartSync, EndCleaning, EndType, StatusUnchanged,
              TTLPanics, Restart
<1>9. CASE CleanService \/ DeleteJob \/ CreateService \/ UpdateStatus
  BY <1>1, <1>9 DEF CleanService, DeleteJob, CreateService, UpdateStatus
<1> QED BY <1>2, <1>3, <1>4, <1>5, <1>6, <1>7, <1>8, <1>9 DEF Next, Environment, Sync

\* Who makes the job disappear: users, the garbage collector, and cleanupPyTorchJob.
LEMMA StateStep ==
    TypeOK /\ Next =>
      \/ job'.state = job.state
      \/ UserDeletesJob \/ DeletingJobGoes
      \/ DeleteJob /\ job.state = "live" /\ job'.state = "gone"
<1> DEFINE P == \/ job'.state = job.state
                \/ UserDeletesJob \/ DeletingJobGoes
                \/ DeleteJob /\ job.state = "live" /\ job'.state = "gone"
<1> SUFFICES ASSUME TypeOK, Next PROVE P
  OBVIOUS
<1>1. job \in JobType
  BY DEF TypeOK
<1>2. ASSUME NEW r \in Replicas,
             \/ PodStarts(r) \/ PodSucceeds(r) \/ ContainerCompletes(r) \/ ContainerFails(r)
             \/ PodEvicted(r) \/ UserDeletesPod(r) \/ PodRemoved(r)
      PROVE  P
  BY <1>2 DEF PodStarts, PodSucceeds, ContainerCompletes, ContainerFails,
              PodEvicted, UserDeletesPod, PodRemoved, KubeletSets
<1>3. CASE UserEditsJob \/ DeadlinePasses \/ TTLPasses
  BY <1>3 DEF UserEditsJob, SetJob, DeadlinePasses, TTLPasses, api
<1>4. CASE Deliver \/ Timers \/ Crash \/ TTLPanics
  BY <1>4 DEF Deliver, DeliverJob, DeliverPod, DeliverService, Timers, Resync,
              ExpectationExpires, Crash, TTLPanics, Restart, api
<1>5. ASSUME NEW r \in Replicas, CleanPod(r) \/ CreatePod(r) \/ RestartPod(r)
      PROVE  P
  BY <1>5 DEF CleanPod, CreatePod, RestartPod, DeletePodCall, CreatePodCall, NoCall, api
<1>6. ASSUME NEW rt \in Rtypes, StartType(rt) PROVE P
  BY <1>6 DEF StartType, api
<1>7. CASE JobIsGone \/ SkipSync \/ StartSync \/ EndCleaning \/ EndType \/ StatusUnchanged
  BY <1>7 DEF JobIsGone, SkipSync, StartSync, EndCleaning, EndType, StatusUnchanged, api
<1>8. CASE CleanService \/ CreateService
  BY <1>8 DEF CleanService, CreateService, DeleteServiceCall, CreateServiceCall,
              NoCall, api
<1>9. CASE DeleteJob
  <2>1. NoCall \/ DeleteJobCall
    BY <1>9 DEF DeleteJob
  <2>2. CASE NoCall
    BY <2>2 DEF NoCall, api
  <2>3. CASE DeleteJobCall
    BY <1>1, <1>9, <2>3 DEF DeleteJobCall, SetJob, JobType
  <2> QED BY <2>1, <2>2, <2>3
<1>10. CASE UpdateStatus
  <2>1. NoCall \/ UpdateStatusCall
    BY <1>10 DEF UpdateStatus
  <2> QED BY <1>1, <2>1 DEF NoCall, UpdateStatusCall, SetJob, JobType, api
<1> QED BY <1>2, <1>3, <1>4, <1>5, <1>6, <1>7, <1>8, <1>9, <1>10 DEF Next, Environment, Sync

\* How a step changes pods, and what the cache will learn of them.
PodsKept == UNCHANGED <<pods, podEvents, cPods>>
KubeletChanges(r) ==
    \/ PodStarts(r) \/ PodSucceeds(r) \/ ContainerCompletes(r)
    \/ ContainerFails(r) \/ PodEvicted(r)
SyncDeletes(r) ==
    /\ pc = "clean" \/ (pc = "calls" /\ Exists(sPods[r]))
    /\ r \in acts
    /\ Deletable(r)
    /\ SetPod(r, [pods[r] EXCEPT !.deleting = TRUE])
SyncCreates(r) ==
    /\ pc = "calls" /\ r \in acts
    /\ ~Exists(sPods[r]) /\ ~Exists(pods[r])
    /\ SetPod(r, NewPod)
PodChanges(r) ==
    /\ UNCHANGED cPods
    /\ \/ KubeletChanges(r) \/ UserDeletesPod(r) \/ PodRemoved(r)
       \/ SyncDeletes(r) \/ SyncCreates(r)

\* A kubelet changes a pod that has not ended, and leaves it there.
LEMMA KubeletKeepsPod ==
    ASSUME TypeOK, NEW r \in Replicas, KubeletChanges(r)
    PROVE  \E pod : /\ SetPod(r, pod) /\ UNCHANGED cPods
                    /\ Exists(pods[r]) /\ Exists(pod) /\ pod.deleting = pods[r].deleting
                    /\ ~Failed(pods[r])
<1>1. pods[r] \in PodType /\ pods[r].phase \in {"Pending", "Running"}
  BY DEF KubeletChanges, TypeOK, PodsType, PodStarts, PodSucceeds,
         ContainerCompletes, ContainerFails, PodEvicted
<1>2. PICK pod : /\ KubeletSets(r, pod)
                 /\ \/ \E p \in {"Running", "Succeeded", "Retryable", "Permanent"} :
                         pod = [pods[r] EXCEPT !.phase = p]
                    \/ pod = [pods[r] EXCEPT !.restarts = @ + 1]
  <2>1. CASE PodStarts(r)
    BY <2>1 DEF PodStarts
  <2>2. CASE PodSucceeds(r)
    BY <2>2 DEF PodSucceeds
  <2>3. CASE PodEvicted(r)
    BY <2>3 DEF PodEvicted
  <2>4. CASE ContainerFails(r)
    <3>1. CASE spec.restart[r[1]] \in {"OnFailure", "Always"}
      BY <2>4, <3>1 DEF ContainerFails
    <3>2. CASE spec.restart[r[1]] \notin {"OnFailure", "Always"}
      BY <2>4, <3>2 DEF ContainerFails
    <3> QED BY <3>1, <3>2
  <2>5. CASE ContainerCompletes(r)
    BY <2>5 DEF ContainerCompletes
  <2> QED BY <2>1, <2>2, <2>3, <2>4, <2>5 DEF KubeletChanges
<1>3. SetPod(r, pod) /\ UNCHANGED cPods
  BY <1>2 DEF KubeletSets, caches
<1>4. pod.phase \in {"Pending", "Running", "Succeeded", "Retryable", "Permanent"}
      /\ pod.deleting = pods[r].deleting
  BY <1>1, <1>2 DEF PodType
<1>5. Exists(pods[r]) /\ Exists(pod) /\ ~Failed(pods[r])
  BY <1>1, <1>4 DEF Exists, Failed
<1> QED BY <1>3, <1>4, <1>5

\* A pod is changed by its kubelet, by who deletes it, by the garbage collector,
\* or by a call of a sync, and the cache by a delivery or a relist.
LEMMA PodStep ==
    TypeOK /\ Next =>
      PodsKept \/ DeliverPod \/ Restart \/ \E r \in Replicas : PodChanges(r)
<1> DEFINE P == PodsKept \/ DeliverPod \/ Restart \/ \E r \in Replicas : PodChanges(r)
<1> SUFFICES ASSUME TypeOK, Next PROVE P
  OBVIOUS
<1>1. ASSUME NEW r \in Replicas, KubeletChanges(r) PROVE P
  <2>1. UNCHANGED cPods
    BY <1>1, KubeletKeepsPod
  <2> QED BY <1>1, <2>1 DEF PodChanges
<1>2. ASSUME NEW r \in Replicas, UserDeletesPod(r) \/ PodRemoved(r)
      PROVE  P
  BY <1>2 DEF UserDeletesPod, PodRemoved, KubeletSets, PodChanges, caches
<1>3. CASE UserEditsJob \/ UserDeletesJob \/ DeletingJobGoes \/ DeadlinePasses \/ TTLPasses
  BY <1>3 DEF UserEditsJob, UserDeletesJob, DeletingJobGoes, DeadlinePasses, TTLPasses,
              PodsKept, api, streams, caches
<1>4. CASE Deliver
  BY <1>4 DEF Deliver, DeliverJob, DeliverService, PodsKept, api
<1>5. CASE Timers
  BY <1>5 DEF Timers, Resync, ExpectationExpires, PodsKept, api, streams, caches
<1>6. CASE Crash \/ TTLPanics
  BY <1>6 DEF Crash, TTLPanics
<1>7. ASSUME NEW r \in Replicas, CleanPod(r) \/ RestartPod(r)
      PROVE  P
  <2>1. UNCHANGED cPods /\ r \in acts
    BY <1>7 DEF CleanPod, RestartPod, NextPod, caches
  <2>2. NoCall \/ DeletePodCall(r)
    BY <1>7 DEF CleanPod, RestartPod
  <2>3. pc = "clean" \/ (pc = "calls" /\ Exists(sPods[r]))
    BY <1>7 DEF CleanPod, RestartPod, NextPod
  <2>4. CASE NoCall
    BY <2>1, <2>4 DEF NoCall, PodsKept, api, streams
  <2>5. CASE DeletePodCall(r) /\ ~Deletable(r)
    BY <2>1, <2>5 DEF DeletePodCall, PodsKept
  <2>6. CASE DeletePodCall(r) /\ Deletable(r)
    BY <2>1, <2>3, <2>6 DEF DeletePodCall, PodChanges, SyncDeletes
  <2> QED BY <2>2, <2>4, <2>5, <2>6
<1>8. ASSUME NEW r \in Replicas, CreatePod(r)
      PROVE  P
  <2>1. UNCHANGED cPods /\ pc = "calls" /\ r \in acts /\ ~Exists(sPods[r])
    BY <1>8 DEF CreatePod, NextPod, caches
  <2>2. NoCall \/ CreatePodCall(r)
    BY <1>8 DEF CreatePod
  <2>3. CASE NoCall
    BY <2>1, <2>3 DEF NoCall, PodsKept, api, streams
  <2>4. CASE CreatePodCall(r)
    BY <2>1, <2>4 DEF CreatePodCall, PodChanges, SyncCreates
  <2> QED BY <2>2, <2>3, <2>4
<1>9. ASSUME NEW rt \in Rtypes, StartType(rt) PROVE P
  BY <1>9 DEF StartType, PodsKept, api, streams, caches
<1>10. CASE JobIsGone \/ SkipSync \/ StartSync \/ EndCleaning \/ EndType \/ StatusUnchanged
  BY <1>10 DEF JobIsGone, SkipSync, StartSync, EndCleaning, EndType, StatusUnchanged,
              PodsKept, api, streams, caches
<1>11. CASE CleanService \/ CreateService
  <2>1. UNCHANGED cPods
    BY <1>11 DEF CleanService, CreateService, caches
  <2>2. NoCall \/ DeleteServiceCall \/ CreateServiceCall
    BY <1>11 DEF CleanService, CreateService
  <2> QED BY <2>1, <2>2 DEF NoCall, DeleteServiceCall, CreateServiceCall, PodsKept, api, streams
<1>12. CASE DeleteJob \/ UpdateStatus
  <2>1. UNCHANGED cPods
    BY <1>12 DEF DeleteJob, UpdateStatus, caches
  <2>2. NoCall \/ DeleteJobCall \/ UpdateStatusCall
    BY <1>12 DEF DeleteJob, UpdateStatus
  <2> QED BY <2>1, <2>2 DEF NoCall, DeleteJobCall, UpdateStatusCall, PodsKept, api, streams
<1> QED BY <1>1, <1>2, <1>3, <1>4, <1>5, <1>6, <1>7, <1>8, <1>9, <1>10, <1>11, <1>12
     DEF Next, Environment, Sync, KubeletChanges

\* Only the start of a sync lists pods.
LEMMA ListedStep ==
    Next => \/ ResetLocals \/ StartSync
            \/ sPods' = sPods /\ (pc' # "idle" => pc # "idle")
<1> DEFINE P == \/ ResetLocals \/ StartSync
                \/ sPods' = sPods /\ (pc' # "idle" => pc # "idle")
<1> SUFFICES ASSUME Next PROVE P
  OBVIOUS
<1>1. (pc' = pc /\ sPods' = sPods) \/ ResetLocals => P
  OBVIOUS
<1>2. ASSUME NEW r \in Replicas,
             \/ PodStarts(r) \/ PodSucceeds(r) \/ ContainerCompletes(r) \/ ContainerFails(r)
             \/ PodEvicted(r) \/ UserDeletesPod(r) \/ PodRemoved(r)
      PROVE  pc' = pc /\ sPods' = sPods
  <2>1. \E pod : KubeletSets(r, pod)
    BY <1>2 DEF PodStarts, PodSucceeds, ContainerCompletes, ContainerFails,
                PodEvicted, UserDeletesPod, PodRemoved
  <2> QED BY <2>1 DEF KubeletSets, locals
<1>3. CASE UserEditsJob \/ UserDeletesJob \/ DeletingJobGoes \/ DeadlinePasses \/ TTLPasses
  BY <1>1, <1>3 DEF UserEditsJob, UserDeletesJob, DeletingJobGoes, DeadlinePasses,
                    TTLPasses, locals
<1>4. CASE Deliver \/ Timers
  BY <1>1, <1>4 DEF Deliver, DeliverJob, DeliverPod, DeliverService, Timers, Resync,
                    ExpectationExpires, locals
<1>5. CASE Crash \/ TTLPanics
  BY <1>1, <1>5 DEF Crash, TTLPanics, Restart
<1>6. CASE JobIsGone \/ SkipSync
  BY <1>1, <1>6 DEF JobIsGone, SkipSync, locals
<1>7. CASE StartSync
  BY <1>7
<1>8. CASE CleanService \/ CreateService
  BY <1>1, <1>8 DEF CleanService, CreateService, SyncFails, ResetLocals, locals
<1>9. CASE EndCleaning \/ DeleteJob
  BY <1>1, <1>9 DEF EndCleaning, DeleteJob, SyncFails, CleaningDone, Cleaned
<1>10. CASE EndType
  BY <1>10 DEF EndType
<1>11. CASE StatusUnchanged \/ UpdateStatus
  BY <1>1, <1>11 DEF StatusUnchanged, UpdateStatus, SyncEnds, SyncFails
<1>12. ASSUME NEW r \in Replicas, CleanPod(r) \/ CreatePod(r) \/ RestartPod(r)
      PROVE  P
  BY <1>1, <1>12 DEF CleanPod, CreatePod, RestartPod, NextPod, PodDone, SyncFails
<1>13. ASSUME NEW rt \in Rtypes, StartType(rt) PROVE P
  BY <1>13 DEF StartType
<1> QED BY <1>1, <1>2, <1>3, <1>4, <1>5, <1>6, <1>7, <1>8, <1>9, <1>10, <1>11, <1>12, <1>13
     DEF Next, Environment, Sync

\* A pod that is not there is not being deleted, either.
LEMMA AbsentStays ==
    ASSUME TypeOK, Next, \A r \in Replicas : ~Exists(pods[r]) => ~pods[r].deleting
    PROVE  \A r \in Replicas : ~Exists(pods'[r]) => ~pods'[r].deleting
<1>1. CASE PodsKept \/ DeliverPod \/ Restart
  BY <1>1 DEF PodsKept, DeliverPod, Restart, api
<1>2. ASSUME NEW q \in Replicas, PodChanges(q), NEW r \in Replicas, ~Exists(pods'[r])
      PROVE  ~pods'[r].deleting
  <2>1. pods \in [Replicas -> PodType] /\ pods[r] \in PodType
    BY DEF TypeOK, PodsType
  <2>2. /\ Exists(NewPod) /\ ~NoPod.deleting
        /\ Exists(pods[r]) => Exists([pods[r] EXCEPT !.deleting = TRUE])
    BY <2>1 DEF Exists, NewPod, NoPod, PodType
  <2>3. CASE r # q
    <3>1. \E pod : SetPod(q, pod)
      BY <1>2, KubeletKeepsPod DEF PodChanges, UserDeletesPod, PodRemoved, SyncDeletes,
                                   SyncCreates, KubeletSets
    <3>2. pods'[r] = pods[r]
      BY <2>1, <2>3, <3>1 DEF SetPod
    <3> QED BY <1>2, <3>2
  <2>4. CASE r = q
    <3>1. ~(KubeletChanges(r) \/ SyncDeletes(r) \/ SyncCreates(r) \/ UserDeletesPod(r))
      BY <1>2, <2>1, <2>2, KubeletKeepsPod
         DEF SyncDeletes, SyncCreates, SetPod, Deletable, UserDeletesPod, KubeletSets
    <3>2. SetPod(r, NoPod)
      BY <1>2, <2>4, <3>1 DEF PodChanges, PodRemoved, KubeletSets
    <3> QED BY <2>1, <2>2, <3>2 DEF SetPod
  <2> QED BY <2>3, <2>4
<1> QED BY <1>1, <1>2, PodStep

\* The pods that deletePodsAndServices deletes are pods that the cache shows.
LEMMA DoomedExist == \A r \in Doomed : r \in Replicas /\ Exists(cPods[r])
<1>1. \A r \in Replicas : cPods[r].phase = "Running" => Exists(cPods[r])
  BY DEF Exists
<1>2. CASE spec.clean = "None"
  <2>1. Doomed = {}
    BY <1>2 DEF Doomed
  <2> QED BY <2>1
<1>3. CASE spec.clean # "None"
  BY <1>1, <1>3 DEF Doomed
<1> QED BY <1>2, <1>3

\* What a sync is about to do shrinks until the sync moves on.
LEMMA ActsStep ==
    Next /\ pc' \in {"clean", "calls"} =>
      \/ StartSync
      \/ \E rt \in Rtypes : StartType(rt)
      \/ UNCHANGED <<pc, my, cur, sPods>> /\ acts' \subseteq acts
<1> DEFINE P == \/ StartSync
                \/ \E rt \in Rtypes : StartType(rt)
                \/ UNCHANGED <<pc, my, cur, sPods>> /\ acts' \subseteq acts
<1> SUFFICES ASSUME Next, pc' \in {"clean", "calls"} PROVE P
  OBVIOUS
<1>1. /\ ~ResetLocals
      /\ UNCHANGED <<pc, locals>> => P
  BY DEF ResetLocals, locals
<1>2. ASSUME NEW r \in Replicas,
             \/ PodStarts(r) \/ PodSucceeds(r) \/ ContainerCompletes(r) \/ ContainerFails(r)
             \/ PodEvicted(r) \/ UserDeletesPod(r) \/ PodRemoved(r)
      PROVE  P
  <2>1. \E pod : KubeletSets(r, pod)
    BY <1>2 DEF PodStarts, PodSucceeds, ContainerCompletes, ContainerFails,
                PodEvicted, UserDeletesPod, PodRemoved
  <2> QED BY <1>1, <2>1 DEF KubeletSets
<1>3. CASE UserEditsJob \/ UserDeletesJob \/ DeletingJobGoes \/ DeadlinePasses \/ TTLPasses
  BY <1>1, <1>3 DEF UserEditsJob, UserDeletesJob, DeletingJobGoes, DeadlinePasses, TTLPasses
<1>4. CASE Deliver \/ Timers
  BY <1>1, <1>4 DEF Deliver, DeliverJob, DeliverPod, DeliverService, Timers, Resync,
                    ExpectationExpires
<1>5. CASE Crash \/ TTLPanics
  BY <1>1, <1>5 DEF Crash, TTLPanics, Restart
<1>6. CASE JobIsGone \/ SkipSync
  BY <1>1, <1>6 DEF JobIsGone, SkipSync
<1>7. CASE StartSync
  BY <1>7
<1>8. ~CleanService /\ ~CreateService
  BY <1>1 DEF CleanService, CreateService, SyncFails
<1>9. ~EndCleaning /\ ~DeleteJob /\ ~EndType
  BY <1>1 DEF EndCleaning, DeleteJob, EndType, SyncFails, Cleaned
<1>10. ~StatusUnchanged /\ ~UpdateStatus
  BY <1>1 DEF StatusUnchanged, UpdateStatus, SyncEnds, SyncFails
<1>11. ASSUME NEW r \in Replicas, CleanPod(r) \/ CreatePod(r) \/ RestartPod(r)
      PROVE  P
  BY <1>1, <1>11 DEF CleanPod, CreatePod, RestartPod, PodDone, SyncFails
<1>12. ASSUME NEW rt \in Rtypes, StartType(rt) PROVE P
  BY <1>12
<1> QED BY <1>2, <1>3, <1>4, <1>5, <1>6, <1>7, <1>8, <1>9, <1>10, <1>11, <1>12
     DEF Next, Environment, Sync

\* A sync keeps deleting only pods it found, and replacing only those to replace.
LEMMA StepActsFit ==
    ASSUME TypeOK, ActsFit, Next
    PROVE  ActsFit'
<1> SUFFICES ASSUME pc' \in {"clean", "calls"} PROVE ActsFit'
  BY DEF ActsFit
<1>1. spec' = spec
  BY LeftStep
<1>2. CASE StartSync
  <2>1. sPods' = cPods /\ (pc' = "clean" => acts' = Doomed) /\ pc' # "calls"
    BY <1>2 DEF StartSync, ReadCaches
  <2>2. pc' = "clean" => \A r \in acts' : Exists(sPods'[r])
    BY <2>1, DoomedExist
  <2> QED BY <2>1, <2>2 DEF ActsFit, Exists
<1>3. ASSUME NEW rt \in Rtypes, StartType(rt) PROVE ActsFit'
  <2>1. /\ pc' = "calls" /\ sPods' = sPods
        /\ acts' = {r \in Of(rt) : ~Exists(sPods[r]) \/ Restarts(r)}
    BY <1>3 DEF StartType
  <2>2. \A r \in acts' : Exists(sPods'[r]) => Restarts(r)'
    BY <1>1, <2>1 DEF Restarts, Exists
  <2> QED BY <2>1, <2>2 DEF ActsFit, Exists, Restarts
<1>4. CASE UNCHANGED <<pc, my, cur, sPods>> /\ acts' \subseteq acts
  BY <1>1, <1>4 DEF ActsFit, Exists, Restarts
<1> QED BY <1>2, <1>3, <1>4, ActsStep

\* The budget of deletions by users only shrinks ...
LEMMA StepBudget ==
    ASSUME TypeOK, left["remove"] <= Budget[spec]["remove"], Next
    PROVE  left'["remove"] <= Budget[spec']["remove"]
<1>1. /\ left["remove"] \in Nat /\ Budget[spec]["remove"] \in Nat
      /\ left \in [Mishaps -> Nat] /\ "remove" \in Mishaps
  BY BoundsAssumption DEF TypeOK, Mishaps
<1>2. ASSUME NEW m \in Mishaps, Spend(m) PROVE left'["remove"] <= left["remove"]
  <2>1. left[m] \in Nat /\ left[m] > 0 /\ left' = [left EXCEPT ![m] = left[m] - 1]
    BY <1>1, <1>2 DEF Spend
  <2>2. left'["remove"] = IF m = "remove" THEN left["remove"] - 1 ELSE left["remove"]
    BY <1>1, <2>1
  <2> QED BY <1>1, <2>2
<1>3. spec' = spec /\ (left' = left \/ \E m \in Mishaps : Spend(m))
  BY LeftStep
<1>4. CASE left' = left
  BY <1>3, <1>4
<1>5. CASE \E m \in Mishaps : Spend(m)
  <2>1. left'["remove"] <= left["remove"]
    BY <1>2, <1>5
  <2>2. left'["remove"] \in Nat
    BY <1>1, <1>5 DEF Spend
  <2> QED BY <1>1, <1>3, <2>1, <2>2
<1> QED BY <1>3, <1>4, <1>5

\* ... so while it is whole, no user has deleted anything.
LEMMA NobodyDeletes ==
    ASSUME TypeOK, left["remove"] <= Budget[spec]["remove"], Next, Untouched'
    PROVE  Untouched /\ ~UserDeletesJob /\ \A r \in Replicas : ~UserDeletesPod(r)
<1>1. /\ left["remove"] \in Nat /\ Budget[spec]["remove"] \in Nat
      /\ left \in [Mishaps -> Nat] /\ "remove" \in Mishaps
  BY BoundsAssumption DEF TypeOK, Mishaps
<1>2. spec' = spec /\ (left' = left \/ \E m \in Mishaps : Spend(m))
  BY LeftStep
<1>3. left'["remove"] = Budget[spec]["remove"]
  BY <1>2 DEF Untouched
<1>4. ~Spend("remove")
  <2>1. ASSUME Spend("remove") PROVE left'["remove"] = left["remove"] - 1
    BY <1>1, <2>1 DEF Spend
  <2> QED BY <1>1, <1>3, <2>1
<1>5. left'["remove"] = left["remove"]
  BY <1>1, <1>2, <1>4 DEF Spend
<1> QED BY <1>1, <1>3, <1>4, <1>5 DEF Untouched, UserDeletesJob, UserDeletesPod

\* The controller deletes a job that is finished in its cache and reaches no pod
\* of it any more.
LEMMA StepGoneIsClosed ==
    ASSUME IInv, left["remove"] <= Budget[spec]["remove"], GoneIsClosed, Next
    PROVE  GoneIsClosed'
<1> SUFFICES ASSUME Untouched', job'.state # "live" PROVE Closed(cJob') /\ OnlyCleans'
  BY DEF GoneIsClosed, Closed
<1>1. TypeOK /\ CacheFollows /\ CleansClosed /\ Consistent(my)
  BY DEF IInv, OutcomeInv, StatusesAgree, ConditionsAgree
<1>2. Untouched /\ ~UserDeletesJob
  BY <1>1, NobodyDeletes
<1>3. CASE job.state # "live"
  <2>1. Closed(cJob) /\ OnlyCleans
    BY <1>2, <1>3 DEF GoneIsClosed
  <2> QED BY <1>1, <2>1, CacheStays, OnlyCleansStays
<1>4. CASE job.state = "live"
  <2>1. DeleteJob
    <3>1. ~DeletingJobGoes
      BY <1>4 DEF DeletingJobGoes
    <3> QED BY <1>1, <1>2, <1>4, <3>1, StateStep
  <2>2. CleaningDone /\ my.completed /\ UNCHANGED cJob
    BY <2>1 DEF DeleteJob, caches
  <2>3. pc \in {"clean", "ttl"} /\ Terminal(my.conds)
    BY <1>1, <2>2 DEF CleaningDone, Consistent
  <2>4. todo = {} /\ Closed(cJob)
    BY <1>1, <2>3 DEF CleansClosed
  <2>5. Cleaned \/ SyncFails
    BY <1>4, <2>1 DEF DeleteJob
  <2> QED BY <2>2, <2>4, <2>5 DEF Cleaned, SyncFails, ResetLocals, OnlyCleans
<1> QED BY <1>3, <1>4

\* What nobody has disturbed was not disturbed before.
LEMMA CalmBefore ==
    ASSUME TypeOK, left["remove"] <= Budget[spec]["remove"], Next, Calm'
    PROVE  Calm
<1>1. Untouched /\ ~UserDeletesJob
  BY NobodyDeletes DEF Calm
<1>2. job \in JobType /\ job'.state = "live"
  BY DEF TypeOK, Calm
<1>3. ~DeletingJobGoes
  <2>1. DeletingJobGoes => job'.state = "gone"
    BY <1>2 DEF DeletingJobGoes, SetJob, JobType
  <2> QED BY <1>2, <2>1
<1>4. job'.state = job.state
  BY <1>1, <1>2, <1>3, StateStep
<1> QED BY <1>1, <1>2, <1>4 DEF Calm

-----------------------------------------------------------------------------
(* The versions of a pod on their way. *)

\* A write of a pod adds its last version.
LEMMA NewVersion ==
    ASSUME TypeOK, NEW q \in Replicas, NEW pod, SetPod(q, pod), UNCHANGED cPods,
           NEW r \in Replicas
    PROVE  /\ pods'[r] = IF r = q THEN pod ELSE pods[r]
           /\ r # q => About(r)' = About(r)
           /\ \A i \in About(r) : Version(r, i)' = Version(r, i)
           /\ \A i \in About(r)' :
                i \notin About(r) => /\ r = q /\ Version(r, i)' = pod
                                     /\ \A j \in About(r)' : i <= j => i = j
<1> DEFINE n == Len(podEvents)
           e == [replica |-> q, pod |-> pod]
<1>1. pods \in [Replicas -> PodType] /\ n \in Nat
  BY DEF TypeOK, PodsType
<1>2. /\ podEvents' = Append(podEvents, e) /\ Len(podEvents') = n + 1
      /\ \A i \in 1 .. n : podEvents'[i] = podEvents[i]
      /\ podEvents'[n + 1] = e
  BY DEF TypeOK, SetPod
<1>3. \A i \in 1 .. n + 1 : i \in 1 .. n \/ i = n + 1
  BY <1>1
<1>4. pods'[r] = IF r = q THEN pod ELSE pods[r]
  BY <1>1 DEF SetPod
<1>5. About(r) = {0} \cup {i \in 1 .. n : podEvents[i].replica = r}
  BY DEF About
<1>6. About(r)' = {0} \cup {i \in 1 .. n + 1 : podEvents'[i].replica = r}
  BY <1>2 DEF About
<1>7. \A i \in About(r)' : i \in About(r) \/ (i = n + 1 /\ r = q)
  BY <1>2, <1>3, <1>5, <1>6
<1>8. About(r) \subseteq About(r)' /\ \A i \in About(r) : i \in Nat /\ i <= n
  BY <1>1, <1>2, <1>5, <1>6
<1>9. \A i \in About(r) : Version(r, i)' = Version(r, i)
  BY <1>1, <1>2, <1>5 DEF Version
<1>10. \A k : k = n + 1 => Version(q, k)' = pod
  <2> SUFFICES ASSUME NEW k, k = n + 1 PROVE Version(q, k)' = pod
    OBVIOUS
  <2>1. k # 0 /\ podEvents'[k].pod = pod
    BY <1>1, <1>2
  <2> QED BY <2>1 DEF Version
<1>11. \A i \in About(r)' : n + 1 <= i => i = n + 1
  BY <1>1, <1>6
<1> QED BY <1>4, <1>7, <1>8, <1>9, <1>10, <1>11

\* A delivery takes the first version away: the others stay in their order, and the
\* cache, if it is about pod r, moves to the first.
LEMMA VersionDelivered ==
    ASSUME TypeOK, DeliverPod, NEW r \in Replicas
    PROVE  \E m \in [About(r)' -> About(r)] :
             /\ \A i, j \in About(r)' : i <= j => m[i] <= m[j]
             /\ \A i \in About(r)' : Version(r, i)' = Version(r, m[i])
<1> DEFINE n == Len(podEvents)
           h == Head(podEvents)
           m == [i \in About(r)' |-> IF i = 0 /\ h.replica # r THEN 0 ELSE i + 1]
<1>1. /\ podEvents # <<>> /\ podEvents' = Tail(podEvents)
      /\ cPods' = [cPods EXCEPT ![h.replica] = h.pod]
      /\ cPods \in [Replicas -> PodType]
      /\ podEvents \in Seq([replica : Replicas, pod : PodType])
  BY DEF DeliverPod, TypeOK, PodsType
<1>2. /\ n \in Nat \ {0} /\ Len(podEvents') = n - 1 /\ h = podEvents[1]
      /\ \A i \in 1 .. n - 1 : podEvents'[i] = podEvents[i + 1] /\ i + 1 \in 1 .. n
  BY <1>1
<1>3. About(r) = {0} \cup {i \in 1 .. n : podEvents[i].replica = r}
  BY DEF About
<1>4. About(r)' = {0} \cup {i \in 1 .. n - 1 : podEvents'[i].replica = r}
  BY <1>2 DEF About
<1>5. \A i \in About(r)' : m[i] = IF i = 0 /\ h.replica # r THEN 0 ELSE i + 1
  OBVIOUS
<1>6. \A i \in About(r)' : i \in Nat /\ m[i] \in About(r)
  <2> SUFFICES ASSUME NEW i \in About(r)' PROVE i \in Nat /\ m[i] \in About(r)
    OBVIOUS
  <2>1. CASE i = 0
    BY <1>2, <1>3, <1>5, <2>1
  <2>2. CASE i \in 1 .. n - 1 /\ podEvents'[i].replica = r
    BY <1>2, <1>3, <1>5, <2>2
  <2> QED BY <1>4, <2>1, <2>2
<1>7. \A i \in About(r)' : Version(r, i)' = Version(r, m[i])
  <2> SUFFICES ASSUME NEW i \in About(r)' PROVE Version(r, i)' = Version(r, m[i])
    OBVIOUS
  <2>1. CASE i = 0 /\ h.replica = r
    <3>1. cPods'[r] = h.pod /\ m[i] = 1
      BY <1>1, <1>5, <2>1
    <3> QED BY <1>2, <2>1, <3>1 DEF Version
  <2>2. CASE i = 0 /\ h.replica # r
    <3>1. cPods'[r] = cPods[r] /\ m[i] = 0
      BY <1>1, <1>5, <2>2
    <3> QED BY <2>2, <3>1 DEF Version
  <2>3. CASE i # 0
    <3>1. i \in 1 .. n - 1 /\ m[i] = i + 1
      BY <1>4, <1>5, <2>3
    <3>2. podEvents'[i] = podEvents[i + 1] /\ i + 1 # 0
      BY <1>2, <3>1
    <3> QED BY <2>3, <3>1, <3>2 DEF Version
  <2> QED BY <2>1, <2>2, <2>3
<1>8. \A i, j \in About(r)' : i <= j => m[i] <= m[j]
  BY <1>5, <1>6
<1>9. m \in [About(r)' -> About(r)]
  BY <1>6
<1> HIDE DEF m
<1> QED BY <1>7, <1>8, <1>9

\* The worker stays in the sync it is in, or leaves it.
SameSync == pc' = "idle" \/ (pc # "idle" /\ sPods' = sPods)

\* A write of another pod changes nothing for pod r.
LEMMA OtherInOrder ==
    ASSUME TypeOK, NEW q \in Replicas, NEW pod, SetPod(q, pod), UNCHANGED cPods,
           NEW r \in Replicas, r # q, SameSync, InOrder(r)
    PROVE  InOrder(r)'
<1>1. /\ pods'[r] = pods[r] /\ About(r)' = About(r)
      /\ \A i \in About(r) : Version(r, i)' = Version(r, i)
  BY NewVersion
<1>2. FailedIsDead(r)' /\ DeletedIsKnown(r)' /\ OneChange(r)'
  BY <1>1 DEF InOrder, FailedIsDead, DeletedIsKnown, OneChange, Dead, Failed, Exists
<1>3. MayCreate(r)' /\ MayDelete(r)'
  BY <1>1 DEF InOrder, MayCreate, MayDelete, SameSync, Dead, Failed, Exists
<1> QED BY <1>2, <1>3 DEF InOrder

\* A pod that changes and stays, unless a sync that did not find it marks it.
LEMMA ChangedInOrder ==
    ASSUME TypeOK, NEW r \in Replicas, NEW pod, SetPod(r, pod), UNCHANGED cPods, SameSync,
           InOrder(r), Exists(pods[r]), Exists(pod), Dead(pods[r]) => Dead(pod),
           pod.deleting = pods[r].deleting \/ (Exists(sPods[r]) /\ pc # "idle")
    PROVE  InOrder(r)'
<1>1. /\ pods'[r] = pod
      /\ \A i \in About(r) : Version(r, i)' = Version(r, i)
      /\ \A i \in About(r)' :
           i \notin About(r) => /\ Version(r, i)' = pod
                                /\ \A j \in About(r)' : i <= j => i = j
  BY NewVersion
<1>2. pod.deleting = pods[r].deleting \/ \A i \in About(r) : Exists(Version(r, i))
  BY DEF InOrder, MayDelete
<1>3. FailedIsDead(r)'
  <2> SUFFICES ASSUME NEW i \in About(r)', Failed(Version(r, i)') PROVE Dead(pod)
    BY <1>1 DEF FailedIsDead, Dead, Failed, Exists
  <2>1. CASE i \in About(r)
    <3>1. Failed(Version(r, i))
      BY <1>1, <2>1
    <3> QED BY <2>1, <3>1 DEF InOrder, FailedIsDead
  <2>2. CASE i \notin About(r)
    BY <1>1, <2>2 DEF Dead
  <2> QED BY <2>1, <2>2
<1>4. DeletedIsKnown(r)'
  <2> SUFFICES ASSUME NEW i \in About(r)', ~Exists(Version(r, i)') PROVE ~pod.deleting
    BY <1>1 DEF DeletedIsKnown, Exists
  <2>1. i \in About(r) /\ ~Exists(Version(r, i))
    BY <1>1
  <2>2. ~pods[r].deleting
    BY <2>1 DEF InOrder, DeletedIsKnown
  <2> QED BY <1>2, <2>1, <2>2
<1>5. OneChange(r)'
  <2> SUFFICES ASSUME NEW i \in About(r)', NEW j \in About(r)', i <= j,
                      Exists(Version(r, i)')
               PROVE  Exists(Version(r, j)')
    BY <1>1 DEF OneChange, Exists
  <2>1. CASE j \notin About(r)
    BY <1>1, <2>1
  <2>2. CASE j \in About(r)
    <3>1. i \in About(r)
      BY <1>1, <2>2
    <3>2. Exists(Version(r, i))
      BY <1>1, <3>1
    <3>3. Exists(Version(r, j))
      BY <2>2, <3>1, <3>2 DEF InOrder, OneChange
    <3> QED BY <1>1, <2>2, <3>3
  <2> QED BY <2>1, <2>2
<1>6. MayCreate(r)'
  <2> SUFFICES ASSUME pc' # "idle", ~Exists(sPods'[r]) PROVE ~pod.deleting
    BY <1>1 DEF MayCreate, Exists
  <2>1. pc # "idle" /\ ~Exists(sPods[r])
    BY DEF SameSync
  <2> QED BY <2>1 DEF InOrder, MayCreate
<1>7. MayDelete(r)'
  <2> SUFFICES ASSUME pc' # "idle", Exists(sPods'[r])
               PROVE  /\ \A i \in About(r)' : Exists(Version(r, i)')
                      /\ Failed(sPods'[r]) => Dead(pod)
    BY <1>1 DEF MayDelete, Exists, Dead, Failed
  <2>1. pc # "idle" /\ Exists(sPods[r]) /\ sPods' = sPods
    BY DEF SameSync
  <2>2. \A i \in About(r) : Exists(Version(r, i))
    BY <2>1 DEF InOrder, MayDelete
  <2>3. Failed(sPods[r]) => Dead(pod)
    BY <2>1 DEF InOrder, MayDelete
  <2> QED BY <1>1, <2>1, <2>2, <2>3
<1> QED BY <1>3, <1>4, <1>5, <1>6, <1>7 DEF InOrder

\* A pod that goes was being deleted.
LEMMA RemovedInOrder ==
    ASSUME TypeOK, NEW r \in Replicas, SetPod(r, NoPod), UNCHANGED cPods, SameSync,
           InOrder(r), pods[r].deleting
    PROVE  InOrder(r)'
<1>1. /\ pods'[r] = NoPod /\ ~Exists(NoPod) /\ ~NoPod.deleting
      /\ \A i \in About(r) : Version(r, i)' = Version(r, i)
      /\ \A i \in About(r)' :
           i \notin About(r) => /\ Version(r, i)' = NoPod
                                /\ \A j \in About(r)' : i <= j => i = j
  BY NewVersion DEF NoPod, Exists
<1>2. \A i \in About(r) : Exists(Version(r, i))
  BY DEF InOrder, DeletedIsKnown
<1>3. FailedIsDead(r)' /\ DeletedIsKnown(r)'
  BY <1>1 DEF FailedIsDead, DeletedIsKnown, Dead, Failed, Exists
<1>4. OneChange(r)'
  <2> SUFFICES ASSUME NEW i \in About(r)', NEW j \in About(r)', i <= j,
                      ~Exists(Version(r, i)')
               PROVE  ~Exists(Version(r, j)')
    BY <1>1 DEF OneChange, Exists
  <2>1. i \notin About(r)
    BY <1>1, <1>2
  <2>2. i = j
    BY <1>1, <2>1
  <2> QED BY <2>2
<1>5. MayCreate(r)'
  <2>1. pc' # "idle" => Exists(sPods'[r])
    BY DEF InOrder, MayCreate, SameSync
  <2> QED BY <2>1 DEF MayCreate, Exists
<1>6. MayDelete(r)'
  BY <1>1 DEF MayDelete, Dead, Exists, Failed
<1> QED BY <1>3, <1>4, <1>5, <1>6 DEF InOrder

\* A sync creates a pod of which no version is on its way.
LEMMA CreatedInOrder ==
    ASSUME TypeOK, NEW r \in Replicas, SetPod(r, NewPod), UNCHANGED cPods, SameSync,
           InOrder(r), pc # "idle", ~Exists(sPods[r]), ~Exists(pods[r])
    PROVE  InOrder(r)'
<1>1. /\ pods'[r] = NewPod /\ Exists(NewPod) /\ ~NewPod.deleting /\ ~Failed(NewPod)
      /\ \A i \in About(r) : Version(r, i)' = Version(r, i)
      /\ \A i \in About(r)' :
           i \notin About(r) => /\ Version(r, i)' = NewPod
                                /\ \A j \in About(r)' : i <= j => i = j
  BY NewVersion DEF NewPod, NoPod, Exists, Failed
<1>2. \A i \in About(r) : ~Exists(Version(r, i)) /\ ~Failed(Version(r, i))
  BY DEF InOrder, MayCreate, Exists, Failed
<1>3. FailedIsDead(r)'
  <2>1. \A i \in About(r)' : ~Failed(Version(r, i)')
    BY <1>1, <1>2
  <2> QED BY <2>1 DEF FailedIsDead, Failed
<1>4. DeletedIsKnown(r)'
  BY <1>1 DEF DeletedIsKnown
<1>5. OneChange(r)'
  <2> SUFFICES ASSUME NEW i \in About(r)', NEW j \in About(r)', i <= j,
                      Exists(Version(r, i)')
               PROVE  Exists(Version(r, j)')
    BY <1>1 DEF OneChange, Exists
  <2>1. i \notin About(r)
    BY <1>1, <1>2
  <2>2. i = j
    BY <1>1, <2>1
  <2> QED BY <2>2
<1>6. MayCreate(r)'
  BY <1>1 DEF MayCreate, Exists
<1>7. MayDelete(r)'
  BY DEF MayDelete, SameSync, Exists
<1> QED BY <1>3, <1>4, <1>5, <1>6, <1>7 DEF InOrder

\* A delivery brings nothing new.
LEMMA DeliveredInOrder ==
    ASSUME TypeOK, DeliverPod, NEW r \in Replicas, InOrder(r)
    PROVE  InOrder(r)'
<1>1. PICK m \in [About(r)' -> About(r)] :
        /\ \A i, j \in About(r)' : i <= j => m[i] <= m[j]
        /\ \A i \in About(r)' : Version(r, i)' = Version(r, m[i])
  BY VersionDelivered
<1>2. pods' = pods /\ pc' = pc /\ sPods' = sPods
  BY DEF DeliverPod, api, locals
<1>3. \A i \in About(r)' : m[i] \in About(r)
  OBVIOUS
<1>4. FailedIsDead(r)'
  BY <1>1, <1>2, <1>3 DEF InOrder, FailedIsDead, Dead, Failed, Exists
<1>5. DeletedIsKnown(r)'
  BY <1>1, <1>2, <1>3 DEF InOrder, DeletedIsKnown, Exists
<1>6. OneChange(r)'
  BY <1>1, <1>2, <1>3 DEF InOrder, OneChange, Exists
<1>7. MayCreate(r)'
  BY <1>1, <1>2, <1>3 DEF InOrder, MayCreate, Exists
<1>8. MayDelete(r)'
  BY <1>1, <1>2, <1>3 DEF InOrder, MayDelete, Exists, Dead, Failed
<1> QED BY <1>4, <1>5, <1>6, <1>7, <1>8 DEF InOrder

\* A relist leaves one version, the stored one.
LEMMA RelistedInOrder ==
    ASSUME Restart, NEW r \in Replicas, ~Exists(pods[r]) => ~pods[r].deleting
    PROVE  InOrder(r)'
<1>1. pods' = pods /\ cPods' = pods /\ podEvents' = <<>> /\ pc' = "idle"
  BY DEF Restart, ResetLocals, api
<1>2. Len(podEvents') = 0
  BY <1>1
<1>3. \A i \in About(r)' : i = 0 /\ Version(r, i)' = pods[r]
  BY <1>1, <1>2 DEF About, Version
<1>4. FailedIsDead(r)' /\ DeletedIsKnown(r)' /\ OneChange(r)'
  BY <1>1, <1>3 DEF FailedIsDead, DeletedIsKnown, OneChange, Dead, Failed, Exists
<1>5. MayCreate(r)' /\ MayDelete(r)'
  BY <1>1 DEF MayCreate, MayDelete
<1> QED BY <1>4, <1>5 DEF InOrder

\* A sync that starts lists what the cache shows.
LEMMA ListedInOrder ==
    ASSUME TypeOK, PodsKept, NEW r \in Replicas, InOrder(r), StartSync \/ SameSync
    PROVE  InOrder(r)'
<1>1. /\ pods' = pods /\ About(r)' = About(r)
      /\ \A i \in About(r) : Version(r, i)' = Version(r, i)
  BY DEF PodsKept, About, Version
<1>2. FailedIsDead(r)' /\ DeletedIsKnown(r)' /\ OneChange(r)'
  BY <1>1 DEF InOrder, FailedIsDead, DeletedIsKnown, OneChange, Dead, Failed, Exists
<1>3. CASE SameSync
  BY <1>1, <1>2, <1>3 DEF InOrder, MayCreate, MayDelete, SameSync, Dead, Failed, Exists
<1>4. CASE StartSync
  <2>1. /\ 0 \in About(r) /\ Version(r, 0) = cPods[r] /\ sPods' = cPods
        /\ \A i \in About(r) : 0 <= i
    BY <1>4 DEF StartSync, ReadCaches, About, Version
  <2>2. MayCreate(r)'
    <3> SUFFICES ASSUME ~Exists(cPods[r])
                 PROVE  /\ ~pods[r].deleting
                        /\ ~Exists(pods[r]) => \A i \in About(r) : ~Exists(Version(r, i))
      BY <1>1, <2>1 DEF MayCreate, Exists
    <3>1. ~pods[r].deleting
      BY <2>1 DEF InOrder, DeletedIsKnown
    <3>2. ~Exists(pods[r]) => \A i \in About(r) : ~Exists(Version(r, i))
      BY <2>1 DEF InOrder, OneChange
    <3> QED BY <3>1, <3>2
  <2>3. MayDelete(r)'
    <3> SUFFICES ASSUME Exists(cPods[r])
                 PROVE  /\ Exists(pods[r]) => \A i \in About(r) : Exists(Version(r, i))
                        /\ Failed(cPods[r]) => Dead(pods[r])
      BY <1>1, <2>1 DEF MayDelete, Exists, Failed, Dead
    <3>1. Failed(cPods[r]) => Dead(pods[r])
      BY <2>1 DEF InOrder, FailedIsDead
    <3>2. Exists(pods[r]) => \A i \in About(r) : Exists(Version(r, i))
      BY <2>1 DEF InOrder, OneChange
    <3> QED BY <3>1, <3>2
  <2> QED BY <1>2, <2>2, <2>3 DEF InOrder
<1> QED BY <1>3, <1>4

-----------------------------------------------------------------------------
(* Restarts hit failed pods. *)

\* While nobody else deletes pods, every step keeps the versions of each in order.
LEMMA StepInOrder ==
    ASSUME TypeOK, OrderInv, Next, Calm', NEW r \in Replicas
    PROVE  InOrder(r)'
<1>1. Calm /\ InOrder(r) /\ \A q \in Replicas : ~UserDeletesPod(q)
  BY CalmBefore, NobodyDeletes DEF OrderInv, Calm
<1>2. CASE PodsKept
  <2>1. StartSync \/ SameSync
    BY ListedStep DEF SameSync, ResetLocals
  <2> QED BY <1>1, <1>2, <2>1, ListedInOrder
<1>3. CASE DeliverPod
  BY <1>1, <1>3, DeliveredInOrder
<1>4. CASE Restart
  BY <1>4, RelistedInOrder DEF OrderInv
<1>5. ASSUME NEW q \in Replicas, PodChanges(q) PROVE InOrder(r)'
  <2>1. UNCHANGED cPods
    BY <1>5 DEF PodChanges
  <2>2. PICK pod : SetPod(q, pod)
    BY <1>5, KubeletKeepsPod DEF PodChanges, UserDeletesPod, PodRemoved, SyncDeletes,
                                 SyncCreates, KubeletSets
  <2>3. SameSync
    <3>1. podEvents' # podEvents
      <4>1. podEvents' = Append(podEvents, [replica |-> q, pod |-> pod])
        BY <2>2 DEF SetPod
      <4>2. Len(podEvents') = Len(podEvents) + 1 /\ Len(podEvents) \in Nat
        BY <4>1 DEF TypeOK
      <4> QED BY <4>2
    <3>2. ~StartSync
      BY <3>1 DEF StartSync, streams
    <3> QED BY <3>2, ListedStep DEF SameSync, ResetLocals
  <2>4. CASE r # q
    BY <1>1, <2>1, <2>2, <2>3, <2>4, OtherInOrder
  <2>5. CASE r = q
    <3>1. CASE KubeletChanges(r)
      <4>1. PICK new : /\ SetPod(r, new)
                       /\ Exists(pods[r]) /\ Exists(new) /\ new.deleting = pods[r].deleting
                       /\ ~Failed(pods[r])
        BY <3>1, KubeletKeepsPod
      <4>2. Dead(pods[r]) => Dead(new)
        BY <4>1 DEF Dead
      <4> QED BY <1>1, <2>1, <2>3, <4>1, <4>2, ChangedInOrder
    <3>2. CASE PodRemoved(r)
      <4>1. SetPod(r, NoPod) /\ pods[r].deleting
        BY <1>1, <3>2 DEF PodRemoved, KubeletSets, Calm
      <4> QED BY <1>1, <2>1, <2>3, <4>1, RemovedInOrder
    <3>3. CASE SyncDeletes(r)
      <4> DEFINE new == [pods[r] EXCEPT !.deleting = TRUE]
      <4>1. SetPod(r, new) /\ Exists(pods[r])
        BY <3>3 DEF SyncDeletes, Deletable
      <4>2. new.deleting /\ new.phase = pods[r].phase
        BY DEF TypeOK, PodsType, PodType
      <4>3. Exists(new) /\ (Dead(pods[r]) => Dead(new))
        BY <4>1, <4>2 DEF Exists, Dead
      <4>4. Exists(sPods[r]) /\ pc # "idle"
        BY <3>3 DEF SyncDeletes, OrderInv, ActsFit
      <4> HIDE DEF new
      <4> QED BY <1>1, <2>1, <2>3, <4>1, <4>3, <4>4, ChangedInOrder
    <3>4. CASE SyncCreates(r)
      BY <1>1, <2>1, <2>3, <3>4, CreatedInOrder DEF SyncCreates
    <3> QED BY <1>1, <1>5, <2>5, <3>1, <3>2, <3>3, <3>4 DEF PodChanges
  <2> QED BY <2>4, <2>5
<1> QED BY <1>2, <1>3, <1>4, <1>5, PodStep

\* A new job's pods are in order: there are none.
LEMMA InitOrder == Init => OrderInv
<1> SUFFICES ASSUME Init PROVE OrderInv
  OBVIOUS
<1>1. /\ spec \in JobSpecs /\ left = Budget[spec] /\ job.state = "live"
      /\ pods = [r \in Replicas |-> NoPod] /\ cPods = pods /\ podEvents = <<>>
      /\ pc = "idle"
  BY DEF Init
<1>2. left["remove"] \in Nat /\ left["remove"] <= Budget[spec]["remove"]
  BY <1>1, BoundsAssumption DEF Mishaps
<1>3. \A r \in Replicas : pods[r] = NoPod /\ ~Exists(NoPod) /\ ~NoPod.deleting /\ ~Failed(NoPod)
  BY <1>1 DEF NoPod, Exists, Failed
<1>4. ASSUME NEW r \in Replicas PROVE InOrder(r)
  <2>1. Len(podEvents) = 0
    BY <1>1
  <2>2. \A i \in About(r) : i = 0 /\ Version(r, i) = NoPod
    BY <1>1, <1>3, <2>1 DEF About, Version
  <2>3. FailedIsDead(r) /\ DeletedIsKnown(r) /\ OneChange(r)
    BY <1>3, <2>2 DEF FailedIsDead, DeletedIsKnown, OneChange
  <2> QED BY <1>1, <2>3 DEF InOrder, MayCreate, MayDelete
<1> QED BY <1>1, <1>2, <1>3, <1>4 DEF OrderInv, ActsFit, GoneIsClosed

\* Every step keeps the order.
LEMMA StepOrder == IInv /\ OrderInv /\ [Next]_vars => OrderInv'
<1>1. ASSUME IInv, OrderInv, Next PROVE OrderInv'
  <2>1. TypeOK
    BY <1>1 DEF IInv
  <2>2. left'["remove"] <= Budget[spec']["remove"]
    BY <1>1, <2>1, StepBudget DEF OrderInv
  <2>3. \A r \in Replicas : ~Exists(pods'[r]) => ~pods'[r].deleting
    BY <1>1, <2>1, AbsentStays DEF OrderInv
  <2>4. ActsFit'
    BY <1>1, <2>1, StepActsFit DEF OrderInv
  <2>5. GoneIsClosed'
    BY <1>1, StepGoneIsClosed DEF OrderInv
  <2>6. Calm' => \A r \in Replicas : InOrder(r)'
    BY <1>1, <2>1, StepInOrder
  <2> QED BY <2>2, <2>3, <2>4, <2>5, <2>6 DEF OrderInv, Exists
<1>2. ASSUME OrderInv, UNCHANGED vars PROVE OrderInv'
  <2>1. UNCHANGED <<spec, left, job, pods, podEvents, cJob, cPods, pc, sPods, acts, todo>>
    BY <1>2 DEF vars, api, streams, caches, locals
  <2>2. \A r \in Replicas : About(r)' = About(r) /\ \A i \in About(r) : Version(r, i)' = Version(r, i)
    BY <2>1 DEF About, Version
  <2>3. ASSUME NEW r \in Replicas, InOrder(r) PROVE InOrder(r)'
    <3>1. FailedIsDead(r)' /\ DeletedIsKnown(r)' /\ OneChange(r)'
      BY <2>1, <2>2, <2>3
         DEF InOrder, FailedIsDead, DeletedIsKnown, OneChange, Dead, Failed, Exists
    <3>2. MayCreate(r)' /\ MayDelete(r)'
      BY <2>1, <2>2, <2>3 DEF InOrder, MayCreate, MayDelete, Dead, Failed, Exists
    <3> QED BY <3>1, <3>2 DEF InOrder
  <2>4. (Calm' <=> Calm) /\ (Untouched' <=> Untouched)
    BY <2>1 DEF Calm, Untouched
  <2>5. ActsFit' /\ GoneIsClosed'
    BY <1>2, <2>1, <2>4 DEF OrderInv, ActsFit, GoneIsClosed, OnlyCleans, Closed, Restarts, Exists
  <2> QED BY <1>2, <2>1, <2>3, <2>4, <2>5 DEF OrderInv, Exists
<1> QED BY <1>1, <1>2

\* Only reconcilePods restarts replicas.
LEMMA OnlySyncRestarts ==
    ASSUME Next, retries' # retries
    PROVE  \E q \in Replicas : RestartPod(q) /\ DeletePodCall(q) /\ Deletable(q)
<1>1. ASSUME NEW r \in Replicas,
             \/ PodStarts(r) \/ PodSucceeds(r) \/ ContainerCompletes(r) \/ ContainerFails(r)
             \/ PodEvicted(r) \/ UserDeletesPod(r) \/ PodRemoved(r)
      PROVE  FALSE
  <2>1. \E pod : KubeletSets(r, pod)
    BY <1>1 DEF PodStarts, PodSucceeds, ContainerCompletes, ContainerFails,
                PodEvicted, UserDeletesPod, PodRemoved
  <2> QED BY <2>1 DEF KubeletSets
<1>2. ~Environment
  BY <1>1 DEF Environment, UserEditsJob, UserDeletesJob, DeletingJobGoes, DeadlinePasses,
              TTLPasses, history
<1>3. ~(Deliver \/ Timers \/ Crash)
  BY DEF Deliver, DeliverJob, DeliverPod, DeliverService, Timers, Resync,
         ExpectationExpires, Crash, Restart, history
<1>4. PICK q \in Replicas : RestartPod(q)
  BY <1>2, <1>3
     DEF Next, Sync, JobIsGone, SkipSync, StartSync, CleanService, TTLPanics, Restart,
         EndCleaning, DeleteJob, EndType, CreateService, StatusUnchanged, UpdateStatus,
         StartType, CleanPod, CreatePod, history
<1> QED BY <1>4 DEF RestartPod

\* While no user deletes pods or the job, a restart by name hits a failed pod and
\* never the one that replaced it (reconcilePods, DeletePod).
THEOREM RestartsHitFailedPods == Safety => ReplacesOnlyFailed
<1> DEFINE A == \A r \in Replicas :
                  Untouched /\ retries' # retries /\ pods'[r] # pods[r] => Failed(pods[r])
<1>1. IInv /\ OrderInv /\ [Next]_vars => [A]_vars
  <2> SUFFICES ASSUME IInv, OrderInv, Next, NEW r \in Replicas,
                      Untouched, retries' # retries, pods'[r] # pods[r]
               PROVE  Failed(pods[r])
    OBVIOUS
  <2>1. PICK q \in Replicas : RestartPod(q) /\ DeletePodCall(q) /\ Deletable(q)
    BY OnlySyncRestarts
  <2>2. pc = "calls" /\ q \in acts /\ Exists(sPods[q])
    BY <2>1 DEF RestartPod, NextPod
  <2>3. q = r
    BY <2>1 DEF DeletePodCall, SetPod, IInv, TypeOK, PodsType
  <2>4. Calm
    BY <2>2 DEF OrderInv, GoneIsClosed, OnlyCleans, Calm
  <2>5. Restarts(r)
    BY <2>2, <2>3 DEF OrderInv, ActsFit
  <2>6. Failed(sPods[r])
    BY <2>5 DEF Restarts, Failed
  <2>7. Dead(pods[r])
    BY <2>2, <2>3, <2>4, <2>6 DEF OrderInv, InOrder, MayDelete
  <2> QED BY <2>1, <2>3, <2>7 DEF Dead, Deletable
<1>2. Safety => []OrderInv
  BY InitOrder, StepOrder, Invariance, PTL DEF Safety
<1>3. Safety => [][A]_vars
  BY <1>1, <1>2, Invariance, PTL DEF Safety
<1> QED BY <1>3 DEF ReplacesOnlyFailed
=============================================================================
