----------------------------- MODULE WorkQueue -----------------------------
(***************************************************************************)
(* The rate-limited work queue of client-go and the workers of the         *)
(* PyTorch controller that drain it.                                       *)
(*                                                                         *)
(* queue/dirty/processing are the three collections of workqueue.Type;     *)
(* waiting stands for the delaying queue (its channel and its heap, which  *)
(* holds one entry per key): times are abstracted, an entry may become     *)
(* ready at any moment.  failures is the counter of the per-item rate      *)
(* limiter, saturated at MaxFailures.  Every method that takes q.cond.L is *)
(* one action.                                                             *)
(***************************************************************************)
EXTENDS Naturals, Sequences

CONSTANTS Keys, Workers, NoKey,
          MaxFailures   \* where the model stops counting requeues

ASSUME NoKeyAssumption == NoKey \notin Keys
ASSUME MaxFailuresAssumption == MaxFailures \in Nat \ {0}

VARIABLES queue, dirty, processing,  \* workqueue.Type
          waiting,                   \* delayingType
          failures,                  \* ItemExponentialFailureRateLimiter
          shuttingDown,
          pc, held                   \* each worker and the key it works on

qvars == <<queue, dirty, processing>>
vars == <<qvars, waiting, failures, shuttingDown, pc, held>>

Init ==
    /\ queue = <<>>
    /\ dirty = {}
    /\ processing = {}
    /\ waiting = {}
    /\ failures = [k \in Keys |-> 0]
    /\ shuttingDown = FALSE
    /\ pc = [w \in Workers |-> "get"]
    /\ held = [w \in Workers |-> NoKey]

-----------------------------------------------------------------------------
(* The methods of the queue. *)

AddBusyMutant(k) ==
    IF shuttingDown \/ k \in dirty
    THEN UNCHANGED qvars
    ELSE /\ dirty' = dirty \cup {k}
         /\ queue' = Append(queue, k)
         /\ UNCHANGED processing

Add(k) ==
    IF shuttingDown \/ k \in dirty
    THEN UNCHANGED qvars
    ELSE /\ dirty' = dirty \cup {k}
         /\ queue' = IF k \in processing THEN queue ELSE Append(queue, k)
         /\ UNCHANGED processing

\* AddAfter with a positive delay; a non-positive one is Add.
AddAfter(k) == waiting' = IF shuttingDown THEN waiting ELSE waiting \cup {k}

AddRateLimited(k) ==
    /\ failures' = [failures EXCEPT ![k] = IF @ < MaxFailures THEN @ + 1 ELSE @]
    /\ AddAfter(k)

DoneMutant(k) ==
    /\ processing' = processing \ {k}
    /\ UNCHANGED <<queue, dirty>>

DoneKeepsMutant(k) ==
    /\ queue' = IF k \in dirty THEN Append(queue, k) ELSE queue
    /\ UNCHANGED <<dirty, processing>>

Done(k) ==
    /\ processing' = processing \ {k}
    /\ queue' = IF k \in dirty THEN Append(queue, k) ELSE queue
    /\ UNCHANGED dirty

-----------------------------------------------------------------------------
(* Informer handlers, the waiting loop and the end of Run. *)

\* An event handler or resync calls WorkQueue.Add.
HandlerAdds(k) ==
    /\ Add(k)
    /\ UNCHANGED <<waiting, failures, shuttingDown, pc, held>>

\* updatePyTorchJob arms the deadline of a job whose deadline changed.
HandlerAddsAfter(k) ==
    /\ AddAfter(k)
    /\ UNCHANGED <<qvars, failures, shuttingDown, pc, held>>

WaitingFiresMutant(k) ==
    /\ k \in waiting
    /\ waiting' = waiting \ {k}
    /\ UNCHANGED <<qvars, failures, shuttingDown, pc, held>>

\* waitingLoop moves a ready entry to the queue; it ends with the queue.
WaitingFires(k) ==
    /\ ~shuttingDown
    /\ k \in waiting
    /\ Add(k)
    /\ waiting' = waiting \ {k}
    /\ UNCHANGED <<failures, shuttingDown, pc, held>>

\* Run returns when stopCh closes, and its deferred call shuts the queue down.
ShutDown ==
    /\ ~shuttingDown
    /\ shuttingDown' = TRUE
    /\ UNCHANGED <<qvars, waiting, failures, pc, held>>

-----------------------------------------------------------------------------
(* A worker: runWorker and processNextWorkItem. *)

GetMutant(w) ==
    /\ pc[w] = "get"
    /\ queue # <<>>
    /\ LET k == Head(queue) IN
         /\ queue' = Tail(queue)
         /\ processing' = processing \cup {k}
         /\ held' = [held EXCEPT ![w] = k]
    /\ pc' = [pc EXCEPT ![w] = "sync"]
    /\ UNCHANGED <<dirty, waiting, failures, shuttingDown>>

Get(w) ==
    /\ pc[w] = "get"
    /\ queue # <<>>
    /\ LET k == Head(queue) IN
         /\ queue' = Tail(queue)
         /\ processing' = processing \cup {k}
         /\ dirty' = dirty \ {k}
         /\ held' = [held EXCEPT ![w] = k]
    /\ pc' = [pc EXCEPT ![w] = "sync"]
    /\ UNCHANGED <<waiting, failures, shuttingDown>>

ExitMutant(w) ==
    /\ pc[w] = "get"
    /\ shuttingDown
    /\ pc' = [pc EXCEPT ![w] = "exited"]
    /\ UNCHANGED <<qvars, waiting, failures, shuttingDown, held>>

\* Get returns shutdown = true and the worker's loop ends.
Exit(w) ==
    /\ pc[w] = "get"
    /\ queue = <<>>
    /\ shuttingDown
    /\ pc' = [pc EXCEPT ![w] = "exited"]
    /\ UNCHANGED <<qvars, waiting, failures, shuttingDown, held>>

\* While it syncs, the handler itself delays the key: cleanupPyTorchJob waits
\* for the TTL, updateStatusSingle for the active deadline.
SyncWaitsForTTL(w) ==
    /\ pc[w] = "sync"
    /\ AddRateLimited(held[w])
    /\ UNCHANGED <<qvars, shuttingDown, pc, held>>

SyncWaitsForDeadline(w) ==
    /\ pc[w] = "sync"
    /\ AddAfter(held[w])
    /\ UNCHANGED <<qvars, failures, shuttingDown, pc, held>>

SyncSucceeds(w) ==
    /\ pc[w] = "sync"
    /\ failures' = [failures EXCEPT ![held[w]] = 0]
    /\ pc' = [pc EXCEPT ![w] = "done"]
    /\ UNCHANGED <<qvars, waiting, shuttingDown, held>>

SyncFails(w) ==
    /\ pc[w] = "sync"
    /\ AddRateLimited(held[w])
    /\ pc' = [pc EXCEPT ![w] = "done"]
    /\ UNCHANGED <<qvars, shuttingDown, held>>

\* The job is gone from the cache, or cannot be read: neither Forget nor
\* AddRateLimited is called.
JobNotRead(w) ==
    /\ pc[w] = "sync"
    /\ pc' = [pc EXCEPT ![w] = "done"]
    /\ UNCHANGED <<qvars, waiting, failures, shuttingDown, held>>

FinishMutant(w) ==
    /\ pc[w] = "done"
    /\ Done(held[w])
    /\ pc' = [pc EXCEPT ![w] = "get"]
    /\ UNCHANGED <<held, waiting, failures, shuttingDown>>

\* The deferred Done, after which the worker asks for the next key.
Finish(w) ==
    /\ pc[w] = "done"
    /\ Done(held[w])
    /\ pc' = [pc EXCEPT ![w] = "get"]
    /\ held' = [held EXCEPT ![w] = NoKey]
    /\ UNCHANGED <<waiting, failures, shuttingDown>>

Worker(w) ==
    \/ Get(w) \/ Exit(w) \/ Finish(w)
    \/ SyncWaitsForTTL(w) \/ SyncWaitsForDeadline(w)
    \/ SyncSucceeds(w) \/ SyncFails(w) \/ JobNotRead(w)

Next ==
    \/ \E k \in Keys : HandlerAdds(k) \/ HandlerAddsAfter(k) \/ WaitingFires(k)
    \/ \E w \in Workers : Worker(w)
    \/ ShutDown

\* A worker runs whenever it can, a sync ends, and a timer fires.
Fairness ==
    /\ \A w \in Workers :
         /\ WF_vars(Get(w) \/ Exit(w))
         /\ WF_vars(SyncSucceeds(w) \/ SyncFails(w) \/ JobNotRead(w))
         /\ WF_vars(Finish(w))
    /\ \A k \in Keys : WF_vars(WaitingFires(k))

Spec == Init /\ [][Next]_vars /\ Fairness

-----------------------------------------------------------------------------
(* Properties. *)

States == {"get", "sync", "done", "exited"}
Holding(w) == pc[w] \in {"sync", "done"}

\* Every variable has its type, and only a working worker holds a key.
TypeOK ==
    /\ queue \in Seq(Keys)
    /\ dirty \subseteq Keys
    /\ processing \subseteq Keys
    /\ waiting \subseteq Keys
    /\ failures \in [Keys -> 0 .. MaxFailures]
    /\ shuttingDown \in BOOLEAN
    /\ pc \in [Workers -> States]
    /\ held \in [Workers -> Keys \cup {NoKey}]
    /\ \A w \in Workers : held[w] # NoKey <=> Holding(w)

\* A job is never synced by two workers at once: syncPyTorchJob "is not meant
\* to be invoked concurrently with the same key" (controller.go).
OneWorkerPerKey ==
    \A v, w \in Workers : v # w /\ Holding(v) => held[v] # held[w]

\* A key that needs work and that nobody works on stands in the queue, once,
\* and nothing else stands there: no mark is ever lost, and none is doubled.
QueueHoldsIdleDirty ==
    /\ \A i \in 1 .. Len(queue) : queue[i] \in dirty \ processing
    /\ \A i, j \in 1 .. Len(queue) : queue[i] = queue[j] => i = j
    /\ \A k \in dirty \ processing : \E i \in 1 .. Len(queue) : queue[i] = k

\* The keys marked as being processed are exactly those the workers hold.
ProcessingIsHeld ==
    \A k \in Keys : k \in processing <=> \E w \in Workers : Holding(w) /\ held[w] = k

\* Once every worker has left after a shutdown nothing marked is left behind.
DrainedAtExit ==
    (\A w \in Workers : pc[w] = "exited") => Workers = {} \/ dirty = {}

\* An event for a job leads to a sync that starts after it, also when it
\* arrives while the job is being synced or the queue is draining: only Get
\* clears the mark.
MarkedKeyIsTaken == \A k \in Keys : k \in dirty ~> k \notin dirty

\* A failed sync, a TTL or a deadline brings the key back: it is synced at a
\* later time, unless the process stops first.
DelayedKeyIsSynced ==
    \A k \in Keys : k \in waiting ~>
        (shuttingDown \/ \E w \in Workers : pc[w] = "sync" /\ held[w] = k)

\* The queue implements the abstract hand-over of job keys.
Work == INSTANCE JobWork WITH pending <- dirty, busy <- processing
WorkSafety == Work!Safety
WorkSpec == Work!Spec
=============================================================================
