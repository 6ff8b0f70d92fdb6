-------------------------- MODULE WorkQueueProofs --------------------------
(***************************************************************************)
(* The safety properties of WorkQueue for any sets of keys and workers.    *)
(*                                                                         *)
(* None of them is inductive alone: that no two workers hold one key rests *)
(* on the queue holding only keys that are not being processed, which      *)
(* rests on each key standing there once, and on processing being exactly  *)
(* what the workers hold.  IInv is their conjunction.                      *)
(***************************************************************************)
EXTENDS WorkQueue, TLAPS

\* A worker leaves only a queue that is shutting down.
ExitedAfterShutDown == \A w \in Workers : pc[w] = "exited" => shuttingDown

QueueInv ==
    /\ TypeOK
    /\ OneWorkerPerKey
    /\ QueueHoldsIdleDirty
    /\ ProcessingIsHeld

IInv == QueueInv /\ ExitedAfterShutDown /\ DrainedAtExit

-----------------------------------------------------------------------------
(* What the methods of the queue do to what it holds. *)

\* Every element of s is idle and dirty, none twice, and none is missing.
Holds(s, K) ==
    /\ \A i \in 1 .. Len(s) : s[i] \in K
    /\ \A i, j \in 1 .. Len(s) : s[i] = s[j] => i = j
    /\ \A k \in K : \E i \in 1 .. Len(s) : s[i] = k

\* Appending a new key to a queue that holds K makes it hold that key too.
LEMMA AppendHolds ==
    ASSUME NEW S, NEW s \in Seq(S), NEW K, NEW k \in S, k \notin K, Holds(s, K)
    PROVE  Append(s, k) \in Seq(S) /\ Holds(Append(s, k), K \cup {k})
<1> DEFINE t == Append(s, k)
<1>1. /\ t \in Seq(S)
      /\ Len(t) = Len(s) + 1
      /\ Len(s) \in Nat
      /\ \A i \in 1 .. Len(s) : t[i] = s[i]
      /\ t[Len(s) + 1] = k
  OBVIOUS
<1>2. \A i \in 1 .. Len(t) : i \in 1 .. Len(s) \/ i = Len(s) + 1
  BY <1>1
<1>3. \A i \in 1 .. Len(t) : t[i] \in K \cup {k}
  BY <1>1, <1>2 DEF Holds
<1>4. \A i, j \in 1 .. Len(t) : t[i] = t[j] => i = j
  BY <1>1, <1>2 DEF Holds
<1>5. ASSUME NEW x \in K \cup {k} PROVE \E i \in 1 .. Len(t) : t[i] = x
  <2>1. CASE x = k
    BY <1>1, <2>1
  <2>2. CASE x \in K
    <3>1. PICK i \in 1 .. Len(s) : s[i] = x
      BY <2>2 DEF Holds
    <3>2. i \in 1 .. Len(t) /\ t[i] = x
      BY <1>1, <3>1
    <3> QED BY <3>2
  <2> QED BY <2>1, <2>2
<1> QED BY <1>1, <1>3, <1>4, <1>5 DEF Holds

\* Taking the head of a queue that holds K leaves the others of K.
LEMMA TailHolds ==
    ASSUME NEW S, NEW s \in Seq(S), NEW K, s # <<>>, Holds(s, K)
    PROVE  /\ Head(s) \in S /\ Head(s) \in K
           /\ Tail(s) \in Seq(S)
           /\ Holds(Tail(s), K \ {Head(s)})
<1> DEFINE t == Tail(s)
<1>1. /\ t \in Seq(S)
      /\ Len(s) \in Nat \ {0}
      /\ Len(t) = Len(s) - 1
      /\ \A i \in 1 .. Len(t) : t[i] = s[i + 1]
      /\ Head(s) = s[1]
      /\ s[1] \in S
  OBVIOUS
<1>2. \A i \in 1 .. Len(t) : i + 1 \in 1 .. Len(s) /\ i + 1 # 1
  BY <1>1
<1>3. Head(s) \in K
  BY <1>1 DEF Holds
<1>4. \A i \in 1 .. Len(t) : t[i] \in K \ {Head(s)}
  BY <1>1, <1>2 DEF Holds
<1>5. \A i, j \in 1 .. Len(t) : t[i] = t[j] => i = j
  BY <1>1, <1>2 DEF Holds
<1>6. ASSUME NEW x \in K \ {Head(s)} PROVE \E i \in 1 .. Len(t) : t[i] = x
  <2>1. PICK j \in 1 .. Len(s) : s[j] = x
    BY DEF Holds
  <2>2. j # 1
    BY <1>1, <2>1
  <2>3. j - 1 \in 1 .. Len(t) /\ t[j - 1] = x
    BY <1>1, <2>1, <2>2
  <2> QED BY <2>3
<1> QED BY <1>1, <1>3, <1>4, <1>5, <1>6 DEF Holds

\* The invariant of the queue is that it holds the idle dirty keys.
LEMMA QueueHolds == QueueHoldsIdleDirty <=> Holds(queue, dirty \ processing)
BY DEF QueueHoldsIdleDirty, Holds

-----------------------------------------------------------------------------

\* The empty queue satisfies the inductive invariant.
LEMMA InitIInv == Init => IInv
<1> SUFFICES ASSUME Init PROVE IInv
  OBVIOUS
<1>1. TypeOK
  <2>1. failures \in [Keys -> 0 .. MaxFailures]
    BY MaxFailuresAssumption DEF Init
  <2>2. queue \in Seq(Keys)
    BY DEF Init
  <2> QED BY <2>1, <2>2 DEF Init, TypeOK, States, Holding
<1>2. OneWorkerPerKey /\ ProcessingIsHeld /\ ExitedAfterShutDown
  BY DEF Init, OneWorkerPerKey, ProcessingIsHeld, ExitedAfterShutDown, Holding
<1>3. QueueHoldsIdleDirty
  BY DEF Init, QueueHoldsIdleDirty
<1>4. DrainedAtExit
  BY DEF Init, DrainedAtExit
<1> QED BY <1>1, <1>2, <1>3, <1>4 DEF IInv, QueueInv

\* Add keeps what the queue holds.
LEMMA AddKeeps ==
    ASSUME QueueInv, NEW k \in Keys, Add(k)
    PROVE  /\ queue' \in Seq(Keys)
           /\ dirty' \subseteq Keys
           /\ processing' = processing
           /\ QueueHoldsIdleDirty'
<1>1. /\ queue \in Seq(Keys) /\ dirty \subseteq Keys
      /\ Holds(queue, dirty \ processing)
  BY QueueHolds DEF QueueInv, TypeOK
<1>2. CASE shuttingDown \/ k \in dirty
  <2>1. UNCHANGED qvars
    BY <1>2 DEF Add
  <2> QED BY <1>1, <2>1 DEF QueueInv, QueueHoldsIdleDirty, qvars
<1>3. CASE ~shuttingDown /\ k \notin dirty /\ k \in processing
  <2>1. dirty' = dirty \cup {k} /\ queue' = queue /\ processing' = processing
    BY <1>3 DEF Add
  <2>2. dirty' \ processing' = dirty \ processing
    BY <1>3, <2>1
  <2> QED BY <1>1, <2>1, <2>2 DEF QueueHoldsIdleDirty, Holds
<1>4. CASE ~shuttingDown /\ k \notin dirty /\ k \notin processing
  <2>1. dirty' = dirty \cup {k} /\ queue' = Append(queue, k) /\ processing' = processing
    BY <1>4 DEF Add
  <2>2. dirty' \ processing' = (dirty \ processing) \cup {k}
    BY <1>4, <2>1
  <2>3. k \notin dirty \ processing
    BY <1>4
  <2>4. queue' \in Seq(Keys) /\ Holds(queue', dirty' \ processing')
    BY <1>1, <2>1, <2>2, <2>3, AppendHolds
  <2> QED BY <1>1, <2>1, <2>4 DEF QueueHoldsIdleDirty, Holds
<1> QED BY <1>2, <1>3, <1>4

-----------------------------------------------------------------------------
(* Steps that touch neither the queue nor what a worker holds. *)

Quiet ==
    /\ UNCHANGED <<qvars, held>>
    /\ \A w \in Workers : Holding(w)' <=> Holding(w)
    /\ \A w \in Workers : pc'[w] = "exited" <=> pc[w] = "exited"
    /\ shuttingDown => shuttingDown'

\* A step that leaves the queue and what the workers hold alone keeps the invariant.
LEMMA QuietKeeps == IInv /\ TypeOK' /\ Quiet => IInv'
<1> SUFFICES ASSUME IInv, TypeOK', Quiet PROVE IInv'
  OBVIOUS
<1>1. OneWorkerPerKey'
  BY DEF IInv, QueueInv, OneWorkerPerKey, Quiet
<1>2. ProcessingIsHeld'
  BY DEF IInv, QueueInv, ProcessingIsHeld, Quiet, qvars
<1>3. QueueHoldsIdleDirty'
  BY DEF IInv, QueueInv, QueueHoldsIdleDirty, Quiet, qvars
<1>4. ExitedAfterShutDown' /\ DrainedAtExit'
  BY DEF IInv, ExitedAfterShutDown, DrainedAtExit, Quiet, qvars
<1> QED BY <1>1, <1>2, <1>3, <1>4 DEF IInv, QueueInv

\* A worker that ends its sync, or delays its key while it syncs.
SyncStep(w) ==
    \/ SyncWaitsForTTL(w) \/ SyncWaitsForDeadline(w)
    \/ SyncSucceeds(w) \/ SyncFails(w) \/ JobNotRead(w)

\* The steps inside a sync, Forget and AddRateLimited included, are quiet.
LEMMA SyncStepIsQuiet ==
    ASSUME TypeOK, NEW w \in Workers, SyncStep(w)
    PROVE  Quiet /\ TypeOK'
<1>1. pc[w] = "sync" /\ UNCHANGED <<qvars, held, shuttingDown>>
  BY DEF SyncStep, SyncWaitsForTTL, SyncWaitsForDeadline, SyncSucceeds,
         SyncFails, JobNotRead
<1>2. pc' = pc \/ pc' = [pc EXCEPT ![w] = "done"]
  BY DEF SyncStep, SyncWaitsForTTL, SyncWaitsForDeadline, SyncSucceeds,
         SyncFails, JobNotRead
<1>3. pc' \in [Workers -> States]
  BY <1>2 DEF TypeOK, States
<1>4. \A v \in Workers : /\ Holding(v)' <=> Holding(v)
                         /\ pc'[v] = "exited" <=> pc[v] = "exited"
  BY <1>1, <1>2 DEF TypeOK, Holding
<1>5. held[w] \in Keys
  BY <1>1 DEF TypeOK, Holding
<1>6. AddRateLimited(held[w]) => failures' \in [Keys -> 0 .. MaxFailures]
  <2>1. SUFFICES ASSUME AddRateLimited(held[w])
                 PROVE  failures' \in [Keys -> 0 .. MaxFailures]
    OBVIOUS
  <2>2. failures[held[w]] \in 0 .. MaxFailures
    BY <1>5 DEF TypeOK
  <2>3. (IF failures[held[w]] < MaxFailures THEN failures[held[w]] + 1
         ELSE failures[held[w]]) \in 0 .. MaxFailures
    BY <2>2, MaxFailuresAssumption
  <2> QED BY <1>5, <2>1, <2>3 DEF AddRateLimited, TypeOK
<1>7. failures' \in [Keys -> 0 .. MaxFailures]
  <2>1. CASE SyncSucceeds(w)
    <3>1. 0 \in 0 .. MaxFailures
      BY MaxFailuresAssumption
    <3> QED BY <2>1, <3>1 DEF SyncSucceeds, TypeOK
  <2>2. CASE SyncWaitsForTTL(w) \/ SyncFails(w)
    BY <1>6, <2>2 DEF SyncWaitsForTTL, SyncFails
  <2>3. CASE SyncWaitsForDeadline(w) \/ JobNotRead(w)
    BY <2>3 DEF SyncWaitsForDeadline, JobNotRead, TypeOK
  <2> QED BY <2>1, <2>2, <2>3 DEF SyncStep
<1>8. waiting' \subseteq Keys
  BY <1>5 DEF SyncStep, SyncWaitsForTTL, SyncWaitsForDeadline, SyncSucceeds,
              SyncFails, JobNotRead, AddRateLimited, AddAfter, TypeOK
<1>9. TypeOK'
  BY <1>1, <1>3, <1>4, <1>7, <1>8 DEF TypeOK, qvars
<1> QED BY <1>1, <1>4, <1>9 DEF Quiet

\* ShutDown only raises its flag.
LEMMA ShutDownIsQuiet == TypeOK /\ ShutDown => Quiet /\ TypeOK'
BY DEF TypeOK, ShutDown, Quiet, qvars, Holding

\* AddAfter touches the delaying queue only.
LEMMA AddsAfterIsQuiet ==
    ASSUME TypeOK, NEW k \in Keys, HandlerAddsAfter(k)
    PROVE  Quiet /\ TypeOK'
BY DEF TypeOK, HandlerAddsAfter, AddAfter, Quiet, qvars, Holding

-----------------------------------------------------------------------------
(* Steps that change the queue. *)

\* A key is added: by a handler, or by the waiting loop.
LEMMA AddingKeeps ==
    ASSUME IInv, NEW k \in Keys, Add(k), waiting' \subseteq Keys,
           UNCHANGED <<failures, shuttingDown, pc, held>>
    PROVE  IInv'
<1>1. /\ queue' \in Seq(Keys) /\ dirty' \subseteq Keys
      /\ processing' = processing /\ QueueHoldsIdleDirty'
  BY AddKeeps DEF IInv
<1>2. TypeOK'
  BY <1>1 DEF IInv, QueueInv, TypeOK, Holding
<1>3. OneWorkerPerKey' /\ ProcessingIsHeld' /\ ExitedAfterShutDown'
  BY <1>1 DEF IInv, QueueInv, OneWorkerPerKey, ProcessingIsHeld,
              ExitedAfterShutDown, Holding
<1>4. DrainedAtExit'
  <2> SUFFICES ASSUME \A w \in Workers : pc[w] = "exited", Workers # {}
               PROVE  dirty' = {}
    BY DEF DrainedAtExit
  <2>1. shuttingDown
    BY DEF IInv, ExitedAfterShutDown
  <2> QED BY <2>1 DEF IInv, DrainedAtExit, Add, qvars
<1> QED BY <1>1, <1>2, <1>3, <1>4 DEF IInv, QueueInv

\* Get moves one key from the queue into the hands of one worker.
LEMMA GetKeeps ==
    ASSUME IInv, NEW w \in Workers, Get(w)
    PROVE  IInv'
<1> DEFINE k == Head(queue)
<1>1. /\ pc[w] = "get" /\ queue # <<>>
      /\ queue' = Tail(queue)
      /\ processing' = processing \cup {k}
      /\ dirty' = dirty \ {k}
      /\ held' = [held EXCEPT ![w] = k]
      /\ pc' = [pc EXCEPT ![w] = "sync"]
      /\ UNCHANGED <<waiting, failures, shuttingDown>>
  BY DEF Get
<1>2. TypeOK /\ Holds(queue, dirty \ processing)
  BY QueueHolds DEF IInv, QueueInv
<1>3. queue \in Seq(Keys)
  BY <1>2 DEF TypeOK
<1>4. /\ k \in Keys /\ k \in dirty \ processing
      /\ queue' \in Seq(Keys)
      /\ Holds(queue', (dirty \ processing) \ {k})
  BY <1>1, <1>2, <1>3, TailHolds
<1>5. dirty' \ processing' = (dirty \ processing) \ {k}
  BY <1>1
<1>6. QueueHoldsIdleDirty'
  BY <1>4, <1>5 DEF QueueHoldsIdleDirty, Holds
<1>7. \A v \in Workers : /\ Holding(v)' <=> (Holding(v) \/ v = w)
                         /\ held'[v] = IF v = w THEN k ELSE held[v]
  BY <1>1, <1>2 DEF TypeOK, Holding
<1>8. TypeOK'
  <2>1. held' \in [Workers -> Keys \cup {NoKey}] /\ pc' \in [Workers -> States]
    BY <1>1, <1>2, <1>4 DEF TypeOK, States
  <2>2. \A v \in Workers : held'[v] # NoKey <=> Holding(v)'
    BY <1>2, <1>4, <1>7, NoKeyAssumption DEF TypeOK
  <2> QED BY <1>1, <1>2, <1>4, <2>1, <2>2 DEF TypeOK
<1>9. OneWorkerPerKey'
  <2>1. \A v \in Workers : Holding(v) => held[v] \in processing
    BY <1>2 DEF IInv, QueueInv, ProcessingIsHeld, TypeOK
  <2>2. \A u, v \in Workers : u # v /\ Holding(u) => held[u] # held[v]
    BY DEF IInv, QueueInv, OneWorkerPerKey
  <2>3. SUFFICES ASSUME NEW u \in Workers, NEW v \in Workers, u # v, Holding(u)'
                 PROVE  held'[u] # held'[v]
    BY DEF OneWorkerPerKey
  <2>4. held[v] # k
    BY <1>2, <1>4, <2>1, NoKeyAssumption DEF TypeOK
  <2> QED BY <1>4, <1>7, <2>1, <2>2, <2>3, <2>4
<1>10. ProcessingIsHeld'
  BY <1>1, <1>2, <1>4, <1>7 DEF IInv, QueueInv, ProcessingIsHeld, TypeOK, Holding
<1>11. ExitedAfterShutDown' /\ DrainedAtExit'
  BY <1>1, <1>2 DEF IInv, ExitedAfterShutDown, DrainedAtExit, TypeOK
<1> QED BY <1>6, <1>8, <1>9, <1>10, <1>11 DEF IInv, QueueInv

\* Done gives the key back, and queues it again when it was marked meanwhile.
LEMMA FinishKeeps ==
    ASSUME IInv, NEW w \in Workers, Finish(w)
    PROVE  IInv'
<1> DEFINE k == held[w]
<1>1. /\ pc[w] = "done"
      /\ processing' = processing \ {k}
      /\ queue' = IF k \in dirty THEN Append(queue, k) ELSE queue
      /\ dirty' = dirty
      /\ pc' = [pc EXCEPT ![w] = "get"]
      /\ held' = [held EXCEPT ![w] = NoKey]
      /\ UNCHANGED <<waiting, failures, shuttingDown>>
  BY DEF Finish, Done
<1>2. /\ TypeOK /\ OneWorkerPerKey /\ ProcessingIsHeld
      /\ Holds(queue, dirty \ processing)
  BY QueueHolds DEF IInv, QueueInv
<1>3. Holding(w) /\ k \in Keys /\ k \in processing /\ queue \in Seq(Keys)
  BY <1>1, <1>2 DEF TypeOK, Holding, ProcessingIsHeld
<1>4. queue' \in Seq(Keys) /\ Holds(queue', dirty' \ processing')
  <2>1. CASE k \in dirty
    <3>1. dirty' \ processing' = (dirty \ processing) \cup {k} /\ k \notin dirty \ processing
      BY <1>1, <1>3, <2>1
    <3>2. queue' = Append(queue, k)
      BY <1>1, <2>1
    <3>3. /\ Append(queue, k) \in Seq(Keys)
          /\ Holds(Append(queue, k), (dirty \ processing) \cup {k})
      BY <1>2, <1>3, <3>1, AppendHolds
    <3> QED BY <3>1, <3>2, <3>3
  <2>2. CASE k \notin dirty
    <3>1. dirty' \ processing' = dirty \ processing
      BY <1>1, <2>2
    <3> QED BY <1>1, <1>2, <1>3, <2>2, <3>1
  <2> QED BY <2>1, <2>2
<1>5. QueueHoldsIdleDirty'
  BY <1>4 DEF QueueHoldsIdleDirty, Holds
<1>6. \A v \in Workers : /\ Holding(v)' <=> (Holding(v) /\ v # w)
                         /\ v # w => held'[v] = held[v]
                         /\ held'[w] = NoKey
  BY <1>1, <1>2 DEF TypeOK, Holding
<1>7. TypeOK'
  <2>1. held' \in [Workers -> Keys \cup {NoKey}] /\ pc' \in [Workers -> States]
    BY <1>1, <1>2 DEF TypeOK, States
  <2>2. \A v \in Workers : held'[v] # NoKey <=> Holding(v)'
    BY <1>2, <1>6 DEF TypeOK
  <2> QED BY <1>1, <1>2, <1>4, <2>1, <2>2 DEF TypeOK
<1>8. OneWorkerPerKey'
  <2>1. SUFFICES ASSUME NEW u \in Workers, NEW v \in Workers, u # v, Holding(u)'
                 PROVE  held'[u] # held'[v]
    BY DEF OneWorkerPerKey
  <2>2. u # w /\ Holding(u) /\ held'[u] = held[u] /\ held[u] \in Keys
    BY <1>2, <1>6, <2>1 DEF TypeOK
  <2> QED BY <1>2, <1>6, <2>1, <2>2, NoKeyAssumption DEF OneWorkerPerKey
<1>9. ProcessingIsHeld'
  <2>1. \A v \in Workers : Holding(v) /\ v # w => held[v] # k
    BY <1>2, <1>3 DEF OneWorkerPerKey
  <2> QED BY <1>1, <1>2, <1>6, <2>1 DEF ProcessingIsHeld
<1>10. ExitedAfterShutDown' /\ DrainedAtExit'
  BY <1>1, <1>2 DEF IInv, ExitedAfterShutDown, DrainedAtExit, TypeOK
<1> QED BY <1>5, <1>7, <1>8, <1>9, <1>10 DEF IInv, QueueInv

\* The last worker to leave finds nothing queued, and nothing is processed.
LEMMA ExitKeeps ==
    ASSUME IInv, NEW w \in Workers, Exit(w)
    PROVE  IInv'
<1>1. /\ pc[w] = "get" /\ queue = <<>> /\ shuttingDown
      /\ pc' = [pc EXCEPT ![w] = "exited"]
      /\ UNCHANGED <<qvars, waiting, failures, shuttingDown, held>>
  BY DEF Exit
<1>2. TypeOK /\ ProcessingIsHeld /\ QueueHoldsIdleDirty
  BY DEF IInv, QueueInv
<1>3. /\ pc' \in [Workers -> States]
      /\ \A v \in Workers : /\ Holding(v)' <=> Holding(v)
                            /\ pc'[v] = "exited" <=> (pc[v] = "exited" \/ v = w)
  BY <1>1, <1>2 DEF TypeOK, States, Holding
<1>4. TypeOK'
  BY <1>1, <1>2, <1>3 DEF TypeOK, qvars
<1>5. OneWorkerPerKey'
  BY <1>1, <1>3 DEF IInv, QueueInv, OneWorkerPerKey
<1>6. ProcessingIsHeld' /\ QueueHoldsIdleDirty'
  BY <1>1, <1>2, <1>3 DEF ProcessingIsHeld, QueueHoldsIdleDirty, qvars
<1>7. ExitedAfterShutDown'
  BY <1>1, <1>3 DEF IInv, ExitedAfterShutDown
<1>8. DrainedAtExit'
  <2> SUFFICES ASSUME \A v \in Workers : pc'[v] = "exited" PROVE dirty' = {}
    BY DEF DrainedAtExit
  <2>1. \A v \in Workers : ~Holding(v)
    BY <1>1, <1>3 DEF Holding
  <2>2. processing = {}
    BY <1>2, <2>1 DEF ProcessingIsHeld, TypeOK
  <2>3. dirty \ processing = {}
    BY <1>1, <1>2 DEF QueueHoldsIdleDirty
  <2> QED BY <1>1, <2>2, <2>3 DEF qvars
<1> QED BY <1>4, <1>5, <1>6, <1>7, <1>8 DEF IInv, QueueInv

-----------------------------------------------------------------------------

\* Every step of the queue and its workers keeps the inductive invariant.
LEMMA StepIInv == IInv /\ [Next]_vars => IInv'
<1> SUFFICES ASSUME IInv, [Next]_vars PROVE IInv'
  OBVIOUS
<1>0. TypeOK
  BY DEF IInv, QueueInv
<1>1. ASSUME NEW k \in Keys, HandlerAdds(k) PROVE IInv'
  BY <1>0, <1>1, AddingKeeps DEF HandlerAdds, TypeOK
<1>2. ASSUME NEW k \in Keys, HandlerAddsAfter(k) PROVE IInv'
  BY <1>0, <1>2, AddsAfterIsQuiet, QuietKeeps
<1>3. ASSUME NEW k \in Keys, WaitingFires(k) PROVE IInv'
  <2>1. waiting' \subseteq Keys
    BY <1>0, <1>3 DEF WaitingFires, TypeOK
  <2> QED BY <1>3, <2>1, AddingKeeps DEF WaitingFires
<1>4. CASE ShutDown
  BY <1>0, <1>4, ShutDownIsQuiet, QuietKeeps
<1>5. ASSUME NEW w \in Workers, Worker(w) PROVE IInv'
  <2>1. CASE Get(w)
    BY <2>1, GetKeeps
  <2>2. CASE Exit(w)
    BY <2>2, ExitKeeps
  <2>3. CASE Finish(w)
    BY <2>3, FinishKeeps
  <2>4. CASE SyncStep(w)
    BY <1>0, <2>4, SyncStepIsQuiet, QuietKeeps
  <2> QED BY <1>5, <2>1, <2>2, <2>3, <2>4 DEF Worker, SyncStep
<1>6. CASE UNCHANGED vars
  <2>1. TypeOK' /\ Quiet
    BY <1>0, <1>6 DEF vars, qvars, TypeOK, Quiet, Holding
  <2> QED BY <2>1, QuietKeeps
<1> QED BY <1>1, <1>2, <1>3, <1>4, <1>5, <1>6 DEF Next

\* The invariant holds of every reachable state.
THEOREM Invariance == Spec => []IInv
BY InitIInv, StepIInv, PTL DEF Spec

\* Every variable keeps its type (workqueue.Type, and the workers of Run).
THEOREM TypeCorrect == Spec => []TypeOK
<1>1. IInv => TypeOK
  BY DEF IInv, QueueInv
<1> QED BY <1>1, Invariance, PTL

\* However many workers and jobs there are, syncPyTorchJob is never run for
\* one key by two workers at once.
THEOREM MutualExclusion == Spec => []OneWorkerPerKey
<1>1. IInv => OneWorkerPerKey
  BY DEF IInv, QueueInv
<1> QED BY <1>1, Invariance, PTL

\* The queue holds each idle key that needs a sync exactly once.
THEOREM NoMarkLost == Spec => []QueueHoldsIdleDirty
<1>1. IInv => QueueHoldsIdleDirty
  BY DEF IInv, QueueInv
<1> QED BY <1>1, Invariance, PTL

\* What processing records is what the workers hold.
THEOREM ProcessingCorrect == Spec => []ProcessingIsHeld
<1>1. IInv => ProcessingIsHeld
  BY DEF IInv, QueueInv
<1> QED BY <1>1, Invariance, PTL

\* After a shutdown the workers leave only when everything marked was taken.
THEOREM ShutDownDrains == Spec => []DrainedAtExit
<1>1. IInv => DrainedAtExit
  BY DEF IInv
<1> QED BY <1>1, Invariance, PTL

-----------------------------------------------------------------------------
(* The queue implements the abstract hand-over of keys. *)

\* The empty queue is an initial state of JobWork.
LEMMA InitRefines == Init => Work!Init
BY DEF Init, Work!Init

\* A marking Add is Mark, Get is Start, Done is Finish, everything else stutters.
LEMMA StepRefines == IInv /\ [Next]_vars => [Work!Next]_Work!vars
<1> SUFFICES ASSUME IInv, [Next]_vars
             PROVE  Work!Next \/ UNCHANGED <<dirty, processing>>
  BY DEF Work!vars
<1>0. TypeOK /\ ProcessingIsHeld /\ QueueHoldsIdleDirty
  BY DEF IInv, QueueInv
<1>1. ASSUME NEW k \in Keys, Add(k)
      PROVE  Work!Next \/ UNCHANGED <<dirty, processing>>
  BY <1>1 DEF Add, qvars, Work!Next, Work!Mark
<1>2. ASSUME NEW w \in Workers, Get(w) PROVE Work!Next
  <2>1. Head(queue) \in Keys /\ Head(queue) \in dirty \ processing
    BY <1>0, <1>2, TailHolds, QueueHolds DEF TypeOK, Get
  <2>2. Work!Start(Head(queue))
    BY <1>2, <2>1 DEF Get, Work!Start
  <2> QED BY <2>1, <2>2 DEF Work!Next
<1>3. ASSUME NEW w \in Workers, Finish(w) PROVE Work!Next
  <2>1. held[w] \in Keys /\ held[w] \in processing
    BY <1>0, <1>3 DEF TypeOK, Holding, ProcessingIsHeld, Finish
  <2>2. Work!Finish(held[w])
    BY <1>3, <2>1 DEF Finish, Done, Work!Finish
  <2> QED BY <2>1, <2>2 DEF Work!Next
<1>4. ASSUME NEW w \in Workers, SyncStep(w) \/ Exit(w)
      PROVE  UNCHANGED <<dirty, processing>>
  BY <1>4 DEF SyncStep, SyncWaitsForTTL, SyncWaitsForDeadline, SyncSucceeds,
              SyncFails, JobNotRead, Exit, qvars
<1>5. ASSUME NEW k \in Keys, HandlerAdds(k) \/ WaitingFires(k) \/ HandlerAddsAfter(k)
      PROVE  Work!Next \/ UNCHANGED <<dirty, processing>>
  BY <1>1, <1>5 DEF HandlerAdds, WaitingFires, HandlerAddsAfter, qvars
<1>6. CASE ShutDown \/ UNCHANGED vars
  BY <1>6 DEF ShutDown, vars, qvars
<1> QED BY <1>2, <1>3, <1>4, <1>5, <1>6 DEF Next, Worker, SyncStep

\* A marked key is pending until a worker starts on it, one worker works on a
\* key, and a key marked meanwhile is pending again: what the controller
\* relies on, implemented by the queue.
THEOREM Refinement == Spec => WorkSafety
BY InitRefines, StepRefines, Invariance, PTL DEF Spec, WorkSafety, Work!Safety
=============================================================================
