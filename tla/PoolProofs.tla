----------------------------- MODULE PoolProofs -----------------------------
(***************************************************************************)
(* Proofs about the worker pool for any set of workers, any set of jobs,   *)
(* any queue size and any bound on submissions: the inductive invariant    *)
(* IInv of PoolHistory, what follows from it for a shutdown, and the       *)
(* refinement of Dispatch.                                                 *)
(***************************************************************************)
EXTENDS PoolHistory, TLAPS

(* The channel has room for at least one job, whatever size was asked for *)
(* (NewPool).                                                              *)
LEMMA CapacityPositive == Capacity \in Nat /\ Capacity >= 1
  BY PoolAssumption DEF Capacity

(* The invariant holds of the pool NewPool and Start leave behind. *)
LEMMA InitInv == HInit => IInv
  <1> SUFFICES ASSUME HInit PROVE IInv
    OBVIOUS
  <1> USE DEF HInit, Init
  <1>1. HTypeOK
    <2>1. queue \in Seq(Jobs) /\ accepted \in Seq(Jobs)
      OBVIOUS
    <2>2. wstate \in [Workers -> {"idle", "busy", "stopped"}]
      OBVIOUS
    <2>3. wjob \in [Workers -> Jobs \union {NoJob}] /\ holding \in [Workers -> Nat]
      OBVIOUS
    <2>4. QED
      BY <2>1, <2>2, <2>3 DEF HTypeOK, TypeOK
  <1>2. QueueIsUnstarted
    BY DEF QueueIsUnstarted
  <1>3. Busy = {}
    BY DEF Busy
  <1>4. StartedOnce
    BY <1>3 DEF StartedOnce
  <1>5. Bookkeeping
    BY <1>3, PoolAssumption DEF Bookkeeping
  <1>6. CancelledOnlyByShutdown /\ Len(queue) <= Capacity
    BY CapacityPositive DEF CancelledOnlyByShutdown
  <1>7. QED
    BY <1>1, <1>2, <1>4, <1>5, <1>6 DEF IInv

(* Enqueue keeps the invariant: the new submission is last in the record   *)
(* and last in the channel, and nothing already started is renumbered.     *)
LEMMA EnqueueInv ==
  ASSUME IInv, NEW j \in Jobs, HEnqueue(j)
  PROVE  IInv'
  <1> USE DEF HEnqueue, Enqueue, CanEnqueue
  <1>0. /\ queue \in Seq(Jobs) /\ accepted \in Seq(Jobs) /\ taken \in Nat
        /\ Len(accepted) \in Nat /\ Len(queue) \in Nat
    BY DEF IInv, HTypeOK, TypeOK
  <1>1. HTypeOK'
    BY <1>0 DEF IInv, HTypeOK, TypeOK
  <1>2. QueueIsUnstarted'
    BY <1>0 DEF IInv, QueueIsUnstarted
  <1>3. StartedOnce'
    BY DEF IInv, StartedOnce, Busy
  <1>4. Bookkeeping'
    <2>1. ASSUME NEW w \in Busy
          PROVE  accepted'[holding[w]] = accepted[holding[w]]
      BY <1>0, <2>1 DEF IInv, Bookkeeping, QueueIsUnstarted
    <2>2. ~closed
      OBVIOUS
    <2>3. QED
      BY <2>1, <2>2 DEF IInv, Bookkeeping, Busy, AllStopped
  <1>5. CancelledOnlyByShutdown' /\ Len(queue') <= Capacity
    BY <1>0, CapacityPositive DEF IInv, CancelledOnlyByShutdown
  <1>6. QED
    BY <1>1, <1>2, <1>3, <1>4, <1>5 DEF IInv, Capacity

(* A receive keeps the invariant: the head of the channel is submission    *)
(* taken + 1, which no worker holds and no handler has finished.           *)
LEMMA TakeInv ==
  ASSUME IInv, NEW w \in Workers, HTake(w)
  PROVE  IInv'
  <1> USE DEF HTake, Take
  <1>0. /\ queue \in Seq(Jobs) /\ accepted \in Seq(Jobs) /\ taken \in Nat
        /\ Len(accepted) \in Nat /\ Len(queue) \in Nat /\ queue # <<>>
        /\ Len(queue) >= 1
        /\ wstate \in [Workers -> {"idle", "busy", "stopped"}]
        /\ wjob \in [Workers -> Jobs \union {NoJob}]
        /\ holding \in [Workers -> Nat]
    BY DEF IInv, HTypeOK, TypeOK
  <1>1. HTypeOK'
    <2>1. Head(queue) \in Jobs /\ Tail(queue) \in Seq(Jobs)
      BY <1>0
    <2>2. QED
      BY <1>0, <2>1 DEF IInv, HTypeOK, TypeOK
  <1>2. QueueIsUnstarted'
    <2>1. Len(queue') = Len(queue) - 1
      BY <1>0
    <2>2. ASSUME NEW i \in 1..Len(queue')
          PROVE  queue'[i] = accepted[taken' + i]
      <3>1. queue'[i] = queue[i + 1] /\ i + 1 \in 1..Len(queue)
        BY <1>0, <2>1
      <3>2. queue[i + 1] = accepted[taken + (i + 1)]
        BY <1>0, <3>1 DEF IInv, QueueIsUnstarted
      <3>3. taken + (i + 1) = taken' + i
        BY <1>0, <2>1
      <3>4. QED
        BY <3>1, <3>2, <3>3
    <2>3. Len(accepted') = taken' + Len(queue')
      BY <1>0, <2>1 DEF IInv, QueueIsUnstarted
    <2>4. QED
      BY <2>2, <2>3 DEF QueueIsUnstarted
  <1>3. /\ Busy' = Busy \union {w} /\ w \notin Busy
        /\ holding'[w] = taken + 1
        /\ \A v \in Busy : holding'[v] = holding[v] /\ wjob'[v] = wjob[v]
    BY <1>0 DEF Busy
  <1>4. \A v \in Busy : holding[v] \in 1..taken
    BY DEF IInv, Bookkeeping
  <1>5. handled \subseteq 1..taken
    BY DEF IInv, StartedOnce
  <1>6. StartedOnce'
    <2>1. {holding'[v] : v \in Busy'} = {holding[v] : v \in Busy} \union {taken + 1}
      BY <1>3
    <2>2. 1..(taken + 1) = (1..taken) \union {taken + 1}
      BY <1>0
    <2>3. 1..taken' = handled' \union {holding'[v] : v \in Busy'}
      BY <2>1, <2>2 DEF IInv, StartedOnce
    <2>4. \A v \in Busy' : holding'[v] \notin handled'
      BY <1>0, <1>3, <1>5 DEF IInv, StartedOnce
    <2>5. \A u, v \in Busy' : holding'[u] = holding'[v] => u = v
      BY <1>0, <1>3, <1>4 DEF IInv, StartedOnce
    <2>6. QED
      BY <2>3, <2>4, <2>5 DEF StartedOnce
  <1>7. Bookkeeping'
    <2>1. \A v \in Workers : (holding'[v] = 0) <=> (wstate'[v] # "busy")
      BY <1>0 DEF IInv, Bookkeeping
    <2>2. Head(queue) = accepted[taken + 1]
      BY <1>0 DEF IInv, QueueIsUnstarted
    <2>3. wjob'[w] = accepted[taken + 1]
      BY <1>0, <2>2
    <2>4. \A v \in Busy' : holding'[v] \in 1..taken' /\ wjob'[v] = accepted'[holding'[v]]
      BY <1>0, <1>3, <1>4, <2>3 DEF IInv, Bookkeeping
    <2>5. \A v \in Workers : wstate[v] # "stopped"
      BY <1>0 DEF IInv, Bookkeeping
    <2>6. \A v \in Workers : wstate'[v] # "stopped"
      BY <1>0, <2>5
    <2>7. shutdown # "returned"
      BY <2>5, PoolAssumption DEF IInv, Bookkeeping, AllStopped
    <2>8. QED
      BY <2>1, <2>4, <2>6, <2>7 DEF IInv, Bookkeeping
  <1>8. CancelledOnlyByShutdown' /\ Len(queue') <= Capacity
    BY <1>0, CapacityPositive DEF IInv, CancelledOnlyByShutdown
  <1>9. QED
    BY <1>1, <1>2, <1>6, <1>7, <1>8 DEF IInv, Capacity

(* A handler's return keeps the invariant: the submission moves from the   *)
(* worker that held it, and no other did, to the handled ones.             *)
LEMMA HandlerReturnsInv ==
  ASSUME IInv, NEW w \in Workers, HHandlerReturns(w)
  PROVE  IInv'
  <1> USE DEF HHandlerReturns, HandlerReturns
  <1>0. /\ wstate \in [Workers -> {"idle", "busy", "stopped"}]
        /\ wjob \in [Workers -> Jobs \union {NoJob}]
        /\ holding \in [Workers -> Nat]
        /\ handled \in SUBSET Nat
    BY DEF IInv, HTypeOK, TypeOK
  <1>1. HTypeOK'
    BY <1>0 DEF IInv, HTypeOK, TypeOK
  <1>2. QueueIsUnstarted'
    BY DEF IInv, QueueIsUnstarted
  <1>3. /\ Busy' = Busy \ {w} /\ w \in Busy
        /\ \A v \in Busy' : holding'[v] = holding[v] /\ wjob'[v] = wjob[v]
    BY <1>0 DEF Busy
  <1>4. StartedOnce'
    <2>1. {holding[v] : v \in Busy} = {holding'[v] : v \in Busy'} \union {holding[w]}
      BY <1>3
    <2>2. 1..taken' = handled' \union {holding'[v] : v \in Busy'}
      BY <2>1 DEF IInv, StartedOnce
    <2>3. \A v \in Busy' : holding'[v] \notin handled'
      BY <1>3 DEF IInv, StartedOnce
    <2>4. QED
      BY <1>3, <2>2, <2>3 DEF IInv, StartedOnce
  <1>5. Bookkeeping'
    <2>1. \A v \in Workers : (holding'[v] = 0) <=> (wstate'[v] # "busy")
      BY <1>0 DEF IInv, Bookkeeping
    <2>2. \A v \in Busy' : holding'[v] \in 1..taken' /\ wjob'[v] = accepted'[holding'[v]]
      BY <1>3 DEF IInv, Bookkeeping
    <2>3. \A v \in Workers : wstate'[v] = "stopped" => closed' /\ queue' = <<>>
      BY <1>0 DEF IInv, Bookkeeping
    <2>4. shutdown # "returned"
      BY DEF IInv, Bookkeeping, AllStopped
    <2>5. QED
      BY <2>1, <2>2, <2>3, <2>4 DEF IInv, Bookkeeping
  <1>6. CancelledOnlyByShutdown' /\ Len(queue') <= Capacity
    BY DEF IInv, CancelledOnlyByShutdown
  <1>7. QED
    BY <1>1, <1>2, <1>4, <1>5, <1>6 DEF IInv, Capacity

(* A worker that leaves its range loop keeps the invariant: the channel is *)
(* closed and empty, and stays so.                                         *)
LEMMA WorkerStopsInv ==
  ASSUME IInv, NEW w \in Workers, HWorkerStops(w)
  PROVE  IInv'
  <1> USE DEF HWorkerStops, WorkerStops
  <1>0. wstate \in [Workers -> {"idle", "busy", "stopped"}]
    BY DEF IInv, HTypeOK, TypeOK
  <1>1. HTypeOK'
    BY <1>0 DEF IInv, HTypeOK, TypeOK
  <1>2. QueueIsUnstarted'
    BY DEF IInv, QueueIsUnstarted
  <1>3. Busy' = Busy
    BY <1>0 DEF Busy
  <1>4. StartedOnce'
    BY <1>3 DEF IInv, StartedOnce
  <1>5. Bookkeeping'
    BY <1>0, <1>3 DEF IInv, Bookkeeping, AllStopped
  <1>6. CancelledOnlyByShutdown' /\ Len(queue') <= Capacity
    BY DEF IInv, CancelledOnlyByShutdown
  <1>7. QED
    BY <1>1, <1>2, <1>4, <1>5, <1>6 DEF IInv, Capacity

(* The three steps of a Shutdown call change closed, cancelled and         *)
(* shutdown only.                                                          *)
LEMMA ShutdownInv ==
  ASSUME IInv, HBeginShutdown \/ HDeadlinePasses \/ HShutdownReturns
  PROVE  IInv'
  <1> USE DEF HBeginShutdown, HDeadlinePasses, HShutdownReturns,
              BeginShutdown, DeadlinePasses, ShutdownReturns
  <1>0. UNCHANGED <<queue, wstate, wjob, accepted, taken, holding, handled>>
    OBVIOUS
  <1>1. Busy' = Busy /\ (AllStopped' <=> AllStopped)
    BY <1>0 DEF Busy, AllStopped
  <1>2. shutdown' \in {"none", "waiting", "expired", "returned"}
    OBVIOUS
  <1>3. closed' \in BOOLEAN /\ cancelled' \in BOOLEAN
    BY DEF IInv, HTypeOK, TypeOK
  <1>4. HTypeOK'
    BY <1>0, <1>2, <1>3 DEF IInv, HTypeOK, TypeOK
  <1>5. QueueIsUnstarted' /\ StartedOnce'
    BY <1>0, <1>1 DEF IInv, QueueIsUnstarted, StartedOnce
  <1>6. Bookkeeping'
    <2>1. \A v \in Workers : wstate[v] = "stopped" => closed /\ queue = <<>>
      BY DEF IInv, Bookkeeping
    <2>2. closed' <=> shutdown' # "none"
      BY DEF IInv, Bookkeeping
    <2>3. shutdown' = "returned" => AllStopped'
      BY <1>1 DEF IInv, Bookkeeping
    <2>4. closed => closed'
      OBVIOUS
    <2>5. QED
      BY <1>0, <1>1, <2>1, <2>2, <2>3, <2>4 DEF IInv, Bookkeeping
  <1>7. CancelledOnlyByShutdown'
    BY DEF IInv, CancelledOnlyByShutdown
  <1>8. QED
    BY <1>0, <1>4, <1>5, <1>6, <1>7 DEF IInv, Capacity

(* A stuttering step keeps the invariant. *)
LEMMA StutterInv ==
  ASSUME IInv, UNCHANGED hvars
  PROVE  IInv'
  BY DEF IInv, hvars, vars, HTypeOK, TypeOK, QueueIsUnstarted, StartedOnce, Busy,
         Bookkeeping, AllStopped, CancelledOnlyByShutdown, Capacity

(* The inductive invariant of the pool and its history: its types, the     *)
(* channel holding exactly the unstarted submissions, each started one     *)
(* with one worker or handled, and the state of the workers and of         *)
(* Shutdown agreeing (runWorker, Enqueue and Shutdown in pool.go).         *)
THEOREM PoolInvariant == Spec => []IInv
  <1>1. HInit => IInv
    BY InitInv
  <1>2. IInv /\ [HNext]_hvars => IInv'
    <2> SUFFICES ASSUME IInv, [HNext]_hvars
                 PROVE  IInv'
      OBVIOUS
    <2>1. ASSUME NEW j \in Jobs, HEnqueue(j)
          PROVE  IInv'
      BY <2>1, EnqueueInv
    <2>2. ASSUME NEW w \in Workers, HTake(w)
          PROVE  IInv'
      BY <2>2, TakeInv
    <2>3. ASSUME NEW w \in Workers, HHandlerReturns(w)
          PROVE  IInv'
      BY <2>3, HandlerReturnsInv
    <2>4. ASSUME NEW w \in Workers, HWorkerStops(w)
          PROVE  IInv'
      BY <2>4, WorkerStopsInv
    <2>5. CASE HBeginShutdown \/ HDeadlinePasses \/ HShutdownReturns
      BY <2>5, ShutdownInv
    <2>6. CASE UNCHANGED hvars
      BY <2>6, StutterInv
    <2>7. QED
      BY <2>1, <2>2, <2>3, <2>4, <2>5, <2>6 DEF HNext
  <1>3. QED
    BY <1>1, <1>2, PTL DEF Spec

(* What the invariant says of a Shutdown that has returned: all workers    *)
(* have stopped, so the channel is empty and all that was taken is handled. *)
LEMMA InvImpliesDrained == IInv => ReturnedMeansDrained
  <1> SUFFICES ASSUME IInv, shutdown = "returned"
               PROVE  handled = 1..Len(accepted) /\ Busy = {}
    BY DEF ReturnedMeansDrained
  <1>1. AllStopped
    BY DEF IInv, Bookkeeping
  <1>2. Busy = {}
    BY <1>1 DEF AllStopped, Busy
  <1>3. queue = <<>>
    BY <1>1, PoolAssumption DEF AllStopped, IInv, Bookkeeping
  <1>4. Len(accepted) = taken
    BY <1>3 DEF IInv, HTypeOK, QueueIsUnstarted
  <1>5. 1..taken = handled
    BY <1>2 DEF IInv, StartedOnce
  <1>6. QED
    BY <1>2, <1>4, <1>5

(* When Shutdown has returned, whether or not its deadline passed, every   *)
(* accepted submission has been handled and no handler runs, so that       *)
(* Server.Start may close the store.                                       *)
THEOREM ShutdownDrains == Spec => []ReturnedMeansDrained
  BY PoolInvariant, InvImpliesDrained, PTL

(* Each accepted submission is started at most once and by one worker. *)
THEOREM NoDoubleStart == Spec => []StartedOnce
  <1>1. IInv => StartedOnce
    BY DEF IInv
  <1>2. QED
    BY <1>1, PoolInvariant, PTL

(* The pool refines the dispatch service: every step of the pool is a step *)
(* of Dispatch or leaves it alone.                                         *)
THEOREM Refinement == Spec => ImplementsDispatch
  <1>1. HInit => Service!Init
    BY DEF HInit, Init, Service!Init
  <1>2. IInv /\ [HNext]_hvars => [Service!Next]_(Service!dvars)
    <2> SUFFICES ASSUME IInv, [HNext]_hvars
                 PROVE  [Service!Next]_(Service!dvars)
      OBVIOUS
    <2> USE DEF Service!Next, Service!dvars
    <2>1. ASSUME NEW j \in Jobs, HEnqueue(j)
          PROVE  Service!Next
      <3>1. Service!Accept(j)
        BY <2>1 DEF HEnqueue, Enqueue, CanEnqueue, Service!Accept
      <3>2. QED
        BY <3>1
    <2>2. ASSUME NEW w \in Workers, HTake(w)
          PROVE  Service!Next
      <3>1. holding[w] = 0
        BY <2>2 DEF HTake, Take, IInv, Bookkeeping
      <3>2. taken < Len(accepted)
        BY <2>2 DEF HTake, Take, IInv, HTypeOK, TypeOK, QueueIsUnstarted
      <3>3. Service!Begin(w)
        BY <2>2, <3>1, <3>2 DEF HTake, Take, Service!Begin
      <3>4. QED
        BY <3>3
    <2>3. ASSUME NEW w \in Workers, HHandlerReturns(w)
          PROVE  Service!Next
      <3>1. holding[w] # 0
        BY <2>3 DEF HHandlerReturns, HandlerReturns, IInv, Bookkeeping
      <3>2. Service!Handle(w)
        BY <2>3, <3>1 DEF HHandlerReturns, HandlerReturns, Service!Handle
      <3>3. QED
        BY <3>2
    <2>4. ASSUME NEW w \in Workers, HWorkerStops(w)
          PROVE  UNCHANGED Service!dvars
      BY <2>4 DEF HWorkerStops, WorkerStops
    <2>5. ASSUME HBeginShutdown
          PROVE  Service!Next
      <3>1. Service!Close
        BY <2>5 DEF HBeginShutdown, BeginShutdown, IInv, Bookkeeping, Service!Close
      <3>2. QED
        BY <3>1
    <2>6. ASSUME HDeadlinePasses
          PROVE  UNCHANGED Service!dvars
      BY <2>6 DEF HDeadlinePasses, DeadlinePasses
    <2>7. ASSUME HShutdownReturns
          PROVE  Service!Next
      <3>1. closed /\ shutdown # "returned" /\ shutdown' = "returned"
        BY <2>7 DEF HShutdownReturns, ShutdownReturns, IInv, Bookkeeping
      <3>2. Busy = {} /\ queue = <<>>
        BY <2>7, PoolAssumption
        DEF HShutdownReturns, ShutdownReturns, AllStopped, Busy, IInv, Bookkeeping
      <3>3. handled = 1..Len(accepted)
        <4>1. taken = Len(accepted)
          BY <3>2 DEF IInv, HTypeOK, QueueIsUnstarted
        <4>2. handled = 1..taken
          BY <3>2 DEF IInv, StartedOnce
        <4>3. QED
          BY <4>1, <4>2
      <3>4. Service!End
        BY <2>7, <3>1, <3>3 DEF HShutdownReturns, ShutdownReturns, Service!End
      <3>5. QED
        BY <3>4
    <2>8. CASE UNCHANGED hvars
      BY <2>8 DEF hvars, vars
    <2>9. QED
      BY <2>1, <2>2, <2>3, <2>4, <2>5, <2>6, <2>7, <2>8 DEF HNext
  <1>3. QED
    BY <1>1, <1>2, PoolInvariant, PTL DEF Spec, ImplementsDispatch, Service!Spec
=============================================================================
