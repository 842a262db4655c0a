---------------------------- MODULE PoolHistory -----------------------------
(***************************************************************************)
(* The worker pool together with a record of every submission it accepted, *)
(* so that what happens to a submission can be stated: it is started in    *)
(* order, by one worker, once, and a Shutdown that has returned left none  *)
(* behind.  The record never restricts the pool, except that MaxSubmits    *)
(* bounds the number of accepted submissions.                              *)
(***************************************************************************)
EXTENDS WorkerPool

CONSTANT MaxSubmits    \* bound on accepted submissions

ASSUME HistoryAssumption == MaxSubmits \in Nat

VARIABLES
    accepted,    \* every job Enqueue has answered true for, in order
    taken,       \* how many of them workers have received
    holding,     \* the position in accepted of each worker's job, 0 when it has none
    handled      \* the positions whose handler has returned

hvars == <<vars, accepted, taken, holding, handled>>

HTypeOK ==
    /\ TypeOK
    /\ accepted \in Seq(Jobs)
    /\ taken \in Nat
    /\ holding \in [Workers -> Nat]
    /\ handled \in SUBSET Nat

HInit ==
    /\ Init
    /\ accepted = <<>>
    /\ taken = 0
    /\ holding = [w \in Workers |-> 0]
    /\ handled = {}

HEnqueue(j) ==
    /\ Len(accepted) < MaxSubmits
    /\ Enqueue(j)
    /\ accepted' = Append(accepted, j)
    /\ UNCHANGED <<taken, holding, handled>>

HTake(w) ==
    /\ Take(w)
    /\ taken' = taken + 1
    /\ holding' = [holding EXCEPT ![w] = taken + 1]
    /\ UNCHANGED <<accepted, handled>>

HHandlerReturns(w) ==
    /\ HandlerReturns(w)
    /\ handled' = handled \union {holding[w]}
    /\ holding' = [holding EXCEPT ![w] = 0]
    /\ UNCHANGED <<accepted, taken>>

HWorkerStops(w) == WorkerStops(w) /\ UNCHANGED <<accepted, taken, holding, handled>>

HBeginShutdown == BeginShutdown /\ UNCHANGED <<accepted, taken, holding, handled>>

HDeadlinePasses == DeadlinePasses /\ UNCHANGED <<accepted, taken, holding, handled>>

HShutdownReturns == ShutdownReturns /\ UNCHANGED <<accepted, taken, holding, handled>>

HNext ==
    \/ \E j \in Jobs : HEnqueue(j)
    \/ \E w \in Workers : HTake(w) \/ HHandlerReturns(w) \/ HWorkerStops(w)
    \/ HBeginShutdown
    \/ HDeadlinePasses
    \/ HShutdownReturns

Spec == HInit /\ [][HNext]_hvars

(* Goroutines are scheduled, the shutdown context has a timeout, and a     *)
(* handler returns once its context is cancelled.                          *)
Fairness ==
    /\ \A w \in Workers :
         /\ WF_hvars(HTake(w))
         /\ WF_hvars(HWorkerStops(w))
         /\ WF_hvars(cancelled /\ HHandlerReturns(w))
    /\ WF_hvars(HDeadlinePasses)
    /\ WF_hvars(HShutdownReturns)

FairSpec == Spec /\ Fairness
-----------------------------------------------------------------------------
Busy == {w \in Workers : wstate[w] = "busy"}

(* The channel holds exactly the accepted submissions nobody has received, *)
(* in order: Enqueue never drops one and no worker receives out of turn.   *)
QueueIsUnstarted ==
    /\ Len(accepted) = taken + Len(queue)
    /\ \A i \in 1..Len(queue) : queue[i] = accepted[taken + i]

(* A received submission is with one worker or handled, never both, never  *)
(* with two workers: the range loop hands each job to one handler once.    *)
StartedOnce ==
    /\ 1..taken = handled \union {holding[w] : w \in Busy}
    /\ \A w \in Busy : holding[w] \notin handled
    /\ \A v, w \in Busy : holding[v] = holding[w] => v = w

(* A Shutdown that has returned, on time or after its deadline, left no    *)
(* accepted submission unhandled and no handler running: nothing touches   *)
(* the store after Server.Start closes it.                                 *)
ReturnedMeansDrained ==
    shutdown = "returned" =>
        /\ handled = 1..Len(accepted)
        /\ Busy = {}

(* While its deadline has not passed, Shutdown lets handlers work: their   *)
(* context is cancelled only by an expired or a completed shutdown.        *)
CancelledOnlyByShutdown == cancelled <=> shutdown \in {"expired", "returned"}

(* Shutdown terminates: after the deadline the cancelled handlers return,  *)
(* and so do the handlers of the jobs that were still queued.              *)
ShutdownEnds == (shutdown = "waiting") ~> (shutdown = "returned")

(* Where handlers return even when nobody cancels them, every accepted     *)
(* submission is eventually handled, shutdown or not.                      *)
AcceptedIsHandled ==
    (\A w \in Workers : WF_hvars(HHandlerReturns(w))) =>
        \A i \in 1..MaxSubmits : (i <= Len(accepted)) ~> (i \in handled)

(* The pool implements the dispatch service its callers rely on. *)
Service == INSTANCE Dispatch WITH
    Handlers <- Workers,
    begun    <- taken,
    holds    <- holding,
    open     <- ~closed,
    ended    <- shutdown = "returned"

ImplementsDispatch == Service!Spec
-----------------------------------------------------------------------------
(* What the proofs need besides: how the bookkeeping follows the workers.  *)
Bookkeeping ==
    /\ \A w \in Workers : (holding[w] = 0) <=> (wstate[w] # "busy")
    /\ \A w \in Busy : holding[w] \in 1..taken /\ wjob[w] = accepted[holding[w]]
    /\ closed <=> shutdown # "none"
    /\ \A w \in Workers : wstate[w] = "stopped" => closed /\ queue = <<>>
    /\ shutdown = "returned" => AllStopped

IInv ==
    /\ HTypeOK
    /\ QueueIsUnstarted
    /\ StartedOnce
    /\ Bookkeeping
    /\ CancelledOnlyByShutdown
    /\ Len(queue) <= Capacity
=============================================================================
