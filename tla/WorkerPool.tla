----------------------------- MODULE WorkerPool -----------------------------
(***************************************************************************)
(* The ingestion worker pool (api/internal/worker/pool.go): a fixed set of *)
(* goroutines ranging over one buffered channel, a mutex that orders       *)
(* Enqueue against close, and a Shutdown that drains first and cancels     *)
(* when its deadline passes.                                               *)
(*                                                                         *)
(* Enqueue and the closing half of Shutdown each run under p.mu and never  *)
(* block inside it, so each is one step.  Receiving from the channel, the  *)
(* handler's return and a worker leaving its range loop are steps of their *)
(* own.  What the handler does is not modelled here: JobControl does it.   *)
(***************************************************************************)
EXTENDS Integers, Sequences

CONSTANTS
    Workers,     \* the goroutines Start launches (NewPool makes it at least one)
    Jobs,        \* the job identifiers that can be submitted
    QueueSize,   \* the queue size asked for; NewPool raises it to one
    NoJob        \* the value of wjob for a worker that holds nothing

ASSUME PoolAssumption ==
    /\ Workers # {}
    /\ QueueSize \in Int
    /\ NoJob \notin Jobs

VARIABLES
    queue,       \* contents of the p.jobs channel, oldest first
    closed,      \* p.closed; the channel is closed in the same critical section
    wstate,      \* each worker: "idle" in its range, "busy" in the handler, "stopped"
    wjob,        \* the job a busy worker was handed
    cancelled,   \* the context every handler runs under has been cancelled
    shutdown     \* the Shutdown call: "none", "waiting", "expired" or "returned"

vars == <<queue, closed, wstate, wjob, cancelled, shutdown>>

Capacity == IF QueueSize < 1 THEN 1 ELSE QueueSize

TypeOK ==
    /\ queue \in Seq(Jobs)
    /\ closed \in BOOLEAN
    /\ wstate \in [Workers -> {"idle", "busy", "stopped"}]
    /\ wjob \in [Workers -> Jobs \union {NoJob}]
    /\ cancelled \in BOOLEAN
    /\ shutdown \in {"none", "waiting", "expired", "returned"}

(* NewPool followed by Start. *)
Init ==
    /\ queue = <<>>
    /\ closed = FALSE
    /\ wstate = [w \in Workers |-> "idle"]
    /\ wjob = [w \in Workers |-> NoJob]
    /\ cancelled = FALSE
    /\ shutdown = "none"
-----------------------------------------------------------------------------
(* Enqueue answers without blocking: false when the pool is closed or the  *)
(* channel is full, true after a send otherwise.                           *)
CanEnqueue == ~closed /\ Len(queue) < Capacity

Enqueue(j) ==
    /\ CanEnqueue
    /\ queue' = Append(queue, j)
    /\ UNCHANGED <<closed, wstate, wjob, cancelled, shutdown>>

(* Mutant: a worker receives the newest job. *)
TakeNewest(w) ==
    /\ wstate[w] = "idle"
    /\ queue # <<>>
    /\ wjob' = [wjob EXCEPT ![w] = queue[Len(queue)]]
    /\ wstate' = [wstate EXCEPT ![w] = "busy"]
    /\ queue' = SubSeq(queue, 1, Len(queue) - 1)
    /\ UNCHANGED <<closed, cancelled, shutdown>>

(* A worker receives the next job; a closed channel still delivers what it *)
(* holds, and a cancelled context does not stop the range loop.            *)
Take(w) ==
    /\ wstate[w] = "idle"
    /\ queue # <<>>
    /\ wjob' = [wjob EXCEPT ![w] = Head(queue)]
    /\ wstate' = [wstate EXCEPT ![w] = "busy"]
    /\ queue' = Tail(queue)
    /\ UNCHANGED <<closed, cancelled, shutdown>>

(* The handler returns; its error is only logged. *)
HandlerReturns(w) ==
    /\ wstate[w] = "busy"
    /\ wstate' = [wstate EXCEPT ![w] = "idle"]
    /\ wjob' = [wjob EXCEPT ![w] = NoJob]
    /\ UNCHANGED <<queue, closed, cancelled, shutdown>>

(* Mutant: a worker leaves as soon as its context is cancelled. *)
StopsOnCancel(w) ==
    /\ wstate[w] # "stopped"
    /\ closed
    /\ cancelled \/ (queue = <<>> /\ wstate[w] = "idle")
    /\ wstate' = [wstate EXCEPT ![w] = "stopped"]
    /\ wjob' = [wjob EXCEPT ![w] = NoJob]
    /\ UNCHANGED <<queue, closed, cancelled, shutdown>>

(* Mutant: a worker leaves a closed channel without draining it. *)
StopsWithoutDraining(w) ==
    /\ wstate[w] = "idle"
    /\ closed
    /\ wstate' = [wstate EXCEPT ![w] = "stopped"]
    /\ UNCHANGED <<queue, closed, wjob, cancelled, shutdown>>

(* The range over a closed, empty channel ends and wg.Done runs. *)
WorkerStops(w) ==
    /\ wstate[w] = "idle"
    /\ closed
    /\ queue = <<>>
    /\ wstate' = [wstate EXCEPT ![w] = "stopped"]
    /\ UNCHANGED <<queue, closed, wjob, cancelled, shutdown>>

(* Mutant: Shutdown waits for workers it never told to stop. *)
WaitsWithoutClosing ==
    /\ shutdown = "none"
    /\ shutdown' = "waiting"
    /\ UNCHANGED <<queue, closed, wstate, wjob, cancelled>>

(* Shutdown closes the channel and starts waiting. *)
BeginShutdown ==
    /\ shutdown = "none"
    /\ shutdown' = "waiting"
    /\ closed' = TRUE
    /\ UNCHANGED <<queue, wstate, wjob, cancelled>>

(* Mutant: the wait group counts running handlers, not workers. *)
NoneBusy == \A w \in Workers : wstate[w] # "busy"

AllStopped == \A w \in Workers : wstate[w] = "stopped"

(* The select takes its ctx.Done branch: cancel, then keep waiting. *)
DeadlinePasses ==
    /\ shutdown = "waiting"
    /\ shutdown' = "expired"
    /\ cancelled' = TRUE
    /\ UNCHANGED <<queue, closed, wstate, wjob>>

(* Mutant: Shutdown returns at its deadline without the second wait. *)
ReturnsAtDeadline ==
    /\ shutdown = "expired" \/ (shutdown = "waiting" /\ AllStopped)
    /\ shutdown' = "returned"
    /\ cancelled' = TRUE
    /\ UNCHANGED <<queue, closed, wstate, wjob>>

(* wg.Wait has returned: Shutdown answers nil, or the context's error when *)
(* the deadline came first; either way the context ends up cancelled.      *)
ShutdownReturns ==
    /\ shutdown \in {"waiting", "expired"}
    /\ AllStopped
    /\ shutdown' = "returned"
    /\ cancelled' = TRUE
    /\ UNCHANGED <<queue, closed, wstate, wjob>>
=============================================================================
