-------------------------- MODULE JobControlProofs ---------------------------
(***************************************************************************)
(* Proofs about the ingestion control plane for any URLs, IDs, overlapping *)
(* requests, workers, queue size and restarts, with or without lost        *)
(* writes.  ControlInv ties the positions of requests and handlers to the  *)
(* pool, the pool to the phase of the server, and both to the rows.        *)
(***************************************************************************)
EXTENDS JobControl, TLAPS

Request == [pc : RequestPCs, kind : {"create", "sync"},
            id : Ids \union {NoId}, url : Urls \union {NoUrl}]

(* A request under way knows its URL, and its ID from the lookup on. *)
Ready(q) ==
    /\ q.pc # "idle" => q.url \in Urls
    /\ q.pc \in {"stale", "compare", "insert", "enqueue"} => q.id \in Ids

Requesting == \A r \in Requests : Ready(req[r])

(* A worker is in a handler exactly when it is busy, and then with a job. *)
Handling ==
    \A w \in Workers : /\ hpc[w] # "none" <=> wstate[w] = "busy"
                       /\ wstate[w] = "busy" => wjob[w] \in Ids

(* The pool is shut down only by a stopping server, closed at once, empty  *)
(* when a worker has left it; jobs are listed for resumption only before   *)
(* the server serves.                                                      *)
Stopping ==
    /\ closed <=> shutdown # "none"
    /\ cancelled => closed
    /\ closed => phase = "stopping"
    /\ \A w \in Workers : wstate[w] = "stopped" => closed /\ queue = <<>>
    /\ shutdown = "returned" => \A w \in Workers : wstate[w] = "stopped"
    /\ resume # {} => phase \in {"resuming", "stopping"} /\ ~closed

(* A row says processing only for a job somebody has, or for an orphan.    *)
ProcessingIsHeld ==
    phase = "down" \/
        \A i \in Ids : status[i] = "processing" =>
            i \in Queued \union Running \union resume \union orphaned

(* What is recorded, active or on its way to a handler has a URL. *)
Known == repo \union Active \union Queued \union Running \union Claimed \union resume

KnownHaveUrls == \A i \in Known : url[i] \in Urls

ControlInv ==
    /\ TypeOK /\ Requesting /\ Handling /\ Stopping
    /\ KnownHaveUrls /\ ProcessingIsHeld /\ ActiveJobsAreHeld


LEMMA ControlInitInv == Init => ControlInv
  <1> SUFFICES ASSUME Init PROVE ControlInv
    OBVIOUS
  <1>1. /\ queue = <<>> /\ closed = FALSE /\ cancelled = FALSE /\ shutdown = "none"
        /\ wstate = [w \in Workers |-> "idle"] /\ wjob = [w \in Workers |-> NoId]
    BY DEF Init, Pool!Init
  <1>2. TypeOK
    <2>1. Pool!TypeOK
      <3>1. queue \in Seq(Ids)
        BY <1>1
      <3>2. wstate \in [Workers -> {"idle", "busy", "stopped"}] /\ wjob \in [Workers -> Ids \union {NoId}]
        BY <1>1
      <3> QED
        BY <3>1, <3>2, <1>1 DEF Pool!TypeOK
    <2>2. req \in [Requests -> Request]
      <3>1. Idle \in Request
        BY DEF Idle, Request, RequestPCs
      <3>2. req = [r \in Requests |-> Idle]
        BY DEF Init
      <3> QED
        BY <3>1, <3>2
    <2>3. /\ status \in [Ids -> Statuses] /\ stage \in [Ids -> Stages]
          /\ url \in [Ids -> Urls \union {NoUrl}] /\ repo \in SUBSET Ids
          /\ clone \in [Ids -> {"absent", "partial", "complete"}] /\ indexed \in SUBSET Ids /\ damaged \in SUBSET Ids
      BY DEF Init, Statuses, Stages
    <2>4. /\ hpc \in [Workers -> HandlerPCs] /\ phase \in {"down", "resuming", "serving", "stopping"}
          /\ resume \in SUBSET Ids /\ orphaned \in SUBSET Ids /\ unrecorded \in SUBSET Ids /\ restarts \in 0..MaxRestarts
      BY ControlAssumption DEF Init, HandlerPCs
    <2> QED
      BY <2>1, <2>2, <2>3, <2>4 DEF TypeOK, Request
  <1>3. Requesting /\ Handling /\ Stopping
    BY <1>1 DEF Init, Requesting, Handling, Stopping, Ready, Idle
  <1>4. ProcessingIsHeld /\ ActiveJobsAreHeld
    BY DEF Init, ProcessingIsHeld, ActiveJobsAreHeld
  <1>5. KnownHaveUrls
    <2>1. Active = {} /\ Queued = {} /\ Running = {} /\ Claimed = {}
      BY <1>1 DEF Init, Active, Queued, Running, Claimed, Idle
    <2> QED
      BY <2>1 DEF Init, KnownHaveUrls, Known
  <1> QED
    BY <1>2, <1>3, <1>4, <1>5 DEF ControlInv

(* A request that neither takes nor gives up a claim touches nothing else. *)
LEMMA RequestMoves ==
  ASSUME ControlInv, NEW r \in Requests, NEW q \in Request, Ready(q),
         req[r].pc # "enqueue", q.pc # "enqueue", req' = [req EXCEPT ![r] = q],
         UNCHANGED <<poolVars, tables, disk, hpc, server, orphaned, unrecorded>>
  PROVE  ControlInv'
  <1> USE DEF poolVars, tables, disk, server
  <1>1. /\ TypeOK /\ Requesting /\ Handling /\ Stopping
        /\ KnownHaveUrls /\ ProcessingIsHeld /\ ActiveJobsAreHeld
    BY DEF ControlInv
  <1>2. req \in [Requests -> Request] /\ req' \in [Requests -> Request]
    BY <1>1 DEF TypeOK, Request
  <1>3. TypeOK'
    BY <1>1, <1>2 DEF TypeOK, Pool!TypeOK, Request
  <1>4. Requesting'
    BY <1>1, <1>2 DEF Requesting
  <1>5. Claimed' = Claimed
    <2>1. \A x \in Requests : x # r => req'[x] = req[x]
      BY <1>2
    <2>2. req'[r] = q
      BY <1>2
    <2> QED
      BY <2>1, <2>2 DEF Claimed
  <1>6. Queued' = Queued /\ Running' = Running /\ Active' = Active
    BY DEF Queued, Running, Active
  <1>7. Handling' /\ Stopping' /\ ProcessingIsHeld'
    BY <1>1, <1>6 DEF Handling, Stopping, ProcessingIsHeld
  <1>8. ActiveJobsAreHeld' /\ KnownHaveUrls'
    BY <1>1, <1>5, <1>6 DEF ActiveJobsAreHeld, KnownHaveUrls, Known
  <1> QED
    BY <1>3, <1>4, <1>7, <1>8 DEF ControlInv

LEMMA QuietRequestInv ==
  ASSUME ControlInv, NEW r \in Requests,
         \/ \E u \in Urls : ReceiveCreate(r, u)
         \/ \E i \in Ids : ReceiveSync(r, i)
         \/ LookupNew(r) \/ LookupExisting(r) \/ CheckStaleness(r)
         \/ CompareStale(r) \/ CompareUpToDate(r) \/ RequestFails(r)
  PROVE  ControlInv'
  <1>1. TypeOK /\ Requesting
    BY DEF ControlInv
  <1>2. req[r] \in Request /\ Ready(req[r])
    BY <1>1 DEF TypeOK, Request, Requesting
  <1> DEFINE Rest == UNCHANGED <<poolVars, tables, disk, hpc, server, orphaned, unrecorded>>
             Fits(q) == q \in Request /\ Ready(q) /\ q.pc # "enqueue"
  <1>3. ASSUME NEW q, Fits(q), req[r].pc # "enqueue", req' = [req EXCEPT ![r] = q], Rest
        PROVE  ControlInv'
    BY <1>3, RequestMoves
  <1>4. Idle \in Request /\ Ready(Idle) /\ Idle.pc = "idle"
    BY DEF Idle, Request, RequestPCs, Ready
  <1>5. ASSUME NEW pc \in {"compare", "insert"}, req[r].pc \in {"stale", "compare"}
        PROVE  Fits([req[r] EXCEPT !.pc = pc])
    BY <1>2, <1>5 DEF Request, RequestPCs, Ready
  <1>6. CASE \E u \in Urls : ReceiveCreate(r, u)
    <2>1. PICK u \in Urls : ReceiveCreate(r, u)
      BY <1>6
    <2> DEFINE q == [pc |-> "lookup", kind |-> "create", id |-> NoId, url |-> u]
    <2>2. Fits(q)
      BY DEF Request, RequestPCs, Ready
    <2> QED
      BY <2>1, <2>2, <1>3 DEF ReceiveCreate
  <1>7. CASE \E i \in Ids : ReceiveSync(r, i)
    <2>1. PICK i \in Ids : ReceiveSync(r, i)
      BY <1>7
    <2> DEFINE q == [pc |-> "compare", kind |-> "sync", id |-> i, url |-> url[i]]
    <2>2. url[i] \in Urls
      BY <2>1 DEF ReceiveSync, ControlInv, KnownHaveUrls, Known
    <2>3. Fits(q)
      BY <2>2 DEF Request, RequestPCs, Ready
    <2> QED
      BY <2>1, <2>3, <1>3 DEF ReceiveSync
  <1>8. CASE LookupNew(r)
    <2>1. PICK i \in Ids : req' = [req EXCEPT ![r].pc = "insert", ![r].id = i]
      BY <1>8 DEF LookupNew
    <2> DEFINE q == [req[r] EXCEPT !.pc = "insert", !.id = i]
    <2>2. Fits(q) /\ req[r].pc # "enqueue" /\ Rest
      BY <1>2, <1>8 DEF LookupNew, Request, RequestPCs, Ready
    <2>3. req' = [req EXCEPT ![r] = q]
      BY <2>1, <1>1 DEF TypeOK
    <2> QED
      BY <2>2, <2>3, <1>3
  <1>9. CASE LookupExisting(r)
    <2>1. PICK i \in Ids : \/ req' = [req EXCEPT ![r].pc = "stale", ![r].kind = "sync", ![r].id = i]
                           \/ req' = [req EXCEPT ![r].pc = "insert", ![r].id = i]
      BY <1>1, <1>9 DEF LookupExisting, TypeOK
    <2> DEFINE p == [req[r] EXCEPT !.pc = "stale", !.kind = "sync", !.id = i]
               q == [req[r] EXCEPT !.pc = "insert", !.id = i]
    <2>2. Fits(p) /\ Fits(q) /\ req[r].pc # "enqueue" /\ Rest
      BY <1>2, <1>9 DEF LookupExisting, Request, RequestPCs, Ready
    <2>3. req' = [req EXCEPT ![r] = p] \/ req' = [req EXCEPT ![r] = q]
      BY <2>1, <1>1 DEF TypeOK
    <2> HIDE DEF p, q
    <2> QED
      BY <2>2, <2>3, <1>3
  <1>10. CASE CheckStaleness(r) \/ CompareStale(r)
    <2>1. /\ req[r].pc \in {"stale", "compare"} /\ Rest
          /\ \/ \E pc \in {"compare", "insert"} : req' = [req EXCEPT ![r] = [req[r] EXCEPT !.pc = pc]]
             \/ req' = [req EXCEPT ![r] = Idle]
      BY <1>10 DEF CheckStaleness, CompareStale, Goto, Done
    <2> QED
      BY <2>1, <1>3, <1>4, <1>5
  <1>11. CASE CompareUpToDate(r) \/ RequestFails(r)
    <2>1. req[r].pc # "enqueue" /\ req' = [req EXCEPT ![r] = Idle] /\ Rest
      BY <1>11 DEF CompareUpToDate, RequestFails, Done
    <2> QED
      BY <2>1, <1>3, <1>4
  <1> QED
    BY <1>6, <1>7, <1>8, <1>9, <1>10, <1>11

(* A handler that goes on and leaves status, requests and pool alone. *)
LEMMA HandlerMoves ==
  ASSUME ControlInv, NEW w \in Workers, NEW pc \in HandlerPCs \ {"none"},
         hpc[w] # "none", hpc' = [hpc EXCEPT ![w] = pc],
         UNCHANGED <<poolVars, status, url, req, server, orphaned>>,
         stage' \in [Ids -> Stages], repo' \subseteq repo \union {wjob[w]},
         clone' \in [Ids -> {"absent", "partial", "complete"}],
         indexed' \subseteq Ids, damaged' \subseteq Ids, unrecorded' \subseteq Ids
  PROVE  ControlInv'
  <1> USE DEF poolVars, server
  <1>1. /\ TypeOK /\ Requesting /\ Handling /\ Stopping
        /\ KnownHaveUrls /\ ProcessingIsHeld /\ ActiveJobsAreHeld
    BY DEF ControlInv
  <1>2. wjob[w] \in Ids /\ wjob[w] \in Running
    BY <1>1 DEF Handling, Running
  <1>3. hpc \in [Workers -> HandlerPCs] /\ hpc' \in [Workers -> HandlerPCs] /\ repo' \in SUBSET Ids
    BY <1>1, <1>2 DEF TypeOK
  <1>4. TypeOK'
    BY <1>1, <1>3 DEF TypeOK, Pool!TypeOK
  <1>5. Handling'
    BY <1>1, <1>3 DEF Handling
  <1>6. Requesting' /\ Stopping'
    BY <1>1 DEF Requesting, Stopping
  <1>7. /\ Queued' = Queued /\ Running' = Running /\ Active' = Active /\ Claimed' = Claimed
        /\ Known' \subseteq Known
    <2>1. Queued' = Queued /\ Running' = Running /\ Active' = Active /\ Claimed' = Claimed
      BY DEF Queued, Running, Active, Claimed
    <2> QED
      BY <2>1, <1>2 DEF Known
  <1>8. KnownHaveUrls' /\ ProcessingIsHeld' /\ ActiveJobsAreHeld'
    BY <1>1, <1>7 DEF KnownHaveUrls, ProcessingIsHeld, ActiveJobsAreHeld
  <1> QED
    BY <1>4, <1>5, <1>6, <1>8 DEF ControlInv

LEMMA QuietHandlerInv ==
  ASSUME ControlInv, NEW w \in Workers,
         \/ BeginClone(w) \/ CloneSucceeds(w) \/ CloneFails(w) \/ RecordRepository(w)
         \/ SyncSucceeds(w) \/ WalkSucceeds(w) \/ JobFails(w) \/ ProcessFiles(w)
  PROVE  ControlInv'
  <1> USE DEF tables, disk
  <1>1. TypeOK /\ Handling
    BY DEF ControlInv
  <1>2. /\ stage \in [Ids -> Stages] /\ clone \in [Ids -> {"absent", "partial", "complete"}]
        /\ indexed \subseteq Ids /\ damaged \subseteq Ids /\ unrecorded \subseteq Ids
    BY <1>1 DEF TypeOK
  <1>3. /\ hpc[w] # "none" /\ UNCHANGED <<poolVars, status, url, req, server, orphaned>>
    BY DEF BeginClone, CloneSucceeds, CloneFails, RecordRepository, SyncSucceeds, WalkSucceeds,
           JobFails, ProcessFiles
  <1>4. wjob[w] \in Ids
    BY <1>1, <1>3 DEF Handling
  <1>5. \E pc \in HandlerPCs \ {"none"} : hpc' = [hpc EXCEPT ![w] = pc]
    BY DEF BeginClone, CloneSucceeds, CloneFails, RecordRepository, SyncSucceeds, WalkSucceeds,
           JobFails, ProcessFiles, HGoto, HandlerPCs
  <1>6. stage' \in [Ids -> Stages]
    BY <1>2 DEF BeginClone, CloneSucceeds, CloneFails, RecordRepository, SyncSucceeds, WalkSucceeds,
           JobFails, ProcessFiles, Stages
  <1>7. clone' \in [Ids -> {"absent", "partial", "complete"}]
    BY <1>2 DEF BeginClone, CloneSucceeds, CloneFails, RecordRepository, SyncSucceeds, WalkSucceeds,
           JobFails, ProcessFiles
  <1>8. indexed' \subseteq Ids /\ repo' \subseteq repo \union {wjob[w]}
    BY <1>2, <1>4 DEF BeginClone, CloneSucceeds, CloneFails, RecordRepository, SyncSucceeds,
           WalkSucceeds, JobFails, ProcessFiles
  <1>9. damaged' \subseteq Ids /\ unrecorded' \subseteq Ids
    BY <1>2, <1>4 DEF BeginClone, CloneSucceeds, CloneFails, RecordRepository, SyncSucceeds,
           WalkSucceeds, JobFails, ProcessFiles
  <1> QED
    BY <1>3, <1>5, <1>6, <1>7, <1>8, <1>9, HandlerMoves

(* InsertJob writes the row and keeps a claim on it, or gives it up.       *)
LEMMA InsertJobInv ==
  ASSUME ControlInv, NEW r \in Requests, InsertJob(r)
  PROVE  ControlInv'
  <1> USE DEF poolVars, disk, server
  <1> DEFINE i == req[r].id
  <1>1. /\ TypeOK /\ Requesting /\ Handling /\ Stopping
        /\ KnownHaveUrls /\ ProcessingIsHeld /\ ActiveJobsAreHeld
    BY DEF ControlInv
  <1>2. req \in [Requests -> Request] /\ req[r].pc = "insert" /\ i \in Ids /\ req[r].url \in Urls
    BY <1>1 DEF InsertJob, TypeOK, Request, Requesting, Ready
  <1>3. /\ status' = [status EXCEPT ![i] = "pending"] /\ url' = [url EXCEPT ![i] = req[r].url]
        /\ UNCHANGED <<poolVars, stage, repo, disk, hpc, server, unrecorded>>
    BY DEF InsertJob
  <1>4. \/ req' = [req EXCEPT ![r].pc = "enqueue"] /\ orphaned' = orphaned \ {i}
        \/ req' = [req EXCEPT ![r] = Idle] /\ orphaned' = orphaned \union {i}
    BY DEF InsertJob, Goto, Done
  <1>5. req' \in [Requests -> Request] /\ Requesting'
    <2>1. [req[r] EXCEPT !.pc = "enqueue"] \in Request /\ Ready([req[r] EXCEPT !.pc = "enqueue"])
      BY <1>2 DEF Request, RequestPCs, Ready
    <2>2. Idle \in Request /\ Ready(Idle)
      BY DEF Idle, Request, RequestPCs, Ready
    <2>3. \E q \in Request : Ready(q) /\ req' = [req EXCEPT ![r] = q]
      BY <1>4, <2>1, <2>2
    <2> QED
      BY <2>3, <1>1, <1>2 DEF Requesting
  <1>6. TypeOK'
    BY <1>1, <1>2, <1>3, <1>4, <1>5 DEF TypeOK, Pool!TypeOK, Request, Statuses
  <1>7. Handling' /\ Stopping'
    BY <1>1, <1>3 DEF Handling, Stopping
  <1>8. /\ Queued' = Queued /\ Running' = Running /\ Active' \subseteq Active \union {i}
        /\ Claimed \subseteq Claimed' /\ Claimed' \subseteq Claimed \union {i}
        /\ i \in Claimed' \union orphaned' /\ orphaned \subseteq orphaned' \union {i}
    <2>1. Queued' = Queued /\ Running' = Running
      BY <1>3 DEF Queued, Running
    <2>2. Active' \subseteq Active \union {i}
      BY <1>1, <1>3 DEF Active, TypeOK
    <2>3. \A x \in Requests : x # r => req'[x] = req[x]
      BY <1>2, <1>4
    <2>4. \/ req'[r].pc = "enqueue" /\ req'[r].id = i /\ orphaned' = orphaned \ {i}
          \/ req'[r] = Idle /\ orphaned' = orphaned \union {i}
      BY <1>2, <1>4 DEF Request
    <2>5. Idle.pc = "idle"
      BY DEF Idle
    <2> QED
      BY <2>1, <2>2, <2>3, <2>4, <2>5, <1>2 DEF Claimed
  <1>9. KnownHaveUrls'
    <2>1. Known' \subseteq Known \union {i}
      BY <1>3, <1>8 DEF Known
    <2>2. \A k \in Known' : url'[k] \in Urls
      BY <2>1, <1>1, <1>2, <1>3 DEF KnownHaveUrls, TypeOK
    <2> QED
      BY <2>2 DEF KnownHaveUrls
  <1>10. ProcessingIsHeld'
    <2>1. \A k \in Ids : status'[k] = "processing" => status[k] = "processing" /\ k # i
      BY <1>1, <1>3 DEF TypeOK
    <2> QED
      BY <2>1, <1>1, <1>3, <1>8 DEF ProcessingIsHeld
  <1>11. ActiveJobsAreHeld'
    BY <1>1, <1>3, <1>8 DEF ActiveJobsAreHeld
  <1> QED
    BY <1>5, <1>6, <1>7, <1>9, <1>10, <1>11 DEF ControlInv

(* A request that ends gives up its claim. *)
LEMMA RequestEnds ==
  ASSUME ControlInv, NEW r \in Requests, req' = [req EXCEPT ![r] = Idle]
  PROVE  /\ req' \in [Requests -> Request] /\ Requesting'
         /\ Claimed \subseteq Claimed' \union {req[r].id} /\ Claimed' \subseteq Claimed
  <1>1. req \in [Requests -> Request] /\ Requesting
    BY DEF ControlInv, TypeOK, Request
  <1>2. Idle \in Request /\ Ready(Idle) /\ Idle.pc = "idle"
    BY DEF Idle, Request, RequestPCs, Ready
  <1> QED
    BY <1>1, <1>2 DEF Requesting, Claimed

LEMMA EnqueueAcceptedInv ==
  ASSUME ControlInv, NEW r \in Requests, EnqueueAccepted(r)
  PROVE  ControlInv'
  <1> USE DEF tables, disk, server
  <1> DEFINE i == req[r].id
  <1>1. /\ TypeOK /\ Requesting /\ Handling /\ Stopping
        /\ KnownHaveUrls /\ ProcessingIsHeld /\ ActiveJobsAreHeld
    BY DEF ControlInv
  <1>2. i \in Ids /\ i \in Claimed /\ req' = [req EXCEPT ![r] = Idle]
    BY <1>1 DEF EnqueueAccepted, Requesting, Ready, Claimed, Done
  <1>3. /\ ~closed /\ queue' = Append(queue, i) /\ orphaned' = orphaned \ {i}
        /\ UNCHANGED <<closed, wstate, wjob, cancelled, shutdown, tables, disk, hpc, server, unrecorded>>
    BY DEF EnqueueAccepted, Pool!Enqueue, Pool!CanEnqueue
  <1>4. queue \in Seq(Ids)
    BY <1>1 DEF TypeOK, Pool!TypeOK
  <1>5. Queued' = Queued \union {i}
    BY <1>2, <1>3, <1>4 DEF Queued
  <1>6. /\ req' \in [Requests -> Request] /\ Requesting'
        /\ Claimed \subseteq Claimed' \union {i} /\ Claimed' \subseteq Claimed
    BY <1>2, RequestEnds
  <1>7. TypeOK'
    <2>1. queue' \in Seq(Ids)
      BY <1>2, <1>3, <1>4
    <2> QED
      BY <2>1, <1>1, <1>3, <1>6 DEF TypeOK, Pool!TypeOK, Request
  <1>8. Handling' /\ Stopping'
    BY <1>1, <1>3 DEF Handling, Stopping
  <1>9. Running' = Running /\ Active' = Active
    BY <1>3 DEF Running, Active
  <1>10. KnownHaveUrls'
    BY <1>1, <1>2, <1>3, <1>5, <1>6, <1>9 DEF KnownHaveUrls, Known
  <1>11. ProcessingIsHeld' /\ ActiveJobsAreHeld'
    BY <1>1, <1>3, <1>5, <1>6, <1>9 DEF ProcessingIsHeld, ActiveJobsAreHeld
  <1> QED
    BY <1>6, <1>7, <1>8, <1>10, <1>11 DEF ControlInv

LEMMA RefusedInv ==
  ASSUME ControlInv, NEW r \in Requests, CreateRefused(r) \/ SyncRefused(r)
  PROVE  ControlInv'
  <1> USE DEF poolVars, disk, server
  <1> DEFINE i == req[r].id
  <1>1. /\ TypeOK /\ Requesting /\ Handling /\ Stopping
        /\ KnownHaveUrls /\ ProcessingIsHeld /\ ActiveJobsAreHeld
    BY DEF ControlInv
  <1>2. i \in Ids /\ i \in Claimed /\ req' = [req EXCEPT ![r] = Idle]
    BY <1>1 DEF CreateRefused, SyncRefused, Requesting, Ready, Claimed, Done
  <1>3. /\ \/ status' = [status EXCEPT ![i] = "failed"] /\ orphaned' = orphaned
           \/ status' = status /\ orphaned' = orphaned \union {i}
        /\ UNCHANGED <<poolVars, stage, url, repo, disk, hpc, server, unrecorded>>
    BY DEF CreateRefused, SyncRefused, tables
  <1>4. /\ req' \in [Requests -> Request] /\ Requesting'
        /\ Claimed \subseteq Claimed' \union {i} /\ Claimed' \subseteq Claimed
    BY <1>2, RequestEnds
  <1>5. TypeOK'
    BY <1>1, <1>2, <1>3, <1>4 DEF TypeOK, Pool!TypeOK, Request, Statuses
  <1>6. Handling' /\ Stopping'
    BY <1>1, <1>3 DEF Handling, Stopping
  <1>7. /\ Queued' = Queued /\ Running' = Running /\ Active' \subseteq Active
        /\ i \notin Active' \/ i \in orphaned'
        /\ orphaned \subseteq orphaned'
    BY <1>1, <1>2, <1>3 DEF Queued, Running, Active, TypeOK
  <1>8. KnownHaveUrls'
    BY <1>1, <1>3, <1>4, <1>7 DEF KnownHaveUrls, Known
  <1>9. ProcessingIsHeld'
    <2>1. \A k \in Ids : status'[k] = "processing" => status[k] = "processing"
      BY <1>1, <1>3 DEF TypeOK
    <2> QED
      BY <2>1, <1>1, <1>3, <1>7 DEF ProcessingIsHeld
  <1>10. ActiveJobsAreHeld'
    BY <1>1, <1>3, <1>4, <1>7 DEF ActiveJobsAreHeld
  <1> QED
    BY <1>4, <1>5, <1>6, <1>8, <1>9, <1>10 DEF ControlInv

LEMMA TakeJobInv ==
  ASSUME ControlInv, NEW w \in Workers, TakeJob(w)
  PROVE  ControlInv'
  <1> USE DEF tables, disk, server
  <1> DEFINE i == Head(queue)
  <1>1. /\ TypeOK /\ Requesting /\ Handling /\ Stopping
        /\ KnownHaveUrls /\ ProcessingIsHeld /\ ActiveJobsAreHeld
    BY DEF ControlInv
  <1>2. /\ wstate[w] = "idle" /\ queue # <<>> /\ wjob' = [wjob EXCEPT ![w] = i]
        /\ wstate' = [wstate EXCEPT ![w] = "busy"] /\ queue' = Tail(queue)
        /\ hpc' = [hpc EXCEPT ![w] = "start"]
        /\ UNCHANGED <<closed, cancelled, shutdown, tables, disk, req, server, orphaned, unrecorded>>
    BY DEF TakeJob, Pool!Take, HGoto
  <1>3. /\ queue \in Seq(Ids) /\ wjob \in [Workers -> Ids \union {NoId}]
        /\ wstate \in [Workers -> {"idle", "busy", "stopped"}] /\ hpc \in [Workers -> HandlerPCs]
    BY <1>1 DEF TypeOK, Pool!TypeOK
  <1>4. i \in Ids /\ i \in Queued /\ queue' \in Seq(Ids)
    BY <1>2, <1>3 DEF Queued
  <1>5. TypeOK'
    BY <1>1, <1>2, <1>3, <1>4 DEF TypeOK, Pool!TypeOK, HandlerPCs
  <1>6. Handling'
    BY <1>1, <1>2, <1>3, <1>4 DEF Handling
  <1>7. Requesting' /\ Stopping'
    BY <1>1, <1>2, <1>3 DEF Requesting, Stopping
  <1>8. Queued' \subseteq Queued /\ Queued \subseteq Queued' \union {i}
    <2>1. /\ Len(queue) \in Nat /\ Len(queue) >= 1 /\ Len(queue') = Len(queue) - 1
          /\ \A k \in 1..Len(queue') : queue'[k] = queue[k + 1]
      BY <1>2, <1>3
    <2>2. DOMAIN queue = 1..Len(queue) /\ DOMAIN queue' = 1..Len(queue')
      BY <1>3, <1>4
    <2>3. ASSUME NEW k \in DOMAIN queue PROVE queue[k] \in Queued' \union {i}
      <3>1. CASE k = 1
        BY <3>1
      <3>2. CASE k # 1
        <4>1. k - 1 \in DOMAIN queue' /\ queue'[k - 1] = queue[k]
          BY <3>2, <2>1, <2>2
        <4> QED
          BY <4>1 DEF Queued
      <3> QED
        BY <3>1, <3>2
    <2>4. ASSUME NEW k \in DOMAIN queue' PROVE queue'[k] \in Queued
      <3>1. k + 1 \in DOMAIN queue /\ queue'[k] = queue[k + 1]
        BY <2>1, <2>2
      <3> QED
        BY <3>1 DEF Queued
    <2> QED
      BY <2>3, <2>4 DEF Queued
  <1>9. Running' = Running \union {i}
    BY <1>2, <1>3 DEF Running
  <1>10. Active' = Active /\ Claimed' = Claimed
    BY <1>2 DEF Active, Claimed
  <1>11. KnownHaveUrls'
    BY <1>1, <1>2, <1>4, <1>8, <1>9, <1>10 DEF KnownHaveUrls, Known
  <1>12. ProcessingIsHeld' /\ ActiveJobsAreHeld'
    BY <1>1, <1>2, <1>8, <1>9, <1>10 DEF ProcessingIsHeld, ActiveJobsAreHeld
  <1> QED
    BY <1>5, <1>6, <1>7, <1>11, <1>12 DEF ControlInv

LEMMA StartJobInv ==
  ASSUME ControlInv, NEW w \in Workers, StartJob(w)
  PROVE  ControlInv'
  <1> USE DEF poolVars, disk, server
  <1> DEFINE i == wjob[w]
  <1>1. /\ TypeOK /\ Requesting /\ Handling /\ Stopping
        /\ KnownHaveUrls /\ ProcessingIsHeld /\ ActiveJobsAreHeld
    BY DEF ControlInv
  <1>2. /\ hpc[w] = "start" /\ hpc' = [hpc EXCEPT ![w] = "fetch"]
        /\ status' = [status EXCEPT ![i] = "processing"] \/ status' = status
        /\ stage' = [stage EXCEPT ![i] = "cloning"]
        /\ UNCHANGED <<poolVars, url, repo, disk, req, server, orphaned, unrecorded>>
    BY DEF StartJob, HGoto
  <1>3. i \in Ids /\ i \in Running
    BY <1>1, <1>2 DEF Handling, Running
  <1>4. TypeOK'
    BY <1>1, <1>2 DEF TypeOK, Pool!TypeOK, Statuses, Stages, HandlerPCs
  <1>5. Handling' /\ Requesting' /\ Stopping'
    BY <1>1, <1>2 DEF Handling, Requesting, Stopping, TypeOK
  <1>6. /\ Queued' = Queued /\ Running' = Running /\ Claimed' = Claimed
        /\ Active' \subseteq Active \union {i}
        /\ \A k \in Ids : status'[k] = "processing" => status[k] = "processing" \/ k = i
    BY <1>1, <1>2 DEF Queued, Running, Claimed, Active, TypeOK
  <1>7. KnownHaveUrls'
    BY <1>1, <1>2, <1>3, <1>6 DEF KnownHaveUrls, Known
  <1>8. ProcessingIsHeld'
    BY <1>1, <1>2, <1>3, <1>6 DEF ProcessingIsHeld
  <1>9. ActiveJobsAreHeld'
    BY <1>1, <1>2, <1>3, <1>6 DEF ActiveJobsAreHeld
  <1> QED
    BY <1>4, <1>5, <1>7, <1>8, <1>9 DEF ControlInv

(* The last write: without lost writes no row is left processing, and only *)
(* a cancelled handler, in a stopping server, leaves one active.           *)
LEMMA FinishJobInv ==
  ASSUME ControlInv, NEW w \in Workers, FinishJob(w)
  PROVE  ControlInv'
  <1> USE DEF disk, server
  <1> DEFINE i == wjob[w]
  <1>1. /\ TypeOK /\ Requesting /\ Handling /\ Stopping
        /\ KnownHaveUrls /\ ProcessingIsHeld /\ ActiveJobsAreHeld
    BY DEF ControlInv
  <1>2. /\ hpc' = [hpc EXCEPT ![w] = "none"] /\ wstate[w] = "busy"
        /\ wstate' = [wstate EXCEPT ![w] = "idle"] /\ wjob' = [wjob EXCEPT ![w] = NoId]
        /\ \/ status' = [status EXCEPT ![i] = Outcome(w)] /\ orphaned' = orphaned \ {i}
           \/ StoreFaults /\ status' = status /\ orphaned' = orphaned \union {i}
        /\ UNCHANGED <<queue, closed, cancelled, shutdown, stage, url, repo, disk, req, server, unrecorded>>
    BY DEF FinishJob, HGoto, Pool!HandlerReturns
  <1>3. i \in Ids /\ i \in Running
    BY <1>1, <1>2 DEF Handling, Running
  <1>4. Outcome(w) \in {"completed", "pending", "failed"} /\ (~cancelled => Outcome(w) # "pending")
    BY DEF Outcome
  <1>5. /\ wstate \in [Workers -> {"idle", "busy", "stopped"}] /\ wjob \in [Workers -> Ids \union {NoId}]
        /\ hpc \in [Workers -> HandlerPCs] /\ status \in [Ids -> Statuses] /\ orphaned \subseteq Ids
    BY <1>1 DEF TypeOK, Pool!TypeOK
  <1>6. TypeOK'
    <2>1. status' \in [Ids -> Statuses] /\ orphaned' \subseteq Ids /\ hpc' \in [Workers -> HandlerPCs]
      BY <1>2, <1>3, <1>4, <1>5 DEF Statuses, HandlerPCs
    <2>2. Pool!TypeOK'
      BY <1>1, <1>2, <1>5 DEF TypeOK, Pool!TypeOK
    <2> QED
      BY <2>1, <2>2, <1>1, <1>2 DEF TypeOK
  <1>7. Handling' /\ Requesting' /\ Stopping'
    BY <1>1, <1>2, <1>5 DEF Handling, Requesting, Stopping
  <1>8. /\ Queued' = Queued /\ Claimed' = Claimed
        /\ Running' \subseteq Running /\ Running \subseteq Running' \union {i}
    BY <1>2, <1>5 DEF Queued, Claimed, Running
  <1>9. Active' \subseteq Active \union {i}
    BY <1>2, <1>5 DEF Active
  <1>10. KnownHaveUrls'
    BY <1>1, <1>2, <1>3, <1>8, <1>9 DEF KnownHaveUrls, Known
  <1>11. ProcessingIsHeld'
    <2>1. \A k \in Ids : status'[k] = "processing" =>
            \/ k = i /\ i \in orphaned'
            \/ k # i /\ status[k] = "processing" /\ (k \in orphaned => k \in orphaned')
      BY <1>2, <1>3, <1>4, <1>5
    <2> QED
      BY <2>1, <1>1, <1>2, <1>8 DEF ProcessingIsHeld
  <1>12. ActiveJobsAreHeld'
    <2> SUFFICES ASSUME phase \in {"resuming", "serving"}
                 PROVE  Active' \subseteq Queued' \union Running' \union Claimed' \union resume' \union orphaned'
      BY <1>2 DEF ActiveJobsAreHeld
    <2>1. ~cancelled
      BY <1>1 DEF Stopping
    <2>2. i \notin Active' \/ i \in orphaned'
      BY <2>1, <1>2, <1>3, <1>4, <1>5 DEF Active
    <2>3. orphaned \subseteq orphaned' \union {i}
      BY <1>2
    <2>4. Active \subseteq Queued \union Running \union Claimed \union resume \union orphaned
      BY <1>1 DEF ActiveJobsAreHeld
    <2> QED
      BY <2>2, <2>3, <2>4, <1>2, <1>8, <1>9
  <1> QED
    BY <1>6, <1>7, <1>10, <1>11, <1>12 DEF ControlInv

LEMMA StopWorkerInv ==
  ASSUME ControlInv, NEW w \in Workers, StopWorker(w)
  PROVE  ControlInv'
  <1> USE DEF tables, disk, server
  <1>1. /\ TypeOK /\ Requesting /\ Handling /\ Stopping
        /\ KnownHaveUrls /\ ProcessingIsHeld /\ ActiveJobsAreHeld
    BY DEF ControlInv
  <1>2. /\ wstate[w] = "idle" /\ closed /\ queue = <<>> /\ wstate' = [wstate EXCEPT ![w] = "stopped"]
        /\ UNCHANGED <<queue, closed, wjob, cancelled, shutdown, tables, disk, hpc, req, server, orphaned, unrecorded>>
    BY DEF StopWorker, Pool!WorkerStops
  <1>3. wstate \in [Workers -> {"idle", "busy", "stopped"}]
    BY <1>1 DEF TypeOK, Pool!TypeOK
  <1>4. TypeOK'
    BY <1>1, <1>2, <1>3 DEF TypeOK, Pool!TypeOK
  <1>5. Handling' /\ Requesting' /\ Stopping'
    BY <1>1, <1>2, <1>3 DEF Handling, Requesting, Stopping
  <1>6. Queued' = Queued /\ Running' = Running /\ Claimed' = Claimed /\ Active' = Active
    BY <1>2, <1>3 DEF Queued, Running, Claimed, Active
  <1>7. KnownHaveUrls' /\ ProcessingIsHeld' /\ ActiveJobsAreHeld'
    BY <1>1, <1>2, <1>6 DEF KnownHaveUrls, Known, ProcessingIsHeld, ActiveJobsAreHeld
  <1> QED
    BY <1>4, <1>5, <1>7 DEF ControlInv

(* A start lists every active row for resumption, or orphans them all.     *)
LEMMA BootInv ==
  ASSUME ControlInv, Boot
  PROVE  ControlInv'
  <1> USE DEF poolVars, tables, disk
  <1>1. /\ TypeOK /\ Requesting /\ Handling /\ Stopping
        /\ KnownHaveUrls /\ ProcessingIsHeld /\ ActiveJobsAreHeld
    BY DEF ControlInv
  <1>2. /\ phase = "down" /\ phase' = "resuming"
        /\ \/ resume' = Active /\ orphaned' = {}
           \/ StoreFaults /\ resume' = {} /\ orphaned' = Active
        /\ UNCHANGED <<poolVars, tables, disk, hpc, req, restarts, unrecorded>>
    BY DEF Boot
  <1>3. Active \subseteq Ids
    BY DEF Active
  <1>4. TypeOK'
    BY <1>1, <1>2, <1>3 DEF TypeOK, Pool!TypeOK
  <1>5. Handling' /\ Requesting'
    BY <1>1, <1>2 DEF Handling, Requesting
  <1>6. Stopping'
    BY <1>1, <1>2 DEF Stopping
  <1>7. Queued' = Queued /\ Running' = Running /\ Claimed' = Claimed /\ Active' = Active
    BY <1>2 DEF Queued, Running, Claimed, Active
  <1>8. KnownHaveUrls'
    BY <1>1, <1>2, <1>7 DEF KnownHaveUrls, Known
  <1>9. ActiveJobsAreHeld'
    BY <1>2, <1>7 DEF ActiveJobsAreHeld
  <1>10. ProcessingIsHeld'
    <2>1. \A i \in Ids : status[i] = "processing" => i \in resume' \union orphaned'
      BY <1>2 DEF Active
    <2> QED
      BY <2>1, <1>2 DEF ProcessingIsHeld
  <1> QED
    BY <1>4, <1>5, <1>6, <1>8, <1>9, <1>10 DEF ControlInv

(* A start cut short orphans every active row. *)
LEMMA BootInterruptedInv ==
  ASSUME ControlInv, BootInterrupted
  PROVE  ControlInv'
  <1> USE DEF poolVars, tables, disk
  <1>1. /\ TypeOK /\ Requesting /\ Handling /\ Stopping
        /\ KnownHaveUrls /\ ProcessingIsHeld /\ ActiveJobsAreHeld
    BY DEF ControlInv
  <1>2. /\ phase = "down" /\ phase' = "stopping" /\ orphaned' = Active /\ restarts' = restarts + 1
        /\ restarts < MaxRestarts
        /\ UNCHANGED <<poolVars, tables, disk, hpc, req, resume, unrecorded>>
    BY DEF BootInterrupted
  <1>3. orphaned' \subseteq Ids /\ restarts' \in 0..MaxRestarts
    BY <1>1, <1>2, ControlAssumption DEF Active, TypeOK
  <1>4. TypeOK'
    BY <1>1, <1>2, <1>3 DEF TypeOK, Pool!TypeOK
  <1>5. Handling' /\ Requesting' /\ Stopping'
    BY <1>1, <1>2 DEF Handling, Requesting, Stopping
  <1>6. Queued' = Queued /\ Running' = Running /\ Claimed' = Claimed /\ Active' = Active
    BY <1>2 DEF Queued, Running, Claimed, Active
  <1>7. KnownHaveUrls'
    BY <1>1, <1>2, <1>6 DEF KnownHaveUrls, Known
  <1>8. ProcessingIsHeld' /\ ActiveJobsAreHeld'
    BY <1>2 DEF ProcessingIsHeld, ActiveJobsAreHeld, Active
  <1> QED
    BY <1>4, <1>5, <1>7, <1>8 DEF ControlInv

LEMMA ResumeJobInv ==
  ASSUME ControlInv, NEW i \in Ids, ResumeJob(i)
  PROVE  ControlInv'
  <1> USE DEF disk
  <1>1. /\ TypeOK /\ Requesting /\ Handling /\ Stopping
        /\ KnownHaveUrls /\ ProcessingIsHeld /\ ActiveJobsAreHeld
    BY DEF ControlInv
  <1>2. /\ phase \in {"resuming", "stopping"} /\ i \in resume /\ resume' = resume \ {i}
        /\ UNCHANGED <<stage, url, repo, disk, hpc, req, phase, restarts, unrecorded>>
        /\ UNCHANGED <<closed, wstate, wjob, cancelled, shutdown>>
        /\ \/ queue' = Append(queue, i) /\ status' = status /\ orphaned' = orphaned
           \/ queue' = queue /\ status' = [status EXCEPT ![i] = "failed"] /\ orphaned' = orphaned
           \/ queue' = queue /\ status' = status /\ orphaned' = orphaned \union {i}
    BY DEF ResumeJob, Pool!Enqueue, poolVars
  <1>3. queue \in Seq(Ids) /\ status \in [Ids -> Statuses] /\ ~closed
    BY <1>1, <1>2 DEF TypeOK, Pool!TypeOK, Stopping
  <1>4. TypeOK'
    <2>1. queue' \in Seq(Ids) /\ status' \in [Ids -> Statuses]
      BY <1>2, <1>3 DEF Statuses
    <2> QED
      BY <2>1, <1>1, <1>2 DEF TypeOK, Pool!TypeOK
  <1>5. Handling' /\ Requesting' /\ Stopping'
    BY <1>1, <1>2, <1>3 DEF Handling, Requesting, Stopping
  <1>6. Running' = Running /\ Claimed' = Claimed /\ Active' \subseteq Active
    BY <1>2, <1>3 DEF Running, Claimed, Active
  <1>7. /\ Queued \subseteq Queued' /\ Queued' \subseteq Queued \union {i}
        /\ i \in Queued' \/ i \notin Active' \/ i \in orphaned'
        /\ orphaned \subseteq orphaned'
    BY <1>2, <1>3 DEF Queued, Active
  <1>8. KnownHaveUrls'
    BY <1>1, <1>2, <1>6, <1>7 DEF KnownHaveUrls, Known
  <1>9. ProcessingIsHeld'
    <2>1. \A k \in Ids : status'[k] = "processing" =>
            status[k] = "processing" /\ (k = i => k \in Queued' \union orphaned')
      BY <1>2, <1>3, <1>7 DEF Active
    <2> QED
      BY <2>1, <1>1, <1>2, <1>6, <1>7 DEF ProcessingIsHeld
  <1>10. ActiveJobsAreHeld'
    BY <1>1, <1>2, <1>6, <1>7 DEF ActiveJobsAreHeld
  <1> QED
    BY <1>4, <1>5, <1>8, <1>9, <1>10 DEF ControlInv

LEMMA PhaseInv ==
  ASSUME ControlInv, Serve \/ Stop
  PROVE  ControlInv'
  <1> USE DEF poolVars, tables, disk
  <1>1. /\ TypeOK /\ Requesting /\ Handling /\ Stopping
        /\ KnownHaveUrls /\ ProcessingIsHeld /\ ActiveJobsAreHeld
    BY DEF ControlInv
  <1>2. /\ \/ phase = "resuming" /\ resume = {} /\ phase' = "serving" /\ restarts' = restarts
           \/ /\ phase \in {"resuming", "serving"} /\ phase' = "stopping"
              /\ restarts < MaxRestarts /\ restarts' = restarts + 1
        /\ UNCHANGED <<poolVars, tables, disk, hpc, req, resume, orphaned, unrecorded>>
    BY DEF Serve, Stop
  <1>3. restarts' \in 0..MaxRestarts
    BY <1>1, <1>2, ControlAssumption DEF TypeOK
  <1>4. TypeOK'
    BY <1>1, <1>2, <1>3 DEF TypeOK, Pool!TypeOK
  <1>5. Handling' /\ Requesting' /\ Stopping'
    BY <1>1, <1>2 DEF Handling, Requesting, Stopping
  <1>6. Queued' = Queued /\ Running' = Running /\ Claimed' = Claimed /\ Active' = Active
    BY <1>2 DEF Queued, Running, Claimed, Active
  <1>7. KnownHaveUrls' /\ ProcessingIsHeld' /\ ActiveJobsAreHeld'
    BY <1>1, <1>2, <1>6 DEF KnownHaveUrls, Known, ProcessingIsHeld, ActiveJobsAreHeld
  <1> QED
    BY <1>4, <1>5, <1>7 DEF ControlInv

LEMMA StopPoolInv ==
  ASSUME ControlInv, StopPool
  PROVE  ControlInv'
  <1> USE DEF tables, disk, server
  <1>1. /\ TypeOK /\ Requesting /\ Handling /\ Stopping
        /\ KnownHaveUrls /\ ProcessingIsHeld /\ ActiveJobsAreHeld
    BY DEF ControlInv
  <1>2. /\ phase = "stopping" /\ resume = {} /\ UNCHANGED <<queue, wstate, wjob, tables, disk, hpc, req, server, orphaned, unrecorded>>
        /\ \/ shutdown' = "waiting" /\ closed' = TRUE /\ cancelled' = cancelled
           \/ shutdown # "none" /\ shutdown' = "expired" /\ closed' = closed /\ cancelled' = TRUE
           \/ /\ shutdown # "none" /\ shutdown' = "returned" /\ closed' = closed /\ cancelled' = TRUE
              /\ \A w \in Workers : wstate[w] = "stopped"
    BY DEF StopPool, Pool!BeginShutdown, Pool!DeadlinePasses, Pool!ShutdownReturns, Pool!AllStopped
  <1>3. TypeOK'
    BY <1>1, <1>2 DEF TypeOK, Pool!TypeOK
  <1>4. Handling' /\ Requesting'
    BY <1>1, <1>2 DEF Handling, Requesting
  <1>5. Stopping'
    BY <1>1, <1>2 DEF Stopping
  <1>6. Queued' = Queued /\ Running' = Running /\ Claimed' = Claimed /\ Active' = Active
    BY <1>2 DEF Queued, Running, Claimed, Active
  <1>7. KnownHaveUrls' /\ ProcessingIsHeld' /\ ActiveJobsAreHeld'
    BY <1>1, <1>2, <1>6 DEF KnownHaveUrls, Known, ProcessingIsHeld, ActiveJobsAreHeld
  <1> QED
    BY <1>3, <1>4, <1>5, <1>7 DEF ControlInv

LEMMA GoneInv ==
  ASSUME ControlInv, Exit \/ Crash
  PROVE  ControlInv'
  <1> USE DEF tables
  <1>1. /\ TypeOK /\ Requesting /\ Handling /\ Stopping
        /\ KnownHaveUrls /\ ProcessingIsHeld /\ ActiveJobsAreHeld
    BY DEF ControlInv
  <1>2. /\ phase' = "down" /\ resume' = {} /\ req' = [r \in Requests |-> Idle]
        /\ hpc' = [w \in Workers |-> "none"]
        /\ queue' = <<>> /\ closed' = FALSE /\ cancelled' = FALSE /\ shutdown' = "none"
        /\ wstate' = [w \in Workers |-> "idle"] /\ wjob' = [w \in Workers |-> NoId]
        /\ clone' = clone \/ clone' = [i \in Ids |-> "absent"]
        /\ UNCHANGED <<tables, indexed, damaged, orphaned>>
    BY DEF Exit, Crash, ProcessGone
  <1>3. restarts' \in 0..MaxRestarts
    BY <1>1, ControlAssumption DEF Exit, Crash, TypeOK
  <1>4. TypeOK'
    <2>1. Pool!TypeOK'
      <3>1. queue' \in Seq(Ids)
        BY <1>2
      <3>2. wstate' \in [Workers -> {"idle", "busy", "stopped"}] /\ wjob' \in [Workers -> Ids \union {NoId}]
        BY <1>2
      <3> QED
        BY <3>1, <3>2, <1>2 DEF Pool!TypeOK
    <2>2. req' \in [Requests -> Request]
      <3>1. Idle \in Request
        BY DEF Idle, Request, RequestPCs
      <3> QED
        BY <3>1, <1>2
    <2>3. clone' \in [Ids -> {"absent", "partial", "complete"}] /\ hpc' \in [Workers -> HandlerPCs]
      BY <1>1, <1>2 DEF TypeOK, HandlerPCs
    <2>4. unrecorded' \subseteq Ids
      BY <1>1 DEF Exit, Crash, ProcessGone, TypeOK
    <2> QED
      BY <2>1, <2>2, <2>3, <2>4, <1>1, <1>2, <1>3 DEF TypeOK, Request
  <1>5. Handling' /\ Requesting' /\ Stopping'
    BY <1>2 DEF Handling, Requesting, Stopping, Ready, Idle
  <1>6. Queued' = {} /\ Running' = {} /\ Claimed' = {} /\ Active' = Active
    BY <1>2 DEF Queued, Running, Claimed, Active, Idle
  <1>7. KnownHaveUrls'
    BY <1>1, <1>2, <1>6 DEF KnownHaveUrls, Known
  <1>8. ProcessingIsHeld' /\ ActiveJobsAreHeld'
    BY <1>2 DEF ProcessingIsHeld, ActiveJobsAreHeld
  <1> QED
    BY <1>4, <1>5, <1>7, <1>8 DEF ControlInv

LEMMA ControlStepInv ==
  ASSUME ControlInv, [Next]_vars
  PROVE  ControlInv'
  <1>1. CASE UNCHANGED vars
    <2> USE <1>1 DEF vars, poolVars, tables, disk, server
    <2>1. /\ TypeOK /\ Requesting /\ Handling /\ Stopping
          /\ KnownHaveUrls /\ ProcessingIsHeld /\ ActiveJobsAreHeld
      BY DEF ControlInv
    <2>2. Queued' = Queued /\ Running' = Running /\ Claimed' = Claimed /\ Active' = Active
      BY DEF Queued, Running, Claimed, Active
    <2>3. TypeOK' /\ Requesting' /\ Handling' /\ Stopping'
      BY <2>1 DEF TypeOK, Pool!TypeOK, Requesting, Handling, Stopping
    <2>4. KnownHaveUrls' /\ ProcessingIsHeld' /\ ActiveJobsAreHeld'
      BY <2>1, <2>2 DEF KnownHaveUrls, Known, ProcessingIsHeld, ActiveJobsAreHeld
    <2> QED
      BY <2>3, <2>4 DEF ControlInv
  <1>2. ASSUME NEW r \in Requests, RequestStep(r)
        PROVE  ControlInv'
    BY <1>2, QuietRequestInv, InsertJobInv, EnqueueAcceptedInv, RefusedInv DEF RequestStep
  <1>3. ASSUME NEW r \in Requests, (\E u \in Urls : ReceiveCreate(r, u)) \/ \E i \in Ids : ReceiveSync(r, i)
        PROVE  ControlInv'
    BY <1>3, QuietRequestInv
  <1>4. ASSUME NEW w \in Workers, TakeJob(w) \/ HandlerStep(w) \/ StopWorker(w)
        PROVE  ControlInv'
    BY <1>4, TakeJobInv, StartJobInv, QuietHandlerInv, FinishJobInv, StopWorkerInv DEF HandlerStep
  <1>5. ASSUME ServerStep \/ Stop \/ BootInterrupted \/ Crash
        PROVE  ControlInv'
    BY <1>5, BootInv, BootInterruptedInv, PhaseInv, StopPoolInv, GoneInv, ResumeJobInv DEF ServerStep
  <1> QED
    BY <1>1, <1>2, <1>3, <1>4, <1>5 DEF Next

(* The types, and what ties requests, handlers, pool, phase and rows       *)
(* together, hold in every reachable state.                                *)
THEOREM ControlInvariant == Spec => []ControlInv
  <1>1. ControlInv /\ [Next]_vars => ControlInv'
    BY ControlStepInv
  <1> QED
    BY <1>1, ControlInitInv, PTL DEF Spec

(* Every variable of the control plane keeps its type.                     *)
THEOREM ControlTypes == Spec => []TypeOK
  <1>1. ControlInv => TypeOK
    BY DEF ControlInv
  <1> QED
    BY <1>1, ControlInvariant, PTL

(* However many requests overlap, whatever is refused, lost, stopped or    *)
(* crashed: an active row is queued, running, claimed, about to be resumed *)
(* or one of the orphans of a refused sync or a lost write.                *)
THEOREM ActiveHeld == Spec => []ActiveJobsAreHeld
  <1>1. ControlInv => ActiveJobsAreHeld
    BY DEF ControlInv
  <1> QED
    BY <1>1, ControlInvariant, PTL

(* A Shutdown that returned left no row processing but those a start cut   *)
(* short could not take on, and those whose last write was lost.           *)
THEOREM NoneLeftProcessing == Spec => []StoppedLeavesNoneProcessing
  <1>1. ControlInv => StoppedLeavesNoneProcessing
    <2> SUFFICES ASSUME ControlInv, shutdown = "returned", NEW i \in Ids, status[i] = "processing"
                 PROVE  i \in orphaned
      BY DEF StoppedLeavesNoneProcessing
    <2>1. Stopping /\ ProcessingIsHeld
      BY DEF ControlInv
    <2>2. closed /\ phase = "stopping" /\ resume = {}
      BY <2>1 DEF Stopping
    <2>3. \A w \in Workers : wstate[w] = "stopped" /\ queue = <<>>
      BY <2>1 DEF Stopping
    <2>4. Running = {} /\ Queued = {}
      BY <2>3, ControlAssumption DEF Running, Queued
    <2> QED
      BY <2>1, <2>2, <2>4 DEF ProcessingIsHeld
  <1> QED
    BY <1>1, ControlInvariant, PTL
-----------------------------------------------------------------------------
(***************************************************************************)
(* What the active-job check of CreateRepo and checkAndEnqueueSync gives   *)
(* when requests for one URL do not overlap, however many requests for     *)
(* other URLs do, for any URLs, IDs, workers, queue size and restarts,     *)
(* with or without lost writes and files passed over: one handler per      *)
(* clone, one repository per URL, no restart of a finished job, completed  *)
(* jobs that can be used.  With two requests for a URL at once the first   *)
(* fails (the run two_handlers_one_clone), hence ApartSpec.                *)
(***************************************************************************)

(* A job is in one place: with one worker, or once in the queue, or with   *)
(* the request that wrote it, or listed for resumption; and it is active.  *)
HeldOnce ==
    /\ OneHandlerPerClone
    /\ \A w \in Workers : wstate[w] # "busy" => wjob[w] = NoId
    /\ Claimed \cap (Queued \union Running \union resume) = {}
    /\ resume \cap (Queued \union Running) = {}
    /\ Queued \union Running \union Claimed \union resume \subseteq Active
    /\ phase = "down" => Queued \union Running = {} /\ \A r \in Requests : req[r].pc = "idle"

(* What a request found is still so when it writes: nothing of its URL is  *)
(* active, and its ID is that of the URL's repository or one of its own.   *)
Cleared(q) ==
    /\ q.pc \in {"idle", "lookup"} => q.id = NoId
    /\ q.pc \in {"lookup", "stale", "compare", "insert"} => ActiveOn(q.url) = {}
    /\ q.pc \in {"stale", "compare"} => q.id \in repo /\ url[q.id] = q.url
    /\ q.pc = "insert" => \/ q.id \in repo /\ url[q.id] = q.url
                          \/ status[q.id] = "none" /\ \A k \in repo : url[k] # q.url
    /\ q.pc = "enqueue" => url[q.id] = q.url

AllCleared == \A r \in Requests : Cleared(req[r])

(* No ID is on two requests. *)
IdsDiffer ==
    \A q, r \in Requests : q # r /\ req[q].id = req[r].id => req[q].id = NoId

UrlsDiffer ==
    /\ \A i, k \in repo \union Active : url[i] = url[k] => i = k
    /\ \A i \in repo : status[i] # "none"

(* A working copy is recorded, or its handler has yet to record it or was  *)
(* cut off before that; a handler past the clone works on a recorded copy  *)
(* or on one of the latter.                                                *)
Kept(i)   == i \in repo \union unrecorded
Usable(i) == \/ i \in repo /\ (i \in indexed \/ i \in damaged)
             \/ i \notin repo /\ i \in unrecorded

ClonesAreKept ==
    /\ \A i \in Ids : clone[i] # "absent" =>
          Kept(i) \/ \E w \in Workers : wjob[w] = i /\ hpc[w] \in {"cloning", "record"}
    /\ \A w \in Workers :
          /\ hpc[w] \in {"walk", "process", "succeeded"} => Kept(wjob[w])
          /\ hpc[w] = "succeeded" => Usable(wjob[w])
    /\ \A i \in Ids : status[i] = "completed" => Usable(i)

ApartInv ==
    /\ ControlInv /\ Apart /\ HeldOnce /\ UrlsDiffer /\ IdsDiffer /\ ClonesAreKept
    /\ AllCleared

LEMMA ApartInitInv == Init => ApartInv
  <1> SUFFICES ASSUME Init PROVE ApartInv
    OBVIOUS
  <1>1. /\ queue = <<>> /\ wstate = [w \in Workers |-> "idle"] /\ wjob = [w \in Workers |-> NoId]
        /\ status = [i \in Ids |-> "none"] /\ clone = [i \in Ids |-> "absent"] /\ repo = {}
        /\ req = [r \in Requests |-> Idle] /\ hpc = [w \in Workers |-> "none"]
        /\ phase = "down" /\ resume = {} /\ Idle.pc = "idle" /\ Idle.id = NoId
    BY DEF Init, Pool!Init, Idle
  <1>2. Queued = {} /\ Running = {} /\ Claimed = {} /\ Active = {}
    BY <1>1 DEF Queued, Running, Claimed, Active
  <1>3. OneHandlerPerClone
    BY <1>1, <1>2 DEF OneHandlerPerClone
  <1>4. HeldOnce
    BY <1>1, <1>2, <1>3 DEF HeldOnce
  <1>5. UrlsDiffer /\ IdsDiffer /\ ClonesAreKept /\ Apart
    BY <1>1, <1>2 DEF UrlsDiffer, IdsDiffer, ClonesAreKept, Apart
  <1>6. AllCleared
    BY <1>1 DEF AllCleared, Cleared
  <1> QED
    BY <1>4, <1>5, <1>6, ControlInitInv DEF ApartInv

(* Steps of handlers and server only ever finish what is active: what a    *)
(* request found stays so.                                                 *)
LEMMA Settled ==
  ASSUME ApartInv, url' = url, repo \subseteq repo', repo' \subseteq repo \union Active, Active' \subseteq Active,
         \A k \in Ids : status'[k] = "none" <=> status[k] = "none",
         \A r \in Requests : req'[r] = req[r] \/ req'[r] = Idle
  PROVE  UrlsDiffer' /\ IdsDiffer' /\ Apart' /\ AllCleared'
  <1>0. /\ Apart /\ UrlsDiffer /\ IdsDiffer /\ AllCleared /\ TypeOK /\ Requesting
        /\ Idle.pc = "idle" /\ Idle.id = NoId
    BY DEF ApartInv, ControlInv, Idle
  <1>1. UrlsDiffer'
    <2>1. repo' \union Active' \subseteq repo \union Active
      OBVIOUS
    <2>2. \A i \in repo' : i \in Ids /\ status[i] # "none"
      BY <1>0 DEF TypeOK, UrlsDiffer, Active
    <2> QED
      BY <2>1, <2>2, <1>0 DEF UrlsDiffer
  <1>2. ASSUME NEW r \in Requests PROVE Cleared(req[r])'
    <2>1. CASE req'[r] = Idle
      BY <2>1, <1>0 DEF Cleared
    <2>2. CASE req'[r] = req[r]
      <3>0. PICK q : q = req[r]
        OBVIOUS
      <3>1. Cleared(q) /\ Ready(q) /\ repo \subseteq Ids
        BY <3>0, <1>0 DEF AllCleared, Requesting, TypeOK
      <3>2. \A u : ActiveOn(u)' \subseteq ActiveOn(u)
        BY DEF ActiveOn
      <3>3. q.pc = "insert" => q.id \in Ids
        BY <3>1 DEF Ready
      <3>4. q.pc \in {"lookup", "stale", "compare", "insert"} => ActiveOn(q.url)' = {} /\ ActiveOn(q.url) = {}
        BY <3>1, <3>2 DEF Cleared
      <3>5. /\ q.pc \in {"stale", "compare"} => q.id \in repo' /\ url'[q.id] = q.url
            /\ q.pc \in {"idle", "lookup"} => q.id = NoId
            /\ q.pc = "enqueue" => url'[q.id] = q.url
        BY <3>1 DEF Cleared
      <3>6. q.pc = "insert" => \/ q.id \in repo' /\ url'[q.id] = q.url
                               \/ status'[q.id] = "none" /\ \A k \in repo' : url'[k] # q.url
        <4> SUFFICES ASSUME q.pc = "insert"
                     PROVE  \/ q.id \in repo' /\ url'[q.id] = q.url
                            \/ status'[q.id] = "none" /\ \A k \in repo' : url'[k] # q.url
          OBVIOUS
        <4>1. \A k \in Active : url[k] # q.url
          BY <3>4 DEF ActiveOn
        <4> QED
          BY <4>1, <3>1, <3>3 DEF Cleared
      <3> QED
        BY <2>2, <3>0, <3>4, <3>5, <3>6 DEF Cleared
    <2> QED
      BY <2>1, <2>2
  <1>3. IdsDiffer' /\ Apart'
    BY <1>0 DEF IdsDiffer, Apart
  <1> QED
    BY <1>1, <1>2, <1>3 DEF AllCleared

(* A request that reads and decides, on an ID no other request has. *)
LEMMA RequestDecides ==
  ASSUME ApartInv, Apart', NEW r \in Requests, NEW q \in Request, Ready(q), Cleared(q),
         req[r].pc # "enqueue", q.pc # "enqueue", req' = [req EXCEPT ![r] = q],
         req[r].pc # "idle" \/ phase = "serving",
         \A x \in Requests : x # r /\ req[x].id = q.id => q.id = NoId,
         UNCHANGED <<poolVars, tables, disk, hpc, server, orphaned, unrecorded>>
  PROVE  ApartInv'
  <1> USE DEF poolVars, tables, disk, server
  <1>1. ControlInv /\ HeldOnce /\ UrlsDiffer /\ IdsDiffer /\ ClonesAreKept /\ AllCleared
    BY DEF ApartInv
  <1>2. ControlInv'
    BY <1>1, RequestMoves
  <1>3. DOMAIN req = Requests /\ req'[r] = q /\ \A x \in Requests : x # r => req'[x] = req[x]
    BY <1>1 DEF ControlInv, TypeOK
  <1>4. Queued' = Queued /\ Running' = Running /\ Active' = Active /\ Claimed' = Claimed
    <2>1. Queued' = Queued /\ Running' = Running /\ Active' = Active
      BY DEF Queued, Running, Active
    <2>2. Claimed' = Claimed
      BY <1>3 DEF Claimed
    <2> QED
      BY <2>1, <2>2
  <1>5. phase # "down"
    BY <1>1 DEF HeldOnce
  <1>6. HeldOnce'
    BY <1>1, <1>4, <1>5 DEF HeldOnce, OneHandlerPerClone
  <1>7. ClonesAreKept'
    BY <1>1 DEF ClonesAreKept, Kept, Usable
  <1>8. UrlsDiffer' /\ IdsDiffer'
    BY <1>1, <1>3, <1>4 DEF UrlsDiffer, IdsDiffer
  <1>9. AllCleared'
    <2>1. \A u : ActiveOn(u)' = ActiveOn(u)
      BY <1>4 DEF ActiveOn
    <2>2. ASSUME NEW x \in Requests PROVE Cleared(req[x])'
      <3>1. PICK p : p = req'[x] /\ Cleared(p)
        BY <1>1, <1>3 DEF AllCleared
      <3> QED
        BY <3>1, <2>1 DEF Cleared
    <2> QED
      BY <2>2 DEF AllCleared
  <1> QED
    BY <1>2, <1>6, <1>7, <1>8, <1>9 DEF ApartInv

(* The repository of a URL is on no request but one for that URL. *)
LEMMA NotElsewhere ==
  ASSUME ApartInv, Apart', NEW r \in Requests, NEW i \in repo, req'[r].pc # "idle", req'[r].url = url[i],
         \A x \in Requests : x # r => req'[x] = req[x]
  PROVE  \A x \in Requests : x # r => req[x].id # i
  <1> SUFFICES ASSUME NEW x \in Requests, x # r, req[x].id = i PROVE FALSE
    OBVIOUS
  <1>1. Cleared(req[x]) /\ UrlsDiffer /\ TypeOK
    BY DEF ApartInv, AllCleared, ControlInv
  <1>2. i \in Ids /\ i # NoId /\ status[i] # "none"
    BY <1>1, ControlAssumption DEF TypeOK, UrlsDiffer
  <1>3. req[x].pc \notin {"idle", "lookup"} /\ req[x].pc \in RequestPCs
    BY <1>1, <1>2 DEF Cleared, TypeOK
  <1>4. url[i] = req[x].url
    BY <1>1, <1>2, <1>3 DEF Cleared, RequestPCs
  <1>5. req'[x].pc # "idle" /\ req'[x].url = req'[r].url
    BY <1>3, <1>4
  <1> QED
    BY <1>5 DEF Apart

LEMMA ApartQuietRequest ==
  ASSUME ApartInv, Apart', NEW r \in Requests,
         \/ \E u \in Urls : ReceiveCreate(r, u)
         \/ \E i \in Ids : ReceiveSync(r, i)
         \/ LookupNew(r) \/ LookupExisting(r) \/ CheckStaleness(r)
         \/ CompareStale(r) \/ CompareUpToDate(r) \/ RequestFails(r)
  PROVE  ApartInv'
  <1>1. TypeOK /\ Requesting /\ KnownHaveUrls /\ Cleared(req[r]) /\ IdsDiffer
    BY DEF ApartInv, ControlInv, AllCleared
  <1>2. req[r] \in Request /\ Ready(req[r]) /\ req \in [Requests -> Request]
    BY <1>1 DEF TypeOK, Request, Requesting
  <1> DEFINE Rest == UNCHANGED <<poolVars, tables, disk, hpc, server, orphaned, unrecorded>>
             Fits(q) == q \in Request /\ Ready(q) /\ Cleared(q) /\ q.pc # "enqueue"
             Own(q) == \A x \in Requests : x # r /\ req[x].id = q.id => q.id = NoId
             Free == req[r].pc # "enqueue" /\ (req[r].pc # "idle" \/ phase = "serving") /\ Rest
  <1>3. ASSUME NEW q, Fits(q), Own(q), Free, req' = [req EXCEPT ![r] = q]
        PROVE  ApartInv'
    BY <1>3, RequestDecides
  <1>4. Fits(Idle) /\ Own(Idle)
    BY DEF Idle, Request, RequestPCs, Ready, Cleared
  <1>5. CASE \E u \in Urls : ReceiveCreate(r, u)
    <2>1. PICK u \in Urls : ReceiveCreate(r, u)
      BY <1>5
    <2> DEFINE q == [pc |-> "lookup", kind |-> "create", id |-> NoId, url |-> u]
    <2>2. Fits(q) /\ Own(q)
      BY <2>1 DEF Request, RequestPCs, Ready, Cleared, ReceiveCreate
    <2> QED
      BY <2>1, <2>2, <1>3 DEF ReceiveCreate
  <1>6. CASE \E i \in Ids : ReceiveSync(r, i)
    <2>1. PICK i \in Ids : ReceiveSync(r, i)
      BY <1>6
    <2> DEFINE q == [pc |-> "compare", kind |-> "sync", id |-> i, url |-> url[i]]
    <2>2. url[i] \in Urls /\ i \in repo /\ ActiveOn(url[i]) = {}
      BY <2>1, <1>1 DEF ReceiveSync, KnownHaveUrls, Known
    <2>3. Fits(q)
      BY <2>2 DEF Request, RequestPCs, Ready, Cleared
    <2>4. Own(q)
      <3>1. req' = [req EXCEPT ![r] = q]
        BY <2>1 DEF ReceiveSync
      <3>2. req'[r] = q /\ \A x \in Requests : x # r => req'[x] = req[x]
        BY <3>1, <1>2
      <3> QED
        BY <3>2, <2>2, NotElsewhere
    <2> QED
      BY <2>1, <2>3, <2>4, <1>3 DEF ReceiveSync
  <1>7. CASE LookupNew(r)
    <2>1. PICK i \in Ids : /\ status[i] = "none" /\ \A x \in Requests : req[x].id # i
                           /\ req' = [req EXCEPT ![r].pc = "insert", ![r].id = i]
      BY <1>7 DEF LookupNew
    <2> DEFINE q == [req[r] EXCEPT !.pc = "insert", !.id = i]
    <2>2. /\ q \in Request /\ q.pc = "insert" /\ q.id = i /\ q.url = req[r].url
          /\ req[r].pc = "lookup" /\ Free /\ \A k \in repo : url[k] # req[r].url
      BY <1>2, <1>7 DEF LookupNew, Request, RequestPCs
    <2>3. req' = [req EXCEPT ![r] = q]
      BY <2>1, <1>2
    <2> HIDE DEF q
    <2>4. Fits(q) /\ Own(q)
      BY <2>1, <2>2, <1>1, <1>2 DEF Ready, Cleared
    <2> QED
      BY <2>2, <2>3, <2>4, <1>3
  <1>8. CASE LookupExisting(r)
    <2>1. PICK i \in repo :
            /\ url[i] = req[r].url
            /\ \/ req' = [req EXCEPT ![r].pc = "stale", ![r].kind = "sync", ![r].id = i]
               \/ req' = [req EXCEPT ![r].pc = "insert", ![r].id = i]
      BY <1>8 DEF LookupExisting
    <2> DEFINE p == [req[r] EXCEPT !.pc = "stale", !.kind = "sync", !.id = i]
               q == [req[r] EXCEPT !.pc = "insert", !.id = i]
    <2>2. /\ p \in Request /\ p.pc = "stale" /\ p.id = i /\ p.url = req[r].url
          /\ q \in Request /\ q.pc = "insert" /\ q.id = i /\ q.url = req[r].url
          /\ req[r].pc = "lookup" /\ Free /\ i \in Ids
      BY <1>1, <1>2, <1>8 DEF LookupExisting, Request, RequestPCs, TypeOK
    <2>3. req' = [req EXCEPT ![r] = p] \/ req' = [req EXCEPT ![r] = q]
      BY <2>1, <1>2
    <2> HIDE DEF p, q
    <2>4. Fits(p) /\ Fits(q)
      BY <2>1, <2>2, <1>1, <1>2 DEF Ready, Cleared
    <2>5. Own(p) /\ Own(q)
      <3>1. (req'[r] = p \/ req'[r] = q) /\ \A x \in Requests : x # r => req'[x] = req[x]
        BY <2>3, <1>2
      <3>2. req'[r].pc # "idle" /\ req'[r].url = url[i]
        BY <3>1, <2>1, <2>2
      <3> QED
        BY <3>1, <3>2, <2>1, <2>2, NotElsewhere
    <2> QED
      BY <2>2, <2>3, <2>4, <2>5, <1>3
  <1>9. CASE CheckStaleness(r) \/ CompareStale(r)
    <2>1. /\ Free /\ req[r].pc \in {"stale", "compare"}
          /\ \/ \E pc \in {"compare", "insert"} : req' = [req EXCEPT ![r] = [req[r] EXCEPT !.pc = pc]]
             \/ req' = [req EXCEPT ![r] = Idle]
      BY <1>9 DEF CheckStaleness, CompareStale, Goto, Done
    <2>2. ASSUME NEW pc \in {"compare", "insert"} PROVE Fits([req[r] EXCEPT !.pc = pc]) /\ Own([req[r] EXCEPT !.pc = pc])
      <3> DEFINE q == [req[r] EXCEPT !.pc = pc]
      <3>1. q \in Request /\ q.pc = pc /\ q.id = req[r].id /\ q.url = req[r].url
        BY <1>2 DEF Request, RequestPCs
      <3> HIDE DEF q
      <3> QED
        BY <3>1, <2>1, <1>1, <1>2 DEF Ready, Cleared, IdsDiffer, q
    <2> QED
      BY <2>1, <2>2, <1>3, <1>4
  <1>10. CASE CompareUpToDate(r) \/ RequestFails(r)
    <2>1. Free /\ req' = [req EXCEPT ![r] = Idle]
      BY <1>10 DEF CompareUpToDate, RequestFails, Done
    <2> QED
      BY <2>1, <1>3, <1>4
  <1> QED
    BY <1>5, <1>6, <1>7, <1>8, <1>9, <1>10

(* A handler that goes on with its job. *)
LEMMA HandlerGoesOn ==
  ASSUME ApartInv, ControlInv', NEW w \in Workers, NEW pc \in HandlerPCs \ {"none"}, NEW i \in Ids,
         i = wjob[w], hpc[w] # "none", hpc' = [hpc EXCEPT ![w] = pc],
         UNCHANGED <<poolVars, url, req, server>>,
         Active' = Active, \A k \in Ids \ {i} : status'[k] = status[k],
         repo \subseteq repo', repo' \subseteq repo \union {i},
         \A k \in Ids \ {i} : /\ clone'[k] = clone[k]
                              /\ Kept(k) => Kept(k)'
                              /\ Usable(k) => Usable(k)',
         clone'[i] # "absent" => Kept(i)' \/ pc \in {"cloning", "record"},
         pc \in {"walk", "process", "succeeded"} => Kept(i)',
         pc = "succeeded" => Usable(i)'
  PROVE  ApartInv'
  <1> USE DEF poolVars, server
  <1>1. ControlInv /\ HeldOnce /\ ClonesAreKept
    BY DEF ApartInv
  <1>2. Handling /\ hpc \in [Workers -> HandlerPCs] /\ wjob \in [Workers -> Ids \union {NoId}]
    BY <1>1 DEF ControlInv, TypeOK, Pool!TypeOK
  <1>3. /\ wstate[w] = "busy" /\ i \in Running /\ i \in Active /\ i # NoId
    BY <1>1, <1>2, ControlAssumption DEF Handling, Running, HeldOnce
  <1>4. Queued' = Queued /\ Running' = Running /\ Claimed' = Claimed
    BY DEF Queued, Running, Claimed
  <1>5. HeldOnce'
    BY <1>1, <1>4 DEF HeldOnce, OneHandlerPerClone
  <1>6. UrlsDiffer' /\ IdsDiffer' /\ Apart' /\ AllCleared'
    <2>1. \A k \in Ids : status'[k] = "none" <=> status[k] = "none"
      BY <1>3 DEF Active
    <2> QED
      BY <1>3, <2>1, Settled
  <1>7. ClonesAreKept'
    <2>1. ASSUME NEW v \in Workers, v # w
          PROVE  /\ hpc'[v] = hpc[v] /\ wjob'[v] = wjob[v]
                 /\ hpc[v] # "none" => wjob[v] \in Ids /\ wjob[v] # i
      BY <2>1, <1>1, <1>2, ControlAssumption DEF Handling, HeldOnce, OneHandlerPerClone
    <2>2. hpc'[w] = pc /\ wjob'[w] = i
      BY <1>2
    <2>3. ASSUME NEW v \in Workers
          PROVE  /\ hpc'[v] \in {"walk", "process", "succeeded"} => Kept(wjob[v])'
                 /\ hpc'[v] = "succeeded" => Usable(wjob[v])'
      <3>1. CASE v = w
        BY <3>1, <2>2 DEF Kept, Usable
      <3>2. CASE v # w
        <4>1. PICK k : k = wjob[v]
          OBVIOUS
        <4>2. /\ hpc[v] \in {"walk", "process", "succeeded"} => k \in Ids \ {i} /\ Kept(k)
              /\ hpc[v] = "succeeded" => k \in Ids \ {i} /\ Usable(k)
          BY <4>1, <3>2, <2>1, <1>1 DEF ClonesAreKept
        <4>3. wjob'[v] = k /\ hpc'[v] = hpc[v]
          BY <4>1, <3>2, <2>1
        <4> QED
          BY <4>2, <4>3 DEF Kept, Usable
      <3> QED
        BY <3>1, <3>2
    <2>4. ASSUME NEW k \in Ids, clone'[k] # "absent"
          PROVE  Kept(k)' \/ \E v \in Workers : wjob'[v] = k /\ hpc'[v] \in {"cloning", "record"}
      <3>1. CASE k = i
        BY <3>1, <2>2, <2>4
      <3>2. CASE k # i
        <4>1. Kept(k) \/ \E v \in Workers : wjob[v] = k /\ hpc[v] \in {"cloning", "record"}
          BY <3>2, <2>4, <1>1 DEF ClonesAreKept
        <4>2. \A v \in Workers : wjob[v] = k => v # w
          BY <3>2
        <4> QED
          BY <4>1, <4>2, <3>2, <2>1
      <3> QED
        BY <3>1, <3>2
    <2>5. \A k \in Ids : status'[k] = "completed" => Usable(k)'
      <3>1. status'[i] # "completed"
        BY <1>3 DEF Active
      <3> QED
        BY <3>1, <1>1 DEF ClonesAreKept
    <2> QED
      BY <2>3, <2>4, <2>5 DEF ClonesAreKept
  <1> QED
    BY <1>5, <1>6, <1>7 DEF ApartInv

LEMMA ApartQuietHandler ==
  ASSUME ApartInv, NEW w \in Workers,
         \/ StartJob(w)
         \/ BeginClone(w) \/ CloneSucceeds(w) \/ CloneFails(w) \/ RecordRepository(w)
         \/ SyncSucceeds(w) \/ WalkSucceeds(w) \/ JobFails(w) \/ ProcessFiles(w)
  PROVE  ApartInv'
  <1> USE DEF tables, disk
  <1>1. ControlInv /\ TypeOK /\ Handling /\ HeldOnce /\ ClonesAreKept
    BY DEF ApartInv, ControlInv
  <1>2. ControlInv'
    BY <1>1, QuietHandlerInv, StartJobInv
  <1>3. /\ clone \in [Ids -> {"absent", "partial", "complete"}] /\ status \in [Ids -> Statuses]
        /\ wjob \in [Workers -> Ids \union {NoId}]
    BY <1>1 DEF TypeOK, Pool!TypeOK
  <1>4. /\ hpc[w] # "none" /\ UNCHANGED <<poolVars, url, req, server>>
    BY DEF StartJob, BeginClone, CloneSucceeds, CloneFails, RecordRepository, SyncSucceeds, WalkSucceeds,
           JobFails, ProcessFiles
  <1>5. PICK i \in Ids : i = wjob[w] /\ i \in Active
    BY <1>1, <1>4 DEF Handling, HeldOnce, Running
  <1>6. /\ Active' = Active /\ \A k \in Ids \ {i} : status'[k] = status[k]
    <2>1. CASE StartJob(w)
      BY <2>1, <1>3, <1>5 DEF StartJob, Active
    <2>2. CASE ~StartJob(w)
      <3>1. status' = status
        BY <2>2 DEF BeginClone, CloneSucceeds, CloneFails, RecordRepository, SyncSucceeds,
           WalkSucceeds, JobFails, ProcessFiles
      <3> QED
        BY <3>1 DEF Active
    <2> QED
      BY <2>1, <2>2
  <1>7. /\ repo \subseteq repo' /\ repo' \subseteq repo \union {i}
        /\ damaged \subseteq damaged'
        /\ \A k \in Ids \ {i} : /\ clone'[k] = clone[k]
                                /\ k \in indexed => k \in indexed'
                                /\ k \in unrecorded <=> k \in unrecorded'
    BY <1>3, <1>5 DEF StartJob, BeginClone, CloneSucceeds, CloneFails, RecordRepository, SyncSucceeds,
           WalkSucceeds, JobFails, ProcessFiles
  <1>8. \A k \in Ids \ {i} : /\ clone'[k] = clone[k]
                             /\ Kept(k) => Kept(k)'
                             /\ Usable(k) => Usable(k)'
    BY <1>7 DEF Kept, Usable
  <1>9. /\ hpc[w] \notin {"cloning", "record"} /\ clone[i] # "absent" => i \in repo \union unrecorded
        /\ hpc[w] \in {"walk", "process", "succeeded"} => i \in repo \union unrecorded
    <2>1. \A v \in Workers : wjob[v] = i => v = w
      BY <1>1, <1>5, ControlAssumption DEF HeldOnce, OneHandlerPerClone
    <2> QED
      BY <2>1, <1>1, <1>5 DEF ClonesAreKept, Kept
  <1>10. PICK pc \in HandlerPCs \ {"none"} :
           /\ hpc' = [hpc EXCEPT ![w] = pc]
           /\ clone'[i] # "absent" => i \in repo' \union unrecorded' \/ pc \in {"cloning", "record"}
           /\ pc \in {"walk", "process", "succeeded"} => i \in repo' \union unrecorded'
           /\ pc = "succeeded" => \/ i \in repo' /\ (i \in indexed' \/ i \in damaged')
                                  \/ i \notin repo' /\ i \in unrecorded'
    <2> DEFINE Goal(pc) == /\ pc \in HandlerPCs \ {"none"} /\ hpc' = [hpc EXCEPT ![w] = pc]
                           /\ clone'[i] # "absent" => i \in repo' \union unrecorded' \/ pc \in {"cloning", "record"}
                           /\ pc \in {"walk", "process", "succeeded"} => i \in repo' \union unrecorded'
                           /\ pc = "succeeded" => \/ i \in repo' /\ (i \in indexed' \/ i \in damaged')
                                                  \/ i \notin repo' /\ i \in unrecorded'
    <2>1. CASE StartJob(w)
      <3>1. Goal("fetch")
        BY <2>1, <1>9 DEF StartJob, HGoto, HandlerPCs
      <3> QED
        BY <3>1
    <2>2. CASE BeginClone(w)
      <3>1. Goal("cloning")
        BY <2>2 DEF BeginClone, HGoto, HandlerPCs
      <3> QED
        BY <3>1
    <2>3. CASE CloneSucceeds(w)
      <3>1. Goal("record")
        BY <2>3 DEF CloneSucceeds, HGoto, HandlerPCs
      <3> QED
        BY <3>1
    <2>4. CASE CloneFails(w)
      <3>1. Goal("failed")
        BY <2>4, <1>3, <1>5 DEF CloneFails, HGoto, HandlerPCs
      <3> QED
        BY <3>1
    <2>5. CASE JobFails(w)
      <3>1. Goal("failed")
        BY <2>5, <1>5, <1>9 DEF JobFails, HGoto, HandlerPCs
      <3> QED
        BY <3>1
    <2>6. CASE RecordRepository(w)
      <3>1. Goal("walk")
        BY <2>6, <1>5 DEF RecordRepository, HGoto, HandlerPCs
      <3> QED
        BY <3>1
    <2>7. CASE SyncSucceeds(w)
      <3>1. Goal("walk")
        BY <2>7, <1>5, <1>9 DEF SyncSucceeds, HGoto, HandlerPCs
      <3> QED
        BY <3>1
    <2>8. CASE WalkSucceeds(w)
      <3>1. Goal("process")
        BY <2>8, <1>9 DEF WalkSucceeds, HGoto, HandlerPCs
      <3> QED
        BY <3>1
    <2>9. CASE ProcessFiles(w)
      <3>1. Goal("succeeded")
        BY <2>9, <1>5, <1>9 DEF ProcessFiles, HGoto, HandlerPCs
      <3> QED
        BY <3>1
    <2> QED
      BY <2>1, <2>2, <2>3, <2>4, <2>5, <2>6, <2>7, <2>8, <2>9
  <1>11. /\ Kept(i)' <=> i \in repo' \union unrecorded'
         /\ Usable(i)' <=> \/ i \in repo' /\ (i \in indexed' \/ i \in damaged')
                           \/ i \notin repo' /\ i \in unrecorded'
    BY DEF Kept, Usable
  <1> QED
    BY <1>2, <1>4, <1>5, <1>6, <1>7, <1>8, <1>10, <1>11, HandlerGoesOn

(* The write of InsertJob: nothing of its URL was active, so the job is in *)
(* no other place and its URL in no other row.                             *)
LEMMA ApartInsertJob ==
  ASSUME ApartInv, Apart', NEW r \in Requests, InsertJob(r)
  PROVE  ApartInv'
  <1> USE DEF poolVars, disk, server
  <1>1. /\ ControlInv /\ Apart /\ HeldOnce /\ UrlsDiffer /\ IdsDiffer /\ ClonesAreKept /\ AllCleared
        /\ TypeOK /\ Requesting /\ Handling /\ Stopping
    BY DEF ApartInv, ControlInv
  <1>2. ControlInv' /\ Cleared(req[r]) /\ Ready(req[r])
    BY <1>1, InsertJobInv DEF AllCleared, Requesting
  <1>3. PICK i \in Ids, u \in Urls : i = req[r].id /\ u = req[r].url /\ i # NoId
    BY <1>2, ControlAssumption DEF InsertJob, Ready
  <1>4. /\ req[r].pc = "insert" /\ status' = [status EXCEPT ![i] = "pending"] /\ url' = [url EXCEPT ![i] = u]
        /\ UNCHANGED <<poolVars, stage, repo, disk, hpc, server, unrecorded>>
    BY <1>3 DEF InsertJob
  <1>5. /\ \/ req'[r].pc = "enqueue" /\ req'[r].id = i /\ req'[r].url = u
           \/ req'[r] = Idle
        /\ \A x \in Requests : x # r => req'[x] = req[x] /\ req[x].id # i
        /\ Idle.pc = "idle" /\ Idle.id = NoId
    BY <1>1, <1>3 DEF InsertJob, Goto, Done, Idle, TypeOK, IdsDiffer
  <1>6. Claimed' \subseteq Claimed \union {i} /\ i \notin Claimed
    BY <1>4, <1>5 DEF Claimed
  <1>7. /\ ActiveOn(u) = {}
        /\ \/ i \in repo /\ url[i] = u
           \/ status[i] = "none" /\ \A k \in repo : url[k] # u
    BY <1>2, <1>3, <1>4 DEF Cleared
  <1>8. i \notin Active
    BY <1>7 DEF ActiveOn, Active
  <1>9. Queued' = Queued /\ Running' = Running /\ Active' = Active \union {i}
    BY <1>1, <1>4 DEF Queued, Running, Active, TypeOK
  <1>10. HeldOnce'
    <2>1. OneHandlerPerClone'
      BY <1>1, <1>4, <1>9 DEF HeldOnce, OneHandlerPerClone
    <2>2. phase # "down"
      BY <1>1, <1>4 DEF HeldOnce
    <2>3. Queued \union Running \union resume \subseteq Active
      BY <1>1 DEF HeldOnce
    <2> QED
      BY <2>1, <2>2, <2>3, <1>1, <1>4, <1>6, <1>8, <1>9 DEF HeldOnce
  <1>11. UrlsDiffer'
    <2>1. \A k \in (repo \union Active) \ {i} : url[k] # u
      <3>1. \A k \in Active : url[k] # u
        BY <1>7 DEF ActiveOn
      <3>2. \A k \in repo \ {i} : url[k] # u
        BY <1>1, <1>7 DEF UrlsDiffer
      <3> QED
        BY <3>1, <3>2
    <2>2. repo' = repo /\ repo \union Active \subseteq Ids
      BY <1>1, <1>4 DEF TypeOK, Active
    <2>3. url'[i] = u /\ \A k \in Ids \ {i} : url'[k] = url[k] /\ status'[k] = status[k]
      BY <1>1, <1>4 DEF TypeOK
    <2>4. status'[i] = "pending"
      BY <1>1, <1>4 DEF TypeOK
    <2> QED
      BY <2>1, <2>2, <2>3, <2>4, <1>1, <1>9 DEF UrlsDiffer
  <1>12. ClonesAreKept'
    <2>1. status'[i] = "pending" /\ \A k \in Ids \ {i} : status'[k] = status[k]
      BY <1>1, <1>4 DEF TypeOK
    <2>2. \A k : Kept(k)' = Kept(k) /\ Usable(k)' = Usable(k)
      BY <1>4 DEF Kept, Usable
    <2> QED
      BY <2>1, <2>2, <1>1, <1>4 DEF ClonesAreKept, Kept, Usable
  <1>13. IdsDiffer'
    BY <1>1, <1>5 DEF IdsDiffer
  <1>14. AllCleared'
    <2>0. url'[i] = u /\ \A k \in Ids \ {i} : url'[k] = url[k] /\ status'[k] = status[k]
      BY <1>1, <1>4 DEF TypeOK
    <2>1. ASSUME NEW x \in Requests, x # r PROVE Cleared(req[x])'
      <3>1. PICK q : q = req[x]
        OBVIOUS
      <3>2. q = req'[x] /\ q.id # i /\ Cleared(q) /\ Ready(q) /\ (q.pc # "idle" => q.url # u)
        BY <3>1, <2>1, <1>1, <1>3, <1>4, <1>5 DEF AllCleared, Apart, Requesting
      <3>3. q.pc \in {"lookup", "stale", "compare", "insert"} => ActiveOn(q.url)' = {}
        <4> SUFFICES ASSUME q.pc \in {"lookup", "stale", "compare", "insert"}, NEW k \in Active', url'[k] = q.url
                     PROVE  FALSE
          BY DEF ActiveOn
        <4>1. k # i
          BY <3>2, <2>0
        <4>2. k \in Active /\ k \in Ids
          BY <4>1, <1>9 DEF Active
        <4> QED
          BY <4>1, <4>2, <3>2, <2>0 DEF Cleared, ActiveOn
      <3>4. q.pc \in {"stale", "compare"} => q.id \in repo' /\ url'[q.id] = q.url
        BY <3>2, <2>0, <1>4 DEF Cleared, Ready
      <3>5. /\ q.pc \in {"idle", "lookup"} => q.id = NoId
            /\ q.pc = "enqueue" => url'[q.id] = q.url
        BY <3>2, <2>0 DEF Cleared, Ready
      <3>6. q.pc = "insert" => \/ q.id \in repo' /\ url'[q.id] = q.url
                               \/ status'[q.id] = "none" /\ \A k \in repo' : url'[k] # q.url
        <4> SUFFICES ASSUME q.pc = "insert"
                     PROVE  \/ q.id \in repo' /\ url'[q.id] = q.url
                            \/ status'[q.id] = "none" /\ \A k \in repo' : url'[k] # q.url
          OBVIOUS
        <4>1. q.id \in Ids \ {i} /\ repo' = repo /\ repo \subseteq Ids
          BY <3>2, <1>1, <1>4 DEF Ready, TypeOK
        <4>2. CASE q.id \in repo /\ url[q.id] = q.url
          BY <4>1, <4>2, <2>0
        <4>3. CASE status[q.id] = "none" /\ \A k \in repo : url[k] # q.url
          BY <4>1, <4>3, <3>2, <2>0
        <4> QED
          BY <4>2, <4>3, <3>2 DEF Cleared
      <3> QED
        BY <3>2, <3>3, <3>4, <3>5, <3>6 DEF Cleared
    <2>2. Cleared(req[r])'
      BY <1>5, <2>0 DEF Cleared
    <2> QED
      BY <2>1, <2>2 DEF AllCleared
  <1> QED
    BY <1>2, <1>10, <1>11, <1>12, <1>13, <1>14 DEF ApartInv

(* A claim passes to the queue, or ends with a refusal. *)
LEMMA ApartEnqueue ==
  ASSUME ApartInv, Apart', NEW r \in Requests,
         EnqueueAccepted(r) \/ CreateRefused(r) \/ SyncRefused(r)
  PROVE  ApartInv'
  <1> USE DEF disk, server
  <1>1. /\ ControlInv /\ HeldOnce /\ UrlsDiffer /\ IdsDiffer /\ ClonesAreKept
        /\ TypeOK /\ Requesting /\ Handling /\ Stopping
    BY DEF ApartInv, ControlInv
  <1>2. ControlInv'
    BY <1>1, EnqueueAcceptedInv, RefusedInv
  <1>3. PICK i \in Ids : i = req[r].id
    BY <1>1 DEF EnqueueAccepted, CreateRefused, SyncRefused, Requesting, Ready
  <1>4. /\ req[r].pc = "enqueue" /\ req' = [req EXCEPT ![r] = Idle]
        /\ UNCHANGED <<closed, wstate, wjob, cancelled, shutdown, stage, url, repo, disk, hpc, server, unrecorded>>
        /\ \/ queue' = Append(queue, i) /\ status' = status
           \/ queue' = queue /\ status' = [status EXCEPT ![i] = "failed"]
           \/ queue' = queue /\ status' = status
    BY <1>3 DEF EnqueueAccepted, CreateRefused, SyncRefused, Done, Pool!Enqueue, poolVars, tables
  <1>5. i \in Claimed /\ Claimed' = Claimed \ {i}
    <2>1. /\ req'[r].pc = "idle" /\ \A x \in Requests : x # r => req'[x] = req[x]
          /\ \A x \in Requests : x # r => req[x].id # i
      BY <1>1, <1>3, <1>4, ControlAssumption DEF TypeOK, Idle, IdsDiffer
    <2> QED
      BY <2>1, <1>3, <1>4 DEF Claimed
  <1>6. queue \in Seq(Ids) /\ status \in [Ids -> Statuses]
    BY <1>1 DEF TypeOK, Pool!TypeOK
  <1>7. i \notin Queued \union Running \union resume /\ i \in Active
    BY <1>1, <1>5 DEF HeldOnce
  <1>8. /\ Running' = Running /\ Active' \subseteq Active /\ Active \subseteq Active' \union {i}
        /\ Queued' \subseteq Queued \union {i} /\ (i \in Queued' => i \in Active')
    BY <1>4, <1>6, <1>7 DEF Running, Active, Queued
  <1>9. OneHandlerPerClone'
    <2>1. \A k, l \in DOMAIN queue : queue[k] = queue[l] => k = l
      BY <1>1 DEF HeldOnce, OneHandlerPerClone
    <2>2. \A k \in DOMAIN queue : queue[k] # i
      BY <1>7 DEF Queued
    <2>3. \A k, l \in DOMAIN queue' : queue'[k] = queue'[l] => k = l
      BY <2>1, <2>2, <1>4, <1>6
    <2> QED
      BY <2>3, <1>1, <1>4, <1>7, <1>8 DEF HeldOnce, OneHandlerPerClone
  <1>10. phase # "down"
    BY <1>1, <1>4 DEF HeldOnce
  <1>11. HeldOnce'
    BY <1>1, <1>4, <1>5, <1>7, <1>8, <1>9, <1>10 DEF HeldOnce
  <1>12. UrlsDiffer' /\ IdsDiffer' /\ Apart' /\ AllCleared'
    <2>1. \A k \in Ids : status'[k] = "none" <=> status[k] = "none"
      BY <1>4, <1>6, <1>7 DEF Active
    <2>2. \A x \in Requests : req'[x] = req[x] \/ req'[x] = Idle
      BY <1>1, <1>4 DEF TypeOK
    <2> QED
      BY <2>1, <2>2, <1>4, <1>8, Settled
  <1>13. ClonesAreKept'
    <2>1. \A k \in Ids : status'[k] = "completed" => status[k] = "completed"
      BY <1>4, <1>6
    <2> QED
      BY <2>1, <1>1, <1>4 DEF ClonesAreKept, Kept, Usable
  <1> QED
    BY <1>2, <1>11, <1>12, <1>13 DEF ApartInv

(* The head of the queue is nowhere else in it and with no worker. *)
LEMMA ApartTakeJob ==
  ASSUME ApartInv, NEW w \in Workers, TakeJob(w)
  PROVE  ApartInv'
  <1> USE DEF tables, disk, server
  <1> DEFINE i == Head(queue)
  <1>1. /\ ControlInv /\ HeldOnce /\ UrlsDiffer /\ IdsDiffer /\ ClonesAreKept
        /\ TypeOK /\ Requesting /\ Handling /\ Stopping
    BY DEF ApartInv, ControlInv
  <1>2. ControlInv'
    BY <1>1, TakeJobInv
  <1>3. /\ wstate[w] = "idle" /\ queue # <<>> /\ wjob' = [wjob EXCEPT ![w] = i]
        /\ wstate' = [wstate EXCEPT ![w] = "busy"] /\ queue' = Tail(queue)
        /\ hpc' = [hpc EXCEPT ![w] = "start"]
        /\ UNCHANGED <<closed, cancelled, shutdown, tables, disk, req, server, orphaned, unrecorded>>
    BY DEF TakeJob, Pool!Take, HGoto
  <1>4. /\ queue \in Seq(Ids) /\ wjob \in [Workers -> Ids \union {NoId}]
        /\ wstate \in [Workers -> {"idle", "busy", "stopped"}] /\ hpc \in [Workers -> HandlerPCs]
    BY <1>1 DEF TypeOK, Pool!TypeOK
  <1>5. /\ Len(queue) \in Nat /\ Len(queue) >= 1 /\ queue' \in Seq(Ids) /\ Len(queue') = Len(queue) - 1
        /\ DOMAIN queue = 1..Len(queue) /\ DOMAIN queue' = 1..Len(queue')
        /\ \A k \in 1..Len(queue') : queue'[k] = queue[k + 1]
        /\ i = queue[1]
    BY <1>3, <1>4
  <1>6. i \in Queued /\ i \in Ids /\ i \notin Running
    BY <1>1, <1>4, <1>5 DEF Queued, HeldOnce, OneHandlerPerClone
  <1>7. /\ \A k, l \in DOMAIN queue' : queue'[k] = queue'[l] => k = l
        /\ \A k \in DOMAIN queue' : queue'[k] # i /\ queue'[k] \in Queued
    <2>1. \A k, l \in DOMAIN queue : queue[k] = queue[l] => k = l
      BY <1>1 DEF HeldOnce, OneHandlerPerClone
    <2>2. \A k \in DOMAIN queue' : k \in Nat /\ k + 1 \in DOMAIN queue /\ 1 \in DOMAIN queue
      BY <1>5
    <2>3. \A k, l \in DOMAIN queue' : queue'[k] = queue'[l] => k = l
      BY <2>1, <2>2, <1>5
    <2>4. ASSUME NEW k \in DOMAIN queue' PROVE queue'[k] # i /\ queue'[k] \in Queued
      <3>1. queue'[k] = queue[k + 1] /\ k + 1 # 1 /\ k + 1 \in DOMAIN queue /\ 1 \in DOMAIN queue
        BY <2>2, <1>5
      <3> QED
        BY <3>1, <2>1, <1>5 DEF Queued
    <2> QED
      BY <2>3, <2>4
  <1>8. Queued' \subseteq Queued /\ i \notin Queued'
    BY <1>7 DEF Queued
  <1>9. Running' = Running \union {i} /\ Active' = Active /\ Claimed' = Claimed
    BY <1>3, <1>4 DEF Running, Active, Claimed
  <1>10. OneHandlerPerClone'
    <2>1. ASSUME NEW v \in Workers, v # w PROVE wjob'[v] = wjob[v] /\ wjob[v] # i
      <3>1. CASE wstate[v] = "busy"
        BY <2>1, <3>1, <1>3, <1>4, <1>6 DEF Running
      <3>2. CASE wstate[v] # "busy"
        BY <2>1, <3>2, <1>1, <1>3, <1>4, <1>6, ControlAssumption DEF HeldOnce
      <3> QED
        BY <3>1, <3>2
    <2>2. wjob'[w] = i
      BY <1>3, <1>4
    <2>3. \A v, x \in Workers : wjob'[v] = wjob'[x] /\ wjob'[v] # NoId => v = x
      BY <2>1, <2>2, <1>1 DEF HeldOnce, OneHandlerPerClone
    <2>4. Running' \cap Queued' = {}
      BY <1>1, <1>8, <1>9 DEF HeldOnce, OneHandlerPerClone
    <2> QED
      BY <2>3, <2>4, <1>7 DEF OneHandlerPerClone
  <1>11. HeldOnce'
    <2>1. \A v \in Workers : wstate'[v] # "busy" => wjob'[v] = NoId
      BY <1>1, <1>3, <1>4 DEF HeldOnce
    <2>2. phase # "down"
      BY <1>1, <1>6 DEF HeldOnce
    <2> QED
      BY <2>1, <2>2, <1>1, <1>3, <1>6, <1>8, <1>9, <1>10 DEF HeldOnce
  <1>12. UrlsDiffer' /\ IdsDiffer' /\ Apart' /\ AllCleared'
    BY <1>3, <1>9, Settled
  <1>13. ClonesAreKept'
    <2>1. \A v \in Workers : \/ v = w /\ hpc'[v] = "start" /\ hpc[v] = "none"
                             \/ hpc'[v] = hpc[v] /\ wjob'[v] = wjob[v]
      BY <1>1, <1>3, <1>4 DEF Handling
    <2>2. UNCHANGED <<repo, unrecorded, indexed, damaged, clone, status>>
      BY <1>3
    <2> QED
      BY <2>1, <2>2, <1>1 DEF ClonesAreKept, Kept, Usable
  <1> QED
    BY <1>2, <1>11, <1>12, <1>13 DEF ApartInv

LEMMA ApartFinishJob ==
  ASSUME ApartInv, NEW w \in Workers, FinishJob(w)
  PROVE  ApartInv'
  <1> USE DEF disk, server
  <1>1. /\ ControlInv /\ HeldOnce /\ UrlsDiffer /\ IdsDiffer /\ ClonesAreKept
        /\ TypeOK /\ Requesting /\ Handling /\ Stopping
    BY DEF ApartInv, ControlInv
  <1>2. ControlInv'
    BY <1>1, FinishJobInv
  <1>3. PICK i \in Ids : i = wjob[w] /\ i \in Running
    BY <1>1 DEF FinishJob, Handling, Running
  <1>4. /\ hpc' = [hpc EXCEPT ![w] = "none"] /\ wstate[w] = "busy"
        /\ wstate' = [wstate EXCEPT ![w] = "idle"] /\ wjob' = [wjob EXCEPT ![w] = NoId]
        /\ status' = [status EXCEPT ![i] = Outcome(w)] \/ status' = status
        /\ hpc[w] \in {"succeeded", "failed"}
        /\ UNCHANGED <<queue, closed, cancelled, shutdown, stage, url, repo, disk, req, server, unrecorded>>
    BY <1>3 DEF FinishJob, HGoto, Pool!HandlerReturns
  <1>5. /\ wstate \in [Workers -> {"idle", "busy", "stopped"}] /\ wjob \in [Workers -> Ids \union {NoId}]
        /\ hpc \in [Workers -> HandlerPCs] /\ status \in [Ids -> Statuses]
    BY <1>1 DEF TypeOK, Pool!TypeOK
  <1>6. /\ Outcome(w) \in {"completed", "pending", "failed"}
        /\ Outcome(w) = "completed" => hpc[w] = "succeeded"
    BY DEF Outcome
  <1>7. i \in Active /\ i \notin Queued \union Claimed \union resume
    BY <1>1, <1>3 DEF HeldOnce, OneHandlerPerClone
  <1>8. /\ Queued' = Queued /\ Claimed' = Claimed /\ Running' = Running \ {i}
        /\ Active' \subseteq Active /\ Active \subseteq Active' \union {i}
    <2>1. Queued' = Queued /\ Claimed' = Claimed
      BY <1>4 DEF Queued, Claimed
    <2>2. Active' \subseteq Active /\ Active \subseteq Active' \union {i}
      BY <1>4, <1>5, <1>7 DEF Active
    <2>3. \A v \in Workers \ {w} : wstate[v] = "busy" => wjob[v] # i
      BY <1>1, <1>3, ControlAssumption DEF HeldOnce, OneHandlerPerClone
    <2>4. Running' = Running \ {i}
      BY <2>3, <1>3, <1>4, <1>5 DEF Running
    <2> QED
      BY <2>1, <2>2, <2>4
  <1>9. OneHandlerPerClone' /\ \A v \in Workers : wstate'[v] # "busy" => wjob'[v] = NoId
    BY <1>1, <1>4, <1>5, <1>8 DEF HeldOnce, OneHandlerPerClone
  <1>10. HeldOnce'
    BY <1>1, <1>4, <1>7, <1>8, <1>9 DEF HeldOnce
  <1>11. UrlsDiffer' /\ IdsDiffer' /\ Apart' /\ AllCleared'
    <2>1. \A k \in Ids : status'[k] = "none" <=> status[k] = "none"
      BY <1>4, <1>5, <1>6, <1>7 DEF Active
    <2> QED
      BY <2>1, <1>4, <1>8, Settled
  <1>12. ClonesAreKept'
    <2>1. \A v \in Workers : \/ v = w /\ hpc'[v] = "none" /\ hpc[v] \notin {"cloning", "record"}
                             \/ hpc'[v] = hpc[v] /\ wjob'[v] = wjob[v]
      BY <1>4, <1>5
    <2>2. UNCHANGED <<repo, unrecorded, indexed, damaged, clone>>
      BY <1>4
    <2>3. \A k \in Ids : status'[k] = "completed" => status[k] = "completed" \/ (k = i /\ hpc[w] = "succeeded")
      BY <1>4, <1>5, <1>6
    <2> QED
      BY <2>1, <2>2, <2>3, <1>1, <1>3 DEF ClonesAreKept, Kept, Usable
  <1> QED
    BY <1>2, <1>10, <1>11, <1>12 DEF ApartInv

(* Steps of the server and of stopping workers move no job. *)
LEMMA ServerMoves ==
  ASSUME ApartInv, ControlInv', UNCHANGED <<queue, wjob, tables, disk, hpc, req, unrecorded>>,
         \A w \in Workers : wstate'[w] = "busy" <=> wstate[w] = "busy",
         resume' \cap (Queued \union Running \union Claimed) = {}, resume' \subseteq Active,
         phase' = "down" => phase = "down"
  PROVE  ApartInv'
  <1> USE DEF tables, disk
  <1>1. HeldOnce /\ UrlsDiffer /\ ClonesAreKept
    BY DEF ApartInv
  <1>2. Queued' = Queued /\ Running' = Running /\ Claimed' = Claimed /\ Active' = Active
    BY DEF Queued, Running, Claimed, Active
  <1>3. HeldOnce'
    BY <1>1, <1>2 DEF HeldOnce, OneHandlerPerClone
  <1>4. UrlsDiffer' /\ IdsDiffer' /\ Apart' /\ AllCleared'
    BY <1>2, Settled
  <1>5. ClonesAreKept'
    BY <1>1 DEF ClonesAreKept, Kept, Usable
  <1> QED
    BY <1>3, <1>4, <1>5 DEF ApartInv

LEMMA ApartServer ==
  ASSUME ApartInv,
         \/ UNCHANGED vars
         \/ \E w \in Workers : StopWorker(w)
         \/ Boot \/ BootInterrupted \/ Serve \/ Stop \/ StopPool
  PROVE  ApartInv'
  <1> USE DEF poolVars, tables, disk, server
  <1>1. ControlInv /\ HeldOnce /\ TypeOK /\ Stopping
    BY DEF ApartInv, ControlInv
  <1>2. ControlInv'
    <2>1. [Next]_vars
      BY DEF Next, ServerStep
    <2> QED
      BY <2>1, <1>1, ControlStepInv
  <1>3. /\ wstate \in [Workers -> {"idle", "busy", "stopped"}]
        /\ resume \cap (Queued \union Running \union Claimed) = {} /\ resume \subseteq Active
    BY <1>1 DEF TypeOK, Pool!TypeOK, HeldOnce
  <1>4. CASE UNCHANGED vars \/ StopPool
    <2>1. UNCHANGED <<queue, wjob, wstate, tables, disk, hpc, req, server, unrecorded>>
      BY <1>4 DEF vars, StopPool, Pool!BeginShutdown, Pool!DeadlinePasses, Pool!ShutdownReturns
    <2> QED
      BY <2>1, <1>2, <1>3, ServerMoves
  <1>5. CASE \E w \in Workers : StopWorker(w)
    <2>1. PICK w \in Workers : /\ wstate[w] = "idle" /\ wstate' = [wstate EXCEPT ![w] = "stopped"]
                               /\ UNCHANGED <<queue, wjob, tables, disk, hpc, req, server, unrecorded>>
      BY <1>5 DEF StopWorker, Pool!WorkerStops
    <2>2. \A v \in Workers : wstate'[v] = "busy" <=> wstate[v] = "busy"
      BY <2>1, <1>3
    <2> QED
      BY <2>1, <2>2, <1>2, <1>3, ServerMoves
  <1>6. CASE Boot
    <2>1. /\ phase = "down" /\ phase' = "resuming" /\ (resume' = Active \/ resume' = {})
          /\ UNCHANGED <<poolVars, tables, disk, hpc, req, restarts, unrecorded>>
      BY <1>6 DEF Boot
    <2>2. Queued \union Running \union Claimed = {}
      BY <2>1, <1>1 DEF HeldOnce, Claimed
    <2> QED
      BY <2>1, <2>2, <1>2, ServerMoves
  <1>7. CASE Serve \/ Stop \/ BootInterrupted
    <2>1. /\ phase' # "down"
          /\ UNCHANGED <<poolVars, tables, disk, hpc, req, resume, unrecorded>>
      BY <1>7 DEF Serve, Stop, BootInterrupted
    <2> QED
      BY <2>1, <1>2, <1>3, ServerMoves
  <1> QED
    BY <1>4, <1>5, <1>6, <1>7

(* A resumed job is in no other place. *)
LEMMA ApartResumeJob ==
  ASSUME ApartInv, NEW i \in Ids, ResumeJob(i)
  PROVE  ApartInv'
  <1> USE DEF disk
  <1>1. ControlInv /\ HeldOnce /\ UrlsDiffer /\ ClonesAreKept /\ TypeOK
    BY DEF ApartInv, ControlInv
  <1>2. ControlInv'
    BY <1>1, ResumeJobInv
  <1>3. /\ phase # "down" /\ i \in resume /\ resume' = resume \ {i}
        /\ UNCHANGED <<stage, url, repo, disk, hpc, req, phase, restarts, unrecorded>>
        /\ UNCHANGED <<closed, wstate, wjob, cancelled, shutdown>>
        /\ \/ queue' = Append(queue, i) /\ status' = status
           \/ queue' = queue /\ status' = [status EXCEPT ![i] = "failed"]
           \/ queue' = queue /\ status' = status
    BY DEF ResumeJob, Pool!Enqueue, poolVars
  <1>4. queue \in Seq(Ids) /\ status \in [Ids -> Statuses]
    BY <1>1 DEF TypeOK, Pool!TypeOK
  <1>5. i \in Active /\ i \notin Queued \union Running \union Claimed
    BY <1>1, <1>3 DEF HeldOnce
  <1>7. /\ Running' = Running /\ Claimed' = Claimed
        /\ Active' \subseteq Active /\ Active \subseteq Active' \union {i}
        /\ Queued' \subseteq Queued \union {i} /\ (i \in Queued' => i \in Active')
    BY <1>3, <1>4, <1>5 DEF Running, Claimed, Active, Queued
  <1>8. OneHandlerPerClone'
    <2>1. \A k, l \in DOMAIN queue : queue[k] = queue[l] => k = l
      BY <1>1 DEF HeldOnce, OneHandlerPerClone
    <2>2. \A k \in DOMAIN queue : queue[k] # i
      BY <1>5 DEF Queued
    <2>3. \A k, l \in DOMAIN queue' : queue'[k] = queue'[l] => k = l
      BY <2>1, <2>2, <1>3, <1>4
    <2> QED
      BY <2>3, <1>1, <1>3, <1>5, <1>7 DEF HeldOnce, OneHandlerPerClone
  <1>9. HeldOnce'
    BY <1>1, <1>3, <1>5, <1>7, <1>8 DEF HeldOnce
  <1>10. UrlsDiffer' /\ IdsDiffer' /\ Apart' /\ AllCleared'
    <2>1. \A k \in Ids : status'[k] = "none" <=> status[k] = "none"
      BY <1>3, <1>4, <1>5 DEF Active
    <2> QED
      BY <2>1, <1>3, <1>7, Settled
  <1>11. ClonesAreKept'
    <2>1. \A k \in Ids : status'[k] = "completed" => status[k] = "completed"
      BY <1>3, <1>4
    <2> QED
      BY <2>1, <1>1, <1>3 DEF ClonesAreKept, Kept, Usable
  <1> QED
    BY <1>2, <1>9, <1>10, <1>11 DEF ApartInv

(* Nothing is held by a process that is gone. *)
LEMMA ApartGone ==
  ASSUME ApartInv, Exit \/ Crash
  PROVE  ApartInv'
  <1> USE DEF tables, server
  <1>1. ControlInv /\ HeldOnce /\ UrlsDiffer /\ ClonesAreKept /\ TypeOK
    BY DEF ApartInv, ControlInv
  <1>2. ControlInv'
    BY <1>1, GoneInv
  <1>3. /\ phase' = "down" /\ resume' = {} /\ req' = [r \in Requests |-> Idle]
        /\ queue' = <<>>
        /\ wstate' = [w \in Workers |-> "idle"] /\ wjob' = [w \in Workers |-> NoId]
        /\ UNCHANGED tables
    BY DEF Exit, Crash, ProcessGone
  <1>4. Queued' = {} /\ Running' = {} /\ Claimed' = {} /\ Active' = Active
    BY <1>3 DEF Queued, Running, Claimed, Active, Idle
  <1>5. OneHandlerPerClone'
    BY <1>3, <1>4 DEF OneHandlerPerClone
  <1>6. HeldOnce'
    BY <1>3, <1>4, <1>5 DEF HeldOnce, Idle
  <1>7. UrlsDiffer' /\ IdsDiffer' /\ Apart' /\ AllCleared'
    BY <1>3, <1>4, Settled
  <1>8. /\ hpc' = [w \in Workers |-> "none"] /\ UNCHANGED <<indexed, damaged>>
        /\ clone' = clone \/ clone' = [i \in Ids |-> "absent"]
        /\ unrecorded' = unrecorded \union
              {i \in Ids \ repo : \E w \in Workers : wjob[w] = i /\ hpc[w] \in {"cloning", "record"}}
    BY DEF Exit, Crash, ProcessGone
  <1>9. ClonesAreKept'
    <2>1. \A i \in Ids : Usable(i) => Usable(i)'
      BY <1>3, <1>8 DEF Usable
    <2>2. ASSUME NEW i \in Ids, clone'[i] # "absent" PROVE Kept(i)'
      <3>1. clone[i] # "absent"
        BY <2>2, <1>8
      <3>2. Kept(i) \/ \E w \in Workers : wjob[w] = i /\ hpc[w] \in {"cloning", "record"}
        BY <3>1, <1>1 DEF ClonesAreKept
      <3> QED
        BY <3>2, <1>3, <1>8 DEF Kept
    <2>3. \A w \in Workers : hpc'[w] = "none"
      BY <1>8
    <2> QED
      BY <2>1, <2>2, <2>3, <1>1, <1>3 DEF ClonesAreKept
  <1> QED
    BY <1>2, <1>6, <1>7, <1>9 DEF ApartInv

LEMMA ApartStepInv ==
  ASSUME ApartInv, Apart', [Next]_vars
  PROVE  ApartInv'
  <1>1. CASE UNCHANGED vars
    BY <1>1, ApartServer
  <1>2. ASSUME NEW r \in Requests, RequestStep(r)
        PROVE  ApartInv'
    BY <1>2, ApartQuietRequest, ApartInsertJob, ApartEnqueue DEF RequestStep
  <1>3. ASSUME NEW r \in Requests, (\E u \in Urls : ReceiveCreate(r, u)) \/ \E i \in Ids : ReceiveSync(r, i)
        PROVE  ApartInv'
    BY <1>3, ApartQuietRequest
  <1>4. ASSUME NEW w \in Workers, TakeJob(w) \/ HandlerStep(w) \/ StopWorker(w)
        PROVE  ApartInv'
    BY <1>4, ApartTakeJob, ApartQuietHandler, ApartFinishJob, ApartServer DEF HandlerStep
  <1>5. ASSUME ServerStep \/ Stop \/ BootInterrupted \/ Crash
        PROVE  ApartInv'
    BY <1>5, ApartServer, ApartGone, ApartResumeJob DEF ServerStep
  <1> QED
    BY <1>1, <1>2, <1>3, <1>4, <1>5 DEF Next

(* Only StartJob writes processing, over the row of a job it was given,    *)
(* and that one is active.                                                 *)
LEMMA ProcessingWasActive ==
  ASSUME ApartInv, [Next]_vars, NEW i \in Ids, status'[i] = "processing"
  PROVE  status[i] \in {"pending", "processing"}
  <1> USE DEF tables
  <1>1. TypeOK /\ Handling /\ Requesting /\ HeldOnce
    BY DEF ApartInv, ControlInv
  <1>2. status \in [Ids -> Statuses]
    BY <1>1 DEF TypeOK
  <1>3. CASE status' = status
    BY <1>3
  <1>4. ASSUME NEW w \in Workers, StartJob(w)
        PROVE  status[i] \in {"pending", "processing"}
    <2>1. hpc[w] = "start" /\ (status' = [status EXCEPT ![wjob[w]] = "processing"] \/ status' = status)
      BY <1>4 DEF StartJob
    <2>2. wjob[w] \in Running
      BY <2>1, <1>1 DEF Handling, Running
    <2>3. wjob[w] \in Active
      BY <2>2, <1>1 DEF HeldOnce
    <2> QED
      BY <2>1, <2>3, <1>2 DEF Active
  <1>5. ASSUME NEW w \in Workers, FinishJob(w)
        PROVE  status[i] \in {"pending", "processing"}
    BY <1>2, <1>5 DEF FinishJob, Outcome
  <1>6. ASSUME NEW r \in Requests, InsertJob(r) \/ CreateRefused(r)
        PROVE  status[i] \in {"pending", "processing"}
    BY <1>2, <1>6 DEF InsertJob, CreateRefused
  <1>7. ASSUME NEW k \in Ids, ResumeJob(k)
        PROVE  status[i] \in {"pending", "processing"}
    BY <1>2, <1>7 DEF ResumeJob
  <1>8. CASE UNCHANGED vars
    BY <1>8, <1>3 DEF vars
  <1>9. ASSUME NEW r \in Requests, RequestStep(r)
        PROVE  status[i] \in {"pending", "processing"}
    BY <1>3, <1>6, <1>9 DEF RequestStep, LookupNew, LookupExisting, CheckStaleness, CompareStale,
       CompareUpToDate, RequestFails, EnqueueAccepted, SyncRefused
  <1>10. ASSUME NEW r \in Requests, (\E u \in Urls : ReceiveCreate(r, u)) \/ \E k \in Ids : ReceiveSync(r, k)
         PROVE  status[i] \in {"pending", "processing"}
    BY <1>3, <1>10 DEF ReceiveCreate, ReceiveSync
  <1>11. ASSUME NEW w \in Workers, TakeJob(w) \/ HandlerStep(w) \/ StopWorker(w)
         PROVE  status[i] \in {"pending", "processing"}
    BY <1>3, <1>4, <1>5, <1>11 DEF TakeJob, StopWorker, HandlerStep, BeginClone, CloneSucceeds, CloneFails,
       RecordRepository, SyncSucceeds, WalkSucceeds, JobFails, ProcessFiles
  <1>12. ASSUME ServerStep \/ Stop \/ BootInterrupted \/ Crash
         PROVE  status[i] \in {"pending", "processing"}
    BY <1>3, <1>7, <1>12 DEF ServerStep, Boot, Serve, StopPool, Exit, Stop, BootInterrupted, Crash, ProcessGone
  <1> QED
    BY <1>8, <1>9, <1>10, <1>11, <1>12 DEF Next

(* While requests for one URL do not overlap, a job is in one place and    *)
(* the request that writes it found the truth, in every reachable state,   *)
(* however the requests for different URLs, the handlers, stops and        *)
(* crashes interleave.                                                     *)
THEOREM ApartInvariant == ApartSpec => []ApartInv
  <1>1. ApartInv /\ [Next /\ Apart']_vars => ApartInv'
    <2>1. CASE UNCHANGED vars
      BY <2>1, ApartServer
    <2>2. ASSUME ApartInv, Next, Apart' PROVE ApartInv'
      BY <2>2, ApartStepInv
    <2> QED
      BY <2>1, <2>2
  <1> QED
    BY <1>1, ApartInitInv, PTL DEF ApartSpec

(* No two workers are ever in the same clone, and no running job waits in  *)
(* the queue a second time, across stops, crashes and resumptions.         *)
THEOREM OneHandler == ApartSpec => []OneHandlerPerClone
  <1>1. ApartInv => OneHandlerPerClone
    BY DEF ApartInv, HeldOnce
  <1> QED
    BY <1>1, ApartInvariant, PTL

(* A URL is never recorded under two repository IDs. *)
THEOREM OneRepository == ApartSpec => []OneRepositoryPerUrl
  <1>1. ApartInv => OneRepositoryPerUrl
    BY DEF ApartInv, UrlsDiffer, OneRepositoryPerUrl
  <1> QED
    BY <1>1, ApartInvariant, PTL

(* A completed job is recorded, and indexed but for files passed over,     *)
(* unless a handler was cut off between its clone and InsertRepository;    *)
(* across stops, crashes and lost disks.                                   *)
THEOREM CompletedUsable == ApartSpec => []CompletedIsUsable
  <1>1. ApartInv => CompletedIsUsable
    BY DEF ApartInv, ClonesAreKept, Usable, CompletedIsUsable
  <1> QED
    BY <1>1, ApartInvariant, PTL

(* A handler never starts a job that was already finished. *)
THEOREM NoRestart == ApartSpec => NoFinishedJobRestarts
  <1>1. ApartInv /\ [Next /\ Apart']_vars =>
          [\A i \in Ids : status'[i] = "processing" => status[i] \in {"pending", "processing"}]_vars
    BY ProcessingWasActive
  <1> QED
    BY <1>1, ApartInvariant, PTL DEF ApartSpec, NoFinishedJobRestarts
=============================================================================
