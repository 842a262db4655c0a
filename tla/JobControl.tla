----------------------------- MODULE JobControl -----------------------------
(***************************************************************************)
(* The ingestion control plane: the requests that submit repositories      *)
(* (CreateRepo, SyncRepo and the background checks that end in             *)
(* checkAndEnqueueSync), the ingestion_jobs and repositories tables, the   *)
(* worker pool, the handler each worker runs, and the server's start,      *)
(* graceful stop and crash (api/internal/api/repos.go, server.go,          *)
(* store/job_repo.go).                                                     *)
(*                                                                         *)
(* Every store call a request or a handler makes is a step of its own, so  *)
(* requests, handlers and the server interleave between the calls.  Two    *)
(* consecutive reads are one step where the second is the only one whose   *)
(* answer can change.  What a handler does inside its parsing and          *)
(* embedding loop is one step here; Ingestion refines it.                  *)
(***************************************************************************)
EXTENDS Integers, Sequences, FiniteSets

CONSTANTS
    Urls,           \* repository URLs, equal when GitHub treats them as equal
    Ids,            \* repository IDs generateRepoDirName can produce
    Requests,       \* request slots: how many submissions may overlap
    Workers,        \* pool workers (INGESTION_WORKERS)
    QueueSize,      \* IngestionQueueSize
    MaxRestarts,    \* bound on crashes and graceful stops
    StoreFaults,    \* whether a status write may fail
    FileFaults,     \* whether the indexing of a file may fail
    NoId, NoUrl

ASSUME ControlAssumption ==
    /\ Workers # {}
    /\ QueueSize \in Int
    /\ NoId \notin Ids /\ NoUrl \notin Urls
    /\ MaxRestarts \in Nat
    /\ StoreFaults \in BOOLEAN /\ FileFaults \in BOOLEAN

VARIABLES
    queue, closed, wstate, wjob, cancelled, shutdown,    \* the worker pool
    status,      \* ingestion_jobs.status, "none" without a row
    stage,       \* ingestion_jobs.stage, "none" when NULL
    url,         \* ingestion_jobs.repo_url, and repositories.repo_url with it
    repo,        \* the IDs with a repositories row
    clone,       \* each working copy: "absent", "partial" or "complete"
    indexed,     \* the IDs whose stored files and symbols are those of the commit
                 \* that was fetched last, but for what is damaged
    damaged,     \* the IDs of which a handler passed over a file it could not index
    hpc,         \* where each worker's handler is
    req,         \* what each request slot is doing
    phase,       \* the process: "down", "resuming", "serving" or "stopping"
    resume,      \* unfinished jobs the starting server has yet to enqueue
    orphaned,    \* history: jobs a refused sync, a lost write or a start cut short
                 \* left active
    unrecorded,  \* history: IDs whose clone outlived the handler that had yet to
                 \* record it
    restarts     \* crashes and stops so far

Pool == INSTANCE WorkerPool WITH Jobs <- Ids, NoJob <- NoId

poolVars == <<queue, closed, wstate, wjob, cancelled, shutdown>>
tables   == <<status, stage, url, repo>>
disk     == <<clone, indexed, damaged>>
server   == <<phase, resume, restarts>>
vars     == <<poolVars, tables, disk, hpc, req, server, orphaned, unrecorded>>

Statuses  == {"none", "pending", "processing", "completed", "failed"}
Stages    == {"none", "cloning", "indexing", "done"}
Active    == {i \in Ids : status[i] \in {"pending", "processing"}}
ActiveOn(u) == {i \in Active : url[i] = u}

HandlerPCs == {"none", "start", "fetch", "cloning", "record", "walk", "process",
               "succeeded", "failed"}
RequestPCs == {"idle", "lookup", "stale", "compare", "insert", "enqueue"}
Idle == [pc |-> "idle", kind |-> "create", id |-> NoId, url |-> NoUrl]

TypeOK ==
    /\ Pool!TypeOK
    /\ status \in [Ids -> Statuses] /\ stage \in [Ids -> Stages]
    /\ url \in [Ids -> Urls \union {NoUrl}]
    /\ repo \in SUBSET Ids
    /\ clone \in [Ids -> {"absent", "partial", "complete"}]
    /\ indexed \in SUBSET Ids /\ damaged \in SUBSET Ids
    /\ hpc \in [Workers -> HandlerPCs]
    /\ req \in [Requests -> [pc : RequestPCs, kind : {"create", "sync"},
                             id : Ids \union {NoId}, url : Urls \union {NoUrl}]]
    /\ phase \in {"down", "resuming", "serving", "stopping"}
    /\ resume \in SUBSET Ids
    /\ orphaned \in SUBSET Ids /\ unrecorded \in SUBSET Ids
    /\ restarts \in 0..MaxRestarts

Init ==
    /\ Pool!Init
    /\ status = [i \in Ids |-> "none"] /\ stage = [i \in Ids |-> "none"]
    /\ url = [i \in Ids |-> NoUrl]
    /\ repo = {}
    /\ clone = [i \in Ids |-> "absent"]
    /\ indexed = {} /\ damaged = {}
    /\ hpc = [w \in Workers |-> "none"]
    /\ req = [r \in Requests |-> Idle]
    /\ phase = "down"
    /\ resume = {}
    /\ orphaned = {} /\ unrecorded = {}
    /\ restarts = 0
-----------------------------------------------------------------------------
(* Requests.  A request that finds an active job for its URL answers with  *)
(* that job and changes nothing, so only the ones that go on are steps.    *)

Goto(r, pc) == req' = [req EXCEPT ![r].pc = pc]
Done(r)     == req' = [req EXCEPT ![r] = Idle]

(* CreateRepo up to GetActiveJobByURL. *)
ReceiveCreate(r, u) ==
    /\ phase = "serving" /\ req[r].pc = "idle"
    /\ ActiveOn(u) = {}
    /\ req' = [req EXCEPT ![r] = [pc |-> "lookup", kind |-> "create", id |-> NoId, url |-> u]]
    /\ UNCHANGED <<poolVars, tables, disk, hpc, server, orphaned, unrecorded>>

(* Mutant: a resubmitted URL always gets a fresh ID. *)
LookupAlwaysNew(r) ==
    /\ req[r].pc = "lookup"
    /\ \E i \in Ids :
         /\ status[i] = "none" /\ \A q \in Requests : req[q].id # i
         /\ req' = [req EXCEPT ![r].pc = "insert", ![r].id = i]
    /\ UNCHANGED <<poolVars, tables, disk, hpc, server, orphaned, unrecorded>>

(* No repositories row for the URL: a fresh ID. *)
LookupNew(r) ==
    /\ req[r].pc = "lookup"
    /\ \A i \in repo : url[i] # req[r].url
    /\ \E i \in Ids :
         /\ status[i] = "none" /\ \A q \in Requests : req[q].id # i
         /\ req' = [req EXCEPT ![r].pc = "insert", ![r].id = i]
    /\ UNCHANGED <<poolVars, tables, disk, hpc, server, orphaned, unrecorded>>

(* GetRepositoryByURL finds the repository and FindJob its job: a          *)
(* completed one is served from the index and checked for staleness in the *)
(* background, any other is queued again.                                  *)
LookupExisting(r) ==
    /\ req[r].pc = "lookup"
    /\ \E i \in repo :
         /\ url[i] = req[r].url
         /\ IF status[i] = "completed"
            THEN req' = [req EXCEPT ![r].pc = "stale", ![r].kind = "sync", ![r].id = i]
            ELSE req' = [req EXCEPT ![r].pc = "insert", ![r].id = i]
    /\ UNCHANGED <<poolVars, tables, disk, hpc, server, orphaned, unrecorded>>

(* Mutant: a sync does not look for an active job. *)
ReceiveSyncAlways(r, i) ==
    /\ phase = "serving" /\ req[r].pc = "idle"
    /\ i \in repo
    /\ req' = [req EXCEPT ![r] = [pc |-> "compare", kind |-> "sync", id |-> i, url |-> url[i]]]
    /\ UNCHANGED <<poolVars, tables, disk, hpc, server, orphaned, unrecorded>>

(* SyncRepo, SyncIfStale and restoreCloneInBackground on an existing       *)
(* repository, up to checkAndEnqueueSync's GetActiveJobByURL.              *)
ReceiveSync(r, i) ==
    /\ phase = "serving" /\ req[r].pc = "idle"
    /\ i \in repo /\ ActiveOn(url[i]) = {}
    /\ req' = [req EXCEPT ![r] = [pc |-> "compare", kind |-> "sync", id |-> i, url |-> url[i]]]
    /\ UNCHANGED <<poolVars, tables, disk, hpc, server, orphaned, unrecorded>>

(* The background staleness check: skipped within the cooldown and when a  *)
(* job is active, otherwise the same comparison as SyncRepo.               *)
CheckStaleness(r) ==
    /\ req[r].pc = "stale"
    /\ IF ActiveOn(req[r].url) = {} THEN Goto(r, "compare") \/ Done(r) ELSE Done(r)
    /\ UNCHANGED <<poolVars, tables, disk, hpc, server, orphaned, unrecorded>>

(* cloneExists, hasPendingEmbedding, RemoteHeadSHA and GetLastCommitSHA: a *)
(* missing .git always needs a sync, otherwise the remote and the quota    *)
(* decide.  A partial clone may or may not have its .git yet.              *)
CompareStale(r) ==
    /\ req[r].pc = "compare"
    /\ Goto(r, "insert")
    /\ UNCHANGED <<poolVars, tables, disk, hpc, server, orphaned, unrecorded>>

CompareUpToDate(r) ==
    /\ req[r].pc = "compare"
    /\ clone[req[r].id] # "absent"
    /\ Done(r)
    /\ UNCHANGED <<poolVars, tables, disk, hpc, server, orphaned, unrecorded>>

(* A store read or the remote query fails, or the client goes away. *)
RequestFails(r) ==
    /\ req[r].pc \in {"lookup", "stale", "compare", "insert"}
    /\ Done(r)
    /\ UNCHANGED <<poolVars, tables, disk, hpc, server, orphaned, unrecorded>>

(* Mutant: an existing row keeps its status. *)
InsertJobOnce(r) ==
    LET i == req[r].id IN
    /\ req[r].pc = "insert"
    /\ status' = IF status[i] = "none" THEN [status EXCEPT ![i] = "pending"] ELSE status
    /\ url' = [url EXCEPT ![i] = req[r].url]
    /\ Goto(r, "enqueue") /\ orphaned' = orphaned \ {i}
    /\ UNCHANGED <<poolVars, stage, repo, disk, hpc, server, unrecorded>>

(* InsertJob: a new row, or the old one reset to pending with its stage    *)
(* left as it was.  A commit whose answer is lost reads as a failure.      *)
InsertJob(r) ==
    LET i == req[r].id IN
    /\ req[r].pc = "insert"
    /\ status' = [status EXCEPT ![i] = "pending"]
    /\ url' = [url EXCEPT ![i] = req[r].url]
    /\ \/ Goto(r, "enqueue") /\ orphaned' = orphaned \ {i}
       \/ StoreFaults /\ Done(r) /\ orphaned' = orphaned \union {i}
    /\ UNCHANGED <<poolVars, stage, repo, disk, hpc, server, unrecorded>>

EnqueueAccepted(r) ==
    /\ req[r].pc = "enqueue"
    /\ Pool!Enqueue(req[r].id)
    /\ orphaned' = orphaned \ {req[r].id}
    /\ Done(r)
    /\ UNCHANGED <<tables, disk, hpc, server, unrecorded>>

(* Mutant: CreateRepo answers 503 and leaves the row pending. *)
CreateRefusedSilently(r) ==
    /\ req[r].pc = "enqueue" /\ req[r].kind = "create"
    /\ ~Pool!CanEnqueue
    /\ Done(r)
    /\ UNCHANGED <<poolVars, tables, disk, hpc, server, orphaned, unrecorded>>

(* CreateRepo answers 503 and marks the job failed; the write is lost when *)
(* the request's context is gone.                                          *)
CreateRefused(r) ==
    LET i == req[r].id IN
    /\ req[r].pc = "enqueue" /\ req[r].kind = "create"
    /\ ~Pool!CanEnqueue
    /\ \/ status' = [status EXCEPT ![i] = "failed"] /\ UNCHANGED orphaned
       \/ StoreFaults /\ UNCHANGED status /\ orphaned' = orphaned \union {i}
    /\ Done(r)
    /\ UNCHANGED <<poolVars, stage, url, repo, disk, hpc, server, unrecorded>>

(* checkAndEnqueueSync returns its error; the row stays as InsertJob left it. *)
SyncRefused(r) ==
    /\ req[r].pc = "enqueue" /\ req[r].kind = "sync"
    /\ ~Pool!CanEnqueue
    /\ orphaned' = orphaned \union {req[r].id}
    /\ Done(r)
    /\ UNCHANGED <<poolVars, tables, disk, hpc, server, unrecorded>>

RequestStep(r) ==
    \/ LookupNew(r) \/ LookupExisting(r) \/ CheckStaleness(r)
    \/ CompareStale(r) \/ CompareUpToDate(r) \/ RequestFails(r)
    \/ InsertJob(r) \/ EnqueueAccepted(r) \/ CreateRefused(r) \/ SyncRefused(r)
-----------------------------------------------------------------------------
(* The handler a worker runs: handleIngestionJob around ingestRepository.  *)
(* Store and network calls under a cancelled context fail.                 *)

HGoto(w, pc) == hpc' = [hpc EXCEPT ![w] = pc]

TakeJob(w) ==
    /\ Pool!Take(w)
    /\ HGoto(w, "start")
    /\ UNCHANGED <<tables, disk, req, server, orphaned, unrecorded>>

(* GetJob, then status processing and stage cloning. *)
StartJob(w) ==
    LET i == wjob[w] IN
    /\ hpc[w] = "start" /\ ~cancelled
    /\ \/ status' = [status EXCEPT ![i] = "processing"]
       \/ StoreFaults /\ UNCHANGED status
    /\ stage' = [stage EXCEPT ![i] = "cloning"]
    /\ HGoto(w, "fetch")
    /\ UNCHANGED <<poolVars, url, repo, disk, req, server, orphaned, unrecorded>>

(* No .git: clear the directory and clone into it. *)
BeginClone(w) ==
    /\ hpc[w] = "fetch" /\ clone[wjob[w]] # "complete"
    /\ clone' = [clone EXCEPT ![wjob[w]] = "partial"]
    /\ indexed' \in {indexed, indexed \ {wjob[w]}}
    /\ HGoto(w, "cloning")
    /\ UNCHANGED <<poolVars, tables, damaged, req, server, orphaned, unrecorded>>

(* Mutant: a fresh clone is not recorded in repositories. *)
CloneUnrecorded(w) ==
    /\ hpc[w] = "cloning" /\ ~cancelled
    /\ clone' = [clone EXCEPT ![wjob[w]] = "complete"]
    /\ HGoto(w, "walk")
    /\ UNCHANGED <<poolVars, tables, indexed, damaged, req, server, orphaned, unrecorded>>

CloneSucceeds(w) ==
    /\ hpc[w] = "cloning" /\ ~cancelled
    /\ clone' = [clone EXCEPT ![wjob[w]] = "complete"]
    /\ HGoto(w, "record")
    /\ UNCHANGED <<poolVars, tables, indexed, damaged, req, server, orphaned, unrecorded>>

(* CloneRepo removes the directory of a clone that failed. *)
CloneFails(w) ==
    /\ hpc[w] = "cloning"
    /\ clone' = [clone EXCEPT ![wjob[w]] = "absent"]
    /\ HGoto(w, "failed")
    /\ UNCHANGED <<poolVars, tables, indexed, damaged, req, server, orphaned, unrecorded>>

(* Only the branch that cloned inserts the repositories row. *)
RecordRepository(w) ==
    /\ hpc[w] = "record" /\ ~cancelled
    /\ repo' = repo \union {wjob[w]}
    /\ unrecorded' = unrecorded \ {wjob[w]}
    /\ HGoto(w, "walk")
    /\ UNCHANGED <<poolVars, status, stage, url, disk, req, server, orphaned>>

(* A .git is there: fetch and hard reset, to a commit that may be new. *)
SyncSucceeds(w) ==
    /\ hpc[w] = "fetch" /\ clone[wjob[w]] # "absent" /\ ~cancelled
    /\ clone' = [clone EXCEPT ![wjob[w]] = "complete"]
    /\ indexed' \in {indexed, indexed \ {wjob[w]}}
    /\ HGoto(w, "walk")
    /\ UNCHANGED <<poolVars, tables, damaged, req, server, orphaned, unrecorded>>

WalkSucceeds(w) ==
    /\ hpc[w] = "walk" /\ ~cancelled
    /\ stage' = [stage EXCEPT ![wjob[w]] = "indexing"]
    /\ HGoto(w, "process")
    /\ UNCHANGED <<poolVars, status, url, repo, disk, req, server, orphaned, unrecorded>>

(* The job cannot be loaded, the repository is refused by CheckRepoSize,   *)
(* the sync, the repositories insert or the walk fails.                    *)
JobFails(w) ==
    /\ \/ hpc[w] \in {"fetch", "record", "walk"}
       \/ hpc[w] = "start" /\ (cancelled \/ StoreFaults)
    /\ unrecorded' = unrecorded \union (IF hpc[w] = "record" THEN {wjob[w]} \ repo ELSE {})
    /\ HGoto(w, "failed")
    /\ UNCHANGED <<poolVars, tables, disk, req, server, orphaned>>

(* Parse, store and embed every file, then stage done.  Each failure in    *)
(* this part is logged and passed over, be it one file's or, under a       *)
(* cancelled context, that of every file and call left, and the job still  *)
(* succeeds.  Files are refused by their foreign key when the repositories *)
(* row is missing.                                                         *)
ProcessFiles(w) ==
    LET i == wjob[w] IN
    /\ hpc[w] = "process"
    /\ \/ /\ ~cancelled
          /\ indexed' = IF i \in repo THEN indexed \union {i} ELSE indexed
          /\ UNCHANGED damaged
       \/ /\ cancelled \/ FileFaults
          /\ damaged' = damaged \union {i}
          /\ UNCHANGED indexed
    /\ stage' = IF cancelled THEN stage ELSE [stage EXCEPT ![i] = "done"]
    /\ HGoto(w, "succeeded")
    /\ UNCHANGED <<poolVars, status, url, repo, clone, req, server, orphaned, unrecorded>>

(* Mutant: the last stage's name is written as the status. *)
OutcomeIsStage(w) ==
    IF hpc[w] = "succeeded" THEN "done" ELSE IF cancelled THEN "pending" ELSE "failed"

Outcome(w) ==
    IF hpc[w] = "succeeded" THEN "completed" ELSE IF cancelled THEN "pending" ELSE "failed"

(* Mutant: the last write is made under the handler's own context. *)
FinishJobInContext(w) ==
    LET i == wjob[w] IN
    /\ hpc[w] \in {"succeeded", "failed"}
    /\ status' = IF cancelled THEN status ELSE [status EXCEPT ![i] = Outcome(w)]
    /\ orphaned' = orphaned \ {i}
    /\ HGoto(w, "none")
    /\ Pool!HandlerReturns(w)
    /\ UNCHANGED <<stage, url, repo, disk, req, server, unrecorded>>

(* handleIngestionJob's last write, and the return to the pool. *)
FinishJob(w) ==
    LET i == wjob[w] IN
    /\ hpc[w] \in {"succeeded", "failed"}
    /\ \/ status' = [status EXCEPT ![i] = Outcome(w)] /\ orphaned' = orphaned \ {i}
       \/ StoreFaults /\ UNCHANGED status /\ orphaned' = orphaned \union {i}
    /\ HGoto(w, "none")
    /\ Pool!HandlerReturns(w)
    /\ UNCHANGED <<stage, url, repo, disk, req, server, unrecorded>>

HandlerStep(w) ==
    \/ StartJob(w) \/ BeginClone(w) \/ CloneSucceeds(w) \/ CloneFails(w)
    \/ RecordRepository(w) \/ SyncSucceeds(w) \/ WalkSucceeds(w) \/ JobFails(w)
    \/ ProcessFiles(w) \/ FinishJob(w)

StopWorker(w) == Pool!WorkerStops(w) /\ UNCHANGED <<tables, disk, hpc, req, server, orphaned, unrecorded>>
-----------------------------------------------------------------------------
(* The process. *)

(* NewServer starts an empty pool; ResumeUnfinishedJobs lists its work, or *)
(* gives up when the list cannot be read.                                  *)
Boot ==
    /\ phase = "down"
    /\ phase' = "resuming"
    /\ \/ resume' = Active /\ orphaned' = {}
       \/ StoreFaults /\ resume' = {} /\ orphaned' = Active
    /\ UNCHANGED <<poolVars, tables, disk, hpc, req, restarts, unrecorded>>

(* SIGTERM before the list is read: the query fails with the context it    *)
(* was given, and the server stops without having served.                  *)
BootInterrupted ==
    /\ phase = "down" /\ restarts < MaxRestarts
    /\ phase' = "stopping" /\ orphaned' = Active
    /\ restarts' = restarts + 1
    /\ UNCHANGED <<poolVars, tables, disk, hpc, req, resume, unrecorded>>

(* Mutant: resuming stops at the first job the pool refuses. *)
ResumeUntilRefused(i) ==
    /\ phase \in {"resuming", "stopping"} /\ i \in resume
    /\ \/ Pool!Enqueue(i) /\ resume' = resume \ {i}
       \/ ~Pool!CanEnqueue /\ resume' = {} /\ UNCHANGED poolVars
    /\ UNCHANGED <<tables, disk, hpc, req, phase, orphaned, restarts, unrecorded>>

(* A job the pool refuses is marked failed, unless SIGTERM has cancelled   *)
(* the context of that write.                                              *)
ResumeJob(i) ==
    /\ phase \in {"resuming", "stopping"} /\ i \in resume
    /\ resume' = resume \ {i}
    /\ \/ Pool!Enqueue(i) /\ UNCHANGED <<status, orphaned>>
       \/ /\ ~Pool!CanEnqueue
          /\ \/ phase = "resuming" /\ status' = [status EXCEPT ![i] = "failed"] /\ UNCHANGED orphaned
             \/ /\ phase = "stopping" \/ StoreFaults
                /\ UNCHANGED status /\ orphaned' = orphaned \union {i}
          /\ UNCHANGED poolVars
    /\ UNCHANGED <<stage, url, repo, disk, hpc, req, phase, restarts, unrecorded>>

Serve ==
    /\ phase = "resuming" /\ resume = {}
    /\ phase' = "serving"
    /\ UNCHANGED <<poolVars, tables, disk, hpc, req, resume, orphaned, restarts, unrecorded>>

(* SIGTERM: no new requests; the ones in flight go on, and so does a       *)
(* resumption, under a cancelled context.                                  *)
Stop ==
    /\ phase \in {"resuming", "serving"} /\ restarts < MaxRestarts
    /\ phase' = "stopping"
    /\ restarts' = restarts + 1
    /\ UNCHANGED <<poolVars, tables, disk, hpc, req, resume, orphaned, unrecorded>>

(* The resumption is through, and httpServer.Shutdown has drained the      *)
(* requests or run into the deadline it shares with the pool;              *)
(* RepoHandler.Shutdown follows.                                           *)
StopPool ==
    /\ phase = "stopping" /\ resume = {}
    /\ Pool!BeginShutdown \/ Pool!DeadlinePasses \/ Pool!ShutdownReturns
    /\ UNCHANGED <<tables, disk, hpc, req, server, orphaned, unrecorded>>

(* The process is gone, and with it requests, handlers and the pool; an    *)
(* ephemeral disk loses working copies, a durable one keeps what was       *)
(* written of a clone.                                                     *)
ProcessGone ==
    /\ phase' = "down"
    /\ resume' = {}
    /\ req' = [r \in Requests |-> Idle]
    /\ hpc' = [w \in Workers |-> "none"]
    /\ queue' = <<>> /\ closed' = FALSE /\ cancelled' = FALSE /\ shutdown' = "none"
    /\ wstate' = [w \in Workers |-> "idle"] /\ wjob' = [w \in Workers |-> NoId]
    /\ \/ UNCHANGED clone
       \/ clone' = [i \in Ids |-> "absent"]
    /\ unrecorded' = unrecorded \union
          {i \in Ids \ repo : \E w \in Workers : wjob[w] = i /\ hpc[w] \in {"cloning", "record"}}
    /\ UNCHANGED <<tables, indexed, damaged, orphaned>>

Exit ==
    /\ phase = "stopping" /\ shutdown = "returned"
    /\ ProcessGone
    /\ UNCHANGED restarts

Crash ==
    /\ phase # "down" /\ restarts < MaxRestarts
    /\ ProcessGone
    /\ restarts' = restarts + 1

ServerStep == Boot \/ Serve \/ StopPool \/ Exit \/ \E i \in Ids : ResumeJob(i)

Next ==
    \/ \E r \in Requests : RequestStep(r)
    \/ \E r \in Requests, u \in Urls : ReceiveCreate(r, u)
    \/ \E r \in Requests, i \in Ids : ReceiveSync(r, i)
    \/ \E w \in Workers : TakeJob(w) \/ HandlerStep(w) \/ StopWorker(w)
    \/ ServerStep
    \/ Stop \/ BootInterrupted
    \/ Crash

(* No two requests for one URL are under way at once, which is what the    *)
(* active-job check is good for; requests for different URLs may overlap.  *)
Apart ==
    \A q, r \in Requests :
        q # r /\ req[q].pc # "idle" /\ req[r].pc # "idle" => req[q].url # req[r].url

Spec == Init /\ [][Next]_vars

(* Goroutines are scheduled, calls return or time out, the hosting         *)
(* platform starts the process again.  Nothing makes a client call, a stop *)
(* or a crash happen.                                                      *)
Fairness ==
    /\ \A r \in Requests : WF_vars(RequestStep(r))
    /\ \A w \in Workers : WF_vars(TakeJob(w)) /\ WF_vars(HandlerStep(w)) /\ WF_vars(StopWorker(w))
    /\ WF_vars(ServerStep)

FairSpec == Spec /\ Fairness

(* The behaviours in which requests for one URL do not overlap.            *)
ApartSpec == Init /\ [][Next /\ Apart']_vars
-----------------------------------------------------------------------------
(* Safety. *)

Running == {wjob[w] : w \in {v \in Workers : wstate[v] = "busy"}}
Queued  == {queue[k] : k \in DOMAIN queue}
Claimed == {req[r].id : r \in {q \in Requests : req[q].pc = "enqueue"}}

(* While the pool is open, every job row that says pending or processing   *)
(* is queued, running, about to be enqueued by the request that wrote it   *)
(* or waiting to be resumed: nobody but a refused checkAndEnqueueSync (or, *)
(* with StoreFaults, a lost write) leaves a row active with no one to      *)
(* finish it, whatever requests, handlers and restarts interleave.         *)
ActiveJobsAreHeld ==
    phase \in {"resuming", "serving"} =>
        Active \subseteq Queued \union Running \union Claimed \union resume \union orphaned

(* Two workers are never on the same repository, hence on the same clone   *)
(* directory, and a running job is not waiting in the queue a second time  *)
(* (the check CreateRepo and checkAndEnqueueSync make before InsertJob).   *)
OneHandlerPerClone ==
    /\ \A v, w \in Workers : wjob[v] = wjob[w] /\ wjob[v] # NoId => v = w
    /\ Running \intersect Queued = {}
    /\ \A k, l \in DOMAIN queue : queue[k] = queue[l] => k = l

(* A repository URL has one repositories row: GetActiveJobByURL and        *)
(* GetRepositoryByURL keep a URL from being ingested under two IDs.        *)
OneRepositoryPerUrl == \A i, k \in repo : url[i] = url[k] => i = k

(* When Shutdown has returned, no job that a worker took still says        *)
(* processing: its handler wrote completed, failed or pending, and what is *)
(* unfinished is pending for the next start.  Only a row that an earlier   *)
(* crash left, and that this process was stopped before it could list or   *)
(* refuse, says so still (or, with StoreFaults, one whose last write was   *)
(* lost); it is among the orphaned.                                        *)
StoppedLeavesNoneProcessing ==
    shutdown = "returned" => \A i \in Ids : status[i] = "processing" => i \in orphaned

(* A completed job's stored files and symbols are those of the commit its  *)
(* handler fetched (a job without a repositories row stores none at all).  *)
CompletedIsIndexed == \A i \in repo : status[i] = "completed" => i \in indexed

(* A completed job's ID can be opened by every endpoint that asks          *)
(* requireRepoExists, and its index is that of the commit fetched, across  *)
(* stops, crashes, refusals and lost disks.  The exceptions are named: a   *)
(* handler was cut off between the clone and InsertRepository, and the     *)
(* next one found a clone to sync; or failures after the walk were passed  *)
(* over (ingestRepository).                                                *)
CompletedIsUsable ==
    \A i \in Ids : status[i] = "completed" =>
        \/ i \in repo /\ (i \in indexed \/ i \in damaged)
        \/ i \notin repo /\ i \in unrecorded

(* An active row always has someone to finish it. *)
ActiveIsQueuedOrRunning ==
    phase = "serving" => Active \subseteq Queued \union Running \union Claimed

(* A handler starts only work that was asked for: a row goes to processing *)
(* from pending, or again from processing after a crash, never from a      *)
(* finished state.                                                         *)
NoFinishedJobRestarts ==
    [][\A i \in Ids : status'[i] = "processing" => status[i] \in {"pending", "processing"}]_vars

-----------------------------------------------------------------------------
(* Liveness. *)

(* A job that was accepted ends as completed or failed, across restarts,   *)
(* unless it was orphaned.                                                 *)
JobsEnd ==
    \A i \in Ids :
        (i \in Active /\ i \notin orphaned)
            ~> (status[i] \in {"completed", "failed"} \/ i \in orphaned)

(* A stop request ends the process although handlers and requests are in   *)
(* flight: the deadline cancels what the drain does not finish.            *)
StopEnds == (phase = "stopping") ~> (phase = "down")
=============================================================================
