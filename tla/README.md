# A verification project for KnowYourRepo

KnowYourRepo clones a GitHub repository, indexes its functions and call graph,
embeds its code in chunks and answers questions about it. The Go API
(`src/api`) owns ingestion, storage, browsing and answering; a Python sidecar
(`src/extraction-service`) owns embeddings, the vector table and the LLM
providers; a React frontend polls both ends of a job. This directory holds
TLA+ models of the API's ingestion machinery, of what rations its and the
sidecar's shared resources, and of the queries over the index; the TLC
configurations that check them on small instances; and proofs that TLAPS checks
for every instance.

Run a configuration with `tlc -config Pool.cfg PoolHistory` (the pairs are in
the table under *Runs*) and the proofs with `tlapm PoolProofs.tla`, and so on
for every `*Proofs.tla`.

## Inventory

| Component | State | Operations | Interacts with | What is hard | What makes it correct |
|---|---|---|---|---|---|
| **Worker pool** `api/internal/worker/pool.go` | buffered channel, `closed` under a mutex, wait group, context | `NewPool`, `Start`, `Enqueue`, `runWorker`, `Shutdown` | called by the API handlers, by the server at start and stop; calls `handleIngestionJob` | send against close; deadline against drain | every accepted job is handled once, in order, and before `Shutdown` returns |
| **Ingestion control plane** `api/internal/api/repos.go`, `server.go`, `store/job_repo.go` | `ingestion_jobs`, `repositories`, clone directories, the server's phase | `CreateRepo`, `SyncRepo`, `SyncIfStale`, `restoreCloneInBackground`, `checkAndEnqueueSync`, `ResumeUnfinishedJobs`, `handleIngestionJob`, stop | clients, PostgreSQL, GitHub, the pool | check-then-act over store calls, lost writes, stops and crashes in any state | one handler per clone, one repository per URL, no active row without somebody to finish it, a `completed` job can be used |
| **Indexing pipeline** `ingestRepository` in `repos.go`, `ingestion_guardrails.go`, `store/file_repo.go`, `sync_repo.go` | `files` (hash, `embedded_model`), `symbols`, `call_edges`, `last_commit_sha`, working copy | clone or sync, walk, diff by hash, purge, insert, parse, remove, embed within a budget, mark | the control plane, the sidecar, the remote | two stores without a transaction, partial batches, budget, a change of model, faults between any two calls | an `up_to_date` answer means a current index; a file marked embedded has all its vectors; syncs come to rest |
| **Vector store** `vectorstore/pgvector_store.py`, `routes/embed.py` | vector table, remembered model | add, delete by file, reconcile at first use, search | the pipeline, retrieval | reconciliation against a run in progress, a batch stored after its caller gave up | only vectors of the current model are searched |
| **Cloner** `ingestion/cloner.go` | working copy | clone, fetch, ask the remote's head, reset | the pipeline | push between fetch and head query, a crash in mid-clone | the copy is the commit that is recorded |
| **Embedding provider and quota** `providers/openrouter_embed_provider.py` | daily counter and exhaustion mark, query cache | embed in batches, retry, bisect a refused batch, note the server's reset time | OpenRouter, the pipeline, retrieval | counter checked before an await and bumped after it, midnight, lost answers | the daily limit holds, known exhaustion is heeded, every input gets its own vector |
| **LLM router** `providers/router.py` | state, window, cooldown and error count per provider | select, mark used, rate limited, failed | providers, answering | lock released between selecting and marking | a provider's rest is respected, its limit is overrun by a bounded amount, a call ends |
| **Chat sessions** `chat/store.go`, `api/agent_chat.go` | conversations under a mutex, capped in number and length | recent messages, add, evict, prune | answering | eviction and expiry during an answer, two requests of one session | the cap holds and a session in use survives (but see the empty session ID below), conversations do not mix |
| **Rate limiting** `api/ratelimit.go` | token bucket per key, cleanup loop | get a bucket, allow, forget the idle | every request | eviction between getting a bucket and using it | forgetting is invisible: one bucket per key for ever |
| **Retrieval and answering** `answer`, `retrieval`, `api/retrieval.go` | none | semantic search, expansion, lexical search, merge, overview, generate | store, sidecar, working copy | any part fails; caps cut exact matches; the working copy moved on | what is cited exists and lies within its file; a named symbol is found |
| **Bounded call graph** `api/graph_bounded.go`, `store/call_graph.go` | none | recursive query, capped collection | store | cycles, names in several files, caps in the middle of a row | connected, within the depth, complete unless it says truncated |
| **Architecture view** `architecture` | none | detect entrypoints, rank a reading path, detect components, generate an overview | store, sidecar | caps, unordered maps, files read before symbols | a step is reachable from one before it |
| **Extraction** `graph`, `chunk/extractor.go` | none | walk syntax trees for calls, symbols and chunks | the pipeline | anonymous functions called on the spot or bound to a variable, three languages | each call of a function with a name has it as its caller |
| **Chunk splitter** `chunk/splitter.go` | none | cut a function into overlapping windows | the pipeline | the last window, short and exact lengths | no byte is lost |
| Read endpoints, frontend, metrics, configuration | - | - | - | - | not modelled, see below |

A submission takes this path. `CreateRepo` looks for an active job of the URL,
then for a repository of the URL, writes a `pending` row and enqueues its ID. A
worker takes the ID, writes `processing`, clones or syncs, records the
repository and the commit, and runs the pipeline; the handler writes
`completed`, `failed`, or `pending` when it was interrupted. A restarted server
enqueues the rows still `pending` or `processing`.

A question takes this one: the rate limiter passes it, the chat handler reads
the session's history and stores the question, answering collects its context
from the vector table (through the sidecar's embedding budget), the symbol index
and the working copy, the sidecar's router finds a provider for the prompt, and
the chat handler stores the answer.

`PROJECT.json` lists 40 hazards of this code, each at its line, with the
properties that watch it or the reason none does.

## Modules

| Module | Models |
|---|---|
| `WorkerPool` | the pool: one action per operation or goroutine step |
| `Dispatch` | what callers of the pool rely on: no channel, no mutex, no wait group |
| `PoolHistory` | `WorkerPool` with a record of accepted, started and handled submissions; properties, inductive invariant, refinement mapping to `Dispatch` |
| `PoolProofs` | its proofs |
| `JobControl` | the control plane, over an `INSTANCE` of `WorkerPool` |
| `MCJobControl` | its symmetry set, and a view for one run |
| `JobControlProofs` | its proofs, for any requests and for requests that do not overlap on one URL |
| `Ingestion` | the pipeline of one repository, remote, tables, vector table, faults |
| `MCIngestion` | values for `ChunkCount` |
| `SyncRounds` | `Ingestion` with a count of the runs since it was last disturbed |
| `MCSyncRounds` | values for `ChunkCount` there |
| `IngestionProofs` | the invariant of an indexing run under every fault, its three safety properties, how many syncs suffice, and that each run ends, proved |
| `TokenBucket` | what the rate limiter promises: one bucket per key, for ever |
| `KeyLimiter` | the limiter with visitors, cleanup and time |
| `LLMRouter` | concurrent completions over providers |
| `EmbedBudget` | concurrent embedding calls over the daily budget |
| `MCServing` | the three side by side: the instance that is checked |
| `ServingProofs` | proofs about the three and their composition: the limiter's refinement of `TokenBucket`, the router's bounds, the quota, that vectors match inputs, and that completions and calls come nearer their end with every step |
| `CallExtraction` | the walk over a syntax tree |
| `ChunkSplitter` | `SplitChunk` |
| `CallGraph` | the bounded call graph of one request |
| `Rows` | helpers on lists of rows |
| `ReadingPath` | entrypoints and reading path of one request |
| `Answering` | how a question finds its context |
| `ChatStore` | conversations and the chat handler |
| `MCCodeQueries` | inputs for these six, side by side: the instance that is checked |
| `ListProofs` | lemmas on recursive functions, on arranging a finite set in order and on `Rows`, which the next three and `ServingProofs` share |
| `CodeQueryProofs` | that chunks cover, calls are attributed and graphs are neighbourhoods, proved |
| `ReadingPathProofs` | that a reading path can be read from its start, proved |
| `ChatProofs` | that answers are grounded and exact matches kept, what the chat store keeps, and that the composition of the six keeps what each of them does, proved |

Operators whose comment starts with `Mutant:` are altered copies of the
definition below them, each a plausible bug; no specification uses them, and
putting one in its definition's place breaks the property `PROJECT.json` names.

### WorkerPool, PoolHistory, Dispatch

`queue` and `closed` are the channel and `p.closed`; `Enqueue` and the closing
part of `Shutdown` each run under `p.mu` without blocking, so each is one
action. `Take`, `HandlerReturns` and `WorkerStops` are the iterations of
`runWorker`'s range loop. `cancelled` is the context handlers run under;
`shutdown` is where the `Shutdown` call is: waiting for the drain, waiting again
after its deadline, returned. `PoolHistory` numbers submissions, since a job ID
may be submitted more than once. The only bound is `MaxSubmits`.

### JobControl

Each store call is an action, so requests, handlers and the server interleave
between them. A request slot `req[r]` walks through *lookup* (`GetRepositoryByURL`,
`FindJob`), *stale* and *compare* (`checkAndEnqueueSync`), *insert* (`InsertJob`) and
*enqueue*; a request answered without a change of state is not a step. Handler
positions `hpc[w]` are those of `handleIngestionJob` around `ingestRepository`;
parsing and embedding are one step here, `ProcessFiles`, whose failures never
fail the job, as in the code: with `FileFaults`, or under a cancelled context, the
repository is then `damaged`. `phase` is the process: `Boot` and `ResumeJob` are
`ResumeUnfinishedJobs`, `Stop`, `StopPool` and `Exit` are the shutdown sequence of
`Server.Start`, `Crash` may come at any time. So may `Stop`: `Start` resumes under the
context the signal cancels, so a stop before the list is read (`BootInterrupted`) or
during the resumption makes its store calls fail, and the server goes on to shut
down. A restart may find the clone
directories or not (local disk, ephemeral container). With `StoreFaults`, the
status writes of a request, a handler or a restart may be lost, and so may
the list of unfinished jobs. Two history variables name what the code gives up
on: `orphaned`, the rows left active by a refused sync, a lost write or a start cut
short; and `unrecorded`, the IDs whose handler was cut off between the clone and
`InsertRepository`.

`Spec` lets any requests overlap. `ApartSpec` allows the steps after which no two
requests for one URL are under way (`Apart`), however many there are for
different ones: what the active-job check alone can guard, see finding
*two_handlers_one_clone*.

`MaxRestarts` bounds stops and crashes, `Ids` the repository IDs generated,
`Requests` how many submissions overlap.

### Ingestion

A version is a file's content, hence its hash, symbols, edges and chunks. `run`
is the position and the locals of `ingestRepository`: the set of files still to
do, the file at hand, the files gone, the chunks collected with the span of each
file, and how many were embedded. The files of a walk are taken in any order;
`Walked` is what the walker lists of a tree, `Listed(t, f)` the content it lists of `f`. Each call that changes a table or reaches the sidecar is an action with
its failure, if the configuration has that kind of fault: `crash`, `cancel` (the
shutdown deadline), `fetch`, `record` (the repository's row), `walk`, `store` (database
writes the code logs and passes over), `read`, `parse`, `purge` (deletion of vectors),
`embed` (a batch lost, or stored later), `info` (the sidecar's model unknown). A batch whose
caller gave up, crashed or was cancelled (`CutOff`) may be stored at any later time
(`LateStore`), as long as the sidecar is not restarted. Five history
variables serve the properties: `met`, the kinds of fault that occurred; `left`, the
models the sidecar was switched away from; `former`, for each file what a walk would
have listed of it before some push; `torn`, the files whose change in the tables was
begun and not ended; `strays`, for each file the vectors stored late since its last
purge. `Push`, `SwitchModel` and `Search` are
the environment. The cut of the work to the embedding budget, the batches and
`FullyEmbedded` are those of `ingestion_guardrails.go`. The cloner's fetch and its reset
to the remote's head are two steps (`FetchSucceeds`, `ResetSucceeds`): `run.fetched` is the
head the fetch saw, and after a push in between the reset fails (`PushedMeanwhile`).
A clone, the row in `repositories` (`RecordRepository`) and the recorded commit
(`TouchRepoCheck`) are three. `git` is the copy's `.git`: a crash in mid-clone leaves none,
one of which nothing is checked out, or a broken one, on which every later run
fails (`BrokenClone`), since only a directory without `.git` is cleared. A run whose
repository has no row can store no file. `SyncNeeded(asked)` is the freshness check when
the sidecar answers with quota left and when it does not, in which case nothing
counts as left to embed; `UpToDate(asked)` is the answer it gives.

`MaxPushes`, `MaxSwitches` and `MaxFaults` bound the environment.

`SyncRounds` adds a history variable, `rounds`: the runs begun since the last push,
model change or fault, counted up to `MaxRounds`, one more than too many; a repository
that was not recorded starts over. It changes
no step of `Ingestion`; its invariant says in steps what `Converges` says in the
limit.

How the two halves meet: `JobControl` shows when and by whom a run is started;
`Ingestion` lets a run start whenever `JobControl` could, one at a time (the
second handler of finding *two_handlers_one_clone* is outside it).

### KeyLimiter, LLMRouter, EmbedBudget

All three count time in ticks from now, with no clock to bound: a bucket's
credit, a window's age, what is left of a cooldown.

`KeyLimiter`: a request calls `GetLimiter` under the mutex and, ticks later,
`Allow` on the bucket it got; `Cleanup` may forget the visitor in between.
Buckets have an identity, so a forgotten bucket still in a request's hands is
not the one a later request gets. `MaxStall` is the longest a request waits
between the two calls; `LimiterAssumption` says it and a full refill fit into the
idle timeout (in the code ten minutes against at most two for a refill).

`LLMRouter`: a completion selects a provider under the lock, awaits it without,
and marks success, a 429 or a failure under the lock again. `asked` is a history
variable: the rest a provider asked for last.

`EmbedBudget`: a call works through its batches; each request checks the budget,
is sent, is awaited and is then charged, and other calls, midnight and lost
answers come in between. A refused batch is split, first half first. `seen`,
`lost` and `late` are history variables. `MaxLost` bounds the lost answers of a
day.

### The modules around the index

`CallExtraction` takes a syntax tree as its nodes in the order of the walk, one
node a step; a caller is its bare name, which two nodes may share. `ChunkSplitter` is the loop of `SplitChunk` over offsets.
`CallGraph`, `ReadingPath` and `Answering` each handle one request over rows that
do not change meanwhile, step by step where the code loops or where a part may
fail; what the code leaves open (rows of equal depth, the order of a map) is a
choice. `ReadingPath` lets files and symbols disagree, since they are read one
after the other. `Answering` has the palette's search and the agent's answer,
the latter with every part failing or not; strings are told apart by which
names contain or equal an identifier. A result carries the lines it cites, as the
index or the embedding has them, and the lines of the text shown, as the file has
them. `ChatStore` interleaves the handler's
store calls with other requests, the janitor and time; `log` and `others` are
history variables, `MaxTurns` bounds the requests. `Blank` is the empty session ID,
which `evictOldest` takes for having chosen none yet.

`MCServing` and `MCCodeQueries` put components side by side that share no
variable and no step. A behaviour of their composition is an interleaving of
behaviours of the parts, and each property speaks of one part, so the constant
`moving` picks the one that moves and the product of their states is not
explored.

## Runs

| Run | Configuration, module | Instance | States | Shows |
|---|---|---|---|---|
| pool | `Pool.cfg`, `PoolHistory` | 2 workers, queue 2, 2 jobs, 4 submissions | 2.9 k | `IInv`, `StartedOnce`, `ReturnedMeansDrained`, `ImplementsDispatch`, `ShutdownEnds`, `AcceptedIsHandled` |
| jobs_overlap | `JobsOverlap.cfg`, `MCJobControl` | 2 overlapping requests, lost status writes, 1 worker, queue 1, 1 URL, 2 IDs, 2 restarts | 1.1 M | `ActiveJobsAreHeld`, `StoppedLeavesNoneProcessing` |
| jobs_apart | `JobsApart.cfg`, `MCJobControl` | 2 requests that do not overlap on one URL, 2 workers, queue 1, 2 URLs, 3 IDs, files that fail, 1 restart | 1.7 M | `TypeOK`, `OneHandlerPerClone`, `OneRepositoryPerUrl`, `CompletedIsUsable`, `NoFinishedJobRestarts` |
| jobs_live | `JobsLive.cfg`, `MCJobControl` | lost status writes, 1 request, 1 worker, queue 1, 2 URLs, 1 restart | 326 k | `JobsEnd`, `StopEnds` |
| ingest_faults | `IngestFaults.cfg`, `MCIngestion` | 2 files, 1 version of 2 chunks, batch 3, no budget, any 2 faults of 6 kinds (crash, cancel, fetch, record, walk, embed), 1 push, 1 model change | 760 k | `TypeOK`, `EmbeddedIsSearchable`, `UpToDateIsIndexed`, `Converges` |
| ingest_sync | `IngestSync.cfg`, `MCSyncRounds` | 2 files, versions of 0 and 2 chunks, batch 1, budget 2, 1 fault of 8 kinds (crash, record, embed, store, read, parse, purge, info), 2 pushes | 1.5 M | `UpToDateIsIndexed`, `UpToDateForgets`, `SyncsAreFew` |
| serving | `Serving.cfg`, `MCServing` | 2 clients, 2 requests, buckets of 2 tokens at 2 ticks, idle timeout 5, stall 1; 2 providers, 2 completions, 1 request a minute, 429s of 1 or 2 ticks, 2 failures in a row; calls of 1 and 4 inputs, batch 3, 2 requests a day, 1 retry, 1 lost answer | 206 k | `ServingTypeOK`, `OverrunBounded`, `DailyQuotaHolds`, `ExhaustionIsHeeded`, `VectorsMatchInputs`, `ImplementsTokenBucket`, `RestIsRespected`, `CallsFinish` |
| code_queries | `CodeQueries.cfg`, `MCCodeQueries` | syntax trees of a root and 4 nodes, of different names or one; windows of 7 with overlap 3 over 9 lengths; graphs of up to 4 calls among 4 names in 2 files, depth 3, 3 nodes, 4 rows; 2 files with 2 symbols each and up to 3 calls, 3 steps; 14 questions over 3 indexes, 3 lists of hits, 3 working copies; 3 sessions and the empty one, 2 slots, 2 stored, 2 messages each, 3 turns | 892 k | `QueriesTypeOK`, `CallsAttributed`, `ChunksCoverSource`, `GraphIsNeighbourhood`, `ReadingPathLeads`, `AnswerIsGrounded`, `ExactMatchesSurvive`, `SessionSurvives`, `ConversationIsTail` |
| interrupted_completes | `InterruptedCompletes.cfg`, `MCJobControl` | 1 request, 1 restart | violation | `CompletedIsIndexed` fails |
| refused_sync_sticks | `RefusedSyncSticks.cfg`, `MCJobControl` | queue 1, 3 repositories | violation | `ActiveIsQueuedOrRunning` fails |
| two_handlers_one_clone | `TwoHandlersOneClone.cfg`, `MCJobControl` | 2 overlapping requests, 2 workers | violation | `OneHandlerPerClone` fails |
| unsupported_never_settles | `UnsupportedNeverSettles.cfg`, `MCIngestion` | 1 file without a grammar | violation | `Converges` fails |

Why the bounds are enough:

- *pool*: four submissions against a queue of two and two workers fill the
  queue, keep every worker busy and leave jobs queued when `Shutdown` begins. A
  wider pool adds no new kind of conflict, and the safety properties are proved
  for all sizes.
- *jobs_overlap*: two requests can be between any two store calls of each other.
  With one worker and a queue of one, the second job is refused while the first
  runs. Two restarts cover a stop or a crash in every state, the resumption after it,
  and a stop or a crash in the middle of that. The view `WithoutIndex` leaves out
  the variables that no step and neither property reads.
- *jobs_apart* is the setting in which the active-job check suffices: with
  two requests for one URL at once, `OneHandlerPerClone` and `OneRepositoryPerUrl` fail (see
  below). Three IDs for two URLs let a wrong lookup produce a second ID, and two
  workers with a queue of one are all busy when the second repository is refused.
  One restart: every step before it, and the resumption and whatever follows.
- *ingest_faults*: two files of two chunks against batches of three put a
  file across a batch boundary, and a failed batch leaves it half embedded. The one
  push adds or removes files; changed contents are in *ingest_sync*. Two faults give
  every ordered pair of those that end a run or leave it short, such as a lost batch
  and then a crash.
- *ingest_sync*: two pushes give a change and its revert, a removal and a
  return, and a push between the fetch and the reset of a run, after which the
  run fails and a later one catches up. A budget of two chunks is less than the
  two files need: a second run is needed, and a third would be one too many. A
  batch cut off by a crash or a lost answer is stored at any later step, before or after
  the file's next purge. The faults are those that leave a single file short, a
  repository without its row, and a crash.

- *serving*: two requests of one client hold the same bucket while its visitor is
  forgotten; the idle timeout is exactly the bound of the assumption. Two
  completions and a limit of one overrun it; two providers let one fail over
  to the other, in either order. Four inputs in batches of three give a full
  and a short batch, and splits of three, two and one. The bounds on limiter,
  router and budget safety are lifted by the proofs.
- *code_queries*: four nodes hold a call in a function in a call in a function,
  the deepest case in which one name is taken for another; any node may be of any
  kind, generators and initialising function expressions included. The nine lengths are
  empty, below, at and above one window, and those where the last window is
  short, exact or adds a single byte. Four calls among four names have cycles, a
  self-call, a diamond and a name in two files, cut at every row by the caps.
  Three sessions against a capacity of two evict, and two slots let an eviction
  or an expiry fall into an answer; the empty session may take part in any turn.

`CHECK_DEADLOCK FALSE` is said in every configuration: an ended shutdown, an idle
server that nobody calls with its restarts used up, an up-to-date repository
with pushes and faults used up, a query that was answered and a chat with its
turns used up are states in which the system rests.

### What the passing runs show

- `StartedOnce`, `ReturnedMeansDrained`: `Shutdown` and
  `Enqueue` cannot lose or double a job, nor can a handler outlive `Shutdown`,
  even when the deadline passes. `Server.Start` closes the store afterwards.
- `ActiveJobsAreHeld`: whatever requests, handlers and restarts interleave, an
  active row is queued, running, claimed by the request that wrote it or about to be
  resumed - with the exceptions `orphaned` names.
- `StoppedLeavesNoneProcessing`: nor does a shutdown leave a row that says
  `processing`, unless a crash had left it and the stop came before the start could
  deal with it.
- `OneHandlerPerClone`, `OneRepositoryPerUrl`: for requests that do not overlap on one
  URL, whatever overlaps on others, across restarts.
- `CompletedIsUsable`: under the same condition a completed job is recorded and its
  index is of the commit fetched, before and after stops, crashes and lost disks;
  but for the two things the handler passes over, failures after the walk (`damaged`)
  and the insert a resumed job skips (`unrecorded`).
- `EmbeddedIsSearchable`: under every kind of fault and every push, a file
  recorded as embedded with the sidecar's model has every chunk of its content
  in the vector table. Excepted by name: a sidecar back at a model it had left
  (`model \notin left`), and a file a run left half changed (`torn`) that then came
  back to content, or to an absence, an earlier run had seen (`CameBack`).
- `UpToDateIsIndexed`: when a sync is answered with `up_to_date`, every file the walk
  lists at the remote's head has the symbols and the vectors of its content, and
  no others, whatever crashes, failed fetches, walks, parses, batches and info
  calls came before (`Traced`). When the sidecar could not be asked, files may
  still have to be embedded, but nothing shown of any is stale. Excepted are the same
  two cases, the second only after a crash, and of vectors those a batch stored late.
- `UpToDateForgets`: nor has a file the remote no longer has any symbol or vector,
  but for one whose removal a crash cut in half and for vectors stored late.
- `Converges`: repeated syncs come to be answered `up_to_date`, and then stop spending
  quota, after any faults of the run; only a clone that a crash broke keeps failing.
  That they stop is all it says: what the answer is worth is said by
  `UpToDateIsIndexed`, which does not hold after a cancellation.
- `SyncsAreFew`: they do so soon. Undisturbed, each run after the first embeds at
  least one file the one before had left over, so there are at most as many runs as
  files, however small the budget. Each file must fit the budget and have a grammar
  (`Affordable`), and the clone be sound, see below.
- `ImplementsTokenBucket`: evicting idle visitors, even under a request that is
  about to use one, never gives a client a token it would not have had.
- `OverrunBounded`, `RestIsRespected`, `CallsFinish`: with the router's lock free
  during an answer, the minute's limit is overrun by at most the other
  completions in flight, nobody is sent to a provider in the rest it asked for
  last, and each completion ends.
- `DailyQuotaHolds`, `ExhaustionIsHeeded`, `VectorsMatchInputs`: the same for the
  embedding budget, across midnight and lost answers; splits keep vectors with
  their inputs.
- `CallsAttributed`, `ChunksCoverSource`: a call in a function the walk has a name for
  is under that name and no other; one in a function without (a generator, a function
  expression that initialises a variable) is lost or under a function further out.
  Chunks lose no byte.
- `GraphIsNeighbourhood`, `ReadingPathLeads`: a capped answer still hangs
  together from its root, and says so when it was cut.
- `AnswerIsGrounded`, `ExactMatchesSurvive`: whichever parts fail, an answer rests on
  what semantic search named, or on lexical results where there was none; a lexical
  citation is a row of the index, line for line, and the text shown with it begins at its
  first line and ends within the file as it is now; and a question that
  names a symbol first gets it. There is an answer without any result only if the
  search worked and named nothing, or calls could not be read.
- `SessionSurvives`, `ConversationIsTail`: as long as nobody uses the empty session ID,
  eviction takes the least recently active; overlapping requests, expiry and eviction in the middle of an answer
  leave no gap and mix nothing in.

### Fairness

- *Pool*: goroutines are scheduled (weak fairness of `Take`, `WorkerStops`,
  `ShutdownReturns`); the shutdown context has a timeout (`DeadlinePasses`); a
  handler returns once its context is cancelled, since every call it makes
  takes that context. A handler that nobody cancels need not return, which is
  why `AcceptedIsHandled` assumes that in its statement and `ShutdownEnds` does
  not.
- *JobControl*: steps of handlers, requests and the server are weakly fair:
  store and network calls return or time out, and the platform restarts the
  process. Client calls, stops and crashes are not fair.
- *Ingestion*: a run's steps are weakly fair, and somebody keeps submitting or
  syncing the repository, as `SyncIfStale` does on each visit, at times when the
  sidecar answers. Pushes, model
  changes, searches, late batches and faults are not fair.
- *Serving*: a completion's or an embedding call's own steps are weakly fair:
  asyncio resumes every ready task, a request to a provider has a timeout,
  the waits of a retry end. That a new completion or call begins, and that
  time passes, is not assumed.

### Findings

The four violation runs show what the code does against what it says of
itself; `PROJECT.json` quotes the lines.

1. *interrupted_completes*: a handler cancelled after its walk reports
   `completed`, not `pending`, because all failures from there on are passed over.
2. *refused_sync_sticks*: a sync refused by the full queue leaves its row
   `pending`, and every later submission of the URL is told the job is under way.
3. *two_handlers_one_clone*: of two overlapping submissions of a new URL, the second
   passes the active-job check before the first inserts its row, finds the repository
   once a worker has recorded it, and puts it into the queue again while that worker
   is still on it.
4. *unsupported_never_settles*: a file the walker lists and the parser has no
   grammar for stays unembedded for ever, so each sync is a full run.

### Known limits of the properties

The exact conditions above matter: outside them the same model shows the
property failing. Each can be reproduced by changing the configuration named.

- `UpToDateIsIndexed` speaks of the faults in `Traced`. With `cancel` added to it, it
  fails (IngestSync.cfg, `Faults = {"cancel"}`): the commit is recorded before
  indexing (`repos.go:419`; `store/sync_repo.go:40-43` says after a sync completes),
  and an interrupted run ends as `completed`.
- Its exception `torn` with `CameBack` is needed: a crash between the deletion of a
  file's symbols and the row's new hash, and then a push that reverts the
  content, leave a row whose hash matches again; the file is skipped as
  unchanged, without symbols (IngestFaults.cfg, `Versions = {v1, v2}`, `MaxPushes = 2`,
  `Faults = {"crash"}`). The same goes for a file removed and put back. No theorem
  needs the number of pushes bounded.
- The exception of `UpToDateForgets` is needed too: after a crash between the
  deletion of a row and of its vectors, the vectors outlive the row, and gone
  files are looked for by row. A failed `purge` does the same and is not in `Traced`.
- So is `strays`: a batch whose caller is gone may be stored after a later run has
  purged the file, and what it brings of an old content is never looked for. That a
  *deletion* takes effect after its caller gave up is not modelled.
- An answer counts as up to date when the job is shown as `completed`. A run that
  fails after the commit was recorded leaves a `failed` job, and a sync of it is
  answered with `up_to_date` all the same if nothing is left to embed.
- Whenever the sidecar cannot be asked, has no quota or the count cannot be read, the
  freshness check says no more than that the commit is the remote's: files may still be
  to embed (`NothingStale` instead of `IndexedExactly`).
- A crash in mid-clone can leave a `.git` that cannot be opened; nothing clears it away,
  and each later run of the repository fails until the directory is lost
  (`git = "broken"` in `Converges` and `SyncsAreFew`).
- `model \notin left` is needed: the sidecar switched from one model to another and
  back (IngestFaults.cfg, `MaxSwitches = 2`), with searches but no sync in between,
  purges vectors under files still marked with the first model.
  `src/README.md:241` calls switching the model safe; one switch is.
- A failed write of one file's symbols, its purge or its read is never made up
  for while its content stays the same.
- `Converges` fails when one file has more chunks than `MaxEmbedChunks` (IngestFaults.cfg,
  `MaxEmbedChunks = 1`): it takes
  the whole budget of every run, and files after it are never reached
  (`config.go:63-65` says a large repository converges).
- `MaxFiles` is 0 (no cap) in both configurations; the proofs hold for any cap.
- A requeued job shows the stage of its previous run. A job resumed after it was cut
  off between the clone and `InsertRepository` takes the sync branch and completes without
  a `repositories` row (`unrecorded` in `CompletedIsUsable`), and one whose files failed
  completes without their symbols (`damaged`; JobsApart.cfg with `CompletedIsIndexed`).
- Two overlapping first submissions of a URL get two IDs
  (JobsApart.cfg with `SPECIFICATION Spec`).
- *Rate limiting* rests on `MaxStall`: a request that waits longer than the idle
  timeout leaves room for, between getting a bucket and using it, spends from a
  bucket that was forgotten, while its client already has a fresh one.
- *Router*: a 429 that arrives late replaces an error's cooldown by a shorter one
  (`router.py:85-98` against `108-109`); `RestIsRespected` speaks of the rest asked for
  last. Failed requests are not counted in the minute.
- *Budget*: a request whose answer is lost is not charged, hence `lost` in
  `DailyQuotaHolds`. A daily 429 answered after midnight marks the new day as
  exhausted when the server names no reset time.
- *Extraction*: calls in `const f = function () {}` and in generator functions go to
  the caller around them or to none (`js_callgraph.go:52-63`); that a literal's calls go to
  the function around it is what `callgraph.go:14-21` calls a bug. Methods of one name in
  one file are one caller, and so are anonymous functions on one line.
- *Splitter*: windows are cut at bytes and may split a character.
- *Call graph*: names are texts, so functions of one name are one node, and a
  callee joins a caller only when the texts are equal.
- *Reading path*: a step's file is that of the last entrypoint or first call row
  of its name, its lines those of the first symbol; `reading_path.go:30-33` says never
  a wrong range, and `ReadingPathLeads` claims it only for names that are
  unambiguous. A file added between the two reads is missing.
- *Chat*: no handler refuses an empty `session_id`, and `evictOldest` (`store.go:139-149`)
  takes it for having chosen none yet. Once its conversation is stored and is the least
  recently active, another one is evicted, the one being written included, or none, so
  that the store outgrows its cap and the empty session is never evicted
  (`BlankSpoke` in `SessionSurvives`).
- *Answering*: the lines a citation gives are the index's or, for a semantic hit, those of
  its embedding; they are not cut to the file, and may lie past its end until the next
  sync. Only the first identifier's exact match is safe from the caps.
  `_` and `%` in an identifier act as wildcards in `ILIKE`; two symbols of one name in
  one file are cited once. Two sessions last active at the same clock reading
  are evicted in either order; the model's activity is numbered.

## Proofs

Every proof holds for every value of the constants that the named assumptions
allow. Each follows the same line: the property is not inductive, so an
invariant with the missing facts is stated in named parts, one lemma per action
(or per kind of action) shows that it is preserved, and a last temporal step
puts them together.

- `PoolProofs`, from `PoolAssumption` (there is a worker, the queue size is an
  integer, `NoJob` is not a job) and `HistoryAssumption` (`MaxSubmits` is a natural).
  `PoolInvariant`: `Spec => []IInv`. That a job received next is new follows from
  the channel holding exactly the submissions after the `taken` first ones
  (`QueueIsUnstarted`), and each busy worker holding one of the first `taken`
  (`Bookkeeping`). That a `Shutdown` that returned left nothing needs, besides, that
  a stopped worker saw the channel closed and empty and that nothing is sent
  after the close. `ShutdownDrains` and `NoDoubleStart` follow;
  `Refinement` maps each action to one of `Dispatch` or a stutter.
- `JobControlProofs`, from `ControlAssumption`. `ControlInvariant`: `[]ControlInv`, which
  ties request positions to URLs and IDs, handler positions to busy workers, the
  pool to the server's phase, and active rows to whoever finishes them, for any
  number of overlapping requests, with or without lost writes, and with stops at any
  time. `ControlTypes` and `ActiveHeld` are conjuncts; `NoneLeftProcessing` needs that a row says
  `processing` only for a job that is queued, running, to be resumed or orphaned.
- The second half of `JobControlProofs`, about `ApartSpec`. The run *two_handlers_one_clone*
  shows that `OneHandler` fails without `Apart`. `ApartInv` adds that a job is in one place
  and active, that what a request found is still so when it writes, that recorded
  and active rows have different URLs, and that a clone without a recorded repository
  is in the hands of a handler that will record it, or `unrecorded`. `OneHandler`,
  `OneRepository`, `CompletedUsable` and `NoRestart` follow,
  across restarts and with lost writes.
- `IngestionProofs`, from `IngestionAssumption` (the batch size is positive, the other
  numbers are naturals, `None` is no version and no model, `Faults` are of the eleven
  kinds): any number of files, versions, models, pushes, switches and faults, any
  budget and cap. `IngestInvariant`: `Spec => []IngestInv`, whose parts build on each
  other:
  - `CloneInv`: the working copy is the remote's head or an earlier one, nothing is
    checked out without a sound `.git`, and a run's
    locals are empty before its walk. `RecordedInv`: a repository that is not recorded
    has no files. `ModelInv`: a row's model, or a run's, that is
    not the sidecar's was left. `FormerInv`: content a row was taken from is in the
    working copy or in `former`. So a hash that matches again means `CameBack`.
  - `RunInv`: the files left to do, at hand and done are different ones, and the
    file at hand is in the stage its row says. `TornInv`: a file half changed is due
    for another change or came back.
  - `SpanInv`: a span holds the chunks of its file's recorded content, in order, as
    far as the cap left them; this is what `fullyEmbeddedFiles` relies on when it
    compares a span's end with the number embedded. `SearchInv`: the first
    `run.embedded` of them, and all of a marked file's, are in the vector table.
    `EmbeddedIsSearchable` follows.
  - `TablesInv`, as long as only faults of `Traced` occurred: outside `torn`, symbols
    and vectors are those of the row, but for `strays`. `CrashInv`: without a crash only the file at
    hand is torn. `ProgressInv`: what the run has passed is recorded as in the working
    copy, and after a completed one all of it is. `UpToDateIsIndexed` and
    `UpToDateForgets` follow with the answer's condition, that the recorded commit is
    the remote's and, if that was asked, no file is left to embed.

  Lemmas say once per variable which actions touch it (`RowSteps`, `VectorSteps`,
  ...) and once per action what it does to the tables, so that each part is
  proved from the few actions that can disturb it. The two runs check the three
  properties with one or two faults and pushes; the theorems lift those bounds.
- The second part of `IngestionProofs`, about `SyncRounds`. `RoundsInv` says of the runs since
  the last disturbance: after the n-th, what is outstanding has at most
  `FileCount - n` files, and a run under way has either embedded one of them or has its
  budget left for the first. `IngestionSyncsAreFew` follows for any number of files,
  budget and batch size. `RunsAdvance`: each step of a run ends it or lowers its stage
  or the work left in it, lexicographically; so each of those runs ends.
- `ServingProofs`, the limiter, from `LimiterAssumption`. `LimiterInv` says that a waiting
  request holds its key's bucket, and that a visitor idle past a stall has
  refilled; so what `Cleanup` forgets is a full bucket nobody holds, and
  `LimiterRefinement` maps it to a stutter of `TokenBucket`.
- `ServingProofs`, the router, from `RouterAssumption`. `RouterInv` keeps the rest asked for equal
  to the cooldown that is left (`RestIsKept`) and counts the completions in flight
  against the limit: `OverrunIsBounded`, `RestRespected`.
- `ServingProofs`, the embedding provider, from `BudgetAssumption`. `BudgetInv` accounts for each request of
  the day as charged, awaited or lost (`SeenIsAccounted`), bounds what is charged or
  past its check (`ChargesFit`) and what was sent since the exhaustion
  (`LateAreCounted`): `QuotaHolds`, `ExhaustionHeeded`.
  `VectorInv` lays the batches a call has still to do behind the vectors it has: an
  offset for each batch says how many inputs precede it (`Strip`), and only the first
  may be the placeholder of an input refused on its own (`Aside`). A split, a
  placeholder and an answer each keep that: `VectorsMatch`, with no induction over
  the list of batches. `BudgetTypes` adds that a strip of batches holds a call's own
  inputs only.
- `ServingProofs`, termination. That something is reached needs fairness; what makes it
  reachable does not. `CompletionsNearEnd`: each step of a completion ends it or lowers
  `TriesLeft`, a natural number, since a provider that was tried is not selected again.
  `CallsNearEnd`: each step of an embedding call ends it, or leaves fewer inputs
  (`InputsLeft`: those without a vector, twice, less the batches they are in, and those
  not yet refused on their own), or as many and a later attempt of the `MaxRetries`, or
  the same attempt and a later stage. A split lowers it by one, a
  placeholder too, an answer by more. So `CallsFinish`, checked on one instance, holds of
  any number of providers, inputs and retries once every step that can be taken is.
- `ServingProofs` and `ChatProofs`, the compositions that the runs *serving* and *code_queries*
  check. `ServingParts` and `QueriesParts` project a behaviour of the composition onto each
  component: one of its behaviours, or one in which it rests where it began. So what
  is proved of the components holds of what TLC explores: `ServingKeepsPromises`,
  `QueriesKeepPromises`, and the types `ServingTypes`, `QueriesTypes`.
- `CodeQueryProofs`, from `SplitterAssumption`, `TreesAssumption` and `GraphAssumption`.
  - `SplitInv` says how far a half-split function is covered: `ChunksCover`.
  - `ExtractInv`, over any set of trees in which a parent is walked before its
    children, a declarator has one value, and `NoCaller` is no function's name
    (`TreesAssumption`; what tree-sitter builds). Each walked node was handed the
    innermost function around it that has a name, unless a declarator speaks for its
    arrow function, and the rows are those of the calls walked, in order:
    `CallsAreAttributed`. `Ancestors` goes up step by step; `AncestorsClosed` and
    `AncestorsLeast` say that it is the least set closed under parents.
  - `GraphInv`, over any finite set of calls: what the response shows is in one
    piece (a set of symbols with the root in it that no shown call leaves is all
    of it), each row read is drawn, and rows read and rows left add up.
    `RowsAreNeighbours` says what the recursive query returns: calls within the
    depth only, each from the root or from the callee of a shallower row, and,
    since the first path to reach a symbol has not visited it, all of them on any
    cyclic graph. So the caller of the shallowest row left is a node already, and
    only a callee ever meets the node cap. `GraphShowsNeighbourhood` follows;
    `ShownIsAll` needs that a turn that adds no node is the last.

- `ListProofs`, what the proofs about queries have in common.
  - Recursive functions. The library's induction theorems take an operator, but
    induction over a *set* of numbers needs none: `SetInduction` follows from `<`
    being well-founded. `Iterated` gives the function that takes a step n times and
    `Unfolded` the one that takes it for ever; `SameIteration` says there is only
    one, which identifies what a recursive definition chooses.
  - Lists. `Where` and `DistinctBy` of `Rows` keep the rows at some places, and
    `InOrderLists` says that numbering a finite set in an increasing order is a
    bijection that keeps the order. So filtering keeps an order, and removing
    repetitions keeps each key's first row (`FirstsCover`), without induction over
    lists.
- `ReadingPathProofs`, from `PathAssumption` (the limit is a natural, names are numbers,
  rows are lists).
  - `NearOfNears` identifies `ReachedBy(k)` with the sets that grow by the names
    called from the set before. `AllAreReached` says that these sets stand still after
    as many steps as there are names: a name that can be reached has a distance,
    and `FirstIsOne` that it has one.
  - `PathInv` is the classical invariant of a breadth-first search: each
    name visited or queued has its distance for a depth; depths in the queue do
    not fall and differ by at most one; every entrypoint, and what a visited name
    calls, has been visited or is queued (`Searching`). `VisitSearches` shows that a turn keeps it, and
    `SearchIsComplete` that an empty queue means `AllPlaced`: all that can be reached
    was found, at its distance.
  - `RankedArranges`: the ranking lists what was found, each name once, and keeps the
    order by depth, callers and name; cutting it off leaves out only what ranks
    later. A name at distance d is called by one at d - 1, which ranks before it:
    `PathsLead`.
- `ChatProofs`, answering, from `AnsweringAssumption` (a name that equals an identifier
  contains it, which is what `=` and `ILIKE '%...%'` do; indexed rows have a path
  and whole line numbers; the cap and the snippet limit are positive; the calls are
  finitely many).
  - `AnswerInv` says what each search has gathered before the merge (`Gathered`),
    what the merged list is after it (`Settled`), and that the first identifier is
    still to be looked up with nothing found so far, or its symbols are there
    (`FirstIsFound`). The last needs that exact matches come first: if one of them
    does not fit, everything kept ranks before it and is an exact match of its own,
    so that the cap is full of them (`FoundAreLexical`); later results, the merge
    and the overview only add to it (`HoldsOn`).
  - `AnswersAreGrounded`, `ExactMatchesAreKept`: after any sequence of failures.
- `ChatProofs`, the chat store, from `ChatAssumption`. `ChatInv` orders sessions by their last
  message and keeps, with each, the sessions active since (`Ordered`); a session
  that is evicted has at least `MaxSessions` of them, as long as nothing was stored
  under `Blank`: `StoreBounded`, `Survives`.
  `TailIsKept` rests on appending to a conversation and to what was said alike.

Model-checked only: the liveness properties `ShutdownEnds`, `AcceptedIsHandled`,
`JobsEnd`, `StopEnds`, `CallsFinish` and `Converges`, since the prover has no fairness or
`ENABLED`. Of the last two the safety core is proved (`CompletionsNearEnd`, `CallsNearEnd`;
`IngestionSyncsAreFew`, `RunsAdvance`). Every invariant and every action property
a passing run checks is stated by a theorem, and so are both refinements.

## Not modelled

- *Janitor, IR file, `parse_status` and `embed_status`, error texts*: they guard
  nothing the modelled parts depend on.
- *Cloner*: in `JobControl` the clone, and the fetch with the reset, are one step each
  with their failure, since no tree is modelled there, and a clone interrupted halfway
  counts as one with or without `.git`. That a broken `.git` fails every run is in `Ingestion`.
- *Query cache and per-minute limiter of the embedding provider*: the first only
  avoids calls, the second only delays them.
- *Prompt assembly, compression, the background sync an answer may trigger*
  (the last is `ReceiveSync` of `JobControl`).
- *Component detection and the generated overview*: string rules, and a text kept
  until the next ingestion.
- *Symbols of types and classes, grammars*: data without control.
- *File view, read endpoints, sidecar client*: single reads turned into JSON. The
  file view may show a working copy that a handler is resetting.
- *Frontend, metrics, configuration, deployment*: presentation and wiring.

## Plan

Done: all of the modules above, and a theorem for every safety property the runs
check. Left: the file view as a reader of the working copy.
