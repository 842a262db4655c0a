----------------------------- MODULE Ingestion ------------------------------
(***************************************************************************)
(* The incremental indexing of one repository: the body of                 *)
(* ingestRepository (api/internal/api/repos.go) against the remote, the    *)
(* working copy, the files and symbols tables and the sidecar's vector     *)
(* table, with the faults each step meets.  JobControl decides when a run  *)
(* starts and ensures there is one at a time; here a run starts when the   *)
(* job is new, unfinished or failed, or when checkAndEnqueueSync asks.     *)
(*                                                                         *)
(* A version stands for the content of a file, so for its hash, symbols,   *)
(* call edges and chunks; two versions have no chunk identifier in common  *)
(* (the identifiers carry the row the function starts at).                 *)
(***************************************************************************)
EXTENDS Integers, Sequences, FiniteSets

CONSTANTS
    FileCount,       \* files are 1..FileCount, in the order the walk visits them
    Versions,        \* contents a file can have
    ChunkCount,      \* how many chunks each version is split into
    Unsupported,     \* files the walker lists and getLanguage has no grammar for
    Models,          \* embedding models the sidecar may be configured with
    FirstModel,      \* the one it starts with
    BatchSize,       \* EmbedBatchItems
    MaxEmbedChunks,  \* embedding budget of one run, 0 for none
    MaxFiles,        \* MaxRepoFiles, 0 for none
    MaxPushes, MaxSwitches, MaxFaults,   \* bounds on pushes, model changes, faults
    Faults,          \* the kinds of fault that occur
    None

Files == 1..FileCount

FaultKinds == {"crash", "cancel", "fetch", "record", "walk", "store", "read", "parse", "purge", "embed", "info"}

ASSUME IngestionAssumption ==
    /\ FileCount \in Nat /\ Unsupported \subseteq Files
    /\ ChunkCount \in [Versions -> Nat]
    /\ FirstModel \in Models
    /\ None \notin Versions /\ None \notin Models
    /\ BatchSize \in Nat \ {0} /\ MaxEmbedChunks \in Nat /\ MaxFiles \in Nat
    /\ MaxPushes \in Nat /\ MaxSwitches \in Nat /\ MaxFaults \in Nat
    /\ Faults \subseteq FaultKinds

VARIABLES
    remote,      \* the remote's head: its number as SHA, and its tree
    clone,       \* the working copy, the same shape, sha 0 when nothing is checked out
    git,         \* its .git: "none", "sound", or "broken" by a crash in mid-clone
    recorded,    \* the repository has its row in repositories
    lastSha,     \* repositories.last_commit_sha, 0 when NULL
    row,         \* the files table: hash and embedded_model, hash None without a row
    symbols,     \* the versions each file's stored symbols and call edges come from
    vectors,     \* the vector table, by file: version, chunk and model
    late,        \* batches the sidecar is still storing, their caller gone
    model,       \* the model the sidecar embeds with
    job,         \* "none", "unfinished", "completed" or "failed"
    run,         \* the handler's position and locals
    cancelled,   \* the run's context has been cancelled
    pushes, switches, faults,    \* how much of each bound is used up
    met,         \* history: the kinds of fault that have occurred
    left,        \* history: the models the sidecar has been switched away from
    former,      \* history, by file: what the walk would have listed before some push
    torn,        \* history: files whose change in the tables was begun and not ended
    strays       \* history, by file: vectors stored late since its last purge

copy        == <<clone, git>>
repository  == <<recorded, lastSha>>
tables      == <<repository, row, symbols>>
vectorTable == <<vectors, late, strays>>
env         == <<remote, model, pushes, switches, left, former>>
vars        == <<env, copy, tables, vectorTable, torn, job, run, cancelled, faults, met>>

Trees  == [Files -> Versions \union {None}]
NoTree == [f \in Files |-> None]
NoClone == [sha |-> 0, tree |-> NoTree]
NoRow  == [hash |-> None, model |-> None]
Chunks(v) == IF v = None THEN {} ELSE 1..ChunkCount[v]
Vector == [version : Versions, chunk : Nat, model : Models]
Span   == [file : Files, start : Nat, end : Nat]
Item   == [file : Files, version : Versions, chunk : Nat]

Resting == [pc |-> "idle", fetched |-> 0, model |-> None, todo |-> {}, file |-> 0,
            gone |-> {}, items |-> <<>>, spans |-> <<>>, embedded |-> 0]

RunPCs == {"idle", "fetch", "reset", "record", "touch", "walk", "next", "delete", "purge", "insert", "parse",
           "remove", "removeVectors", "embed", "mark", "finish"}

AtFile == {"delete", "purge", "insert", "parse", "removeVectors"}

TypeOK ==
    /\ remote \in [sha : 1..(MaxPushes + 1), tree : Trees]
    /\ clone \in [sha : 0..(MaxPushes + 1), tree : Trees]
    /\ git \in {"none", "sound", "broken"} /\ recorded \in BOOLEAN
    /\ lastSha \in 0..(MaxPushes + 1)
    /\ row \in [Files -> [hash : Versions \union {None}, model : Models \union {None}]]
    /\ symbols \in [Files -> SUBSET Versions]
    /\ vectors \in [Files -> SUBSET Vector] /\ strays \in [Files -> SUBSET Vector]
    /\ late \subseteq [Files -> SUBSET Vector]
    /\ model \in Models
    /\ job \in {"none", "unfinished", "completed", "failed"}
    /\ run \in [pc : RunPCs, fetched : 0..remote.sha, model : Models \union {None},
               todo : SUBSET Files, file : 0..FileCount, gone : SUBSET Files,
               items : Seq(Item), spans : Seq(Span), embedded : Nat]
    /\ run.embedded <= Len(run.items)
    /\ run.file = 0 <=> run.pc \notin AtFile
    /\ cancelled \in BOOLEAN /\ met \subseteq Faults
    /\ pushes \in 0..MaxPushes /\ switches \in 0..MaxSwitches /\ faults \in 0..MaxFaults
    /\ left \in SUBSET Models /\ former \in [Files -> SUBSET (Versions \union {None})]
    /\ torn \in SUBSET Files

Init ==
    /\ remote \in [sha : {1}, tree : Trees]
    /\ clone = NoClone /\ git = "none"
    /\ recorded = FALSE /\ lastSha = 0
    /\ row = [f \in Files |-> NoRow]
    /\ symbols = [f \in Files |-> {}]
    /\ vectors = [f \in Files |-> {}] /\ strays = [f \in Files |-> {}] /\ late = {}
    /\ model = FirstModel
    /\ job = "none"
    /\ run = Resting
    /\ cancelled = FALSE
    /\ pushes = 0 /\ switches = 0 /\ faults = 0 /\ met = {}
    /\ left = {} /\ former = [f \in Files |-> {}] /\ torn = {}
-----------------------------------------------------------------------------
(* The environment. *)

(* The walk lists the first MaxFiles files present. *)
Walked(t) == {f \in Files :
                /\ t[f] # None
                /\ MaxFiles = 0 \/ Cardinality({g \in Files : g < f /\ t[g] # None}) < MaxFiles}

Listed(t, f) == IF f \in Walked(t) THEN t[f] ELSE None

(* What a push takes from the walk; a file is followed from the time it    *)
(* was first listed.                                                       *)
Replaced(f, t) == IF Listed(t, f) = Listed(remote.tree, f) \/ (Listed(remote.tree, f) = None /\ former[f] = {})
                  THEN {} ELSE {Listed(remote.tree, f)}

(* A commit arrives at the remote; it may bring back an earlier content. *)
Push ==
    /\ pushes < MaxPushes
    /\ \E t \in Trees : /\ remote' = [sha |-> remote.sha + 1, tree |-> t]
                        /\ former' = [f \in Files |-> former[f] \union Replaced(f, t)]
    /\ pushes' = pushes + 1
    /\ UNCHANGED <<copy, tables, vectorTable, torn, model, job, run, cancelled, switches, left, faults, met>>

(* The sidecar is restarted with another embedding model; what it was      *)
(* doing is lost.                                                          *)
SwitchModel ==
    /\ switches < MaxSwitches
    /\ \E m \in Models \ {model} : model' = m
    /\ switches' = switches + 1 /\ left' = left \union {model}
    /\ late' = {}
    /\ UNCHANGED <<remote, copy, tables, vectors, strays, torn, job, run, cancelled, pushes, former, faults, met>>

(* _ensure_schema on the sidecar's first use of its store: rows of another *)
(* model are deleted.                                                      *)
Reconciled == [f \in Files |-> {x \in vectors[f] : x.model = model}]

(* A search is such a first use. *)
Search ==
    /\ vectors' = Reconciled
    /\ UNCHANGED <<env, copy, tables, late, strays, torn, job, run, cancelled, faults, met>>

(* The sidecar stores a batch whose caller gave up on it. *)
LateStore ==
    /\ \E batch \in late :
         /\ vectors' = [f \in Files |-> Reconciled[f] \union batch[f]]
         /\ strays' = [f \in Files |-> strays[f] \union batch[f]]
         /\ late' = late \ {batch}
    /\ UNCHANGED <<env, copy, tables, torn, job, run, cancelled, faults, met>>

(* A step may fail in the way of kind k while faults are left. *)
Fault(k) == /\ k \in Faults /\ faults < MaxFaults
            /\ faults' = faults + 1 /\ met' = met \union {k}
Works    == UNCHANGED <<faults, met>>
-----------------------------------------------------------------------------
(* Deciding to run. *)

(* CountFilesPendingEmbedding for the sidecar's model. *)
PendingEmbedding == \E f \in Files : row[f].hash # None /\ row[f].model # model

(* checkAndEnqueueSync: the clone is gone, the remote moved, or files are  *)
(* left to embed.  The last is asked only when the sidecar answers with    *)
(* quota left and the count can be read; else nothing counts as left.      *)
SyncNeeded(asked) ==
    git = "none" \/ lastSha # remote.sha \/ (asked /\ PendingEmbedding)

BeginRun ==
    /\ run' = [Resting EXCEPT !.pc = "fetch"]
    /\ job' = "unfinished"
    /\ UNCHANGED <<env, tables, vectorTable, torn, cancelled, faults, met>>

(* A first submission, a resumed job, a failed one submitted again.  A URL *)
(* whose repository was never recorded gets a new ID when its job is over, *)
(* and with it a new directory.                                            *)
Submit ==
    /\ run.pc = "idle" /\ (job # "completed" \/ ~recorded)
    /\ BeginRun
    /\ IF ~recorded /\ job # "unfinished" THEN clone' = NoClone /\ git' = "none"
       ELSE UNCHANGED copy

Sync ==
    /\ run.pc = "idle" /\ job \in {"completed", "failed"} /\ recorded
    /\ \E asked \in BOOLEAN : SyncNeeded(asked)
    /\ BeginRun
    /\ UNCHANGED copy
-----------------------------------------------------------------------------
(* One run of ingestRepository. *)

Goto(pc) == run' = [run EXCEPT !.pc = pc]

(* Mutant: the last stage's name is written as the status. *)
EndRunAsStage(outcome) ==
    run' = Resting /\ job' = (IF outcome = "completed" THEN "done" ELSE outcome) /\ cancelled' = FALSE

EndRun(outcome) == run' = Resting /\ job' = outcome /\ cancelled' = FALSE

CloneSucceeds ==
    /\ run.pc = "fetch" /\ ~cancelled
    /\ git = "none"
    /\ clone' = remote /\ git' = "sound"
    /\ Goto("record")
    /\ UNCHANGED <<env, tables, vectorTable, torn, job, cancelled, faults, met>>

(* GetRepositoryByID and InsertRepository: only after a clone.  When one   *)
(* fails, so does the run.                                                 *)
RecordRepository ==
    /\ run.pc = "record" /\ ~cancelled
    /\ \/ Works /\ recorded' = TRUE /\ Goto("touch") /\ UNCHANGED <<job, cancelled>>
       \/ Fault("record") /\ EndRun("failed") /\ UNCHANGED recorded
    /\ UNCHANGED <<env, copy, lastSha, row, symbols, vectorTable, torn>>

(* HeadCommitSHA and TouchRepoCheck record the commit of the working copy  *)
(* in the repository's row, if it has one, before anything is indexed.  A  *)
(* failure to record it is passed over.                                    *)
TouchRepoCheck ==
    /\ run.pc = "touch" /\ ~cancelled
    /\ \/ Works /\ lastSha' = (IF recorded THEN clone.sha ELSE lastSha)
       \/ Fault("store") /\ UNCHANGED lastSha
    /\ Goto("walk")
    /\ UNCHANGED <<env, copy, recorded, row, symbols, vectorTable, torn, job, cancelled>>

(* SyncRepo fetches what the remote has now, then asks it for its head. *)
FetchSucceeds ==
    /\ run.pc = "fetch" /\ ~cancelled
    /\ git = "sound"
    /\ run' = [run EXCEPT !.pc = "reset", !.fetched = remote.sha]
    /\ UNCHANGED <<env, copy, tables, vectorTable, torn, job, cancelled, faults, met>>

(* What a crash in mid-clone left cannot be opened or fetched into, and    *)
(* nothing clears it away.                                                 *)
BrokenClone ==
    /\ run.pc = "fetch" /\ ~cancelled
    /\ git = "broken"
    /\ EndRun("failed")
    /\ UNCHANGED <<env, copy, tables, vectorTable, torn, faults, met>>

(* Mutant: the reset is only tried, and the remote's head recorded. *)
ResetTried ==
    /\ run.pc = "reset" /\ ~cancelled
    /\ clone' = (IF run.fetched = remote.sha THEN remote ELSE [clone EXCEPT !.sha = remote.sha])
    /\ run' = [run EXCEPT !.pc = "touch", !.fetched = 0]
    /\ UNCHANGED <<env, git, tables, vectorTable, torn, job, cancelled, faults, met>>

(* The head can be reset to if it was fetched. *)
ResetSucceeds ==
    /\ run.pc = "reset" /\ ~cancelled
    /\ run.fetched = remote.sha
    /\ clone' = remote
    /\ run' = [run EXCEPT !.pc = "touch", !.fetched = 0]
    /\ UNCHANGED <<env, git, tables, vectorTable, torn, job, cancelled, faults, met>>

(* A push came in between: the head's commit is not in the working copy.   *)
PushedMeanwhile ==
    /\ run.pc = "reset" /\ ~cancelled
    /\ run.fetched # remote.sha
    /\ EndRun("failed")
    /\ UNCHANGED <<env, copy, tables, vectorTable, torn, faults, met>>

(* The clone, the fetch, the query for the head or the reset fails. *)
FetchFails ==
    /\ run.pc \in {"fetch", "reset"} /\ Fault("fetch")
    /\ EndRun("failed")
    /\ UNCHANGED <<env, copy, tables, vectorTable, torn>>

(* EmbedInfo, WalkRepo and GetFileHashesByRepo.  Without an answer from    *)
(* the sidecar the run goes on with no model.                              *)
WalkSucceeds ==
    /\ run.pc = "walk" /\ ~cancelled
    /\ \E m \in {model, None} :
         /\ IF m = None THEN Fault("info") ELSE Works
         /\ run' = [run EXCEPT !.pc = "next", !.model = m, !.todo = Walked(clone.tree),
                               !.gone = {f \in Files : row[f].hash # None} \ Walked(clone.tree)]
    /\ UNCHANGED <<env, copy, tables, vectorTable, torn, job, cancelled>>

WalkFails ==
    /\ run.pc = "walk" /\ Fault("walk")
    /\ EndRun("failed")
    /\ UNCHANGED <<env, copy, tables, vectorTable, torn>>

(* The shutdown deadline cancelled the run before it had walked: the       *)
(* handler fails and the job is left pending.                              *)
InterruptedEarly ==
    /\ run.pc \in {"fetch", "reset", "record", "touch", "walk"} /\ cancelled
    /\ EndRun("unfinished")
    /\ UNCHANGED <<env, copy, tables, vectorTable, torn, faults, met>>

File     == run.file
Content  == clone.tree[File]
SkipFile == [run EXCEPT !.pc = "next", !.file = 0]

(* Unchanged content, embedded with the run's model or no model known. *)
Unchanged(f) == row[f].hash = clone.tree[f] /\ (run.model = None \/ row[f].model = run.model)

(* HashFile and the decision; a file that cannot be read is passed over. *)
NextFile ==
    /\ run.pc = "next" /\ ~cancelled
    /\ \E f \in run.todo :
         /\ \A g \in run.todo : f <= g
         /\ \/ /\ Unchanged(f) /\ Works
               /\ run' = [run EXCEPT !.todo = @ \ {f}]
            \/ /\ ~Unchanged(f) /\ Works
               /\ run' = [run EXCEPT !.todo = @ \ {f}, !.file = f,
                                     !.pc = IF row[f].hash # None THEN "delete" ELSE "insert"]
            \/ /\ Fault("read")
               /\ run' = [run EXCEPT !.todo = @ \ {f}]
    /\ UNCHANGED <<env, copy, tables, vectorTable, torn, job, cancelled>>

LastFileDone ==
    /\ run.pc = "next" /\ ~cancelled /\ run.todo = {}
    /\ Goto("remove")
    /\ UNCHANGED <<env, copy, tables, vectorTable, torn, job, cancelled, faults, met>>

(* DeleteSymbolsAndCallEdges; a failure is logged and passed over. *)
DeleteSymbols ==
    /\ run.pc = "delete" /\ ~cancelled
    /\ \/ Works /\ symbols' = [symbols EXCEPT ![File] = {}]
       \/ Fault("store") /\ UNCHANGED symbols
    /\ torn' = torn \union {File}
    /\ Goto("purge")
    /\ UNCHANGED <<env, copy, repository, row, vectorTable, job, cancelled>>

(* DeleteEmbeddings for the file at hand, at the sidecar: it does it, or   *)
(* not, or does it and the answer is lost.                                 *)
Purge ==
    /\ vectors' = [Reconciled EXCEPT ![File] = {}]
    /\ strays' = [strays EXCEPT ![File] = {}]
    /\ UNCHANGED late

PurgeFails == Fault("purge") /\ (UNCHANGED vectorTable \/ Purge)

(* A failure is logged and passed over. *)
PurgeVectors ==
    /\ run.pc = "purge" /\ ~cancelled
    /\ (Works /\ Purge) \/ PurgeFails
    /\ Goto("insert")
    /\ UNCHANGED <<env, copy, tables, torn, job, cancelled>>

(* InsertFile: the new hash, and no model.  Without the repository's row   *)
(* every insert fails, and each file is passed over.                       *)
InsertFile ==
    /\ run.pc = "insert" /\ ~cancelled
    /\ \/ /\ recorded /\ Works
          /\ row' = [row EXCEPT ![File] = [hash |-> Content, model |-> None]]
          /\ torn' = IF row[File].hash # None THEN torn \ {File} ELSE torn
          /\ Goto("parse")
       \/ /\ IF recorded THEN Fault("store") ELSE Works
          /\ run' = SkipFile
          /\ UNCHANGED <<row, torn>>
    /\ UNCHANGED <<env, copy, repository, symbols, vectorTable, job, cancelled>>

NewItems == [k \in 1..ChunkCount[Content] |-> [file |-> File, version |-> Content, chunk |-> k]]

(* Parse, store the symbols and edges (a failed insert is passed over) and *)
(* collect the chunks; a file that does not parse is passed over.          *)
ParseFile ==
    /\ run.pc = "parse" /\ ~cancelled
    /\ \/ /\ File \notin Unsupported
          /\ \/ Works /\ symbols' = [symbols EXCEPT ![File] = @ \union {Content}]
             \/ Fault("store") /\ UNCHANGED symbols
          /\ run' = [SkipFile EXCEPT
                       !.items = @ \o NewItems,
                       !.spans = Append(@, [file  |-> File, start |-> Len(run.items),
                                            end   |-> Len(run.items) + ChunkCount[Content]])]
       \/ /\ IF File \in Unsupported THEN Works ELSE Fault("parse")
          /\ UNCHANGED symbols
          /\ run' = SkipFile
    /\ UNCHANGED <<env, copy, repository, row, vectorTable, torn, job, cancelled>>

(* DeleteFileByPath for a file the walk no longer saw. *)
RemoveFile ==
    /\ run.pc = "remove" /\ ~cancelled
    /\ \E f \in run.gone :
         /\ \/ /\ Works
               /\ row' = [row EXCEPT ![f] = NoRow]
               /\ symbols' = [symbols EXCEPT ![f] = {}]
            \/ Fault("store") /\ UNCHANGED <<row, symbols>>
         /\ torn' = torn \union {f}
         /\ run' = [run EXCEPT !.pc = "removeVectors", !.file = f, !.gone = @ \ {f}]
    /\ UNCHANGED <<env, copy, repository, vectorTable, job, cancelled>>

(* Mutant: a removed file's embeddings are left alone. *)
RemoveRowOnly ==
    /\ run.pc = "removeVectors" /\ ~cancelled /\ Works
    /\ torn' = IF row[File].hash = None THEN torn \ {File} ELSE torn
    /\ run' = [run EXCEPT !.pc = "remove", !.file = 0]
    /\ UNCHANGED <<env, copy, tables, vectorTable, job, cancelled>>

RemoveVectors ==
    /\ run.pc = "removeVectors" /\ ~cancelled
    /\ \/ Works /\ Purge /\ torn' = (IF row[File].hash = None THEN torn \ {File} ELSE torn)
       \/ PurgeFails /\ UNCHANGED torn
    /\ run' = [run EXCEPT !.pc = "remove", !.file = 0]
    /\ UNCHANGED <<env, copy, tables, job, cancelled>>

Capped(items) == IF MaxEmbedChunks > 0 /\ Len(items) > MaxEmbedChunks
                 THEN SubSeq(items, 1, MaxEmbedChunks) ELSE items

(* Every file is through: cap the chunks to embed. *)
BeginEmbedding ==
    /\ run.pc = "remove" /\ ~cancelled /\ run.gone = {}
    /\ run' = [run EXCEPT !.pc = "embed", !.items = Capped(@)]
    /\ UNCHANGED <<env, copy, tables, vectorTable, torn, job, cancelled, faults, met>>

BatchEnd == IF run.embedded + BatchSize > Len(run.items) THEN Len(run.items) ELSE run.embedded + BatchSize

Batch(f) == {[version |-> run.items[k].version, chunk |-> run.items[k].chunk, model |-> model] :
                k \in {j \in run.embedded + 1 .. BatchEnd : run.items[j].file = f}}

Sending == run.pc = "embed" /\ run.embedded < Len(run.items)

(* The call of a batch is cut off: the batch is lost, or the sidecar goes  *)
(* on with it and stores it later.                                         *)
CutOff ==
    /\ \/ UNCHANGED late
       \/ Sending /\ late' = late \union {[f \in Files |-> Batch(f)]}
    /\ UNCHANGED <<vectors, strays>>

(* One batch of embedInBatches.  The first failure ends the embedding. *)
EmbedBatch ==
    /\ Sending /\ ~cancelled
    /\ \/ /\ Works
          /\ vectors' = [f \in Files |-> Reconciled[f] \union Batch(f)]
          /\ run' = [run EXCEPT !.embedded = BatchEnd]
          /\ UNCHANGED <<late, strays>>
       \/ Fault("embed") /\ CutOff /\ Goto("mark")
    /\ UNCHANGED <<env, copy, tables, torn, job, cancelled>>

EmbeddingDone ==
    /\ run.pc = "embed" /\ ~cancelled
    /\ run.embedded = Len(run.items)
    /\ Goto("mark")
    /\ UNCHANGED <<env, copy, tables, vectorTable, torn, job, cancelled, faults, met>>

(* Mutant: a file counts once its first chunk is embedded. *)
PartlyEmbedded(spans, n) ==
    {spans[i].file : i \in {j \in 1..Len(spans) : spans[j].start < n \/ spans[j].start = spans[j].end}}

(* Mutant: files count only when the whole run was embedded. *)
AllOrNothing(spans, n) ==
    IF \A i \in 1..Len(spans) : spans[i].end <= n THEN {spans[i].file : i \in 1..Len(spans)} ELSE {}

(* Mutant: off by one, the file that ends the list is never through. *)
LastFileLeftOut(spans, n) ==
    {spans[i].file : i \in {j \in 1..Len(spans) : spans[j].end < n \/ spans[j].start = spans[j].end}}

(* fullyEmbeddedFiles over the spans recorded before the cap. *)
FullyEmbedded(spans, n) ==
    {spans[i].file : i \in {j \in 1..Len(spans) : spans[j].end <= n \/ spans[j].start = spans[j].end}}

(* Mutant: with the model the sidecar has by then. *)
MarkEmbeddedNow ==
    /\ run.pc = "mark" /\ ~cancelled
    /\ Works
    /\ row' = [f \in Files |-> IF f \in FullyEmbedded(run.spans, run.embedded)
                              THEN [row[f] EXCEPT !.model = model] ELSE row[f]]
    /\ Goto("finish")
    /\ UNCHANGED <<env, copy, repository, symbols, vectorTable, torn, job, cancelled>>

(* MarkFilesEmbedded with the model the run started with. *)
MarkEmbedded ==
    /\ run.pc = "mark" /\ ~cancelled
    /\ \/ /\ Works
          /\ row' = [f \in Files |->
                       IF run.model # None /\ f \in FullyEmbedded(run.spans, run.embedded)
                       THEN [row[f] EXCEPT !.model = run.model] ELSE row[f]]
       \/ Fault("store") /\ UNCHANGED row
    /\ Goto("finish")
    /\ UNCHANGED <<env, copy, repository, symbols, vectorTable, torn, job, cancelled>>

FinishRun ==
    /\ run.pc = "finish"
    /\ EndRun("completed")
    /\ UNCHANGED <<env, copy, tables, vectorTable, torn, faults, met>>

(* Cancelled after the walk: every remaining call fails, each failure is   *)
(* passed over, and the run ends like one that succeeded.                  *)
InterruptedLate ==
    /\ run.pc \notin {"idle", "fetch", "reset", "record", "touch", "walk", "finish"} /\ cancelled
    /\ run' = [run EXCEPT !.pc = "finish", !.todo = {}, !.file = 0, !.gone = {}]
    /\ UNCHANGED <<env, copy, tables, vectorTable, torn, job, cancelled, faults, met>>

RunStep ==
    \/ CloneSucceeds \/ RecordRepository \/ TouchRepoCheck
    \/ FetchSucceeds \/ BrokenClone \/ ResetSucceeds \/ PushedMeanwhile \/ FetchFails
    \/ WalkSucceeds \/ WalkFails \/ InterruptedEarly
    \/ NextFile \/ LastFileDone \/ DeleteSymbols \/ PurgeVectors \/ InsertFile \/ ParseFile
    \/ RemoveFile \/ RemoveVectors \/ BeginEmbedding \/ EmbedBatch \/ EmbeddingDone
    \/ MarkEmbedded \/ FinishRun \/ InterruptedLate
-----------------------------------------------------------------------------
(* The shutdown deadline passes during a run. *)
Cancel ==
    /\ run.pc # "idle" /\ ~cancelled
    /\ Fault("cancel") /\ CutOff
    /\ cancelled' = TRUE
    /\ UNCHANGED <<env, copy, tables, torn, job, run>>

(* The process dies; an ephemeral disk loses the working copy.  A crash in *)
(* mid-clone leaves a directory without .git, which the next run clears,   *)
(* or a .git of which nothing is checked out yet, sound or not.            *)
Crash ==
    /\ Fault("crash") /\ CutOff
    /\ run' = Resting /\ cancelled' = FALSE
    /\ \/ UNCHANGED copy
       \/ clone' = NoClone /\ git' = "none"
       \/ run.pc = "fetch" /\ git = "none" /\ git' \in {"sound", "broken"} /\ UNCHANGED clone
    /\ UNCHANGED <<env, tables, torn, job>>

Next == Push \/ SwitchModel \/ Search \/ LateStore \/ Submit \/ Sync \/ RunStep \/ Cancel \/ Crash

Spec == Init /\ [][Next]_vars

(* A run goes on, and somebody keeps submitting the URL or asking for a    *)
(* sync, at times when the sidecar answers.  Pushes, model changes, faults *)
(* and late batches need not happen.                                       *)
FairSpec == Spec /\ WF_vars(RunStep) /\ WF_vars(Submit) /\ WF_vars(Sync)
-----------------------------------------------------------------------------
(* A sync of this repository is answered with "up to date", when the       *)
(* sidecar can be asked or when it cannot, and no run is under way; the    *)
(* job is shown as completed, not as failed.                               *)
UpToDate(asked) == run.pc = "idle" /\ job = "completed" /\ recorded /\ ~SyncNeeded(asked)

Chunked(v) == [version : {v}, chunk : Chunks(v), model : {model}]

Wanted == Walked(remote.tree) \ Unsupported

(* Of the file's vectors that a search finds, those of other contents or   *)
(* chunks were stored by a batch that came late.                           *)
NoOtherVectors(f) == Reconciled[f] \subseteq Chunked(remote.tree[f]) \union strays[f]

(* The file has the symbols of its current content and no others, and its  *)
(* chunks, embedded with the sidecar's model, and no others.               *)
IndexedExactly(f) ==
    /\ symbols[f] = {remote.tree[f]}
    /\ Chunked(remote.tree[f]) \subseteq vectors[f] /\ NoOtherVectors(f)

(* Nothing of the file is stale: its symbols are missing only if it could  *)
(* not be parsed or the run crashed there, and then it is left to embed.   *)
NothingStale(f) ==
    /\ \/ symbols[f] = {remote.tree[f]}
       \/ symbols[f] = {} /\ row[f].model # model /\ met \intersect {"parse", "crash"} # {}
    /\ NoOtherVectors(f)

(* The failures that leave a trace a later run acts on.  Cancellation and  *)
(* failures of the store, of a read or of a deletion of vectors are logged *)
(* and passed over.                                                        *)
Traced == {"crash", "fetch", "record", "walk", "parse", "embed", "info"}

(* The file was gone from the walk's list at some time, or its row has a   *)
(* content that a push had replaced.                                       *)
CameBack(f) == None \in former[f] \/ row[f].hash \in former[f]

(* What is searched and browsed when a sync says "up to date" is the       *)
(* remote's head, whatever failed on the way and was acted on later, and   *)
(* wherever the process crashed: all of it when the sidecar could be asked *)
(* what is left to embed; when it could not, files may still be left, but  *)
(* nothing stale is shown.  Only a file that a crash left half changed and *)
(* that then came back to where an earlier run had found it is passed over *)
(* as unchanged.  The sidecar must not be back at a model it had been      *)
(* switched away from (ingestRepository, checkAndEnqueueSync).             *)
UpToDateIsIndexed ==
    met \subseteq Traced /\ model \notin left =>
        \A f \in Wanted :
            \/ "crash" \in met /\ f \in torn /\ CameBack(f)
            \/ /\ UpToDate(TRUE) => IndexedExactly(f)
               /\ UpToDate(FALSE) => NothingStale(f)

(* Nor is there anything left of the files the remote no longer has, which *)
(* ingestRepository removes after the walk, but for what a crash left half *)
(* removed and what a batch stored late.                                   *)
UpToDateForgets ==
    UpToDate(FALSE) /\ met \subseteq Traced =>
        \A f \in Files : remote.tree[f] = None =>
            \/ symbols[f] = {} /\ vectors[f] \subseteq strays[f]
            \/ "crash" \in met /\ f \in torn

(* The bookkeeping of the embedding budget is honest under every fault: a  *)
(* file recorded as embedded with the sidecar's model has every chunk of   *)
(* its content in the vector table, however batches failed, the budget cut *)
(* the list or the sidecar changed model on the way (fullyEmbeddedFiles,   *)
(* MarkFilesEmbedded).  Excepted are a sidecar back at an earlier model    *)
(* and a file left half changed that came back.                            *)
EmbeddedIsSearchable ==
    model \notin left =>
        \A f \in Files :
            row[f].hash # None /\ row[f].model = model
                => Chunked(row[f].hash) \subseteq vectors[f] \/ (f \in torn /\ CameBack(f))

(* Syncs come to an end: once the remote, the model and the faults are     *)
(* quiet, no further run spends quota on the repository, and every sync is *)
(* answered with "up to date" (what that is worth is UpToDateIsIndexed's). *)
(* Excepted is a clone that a crash broke: each run fails on it.           *)
Converges == <>[](UpToDate(TRUE) \/ git = "broken")
=============================================================================
