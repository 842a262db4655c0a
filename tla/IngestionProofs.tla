-------------------------- MODULE IngestionProofs ----------------------------
(***************************************************************************)
(* What an index may be trusted for, for any files, contents, chunk counts,*)
(* models, batch size, budget and cap on files, any number of pushes,      *)
(* model changes and faults, and faults of every kind: EmbeddedIsSearchable*)
(* unconditionally, UpToDateIsIndexed and UpToDateForgets as long as every *)
(* failure left a trace.  And how it is reached: every step of a run brings*)
(* it nearer to its end, and no run is in vain (SyncsAreFew).              *)
(***************************************************************************)
EXTENDS SyncRounds, FiniteSetTheorems, TLAPS

Early  == {"idle", "fetch", "reset", "record", "touch", "walk"}
Ending == {"embed", "mark", "finish"}
Taking == {"delete", "purge", "insert", "parse"}

InRemote(f) == Listed(remote.tree, f)
InClone(f)  == Listed(clone.tree, f)
Cloned      == clone.sha # 0
HasRow(f)   == row[f].hash # None

(* The working copy is the remote's head or an earlier one, in a sound     *)
(* .git, and the run's locals are empty until it has walked.               *)
CloneInv ==
    /\ remote.sha = pushes + 1
    /\ clone.sha <= remote.sha
    /\ clone.sha = remote.sha => clone.tree = remote.tree
    /\ run.pc \notin {"idle", "fetch", "reset"} => Cloned
    /\ Cloned \/ run.pc = "reset" => git = "sound"
    /\ run.pc # "idle" => job = "unfinished"
    /\ job = "completed" => Cloned \/ git = "none"
    /\ run.pc \in Early => /\ run.model = None /\ run.todo = {} /\ run.gone = {}
                           /\ run.items = <<>> /\ run.spans = <<>>
    /\ run.pc \notin Ending => run.embedded = 0
    /\ cancelled => "cancel" \in met

(* A model other than the sidecar's was switched away from, and a run that *)
(* started with another one finds no row of the sidecar's.                 *)
ModelInv ==
    /\ \A f \in Files : row[f].model \in left \union {model, None}
    /\ run.model \in left \union {model, None}
    /\ run.model \notin {model, None} /\ model \notin left => \A f \in Files : row[f].model # model

(* The content a row was taken from is in the working copy or was replaced *)
(* by a push; so was the one in the working copy, seen from the remote.    *)
FormerInv ==
    \A f \in Files :
        /\ HasRow(f) => row[f].hash \in former[f] \union {InRemote(f)}
        /\ Cloned =>
             /\ HasRow(f) => row[f].hash \in former[f] \union {InClone(f)}
             /\ HasRow(f) /\ InClone(f) = None => None \in former[f] \union {InRemote(f)}
             /\ InClone(f) # None => InClone(f) \in former[f] \union {InRemote(f)}

(* The file was listed and is not in the working copy, or was away before. *)
Gone(f) ==
    /\ former[f] # {}
    /\ None \in former[f] \union {InRemote(f)}
    /\ Cloned => None \in former[f] \union {InClone(f)}

(* What is half changed is due for another change, or had been replaced or *)
(* gone at some time.                                                      *)
TornInv ==
    \A f \in torn :
        \/ None \in former[f]
        \/ HasRow(f) /\ row[f].hash \in former[f]
        \/ HasRow(f) /\ row[f].model \in left \union {None}
        \/ ~HasRow(f) /\ Gone(f)

Spanned == {run.spans[i].file : i \in 1..Len(run.spans)}

(* The file whose change the run has begun and not ended. *)
AtHand == IF \/ run.pc \in {"purge", "removeVectors"}
             \/ run.pc = "insert" /\ HasRow(run.file)
          THEN {run.file} ELSE {}

(* Where the run is: what is left to do, at hand and done are different    *)
(* files, the ones to remove are not listed.                               *)
RunInv ==
    /\ run.todo \subseteq Walked(clone.tree) /\ Spanned \subseteq Walked(clone.tree)
    /\ Spanned \cap run.todo = {}
    /\ \A f \in run.gone : HasRow(f) /\ f \notin Walked(clone.tree)
    /\ run.pc \in Taking =>
         run.file \in Walked(clone.tree) /\ run.file \notin run.todo \union Spanned
    /\ run.pc = "removeVectors" => run.file \notin Walked(clone.tree) \union run.gone
    /\ run.pc \in {"delete", "purge"} => HasRow(run.file)
    /\ run.pc = "delete" => ~Unchanged(run.file)
    /\ run.pc = "parse" => row[run.file] = [hash |-> clone.tree[run.file], model |-> None]
    /\ run.pc \notin Early \union Taking \union {"next"} => run.todo = {}
    /\ run.pc \in Ending => run.gone = {}
    /\ AtHand \subseteq torn
    /\ \A f \in Spanned : f \notin torn \/ None \in former[f]
    /\ run.pc = "parse" => run.file \notin torn \/ None \in former[run.file]

(* A span holds the chunks of its file's recorded content, in order, as    *)
(* far as the cap left them.                                               *)
SpanInv ==
    /\ \A i \in 1..Len(run.spans) :
         LET s == run.spans[i]  v == row[s.file].hash IN
         /\ v # None
         /\ s.end = s.start + ChunkCount[v]
         /\ run.pc \in Taking \union {"next"} => s.end <= Len(run.items)
         /\ \A k \in 1..ChunkCount[v] : s.start + k <= Len(run.items) =>
              run.items[s.start + k] = [file |-> s.file, version |-> v, chunk |-> k]
    /\ \A k \in 1..Len(run.items) :
         LET x == run.items[k] IN
         x.file \in Spanned /\ x.version = row[x.file].hash /\ x.chunk \in 1..ChunkCount[x.version]

(* What was embedded with the run's model is in the vector table, and so   *)
(* is all of a file recorded as embedded.                                  *)
Stored(x) == [version |-> x.version, chunk |-> x.chunk, model |-> model]

SearchInv ==
    model \notin left =>
        /\ run.model = model =>
             \A k \in 1..run.embedded : Stored(run.items[k]) \in vectors[run.items[k].file]
        /\ \A f \in Files \ torn :
             HasRow(f) /\ row[f].model = model => Chunked(row[f].hash) \subseteq vectors[f]

(* Files get rows only in a repository that has its own. *)
RecordedInv == \A f \in Files : HasRow(f) => recorded

Clean == met \subseteq Traced

(* Without untraced failures, a vector that did not come late is a chunk of *)
(* its file's recorded content, *)
Own(f) == {x \in vectors[f] \ strays[f] : x.version = row[f].hash /\ x.chunk \in Chunks(x.version)}

Empty(f) == symbols[f] = {} /\ vectors[f] \subseteq strays[f]

(* and so are its symbols, which are missing where the file could not be   *)
(* parsed or a run crashed.                                                *)
Excused(f) ==
    \/ f \in Unsupported \/ met \cap {"parse", "crash"} # {}
    \/ run.pc = "parse" /\ run.file = f

SymbolsAgree(f) ==
    IF f \in torn THEN symbols[f] = {}
    ELSE \/ symbols[f] = {row[f].hash}
         \/ symbols[f] = {} /\ row[f].model = None /\ f \notin Spanned /\ Excused(f)

TablesInv ==
    Clean =>
        /\ \A f \in Files \ torn : ~HasRow(f) => Empty(f)
        /\ \A f \in Files : HasRow(f) /\ (f \notin torn \/ None \notin former[f]) =>
             SymbolsAgree(f) /\ vectors[f] \ strays[f] \subseteq Own(f)
        /\ run.pc = "purge" => symbols[run.file] = {}
        /\ run.pc = "insert" /\ (HasRow(run.file) \/ run.file \notin torn) => Empty(run.file)
        /\ run.pc = "parse" /\ run.file \notin torn => Empty(run.file)
        /\ run.pc = "removeVectors" => ~HasRow(run.file) /\ symbols[run.file] = {}

(* Without a crash either, only the file at hand is torn. *)
CrashInv == Clean /\ "crash" \notin met => torn \subseteq AtHand

(* The run goes through every file of the working copy, and a completed    *)
(* job has, when the repository is recorded; the commit is by then.        *)
Pending == IF run.pc \in {"delete", "purge", "insert"} THEN run.todo \union {run.file} ELSE run.todo

ProgressInv ==
    Clean /\ recorded =>
        /\ run.pc \notin Early \ {"walk"} => lastSha = clone.sha
        /\ run.pc \notin Early =>
             /\ \A f \in Walked(clone.tree) \ Pending : row[f].hash = clone.tree[f]
             /\ \A f \in Files \ Walked(clone.tree) : HasRow(f) => f \in run.gone
        /\ job = "completed" /\ Cloned =>
             lastSha = clone.sha /\ \A f \in Files : row[f].hash = InClone(f)

IngestInv ==
    /\ TypeOK /\ CloneInv /\ ModelInv /\ FormerInv /\ TornInv /\ RunInv /\ RecordedInv
    /\ SpanInv /\ SearchInv /\ TablesInv /\ CrashInv /\ ProgressInv
-----------------------------------------------------------------------------
(* Which steps touch which part of the state. *)

LEMMA RemoteSteps ==
  ASSUME [Next]_vars PROVE UNCHANGED <<remote, former, pushes>> \/ Push
  BY DEF Next, vars, env, copy, repository, tables, vectorTable, SwitchModel, Search,
       LateStore, Submit, Sync, BeginRun, RunStep, CloneSucceeds, RecordRepository,
       TouchRepoCheck, FetchSucceeds, BrokenClone, ResetSucceeds, PushedMeanwhile,
       FetchFails, WalkSucceeds, WalkFails, InterruptedEarly, NextFile, LastFileDone,
       DeleteSymbols, PurgeVectors, InsertFile, ParseFile, RemoveFile, RemoveVectors,
       BeginEmbedding, EmbedBatch, EmbeddingDone, MarkEmbedded, FinishRun, InterruptedLate,
       Cancel, Crash

LEMMA ModelSteps ==
  ASSUME [Next]_vars PROVE UNCHANGED <<model, left, switches>> \/ SwitchModel
  BY DEF Next, vars, env, copy, repository, tables, vectorTable, Push, Search, LateStore,
       Submit, Sync, BeginRun, RunStep, CloneSucceeds, RecordRepository, TouchRepoCheck,
       FetchSucceeds, BrokenClone, ResetSucceeds, PushedMeanwhile, FetchFails, WalkSucceeds,
       WalkFails, InterruptedEarly, NextFile, LastFileDone, DeleteSymbols, PurgeVectors,
       InsertFile, ParseFile, RemoveFile, RemoveVectors, BeginEmbedding, EmbedBatch,
       EmbeddingDone, MarkEmbedded, FinishRun, InterruptedLate, Cancel, Crash

LEMMA CloneSteps ==
  ASSUME [Next]_vars
  PROVE  UNCHANGED copy \/ CloneSucceeds \/ ResetSucceeds \/ Crash \/ (Submit /\ clone' = NoClone /\ git' = "none" /\ ~recorded)
  BY DEF Next, vars, env, copy, repository, tables, vectorTable, Push, SwitchModel, Search,
       LateStore, Submit, Sync, BeginRun, RunStep, RecordRepository, TouchRepoCheck,
       FetchSucceeds, BrokenClone, PushedMeanwhile, FetchFails, WalkSucceeds, WalkFails,
       InterruptedEarly, NextFile, LastFileDone, DeleteSymbols, PurgeVectors, InsertFile,
       ParseFile, RemoveFile, RemoveVectors, BeginEmbedding, EmbedBatch, EmbeddingDone,
       MarkEmbedded, FinishRun, InterruptedLate, Cancel

LEMMA RecordedSteps ==
  ASSUME [Next]_vars PROVE UNCHANGED recorded \/ (RecordRepository /\ recorded')
  BY DEF Next, vars, env, copy, repository, tables, vectorTable, Push, SwitchModel, Search,
       LateStore, Submit, Sync, BeginRun, RunStep, TouchRepoCheck, CloneSucceeds, RecordRepository,
       FetchSucceeds, BrokenClone, ResetSucceeds, PushedMeanwhile, FetchFails, WalkSucceeds,
       WalkFails, InterruptedEarly, NextFile, LastFileDone, DeleteSymbols, PurgeVectors,
       InsertFile, ParseFile, RemoveFile, RemoveVectors, BeginEmbedding, EmbedBatch,
       EmbeddingDone, MarkEmbedded, FinishRun, InterruptedLate, Cancel, Crash

LEMMA TouchSteps ==
  ASSUME [Next]_vars PROVE UNCHANGED lastSha \/ TouchRepoCheck
  BY DEF Next, vars, env, copy, repository, tables, vectorTable, Push, SwitchModel, Search,
       LateStore, Submit, Sync, BeginRun, RunStep, CloneSucceeds, RecordRepository,
       FetchSucceeds, BrokenClone, ResetSucceeds, PushedMeanwhile, FetchFails, WalkSucceeds,
       WalkFails, InterruptedEarly, NextFile, LastFileDone, DeleteSymbols, PurgeVectors,
       InsertFile, ParseFile, RemoveFile, RemoveVectors, BeginEmbedding, EmbedBatch,
       EmbeddingDone, MarkEmbedded, FinishRun, InterruptedLate, Cancel, Crash

LEMMA RowSteps ==
  ASSUME [Next]_vars PROVE UNCHANGED row \/ InsertFile \/ RemoveFile \/ MarkEmbedded
  BY DEF Next, vars, env, copy, repository, tables, vectorTable, Push, SwitchModel, Search,
       LateStore, Submit, Sync, BeginRun, RunStep, CloneSucceeds, RecordRepository,
       TouchRepoCheck, FetchSucceeds, BrokenClone, ResetSucceeds, PushedMeanwhile,
       FetchFails, WalkSucceeds, WalkFails, InterruptedEarly, NextFile, LastFileDone,
       DeleteSymbols, PurgeVectors, ParseFile, RemoveVectors, BeginEmbedding, EmbedBatch,
       EmbeddingDone, FinishRun, InterruptedLate, Cancel, Crash

LEMMA SymbolSteps ==
  ASSUME [Next]_vars PROVE UNCHANGED symbols \/ DeleteSymbols \/ ParseFile \/ RemoveFile
  BY DEF Next, vars, env, copy, repository, tables, vectorTable, Push, SwitchModel, Search,
       LateStore, Submit, Sync, BeginRun, RunStep, CloneSucceeds, RecordRepository,
       TouchRepoCheck, FetchSucceeds, BrokenClone, ResetSucceeds, PushedMeanwhile,
       FetchFails, WalkSucceeds, WalkFails, InterruptedEarly, NextFile, LastFileDone,
       PurgeVectors, InsertFile, RemoveVectors, BeginEmbedding, EmbedBatch, EmbeddingDone,
       MarkEmbedded, FinishRun, InterruptedLate, Cancel, Crash

LEMMA VectorSteps ==
  ASSUME [Next]_vars
  PROVE  \/ UNCHANGED <<vectors, strays>>
         \/ Search \/ LateStore \/ PurgeVectors \/ RemoveVectors \/ EmbedBatch
  BY DEF Next, vars, env, copy, repository, tables, vectorTable, Push, SwitchModel, Submit,
       Sync, BeginRun, RunStep, CloneSucceeds, RecordRepository, TouchRepoCheck,
       FetchSucceeds, BrokenClone, ResetSucceeds, PushedMeanwhile, FetchFails, WalkSucceeds,
       WalkFails, InterruptedEarly, NextFile, LastFileDone, DeleteSymbols, InsertFile,
       ParseFile, RemoveFile, BeginEmbedding, EmbeddingDone, MarkEmbedded, FinishRun,
       InterruptedLate, Cancel, Crash, CutOff

LEMMA LateSteps ==
  ASSUME [Next]_vars
  PROVE  \/ UNCHANGED late
         \/ late' = {} \/ late' \subseteq late
         \/ late' = late \union {[f \in Files |-> Batch(f)]}
  BY DEF Next, vars, env, copy, repository, tables, vectorTable, Push, SwitchModel, Search,
       LateStore, Submit, Sync, BeginRun, RunStep, CloneSucceeds, RecordRepository,
       TouchRepoCheck, FetchSucceeds, BrokenClone, ResetSucceeds, PushedMeanwhile,
       FetchFails, WalkSucceeds, WalkFails, InterruptedEarly, NextFile, LastFileDone,
       DeleteSymbols, PurgeVectors, InsertFile, ParseFile, RemoveFile, RemoveVectors,
       BeginEmbedding, EmbedBatch, EmbeddingDone, MarkEmbedded, FinishRun, InterruptedLate,
       Cancel, Crash, CutOff, Purge, PurgeFails

LEMMA TornSteps ==
  ASSUME [Next]_vars
  PROVE  UNCHANGED torn \/ DeleteSymbols \/ InsertFile \/ RemoveFile \/ RemoveVectors
  BY DEF Next, vars, env, copy, repository, tables, vectorTable, Push, SwitchModel, Search,
       LateStore, Submit, Sync, BeginRun, RunStep, CloneSucceeds, RecordRepository,
       TouchRepoCheck, FetchSucceeds, BrokenClone, ResetSucceeds, PushedMeanwhile,
       FetchFails, WalkSucceeds, WalkFails, InterruptedEarly, NextFile, LastFileDone,
       PurgeVectors, ParseFile, BeginEmbedding, EmbedBatch, EmbeddingDone, MarkEmbedded,
       FinishRun, InterruptedLate, Cancel, Crash

(* The repository gets its row, or the run ends. *)
RecordSucceeds ==
    /\ run.pc = "record" /\ ~cancelled /\ Works /\ recorded' = TRUE /\ Goto("touch")
    /\ UNCHANGED <<job, cancelled, env, copy, lastSha, row, symbols, vectorTable, torn>>

RecordFails ==
    /\ run.pc = "record" /\ Fault("record") /\ EndRun("failed")
    /\ UNCHANGED <<env, copy, tables, vectorTable, torn>>

LEMMA RecordSteps == ASSUME RecordRepository PROVE RecordSucceeds \/ RecordFails
  BY DEF RecordRepository, RecordSucceeds, RecordFails, tables, repository

(* The run comes nearer to the walk. *)
Approach == CloneSucceeds \/ RecordSucceeds \/ TouchRepoCheck \/ FetchSucceeds \/ ResetSucceeds

(* A run ends, or begins, with its locals empty. *)
RunReset ==
    \/ Submit \/ Sync \/ Crash \/ PushedMeanwhile \/ FetchFails \/ BrokenClone \/ RecordFails \/ WalkFails
    \/ InterruptedEarly \/ FinishRun

LEMMA RunSteps ==
  ASSUME [Next]_vars
  PROVE  \/ UNCHANGED run
         \/ RunReset
         \/ Approach \/ WalkSucceeds \/ NextFile
         \/ LastFileDone \/ DeleteSymbols \/ PurgeVectors \/ InsertFile \/ ParseFile
         \/ RemoveFile \/ RemoveVectors \/ BeginEmbedding \/ EmbedBatch \/ EmbeddingDone
         \/ MarkEmbedded \/ InterruptedLate
  BY RecordSteps DEF Next, vars, Push, SwitchModel, Search, LateStore, RunStep, RunReset, Approach, Cancel

(* Faults are only added, one by one and of the kinds that occur. *)
LEMMA FaultSteps ==
  ASSUME [Next]_vars
  PROVE  Works \/ \E k \in Faults : Fault(k)
  <1>1. ASSUME NEW k, Fault(k) PROVE k \in Faults
    BY <1>1 DEF Fault
  <1> QED
    BY <1>1
       DEF Next, vars, env, copy, repository, tables, vectorTable, Push, SwitchModel,
           Search, LateStore, Submit, Sync, BeginRun, RunStep, CloneSucceeds,
           RecordRepository, TouchRepoCheck, FetchSucceeds, BrokenClone, ResetSucceeds,
           PushedMeanwhile, FetchFails, WalkSucceeds, WalkFails, InterruptedEarly, NextFile,
           LastFileDone, DeleteSymbols, PurgeVectors, InsertFile, ParseFile, RemoveFile,
           RemoveVectors, BeginEmbedding, EmbedBatch, EmbeddingDone, MarkEmbedded,
           FinishRun, InterruptedLate, Cancel, Crash, Works, PurgeFails

LEMMA FaultsGrow ==
  ASSUME TypeOK, [Next]_vars
  PROVE  /\ met \subseteq met' /\ met' \subseteq Faults
         /\ faults' \in 0..MaxFaults
  BY FaultSteps, IngestionAssumption DEF TypeOK, Fault, Works
-----------------------------------------------------------------------------
(* Types. *)

LEMMA WalkedFiles ==
  ASSUME NEW t, NEW f \in Walked(t)
  PROVE  f \in Files /\ t[f] # None /\ Listed(t, f) = t[f]
  BY DEF Walked, Listed

LEMMA ListedTypes ==
  ASSUME NEW t \in Trees, NEW f \in Files
  PROVE  Listed(t, f) \in Versions \union {None}
  BY DEF Trees, Walked, Listed

LEMMA ChunkCounts == ASSUME NEW v \in Versions PROVE ChunkCount[v] \in Nat
  BY IngestionAssumption

(* The file at hand has a content. *)
LEMMA AtHandTypes ==
  ASSUME TypeOK, RunInv, run.pc \in Taking
  PROVE  /\ File \in Files /\ File = run.file /\ File \in Walked(clone.tree)
         /\ Content \in Versions /\ ChunkCount[Content] \in Nat
  <1>1. File \in Walked(clone.tree) /\ File = run.file
    BY DEF RunInv, File
  <1>2. File \in Files /\ Content # None
    BY <1>1, WalkedFiles DEF Content
  <1> QED
    BY <1>1, <1>2, ChunkCounts DEF TypeOK, Trees, Content

LEMMA NewItemsTypes ==
  ASSUME TypeOK, RunInv, run.pc \in Taking
  PROVE  /\ NewItems \in Seq(Item) /\ Len(NewItems) = ChunkCount[Content]
         /\ run.items \o NewItems \in Seq(Item)
         /\ Len(run.items \o NewItems) = Len(run.items) + ChunkCount[Content]
         /\ \A k \in 1..Len(run.items) : (run.items \o NewItems)[k] = run.items[k]
         /\ \A k \in 1..ChunkCount[Content] :
              (run.items \o NewItems)[Len(run.items) + k] = [file |-> File, version |-> Content, chunk |-> k]
  <1>1. File \in Files /\ Content \in Versions /\ ChunkCount[Content] \in Nat
    BY AtHandTypes
  <1>2. NewItems \in [1..ChunkCount[Content] -> Item]
    BY <1>1 DEF NewItems, Item
  <1>3. NewItems \in Seq(Item) /\ Len(NewItems) = ChunkCount[Content]
    BY <1>1, <1>2
  <1>4. run.items \in Seq(Item) /\ Len(run.items) \in Nat
    BY DEF TypeOK
  <1>5. /\ run.items \o NewItems \in Seq(Item)
        /\ Len(run.items \o NewItems) = Len(run.items) + ChunkCount[Content]
        /\ \A k \in 1..Len(run.items) : (run.items \o NewItems)[k] = run.items[k]
        /\ \A k \in 1..ChunkCount[Content] : (run.items \o NewItems)[Len(run.items) + k] = NewItems[k]
    BY <1>1, <1>3, <1>4
  <1> QED
    BY <1>1, <1>3, <1>5 DEF NewItems

RunsOf(n) == [pc : RunPCs, fetched : 0..n, model : Models \union {None},
              todo : SUBSET Files, file : 0..FileCount, gone : SUBSET Files,
              items : Seq(Item), spans : Seq(Span), embedded : Nat]

LEMMA EnvTypeStep ==
  ASSUME TypeOK, CloneInv, [Next]_vars
  PROVE  /\ remote' \in [sha : 1..(MaxPushes + 1), tree : Trees]
         /\ clone' \in [sha : 0..(MaxPushes + 1), tree : Trees]
         /\ git' \in {"none", "sound", "broken"} /\ recorded' \in BOOLEAN
         /\ model' \in Models /\ pushes' \in 0..MaxPushes /\ switches' \in 0..MaxSwitches
         /\ left' \in SUBSET Models /\ former' \in [Files -> SUBSET (Versions \union {None})]
         /\ remote'.sha = pushes' + 1 /\ remote.sha <= remote'.sha
  <1>1. /\ remote' \in [sha : 1..(MaxPushes + 1), tree : Trees] /\ pushes' \in 0..MaxPushes
        /\ former' \in [Files -> SUBSET (Versions \union {None})]
        /\ remote'.sha = pushes' + 1 /\ remote.sha <= remote'.sha
    <2>1. CASE UNCHANGED <<remote, former, pushes>>
      BY <2>1 DEF TypeOK, CloneInv
    <2>2. CASE Push
      <3>1. ASSUME NEW f \in Files, NEW t \in Trees PROVE Replaced(f, t) \subseteq Versions \union {None}
        BY ListedTypes DEF Replaced, TypeOK
      <3>2. PICK t \in Trees : /\ remote' = [sha |-> remote.sha + 1, tree |-> t]
                               /\ former' = [f \in Files |-> former[f] \union Replaced(f, t)]
        BY <2>2 DEF Push
      <3>3. pushes \in Nat /\ pushes < MaxPushes /\ pushes' = pushes + 1 /\ MaxPushes \in Nat
        BY <2>2, IngestionAssumption DEF Push, TypeOK
      <3>4. former' \in [Files -> SUBSET (Versions \union {None})]
        BY <3>1, <3>2 DEF TypeOK
      <3>5. remote.sha = pushes + 1
        BY DEF CloneInv
      <3> QED
        BY <3>2, <3>3, <3>4, <3>5
    <2> QED
      BY <2>1, <2>2, RemoteSteps
  <1>2. clone' \in [sha : 0..(MaxPushes + 1), tree : Trees]
    <2>1. NoTree \in Trees
      BY DEF NoTree, Trees
    <2>2. 0 \in 0..(MaxPushes + 1) /\ 1..(MaxPushes + 1) \subseteq 0..(MaxPushes + 1)
      BY IngestionAssumption
    <2>3. clone' = clone \/ clone' = remote \/ clone' = [sha |-> 0, tree |-> NoTree]
      BY CloneSteps DEF CloneSucceeds, ResetSucceeds, Crash, copy, NoClone
    <2>4. /\ clone \in [sha : 0..(MaxPushes + 1), tree : Trees]
          /\ remote \in [sha : 1..(MaxPushes + 1), tree : Trees]
      BY DEF TypeOK
    <2> QED
      BY <2>1, <2>2, <2>3, <2>4
  <1>3. model' \in Models /\ switches' \in 0..MaxSwitches /\ left' \in SUBSET Models
    BY ModelSteps, IngestionAssumption DEF TypeOK, SwitchModel
  <1>4. git' \in {"none", "sound", "broken"}
    BY CloneSteps DEF TypeOK, CloneSucceeds, ResetSucceeds, Crash, copy
  <1>5. recorded' \in BOOLEAN
    BY RecordedSteps DEF TypeOK, RecordRepository
  <1> QED
    BY <1>1, <1>2, <1>3, <1>4, <1>5

LEMMA ReconciledTypes ==
  ASSUME TypeOK
  PROVE  /\ Reconciled \in [Files -> SUBSET Vector]
         /\ \A f \in Files : Reconciled[f] = {x \in vectors[f] : x.model = model}
  BY DEF TypeOK, Reconciled

LEMMA BatchEnds ==
  ASSUME TypeOK
  PROVE  /\ BatchEnd \in Nat /\ BatchEnd <= Len(run.items) /\ run.embedded <= BatchEnd
  BY IngestionAssumption DEF TypeOK, BatchEnd

LEMMA BatchTypes ==
  ASSUME TypeOK, NEW f \in Files
  PROVE  Batch(f) \subseteq Vector
  <1> SUFFICES ASSUME NEW k \in 1..Len(run.items)
               PROVE  [version |-> run.items[k].version, chunk |-> run.items[k].chunk, model |-> model] \in Vector
    BY BatchEnds DEF Batch, TypeOK
  <1>1. run.items[k] \in Item
    BY DEF TypeOK
  <1> QED
    BY <1>1 DEF Item, Vector, TypeOK

LEMMA TableTypeStep ==
  ASSUME TypeOK, CloneInv, RunInv, [Next]_vars
  PROVE  /\ lastSha' \in 0..(MaxPushes + 1)
         /\ row' \in [Files -> [hash : Versions \union {None}, model : Models \union {None}]]
         /\ symbols' \in [Files -> SUBSET Versions]
         /\ vectors' \in [Files -> SUBSET Vector] /\ strays' \in [Files -> SUBSET Vector]
         /\ late' \subseteq [Files -> SUBSET Vector]
         /\ torn' \in SUBSET Files
  <1>1. lastSha' \in 0..(MaxPushes + 1)
    <2>1. lastSha' = lastSha \/ lastSha' = clone.sha
      BY TouchSteps DEF TouchRepoCheck
    <2> QED
      BY <2>1 DEF TypeOK
  <1>2. row' \in [Files -> [hash : Versions \union {None}, model : Models \union {None}]]
    <2>1. CASE InsertFile
      <3>1. Content \in Versions
        BY <2>1, AtHandTypes DEF InsertFile, Taking
      <3> QED
        BY <2>1, <3>1 DEF InsertFile, TypeOK
    <2>2. CASE RemoveFile
      <3>1. NoRow \in [hash : Versions \union {None}, model : Models \union {None}]
        BY DEF NoRow
      <3>2. PICK f \in run.gone : row' = [row EXCEPT ![f] = NoRow] \/ UNCHANGED row
        BY <2>2 DEF RemoveFile
      <3>3. row \in [Files -> [hash : Versions \union {None}, model : Models \union {None}]]
        BY DEF TypeOK
      <3> QED
        BY <3>1, <3>2, <3>3
    <2>3. CASE MarkEmbedded
      <3> SUFFICES ASSUME row' # row
                   PROVE  row' \in [Files -> [hash : Versions \union {None}, model : Models \union {None}]]
        BY DEF TypeOK
      <3>1. row' = [f \in Files |->
                       IF run.model # None /\ f \in FullyEmbedded(run.spans, run.embedded)
                       THEN [row[f] EXCEPT !.model = run.model] ELSE row[f]]
        BY <2>3 DEF MarkEmbedded
      <3>2. run.model \in Models \union {None}
        BY DEF TypeOK
      <3>3. ASSUME NEW f \in Files
            PROVE  /\ row[f] \in [hash : Versions \union {None}, model : Models \union {None}]
                   /\ [row[f] EXCEPT !.model = run.model] \in [hash : Versions \union {None}, model : Models \union {None}]
        BY <3>2 DEF TypeOK
      <3> QED
        BY <3>1, <3>3
    <2> QED
      BY <2>1, <2>2, <2>3, RowSteps DEF TypeOK
  <1>3. symbols' \in [Files -> SUBSET Versions]
    <2>1. CASE DeleteSymbols
      BY <2>1 DEF DeleteSymbols, TypeOK
    <2>2. CASE ParseFile
      <3>1. Content \in Versions
        BY <2>2, AtHandTypes DEF ParseFile, Taking
      <3> QED
        BY <2>2, <3>1 DEF ParseFile, TypeOK
    <2>3. CASE RemoveFile
      BY <2>3 DEF RemoveFile, TypeOK
    <2> QED
      BY <2>1, <2>2, <2>3, SymbolSteps DEF TypeOK
  <1>4. vectors' \in [Files -> SUBSET Vector] /\ strays' \in [Files -> SUBSET Vector]
    <2>1. vectors \in [Files -> SUBSET Vector] /\ strays \in [Files -> SUBSET Vector]
      BY DEF TypeOK
    <2>2. CASE Search
      BY <2>1, <2>2, ReconciledTypes DEF Search
    <2>3. CASE PurgeVectors \/ RemoveVectors
      BY <2>1, <2>3, ReconciledTypes DEF PurgeVectors, RemoveVectors, Purge, PurgeFails, vectorTable
    <2>4. CASE EmbedBatch
      <3>1. /\ strays' = strays
            /\ vectors' = vectors \/ vectors' = [f \in Files |-> Reconciled[f] \union Batch(f)]
        BY <2>4 DEF EmbedBatch, CutOff
      <3> QED
        BY <2>1, <3>1, ReconciledTypes, BatchTypes
    <2>5. CASE LateStore
      <3>1. PICK batch \in late :
               /\ vectors' = [f \in Files |-> Reconciled[f] \union batch[f]]
               /\ strays' = [f \in Files |-> strays[f] \union batch[f]]
        BY <2>5 DEF LateStore
      <3>2. batch \in [Files -> SUBSET Vector]
        BY DEF TypeOK
      <3> QED
        BY <2>1, <3>1, <3>2, ReconciledTypes
    <2> QED
      BY <2>1, <2>2, <2>3, <2>4, <2>5, VectorSteps
  <1>6. late' \subseteq [Files -> SUBSET Vector]
    <2>1. [f \in Files |-> Batch(f)] \in [Files -> SUBSET Vector]
      BY BatchTypes
    <2> QED
      BY <2>1, LateSteps DEF TypeOK
  <1>5. torn' \in SUBSET Files
    <2>1. CASE DeleteSymbols
      BY <2>1, AtHandTypes DEF DeleteSymbols, TypeOK, Taking
    <2>2. CASE InsertFile \/ RemoveVectors
      BY <2>2 DEF InsertFile, RemoveVectors, TypeOK
    <2>3. CASE RemoveFile
      BY <2>3 DEF RemoveFile, TypeOK
    <2> QED
      BY <2>1, <2>2, <2>3, TornSteps DEF TypeOK
  <1> QED
    BY <1>1, <1>2, <1>3, <1>4, <1>5, <1>6

LEMMA RunTypeStep ==
  ASSUME TypeOK, CloneInv, RunInv, [Next]_vars
  PROVE  /\ run' \in RunsOf(remote'.sha)
         /\ run'.embedded <= Len(run'.items)
         /\ run'.file = 0 <=> run'.pc \notin AtFile
  <1>0. /\ run \in RunsOf(remote.sha) /\ run.embedded <= Len(run.items)
        /\ run.file = 0 <=> run.pc \notin AtFile
    BY DEF TypeOK, RunsOf
  <1>1. 0..remote.sha \subseteq 0..remote'.sha /\ remote'.sha \in Nat /\ remote.sha \in Nat
    <2>1. remote'.sha \in 1..(MaxPushes + 1) /\ remote.sha \in 1..(MaxPushes + 1) /\ remote.sha <= remote'.sha
      BY EnvTypeStep DEF TypeOK
    <2> QED
      BY <2>1, IngestionAssumption
  <1>a. /\ 0 \in 0..FileCount /\ Files \subseteq 0..FileCount /\ 0 \notin Files
        /\ 0 \in 0..remote.sha /\ remote.sha \in 0..remote.sha
    BY <1>1, IngestionAssumption DEF Files
  <1>b. RunPCs = {"idle", "fetch", "reset", "record", "touch", "walk", "next", "delete", "purge", "insert", "parse",
                  "remove", "removeVectors", "embed", "mark", "finish"}
    BY DEF RunPCs
  <1>c. /\ run.todo \in SUBSET Files /\ run.gone \in SUBSET Files /\ run.items \in Seq(Item)
        /\ run.spans \in Seq(Span) /\ run.embedded \in Nat /\ run.file \in 0..FileCount
        /\ run.pc \in RunPCs /\ Len(run.items) \in Nat /\ run.model \in Models \union {None}
    BY <1>0 DEF RunsOf
  <1> DEFINE Fits(r) == /\ r \in RunsOf(remote.sha) /\ r.embedded <= Len(r.items)
                        /\ r.file = 0 <=> r.pc \notin AtFile
  <1>2. ASSUME Fits(run') PROVE /\ run' \in RunsOf(remote'.sha)
                                /\ run'.embedded <= Len(run'.items)
                                /\ run'.file = 0 <=> run'.pc \notin AtFile
    BY <1>2, <1>1 DEF RunsOf
  <1>3. CASE UNCHANGED run
    BY <1>0, <1>2, <1>3
  <1>4. CASE RunReset
    <2>1. run' = Resting \/ run' = [Resting EXCEPT !.pc = "fetch"]
      BY <1>4 DEF RunReset, Submit, Sync, BeginRun, Crash, PushedMeanwhile, FetchFails, BrokenClone, RecordFails,
                  WalkFails, InterruptedEarly, FinishRun, EndRun
    <2>2. Resting \in RunsOf(remote.sha) /\ Resting.embedded = 0 /\ Resting.file = 0 /\ Resting.items = <<>>
      BY <1>a, <1>b DEF RunsOf, Resting
    <2>3. run' \in RunsOf(remote.sha)
      BY <2>1, <2>2, <1>a, <1>b DEF RunsOf
    <2>4. run'.embedded = 0 /\ run'.items = <<>> /\ run'.file = 0 /\ run'.pc \in {"idle", "fetch"}
      BY <2>1 DEF Resting
    <2>5. Fits(run')
      BY <2>3, <2>4 DEF AtFile
    <2> QED
      BY <2>5, <1>2
  <1>5. CASE CloneSucceeds \/ RecordSucceeds \/ TouchRepoCheck \/ LastFileDone \/ DeleteSymbols \/ PurgeVectors \/ EmbeddingDone \/ MarkEmbedded
    <2>1. PICK p \in RunPCs : /\ run' = [run EXCEPT !.pc = p]
                              /\ p \in AtFile <=> run.pc \in AtFile
      BY <1>5, <1>b DEF CloneSucceeds, RecordSucceeds, TouchRepoCheck, LastFileDone, DeleteSymbols, PurgeVectors, EmbeddingDone,
                        MarkEmbedded, Goto, AtFile
    <2>2. run' \in RunsOf(remote.sha)
      BY <2>1, <1>0, <1>a, <1>b, <1>c DEF RunsOf
    <2>3. run'.embedded = run.embedded /\ run'.items = run.items /\ run'.file = run.file /\ run'.pc = p
      BY <2>1, <1>0 DEF RunsOf
    <2>4. Fits(run')
      BY <2>1, <2>2, <2>3, <1>0
    <2> QED
      BY <2>4, <1>2
  <1>6. CASE FetchSucceeds \/ ResetSucceeds
    <2>1. PICK p \in {"reset", "touch"}, q \in 0..remote.sha : run' = [run EXCEPT !.pc = p, !.fetched = q]
      BY <1>6, <1>a DEF FetchSucceeds, ResetSucceeds
    <2>2. run' \in RunsOf(remote.sha)
      BY <2>1, <1>0, <1>a, <1>b, <1>c DEF RunsOf
    <2>3. run'.embedded = run.embedded /\ run'.items = run.items /\ run'.file = run.file /\ run'.pc = p
      BY <2>1, <1>0 DEF RunsOf
    <2>4. run.pc \in {"fetch", "reset"}
      BY <1>6 DEF FetchSucceeds, ResetSucceeds
    <2>5. Fits(run')
      BY <2>1, <2>2, <2>3, <2>4, <1>0 DEF AtFile
    <2> QED
      BY <2>5, <1>2
  <1>7. CASE WalkSucceeds
    <2>1. PICK m \in {model, None} :
             run' = [run EXCEPT !.pc = "next", !.model = m, !.todo = Walked(clone.tree),
                                !.gone = {f \in Files : row[f].hash # None} \ Walked(clone.tree)]
      BY <1>7 DEF WalkSucceeds
    <2>2. /\ Walked(clone.tree) \in SUBSET Files /\ m \in Models \union {None}
          /\ {f \in Files : row[f].hash # None} \ Walked(clone.tree) \in SUBSET Files
      BY WalkedFiles DEF TypeOK
    <2>3. run' \in RunsOf(remote.sha)
      BY <2>1, <2>2, <1>0, <1>a, <1>b, <1>c DEF RunsOf
    <2>4. run'.embedded = run.embedded /\ run'.items = run.items /\ run'.file = run.file
          /\ run'.pc = "next" /\ run.pc = "walk"
      BY <2>1, <1>0, <1>7 DEF RunsOf, WalkSucceeds
    <2>5. Fits(run')
      BY <2>3, <2>4, <1>0 DEF AtFile
    <2> QED
      BY <2>5, <1>2
  <1>8. CASE NextFile
    <2>1. PICK f \in run.todo :
             \/ run' = [run EXCEPT !.todo = run.todo \ {f}]
             \/ run' = [run EXCEPT !.todo = run.todo \ {f}, !.file = f,
                                   !.pc = IF row[f].hash # None THEN "delete" ELSE "insert"]
      BY <1>8 DEF NextFile
    <2>2. f \in 0..FileCount /\ f # 0 /\ run.todo \ {f} \in SUBSET Files /\ run.pc = "next"
      BY <1>8, <1>a, <1>c DEF NextFile
    <2>3. CASE run' = [run EXCEPT !.todo = run.todo \ {f}]
      <3>1. run' \in RunsOf(remote.sha)
        BY <2>2, <2>3, <1>0, <1>a, <1>b, <1>c DEF RunsOf
      <3>2. run'.embedded = run.embedded /\ run'.items = run.items /\ run'.file = run.file /\ run'.pc = run.pc
        BY <2>3, <1>0 DEF RunsOf
      <3> QED
        BY <3>1, <3>2, <1>0, <1>2
    <2>4. ASSUME NEW p \in {"delete", "insert"},
                 run' = [run EXCEPT !.todo = run.todo \ {f}, !.file = f, !.pc = p]
          PROVE  Fits(run')
      <3>1. run' \in RunsOf(remote.sha)
        BY <2>2, <2>4, <1>0, <1>a, <1>b, <1>c DEF RunsOf
      <3>2. run'.embedded = run.embedded /\ run'.items = run.items /\ run'.file = f /\ run'.pc = p
        BY <2>4, <1>0 DEF RunsOf
      <3> QED
        BY <2>2, <2>4, <3>1, <3>2, <1>0 DEF AtFile
    <2> QED
      BY <2>1, <2>3, <2>4, <1>2
  <1>9. CASE run' = SkipFile
    <2>1. run' \in RunsOf(remote.sha)
      BY <1>9, <1>0, <1>a, <1>b, <1>c DEF SkipFile, RunsOf
    <2>2. run'.embedded = run.embedded /\ run'.items = run.items /\ run'.file = 0 /\ run'.pc = "next"
      BY <1>9, <1>0 DEF RunsOf, SkipFile
    <2> QED
      BY <2>1, <2>2, <1>0, <1>2 DEF AtFile
  <1>10. CASE InsertFile
    <2>1. CASE run' = [run EXCEPT !.pc = "parse"]
      <3>1. run' \in RunsOf(remote.sha)
        BY <2>1, <1>0, <1>a, <1>b, <1>c DEF RunsOf
      <3>2. run'.embedded = run.embedded /\ run'.items = run.items /\ run'.file = run.file /\ run'.pc = "parse"
        BY <2>1, <1>0 DEF RunsOf
      <3> QED
        BY <3>1, <3>2, <1>0, <1>2, <1>10 DEF AtFile, InsertFile
    <2> QED
      BY <2>1, <1>9, <1>10 DEF InsertFile, Goto
  <1>11. CASE ParseFile
    <2>1. /\ run.items \o NewItems \in Seq(Item)
          /\ Len(run.items \o NewItems) = Len(run.items) + ChunkCount[Content]
          /\ ChunkCount[Content] \in Nat /\ File \in Files
      BY <1>11, NewItemsTypes, AtHandTypes DEF ParseFile, Taking
    <2> DEFINE s == [file |-> File, start |-> Len(run.items), end |-> Len(run.items) + ChunkCount[Content]]
    <2>2. Append(run.spans, s) \in Seq(Span)
      BY <2>1, <1>c DEF Span
    <2>3. CASE run' = [[run EXCEPT !.pc = "next", !.file = 0] EXCEPT
                         !.items = run.items \o NewItems, !.spans = Append(run.spans, s)]
      <3>1. run' \in RunsOf(remote.sha)
        BY <2>1, <2>2, <2>3, <1>0, <1>a, <1>b, <1>c DEF RunsOf
      <3>2. run'.embedded = run.embedded /\ run'.items = run.items \o NewItems /\ run'.file = 0 /\ run'.pc = "next"
        BY <2>3, <1>0 DEF RunsOf
      <3> QED
        BY <2>1, <3>1, <3>2, <1>0, <1>2, <1>c DEF AtFile
    <2>4. SkipFile.items = run.items /\ SkipFile.spans = run.spans
      BY <1>0 DEF SkipFile, RunsOf
    <2>5. \/ run' = SkipFile
          \/ run' = [SkipFile EXCEPT !.items = @ \o NewItems, !.spans = Append(@, s)]
      BY <1>11 DEF ParseFile
    <2> QED
      BY <2>3, <2>4, <2>5, <1>9 DEF SkipFile
  <1>12. CASE RemoveFile
    <2>1. PICK f \in run.gone : run' = [run EXCEPT !.pc = "removeVectors", !.file = f, !.gone = run.gone \ {f}]
      BY <1>12 DEF RemoveFile
    <2>2. f \in 0..FileCount /\ f # 0 /\ run.gone \ {f} \in SUBSET Files
      BY <1>a, <1>c
    <2>3. run' \in RunsOf(remote.sha)
      BY <2>1, <2>2, <1>0, <1>a, <1>b, <1>c DEF RunsOf
    <2>4. run'.embedded = run.embedded /\ run'.items = run.items /\ run'.file = f /\ run'.pc = "removeVectors"
      BY <2>1, <1>0 DEF RunsOf
    <2> QED
      BY <2>2, <2>3, <2>4, <1>0, <1>2 DEF AtFile
  <1>13. CASE RemoveVectors \/ InterruptedLate
    <2>1. \/ run' = [run EXCEPT !.pc = "remove", !.file = 0]
          \/ run' = [run EXCEPT !.pc = "finish", !.todo = {}, !.file = 0, !.gone = {}]
      BY <1>13 DEF RemoveVectors, InterruptedLate
    <2>2. run' \in RunsOf(remote.sha)
      <3>1. "remove" \in RunPCs /\ "finish" \in RunPCs /\ {} \in SUBSET Files
        BY <1>b
      <3>2. 0 \in 0..FileCount
        BY <1>a
      <3> QED
        BY <2>1, <3>1, <3>2, <1>0 DEF RunsOf
    <2>3. /\ run'.embedded = run.embedded /\ run'.items = run.items /\ run'.file = 0
          /\ run'.pc \in {"remove", "finish"}
      BY <2>1, <1>0 DEF RunsOf
    <2> QED
      BY <2>2, <2>3, <1>0, <1>2 DEF AtFile
  <1>14. CASE BeginEmbedding
    <2>1. run.pc = "remove" /\ run.embedded = 0
      BY <1>14 DEF BeginEmbedding, CloneInv, Ending
    <2>2. Capped(run.items) \in Seq(Item) /\ Len(Capped(run.items)) \in Nat
      BY <1>c, IngestionAssumption DEF Capped
    <2>3. run' = [run EXCEPT !.pc = "embed", !.items = Capped(run.items)]
      BY <1>14 DEF BeginEmbedding
    <2>4. run' \in RunsOf(remote.sha)
      BY <2>2, <2>3, <1>0, <1>a, <1>b, <1>c DEF RunsOf
    <2>5. /\ run'.embedded = 0 /\ run'.items = Capped(run.items) /\ run'.file = run.file
          /\ run'.pc = "embed"
      BY <2>1, <2>3, <1>0 DEF RunsOf
    <2> QED
      BY <2>1, <2>2, <2>4, <2>5, <1>0, <1>2 DEF AtFile
  <1>15. CASE EmbedBatch
    <2>1. \/ run' = [run EXCEPT !.embedded = BatchEnd]
          \/ run' = [run EXCEPT !.pc = "mark"]
      BY <1>15 DEF EmbedBatch, Goto
    <2>2. run' \in RunsOf(remote.sha)
      BY <2>1, <1>0, <1>a, <1>b, <1>c, BatchEnds DEF RunsOf
    <2>3. /\ run'.embedded \in {run.embedded, BatchEnd} /\ run'.items = run.items /\ run'.file = run.file
          /\ run'.pc \in {"embed", "mark"} /\ run.pc = "embed"
      BY <2>1, <1>0, <1>15 DEF RunsOf, EmbedBatch, Sending
    <2> QED
      BY <2>2, <2>3, <1>0, <1>2, BatchEnds DEF AtFile
  <1> QED
    BY <1>3, <1>4, <1>5, <1>6, <1>7, <1>8, <1>10, <1>11, <1>12, <1>13, <1>14, <1>15, RunSteps DEF Approach

LEMMA TypeStep ==
  ASSUME TypeOK, CloneInv, RunInv, [Next]_vars
  PROVE  TypeOK'
  <1>1. job' \in {"none", "unfinished", "completed", "failed"} /\ cancelled' \in BOOLEAN
    BY DEF TypeOK, Next, vars, env, copy, repository, tables, vectorTable, Push, SwitchModel,
           Search, LateStore, Submit, Sync, BeginRun, RunStep, CloneSucceeds,
           RecordRepository, TouchRepoCheck, FetchSucceeds, BrokenClone, ResetSucceeds,
           PushedMeanwhile, FetchFails, WalkSucceeds, WalkFails, InterruptedEarly, NextFile,
           LastFileDone, DeleteSymbols, PurgeVectors, InsertFile, ParseFile, RemoveFile,
           RemoveVectors, BeginEmbedding, EmbedBatch, EmbeddingDone, MarkEmbedded,
           FinishRun, InterruptedLate, Cancel, Crash, EndRun
  <1> QED
    BY <1>1, EnvTypeStep, TableTypeStep, RunTypeStep, FaultsGrow DEF TypeOK, RunsOf

-----------------------------------------------------------------------------
(* Initially. *)

LEMMA IngestInit ==
  ASSUME Init PROVE IngestInv
  <1>1. /\ remote \in [sha : {1}, tree : Trees] /\ clone = NoClone /\ git = "none" /\ recorded = FALSE /\ lastSha = 0
        /\ strays = [f \in Files |-> {}] /\ late = {} /\ row = [f \in Files |-> NoRow] /\ symbols = [f \in Files |-> {}]
        /\ vectors = [f \in Files |-> {}] /\ model = FirstModel /\ job = "none" /\ run = Resting
        /\ cancelled = FALSE /\ pushes = 0 /\ switches = 0 /\ faults = 0 /\ met = {}
        /\ left = {} /\ former = [f \in Files |-> {}] /\ torn = {}
    BY DEF Init
  <1>2. /\ run.pc = "idle" /\ run.model = None /\ run.todo = {} /\ run.gone = {} /\ run.file = 0
        /\ run.items = <<>> /\ run.spans = <<>> /\ run.embedded = 0 /\ run.fetched = 0
    BY <1>1 DEF Resting
  <1>3. \A f \in Files : row[f].hash = None /\ row[f].model = None
    BY <1>1 DEF NoRow
  <1>4. TypeOK
    <2>1. NoTree \in Trees /\ remote.sha = 1 /\ remote.tree \in Trees
      BY <1>1 DEF NoTree, Trees
    <2>2. /\ 0 \in 0..(MaxPushes + 1) /\ 1 \in 1..(MaxPushes + 1) /\ 0 \in 0..MaxPushes
          /\ 0 \in 0..MaxSwitches /\ 0 \in 0..MaxFaults /\ 0 \in 0..FileCount /\ FirstModel \in Models
      BY IngestionAssumption
    <2>3. /\ remote \in [sha : 1..(MaxPushes + 1), tree : Trees]
          /\ clone \in [sha : 0..(MaxPushes + 1), tree : Trees]
      BY <1>1, <2>1, <2>2 DEF NoClone
    <2>4. run \in RunsOf(remote.sha)
      BY <1>1, <2>1, <2>2 DEF RunsOf, Resting, RunPCs
    <2>5. row \in [Files -> [hash : Versions \union {None}, model : Models \union {None}]]
      BY <1>1 DEF NoRow
    <2>6. /\ symbols \in [Files -> SUBSET Versions] /\ vectors \in [Files -> SUBSET Vector]
          /\ strays \in [Files -> SUBSET Vector] /\ late \subseteq [Files -> SUBSET Vector]
          /\ former \in [Files -> SUBSET (Versions \union {None})]
      BY <1>1
    <2>7. run.embedded <= Len(run.items) /\ (run.file = 0 <=> run.pc \notin AtFile)
      BY <1>2 DEF AtFile
    <2> QED
      BY <1>1, <2>2, <2>3, <2>4, <2>5, <2>6, <2>7 DEF TypeOK, RunsOf
  <1>5. CloneInv
    BY <1>1, <1>2 DEF CloneInv, Early, Ending, Cloned, NoClone
  <1>6. ModelInv
    BY <1>1, <1>2, <1>3 DEF ModelInv
  <1>7. FormerInv /\ TornInv
    BY <1>1, <1>3 DEF FormerInv, TornInv, Cloned, HasRow, NoClone
  <1>8. Spanned = {}
    BY <1>2 DEF Spanned
  <1>9. RunInv /\ RecordedInv
    BY <1>1, <1>2, <1>3, <1>8 DEF RunInv, RecordedInv, HasRow, Taking, Ending, Early, AtHand
  <1>10. SpanInv
    BY <1>2 DEF SpanInv
  <1>11. SearchInv
    BY <1>2, <1>3, IngestionAssumption, <1>1 DEF SearchInv, HasRow
  <1>12. TablesInv /\ CrashInv
    BY <1>1, <1>2, <1>3 DEF TablesInv, CrashInv, HasRow, Empty
  <1>13. ProgressInv
    BY <1>1 DEF ProgressInv
  <1> QED
    BY <1>4, <1>5, <1>6, <1>7, <1>9, <1>10, <1>11, <1>12, <1>13 DEF IngestInv
-----------------------------------------------------------------------------
(* What each step does to the run's position and locals, to the rows and   *)
(* to the set torn. *)

(* The run's locals other than its position. *)
Kept == /\ run'.model = run.model /\ run'.todo = run.todo /\ run'.file = run.file /\ run'.gone = run.gone
        /\ run'.items = run.items /\ run'.spans = run.spans /\ run'.embedded = run.embedded

KeptItems == run'.model = run.model /\ run'.items = run.items /\ run'.spans = run.spans /\ run'.embedded = run.embedded

LEMMA ResetEffect ==
  ASSUME RunReset
  PROVE  /\ run'.pc \in {"idle", "fetch"} /\ run'.model = None /\ run'.todo = {} /\ run'.gone = {}
         /\ run'.file = 0 /\ run'.items = <<>> /\ run'.spans = <<>> /\ run'.embedded = 0
         /\ UNCHANGED <<row, symbols, vectors, strays, recorded, lastSha, torn, remote, former, model, left>>
         /\ run'.pc = "fetch" => job' = "unfinished"
  <1>1. run' = Resting \/ run' = [Resting EXCEPT !.pc = "fetch"]
    BY DEF RunReset, Submit, Sync, BeginRun, Crash, PushedMeanwhile, FetchFails, BrokenClone, RecordFails, WalkFails,
           InterruptedEarly, FinishRun, EndRun
  <1>2. UNCHANGED <<row, symbols, vectors, strays, recorded, lastSha, torn, remote, former, model, left>>
    BY DEF RunReset, Submit, Sync, BeginRun, Crash, PushedMeanwhile, FetchFails, BrokenClone, RecordFails, WalkFails,
           InterruptedEarly, FinishRun, EndRun, env, tables, repository, vectorTable, CutOff
  <1>3. run'.pc = "fetch" => job' = "unfinished"
    BY DEF RunReset, Submit, Sync, BeginRun, Crash, PushedMeanwhile, FetchFails, BrokenClone, RecordFails, WalkFails,
           InterruptedEarly, FinishRun, EndRun, Resting
  <1> QED
    BY <1>1, <1>2, <1>3 DEF Resting

LEMMA MoveEffect ==
  ASSUME TypeOK
  PROVE  /\ Approach =>
              /\ run.pc \in Early \ {"idle", "walk"} /\ run'.pc \in Early \ {"idle", "fetch"} /\ Kept
              /\ UNCHANGED <<row, symbols, vectors, strays, torn, remote, former, model, left, job>>
         /\ LastFileDone => run.pc = "next" /\ run'.pc = "remove" /\ Kept
         /\ DeleteSymbols => run.pc = "delete" /\ run'.pc = "purge" /\ Kept
         /\ PurgeVectors => run.pc = "purge" /\ run'.pc = "insert" /\ Kept
         /\ EmbeddingDone => run.pc = "embed" /\ run'.pc = "mark" /\ Kept
         /\ MarkEmbedded => run.pc = "mark" /\ run'.pc = "finish" /\ Kept
         /\ InterruptedLate => /\ run.pc \notin Early /\ run'.pc = "finish" /\ KeptItems
                               /\ run'.todo = {} /\ run'.gone = {} /\ run'.file = 0
                               /\ cancelled
  <1>1. run \in RunsOf(remote.sha)
    BY DEF TypeOK, RunsOf
  <1>2. ASSUME NEW p, run' = [run EXCEPT !.pc = p]
        PROVE  run'.pc = p /\ Kept
    BY <1>1, <1>2 DEF RunsOf, Kept
  <1>3. ASSUME NEW p, NEW q, run' = [run EXCEPT !.pc = p, !.fetched = q]
        PROVE  run'.pc = p /\ Kept
    BY <1>1, <1>3 DEF RunsOf, Kept
  <1>4. Approach => /\ run.pc \in Early \ {"idle", "walk"} /\ run'.pc \in Early \ {"idle", "fetch"} /\ Kept
                    /\ UNCHANGED <<row, symbols, vectors, strays, torn, remote, former, model, left, job>>
    <2>1. CASE CloneSucceeds \/ RecordSucceeds
      BY <1>2, <2>1 DEF CloneSucceeds, RecordSucceeds, Goto, Early, env, tables, vectorTable
    <2>2. CASE TouchRepoCheck
      BY <1>2, <2>2 DEF TouchRepoCheck, Goto, Early, env, tables, vectorTable
    <2>3. CASE FetchSucceeds \/ ResetSucceeds
      BY <1>3, <2>3 DEF FetchSucceeds, ResetSucceeds, Early, env, tables, vectorTable
    <2> QED
      BY <2>1, <2>2, <2>3 DEF Approach
  <1>5. InterruptedLate => /\ run.pc \notin Early /\ run'.pc = "finish" /\ KeptItems
                           /\ run'.todo = {} /\ run'.gone = {} /\ run'.file = 0 /\ cancelled
    BY <1>1 DEF InterruptedLate, RunsOf, KeptItems, Early
  <1> QED
    BY <1>2, <1>4, <1>5 DEF LastFileDone, DeleteSymbols, PurgeVectors, EmbeddingDone, MarkEmbedded, Goto

LEMMA WalkEffect ==
  ASSUME TypeOK, WalkSucceeds
  PROVE  /\ run.pc = "walk" /\ run'.pc = "next" /\ run'.model \in {model, None}
         /\ run'.todo = Walked(clone.tree) /\ run'.gone = {f \in Files : HasRow(f)} \ Walked(clone.tree)
         /\ run'.file = run.file /\ run'.items = run.items /\ run'.spans = run.spans
         /\ run'.embedded = run.embedded
  <1>1. run \in RunsOf(remote.sha)
    BY DEF TypeOK, RunsOf
  <1> QED
    BY <1>1 DEF WalkSucceeds, RunsOf, HasRow

(* A file is passed over, or taken up. *)
LEMMA NextEffect ==
  ASSUME TypeOK, NextFile
  PROVE  /\ run.pc = "next" /\ KeptItems /\ run'.gone = run.gone
         /\ \E f \in run.todo :
              /\ run'.todo = run.todo \ {f}
              /\ \/ /\ run'.pc = "next" /\ run'.file = run.file
                    /\ Unchanged(f) \/ Fault("read")
                 \/ /\ run'.pc = IF HasRow(f) THEN "delete" ELSE "insert"
                    /\ run'.file = f /\ ~Unchanged(f)
  <1>1. run \in RunsOf(remote.sha) /\ run.pc = "next"
    BY DEF TypeOK, RunsOf, NextFile
  <1>2. PICK f \in run.todo :
          \/ run' = [run EXCEPT !.todo = run.todo \ {f}] /\ (Unchanged(f) \/ Fault("read"))
          \/ /\ ~Unchanged(f)
             /\ run' = [run EXCEPT !.todo = run.todo \ {f}, !.file = f,
                                   !.pc = IF row[f].hash # None THEN "delete" ELSE "insert"]
    BY DEF NextFile
  <1>3. CASE run' = [run EXCEPT !.todo = run.todo \ {f}] /\ (Unchanged(f) \/ Fault("read"))
    BY <1>1, <1>3 DEF RunsOf, KeptItems
  <1>4. CASE /\ ~Unchanged(f)
             /\ run' = [run EXCEPT !.todo = run.todo \ {f}, !.file = f,
                                   !.pc = IF row[f].hash # None THEN "delete" ELSE "insert"]
    BY <1>1, <1>4 DEF RunsOf, KeptItems, HasRow
  <1> QED
    BY <1>2, <1>3, <1>4

(* Neither changes a table. *)
LEMMA NextFrame ==
  ASSUME TypeOK, NextFile
  PROVE  /\ UNCHANGED <<row, symbols, clone, lastSha, vectors, strays, torn, cancelled>>
         /\ Spanned' = Spanned
  <1>1. UNCHANGED <<row, symbols, clone, lastSha, vectors, strays, torn, cancelled>>
    BY DEF NextFile, tables, copy, repository, vectorTable
  <1>2. Spanned' = Spanned
    BY NextEffect DEF KeptItems, Spanned
  <1> QED
    BY <1>1, <1>2

LEMMA SkipEffect ==
  ASSUME TypeOK, run' = SkipFile
  PROVE  /\ run'.pc = "next" /\ KeptItems /\ run'.gone = run.gone /\ run'.todo = run.todo /\ run'.file = 0
  <1>1. run \in RunsOf(remote.sha)
    BY DEF TypeOK, RunsOf
  <1> QED
    BY <1>1 DEF SkipFile, RunsOf, KeptItems

(* The file's row is replaced and it is no longer half changed, if it had  *)
(* one; or nothing happens.                                                *)
LEMMA InsertEffect ==
  ASSUME TypeOK, RunInv, InsertFile
  PROVE  /\ run.pc = "insert" /\ KeptItems /\ run'.gone = run.gone /\ run'.todo = run.todo
         /\ File \in Files /\ File \in Walked(clone.tree)
         /\ \A f \in Files \ {File} : row'[f] = row[f]
         /\ \/ /\ Works /\ run'.pc = "parse" /\ run'.file = File
               /\ row'[File] = [hash |-> Content, model |-> None]
               /\ torn' = IF HasRow(File) THEN torn \ {File} ELSE torn
            \/ /\ Fault("store") \/ ~recorded
               /\ UNCHANGED <<row, torn>> /\ run'.pc = "next" /\ run'.file = 0
  <1>1. run \in RunsOf(remote.sha) /\ run.pc = "insert"
    BY DEF TypeOK, RunsOf, InsertFile
  <1>2. File \in Files /\ File \in Walked(clone.tree) /\ File = run.file
    BY <1>1, AtHandTypes DEF Taking
  <1>3. row \in [Files -> [hash : Versions \union {None}, model : Models \union {None}]]
    BY DEF TypeOK
  <1>4. CASE (Fault("store") \/ ~recorded) /\ UNCHANGED <<row, torn>> /\ run' = SkipFile
    BY <1>1, <1>2, <1>4, SkipEffect
  <1>5. CASE /\ Works
             /\ row' = [row EXCEPT ![File] = [hash |-> Content, model |-> None]]
             /\ torn' = IF row[File].hash # None THEN torn \ {File} ELSE torn
             /\ run' = [run EXCEPT !.pc = "parse"]
    <2>1. run'.pc = "parse" /\ KeptItems /\ run'.gone = run.gone /\ run'.todo = run.todo /\ run'.file = File
      BY <1>1, <1>2, <1>5 DEF RunsOf, KeptItems
    <2>2. row'[File] = [hash |-> Content, model |-> None] /\ \A f \in Files \ {File} : row'[f] = row[f]
      BY <1>2, <1>3, <1>5
    <2> QED
      BY <1>1, <1>2, <1>5, <2>1, <2>2 DEF HasRow
  <1> QED
    BY <1>4, <1>5 DEF InsertFile, Goto

(* The file's items and its span are appended, or nothing happens to them. *)
LEMMA ParseEffect ==
  ASSUME TypeOK, RunInv, ParseFile
  PROVE  /\ run.pc = "parse" /\ run'.pc = "next" /\ run'.gone = run.gone /\ run'.todo = run.todo
         /\ run'.file = 0 /\ run'.model = run.model /\ run'.embedded = run.embedded
         /\ File \in Files /\ File \in Walked(clone.tree)
         /\ UNCHANGED <<row, torn, vectors, strays, clone, lastSha, job>>
         /\ \/ /\ run'.items = run.items \o NewItems
               /\ run'.spans = Append(run.spans, [file  |-> File, start |-> Len(run.items),
                                                  end   |-> Len(run.items) + ChunkCount[Content]])
               /\ symbols' = [symbols EXCEPT ![File] = @ \union {Content}] \/ Fault("store")
            \/ /\ run'.items = run.items /\ run'.spans = run.spans /\ UNCHANGED symbols
               /\ File \in Unsupported \/ Fault("parse")
  <1>1. run \in RunsOf(remote.sha) /\ run.pc = "parse"
    BY DEF TypeOK, RunsOf, ParseFile
  <1>2. File \in Files /\ File \in Walked(clone.tree)
    BY <1>1, AtHandTypes DEF Taking
  <1>3. UNCHANGED <<row, torn, vectors, strays, clone, lastSha, job>>
    BY DEF ParseFile, vectorTable, copy, repository
  <1>4. CASE run' = SkipFile /\ UNCHANGED symbols /\ (File \in Unsupported \/ Fault("parse"))
    BY <1>1, <1>2, <1>3, <1>4, SkipEffect DEF KeptItems
  <1> DEFINE s == [file |-> File, start |-> Len(run.items), end |-> Len(run.items) + ChunkCount[Content]]
  <1>5. CASE /\ run' = [SkipFile EXCEPT !.items = @ \o NewItems, !.spans = Append(@, s)]
             /\ symbols' = [symbols EXCEPT ![File] = @ \union {Content}] \/ Fault("store")
    <2>1. SkipFile.items = run.items /\ SkipFile.spans = run.spans
      BY <1>1 DEF SkipFile, RunsOf
    <2>2. run' = [[run EXCEPT !.pc = "next", !.file = 0] EXCEPT
                         !.items = run.items \o NewItems, !.spans = Append(run.spans, s)]
      BY <1>5, <2>1 DEF SkipFile
    <2> HIDE DEF s
    <2>3. /\ run'.pc = "next" /\ run'.gone = run.gone /\ run'.todo = run.todo
          /\ run'.file = 0 /\ run'.model = run.model /\ run'.embedded = run.embedded
          /\ run'.items = run.items \o NewItems /\ run'.spans = Append(run.spans, s)
      BY <1>1, <2>2 DEF RunsOf
    <2> QED
      BY <1>1, <1>2, <1>3, <1>5, <2>3 DEF s
  <1> QED
    BY <1>4, <1>5 DEF ParseFile

(* A file's row and symbols go, or neither. *)
LEMMA RemoveEffect ==
  ASSUME TypeOK, RunInv, RemoveFile
  PROVE  /\ run.pc = "remove" /\ run'.pc = "removeVectors" /\ KeptItems /\ run'.todo = run.todo
         /\ UNCHANGED <<vectors, strays, clone, lastSha, job>>
         /\ \E f \in run.gone :
              /\ f \in Files /\ f \notin Walked(clone.tree) /\ HasRow(f)
              /\ run'.file = f /\ run'.gone = run.gone \ {f} /\ torn' = torn \union {f}
              /\ \/ /\ Works /\ row'[f] = NoRow /\ symbols'[f] = {}
                    /\ \A g \in Files \ {f} : row'[g] = row[g] /\ symbols'[g] = symbols[g]
                 \/ Fault("store") /\ UNCHANGED <<row, symbols>>
  <1>1. run \in RunsOf(remote.sha) /\ run.pc = "remove"
    BY DEF TypeOK, RunsOf, RemoveFile
  <1>2. PICK f \in run.gone :
          /\ \/ /\ Works
                /\ row' = [row EXCEPT ![f] = NoRow]
                /\ symbols' = [symbols EXCEPT ![f] = {}]
             \/ Fault("store") /\ UNCHANGED <<row, symbols>>
          /\ torn' = torn \union {f}
          /\ run' = [run EXCEPT !.pc = "removeVectors", !.file = f, !.gone = run.gone \ {f}]
    BY DEF RemoveFile
  <1>3. f \in Files /\ f \notin Walked(clone.tree) /\ HasRow(f)
    BY <1>1 DEF RunInv, RunsOf
  <1>4. /\ run'.pc = "removeVectors" /\ KeptItems /\ run'.todo = run.todo
        /\ run'.file = f /\ run'.gone = run.gone \ {f}
    BY <1>1, <1>2 DEF RunsOf, KeptItems
  <1>5. /\ row \in [Files -> [hash : Versions \union {None}, model : Models \union {None}]]
        /\ symbols \in [Files -> SUBSET Versions]
    BY DEF TypeOK
  <1>6. \/ /\ Works /\ row'[f] = NoRow /\ symbols'[f] = {}
           /\ \A g \in Files \ {f} : row'[g] = row[g] /\ symbols'[g] = symbols[g]
        \/ Fault("store") /\ UNCHANGED <<row, symbols>>
    BY <1>2, <1>3, <1>5
  <1>7. UNCHANGED <<vectors, strays, clone, lastSha, job>>
    BY DEF RemoveFile, vectorTable, copy, repository
  <1> QED
    BY <1>1, <1>2, <1>3, <1>4, <1>6, <1>7

LEMMA RemoveVectorsEffect ==
  ASSUME TypeOK, RemoveVectors
  PROVE  /\ run.pc = "removeVectors" /\ run'.pc = "remove" /\ KeptItems /\ run'.todo = run.todo
         /\ run'.gone = run.gone /\ run'.file = 0 /\ run.file \in Files /\ File = run.file
         /\ UNCHANGED <<row, symbols, clone, lastSha, job>>
         /\ \/ /\ Works /\ vectors'[File] = {}
               /\ torn' = IF HasRow(File) THEN torn ELSE torn \ {File}
            \/ Fault("purge") /\ UNCHANGED torn
  <1>1. run \in RunsOf(remote.sha) /\ run.pc = "removeVectors" /\ run.file # 0 /\ run.file \in 0..FileCount
    BY DEF TypeOK, RunsOf, RemoveVectors, AtFile
  <1>2. run.file \in Files /\ File = run.file
    BY <1>1, IngestionAssumption DEF Files, File
  <1>3. Reconciled \in [Files -> SUBSET Vector]
    BY ReconciledTypes
  <1>4. /\ run'.pc = "remove" /\ KeptItems /\ run'.todo = run.todo
        /\ run'.gone = run.gone /\ run'.file = 0
    BY <1>1 DEF RemoveVectors, RunsOf, KeptItems
  <1>5. UNCHANGED <<row, symbols, clone, lastSha, job>>
    BY DEF RemoveVectors, tables, copy, repository
  <1>6. \/ /\ Works /\ vectors'[File] = {}
           /\ torn' = IF HasRow(File) THEN torn ELSE torn \ {File}
        \/ Fault("purge") /\ UNCHANGED torn
    BY <1>2, <1>3 DEF RemoveVectors, HasRow, Purge, PurgeFails
  <1> QED
    BY <1>1, <1>2, <1>4, <1>5, <1>6

(* The items from the cap on are dropped. *)
LEMMA BeginEffect ==
  ASSUME TypeOK, CloneInv, BeginEmbedding
  PROVE  /\ run.pc = "remove" /\ run'.pc = "embed" /\ run'.model = run.model /\ run'.todo = run.todo
         /\ run.gone = {} /\ run'.gone = {} /\ run'.file = run.file /\ run'.spans = run.spans
         /\ run.embedded = 0 /\ run'.embedded = 0
         /\ Len(run'.items) <= Len(run.items) /\ \A k \in 1..Len(run'.items) : run'.items[k] = run.items[k]
  <1>1. run \in RunsOf(remote.sha) /\ run.pc = "remove" /\ run.embedded = 0 /\ run.gone = {}
    BY DEF TypeOK, RunsOf, BeginEmbedding, CloneInv, Ending
  <1>2. /\ run'.pc = "embed" /\ run'.model = run.model /\ run'.todo = run.todo /\ run'.gone = run.gone
        /\ run'.file = run.file /\ run'.spans = run.spans /\ run'.embedded = run.embedded
        /\ run'.items = Capped(run.items)
    BY <1>1 DEF BeginEmbedding, RunsOf
  <1>3. run.items \in Seq(Item)
    BY DEF TypeOK
  <1>4. /\ Len(Capped(run.items)) <= Len(run.items)
        /\ \A k \in 1..Len(Capped(run.items)) : Capped(run.items)[k] = run.items[k]
    BY <1>3, IngestionAssumption DEF Capped
  <1> QED
    BY <1>1, <1>2, <1>4

(* Some batch is stored, or nothing. *)
LEMMA EmbedEffect ==
  ASSUME TypeOK, EmbedBatch
  PROVE  /\ run.pc = "embed" /\ run'.pc \in {"embed", "mark"} /\ run'.model = run.model
         /\ run'.todo = run.todo /\ run'.gone = run.gone /\ run'.file = run.file
         /\ run'.items = run.items /\ run'.spans = run.spans
         /\ UNCHANGED <<row, symbols, torn, clone, lastSha, job, model, left>>
         /\ strays' = strays
         /\ \/ vectors' = vectors /\ run'.embedded = run.embedded
            \/ /\ run'.embedded = BatchEnd
               /\ \A f \in Files : vectors'[f] = Reconciled[f] \union Batch(f)
  <1>1. run \in RunsOf(remote.sha) /\ run.pc = "embed"
    BY DEF TypeOK, RunsOf, EmbedBatch, Sending
  <1>2. \/ run' = [run EXCEPT !.embedded = BatchEnd] /\ vectors' = [f \in Files |-> Reconciled[f] \union Batch(f)]
        \/ run' = [run EXCEPT !.pc = "mark"] /\ vectors' = vectors
    BY DEF EmbedBatch, Goto, CutOff
  <1>3. /\ run'.pc \in {"embed", "mark"} /\ run'.model = run.model
        /\ run'.todo = run.todo /\ run'.gone = run.gone /\ run'.file = run.file
        /\ run'.items = run.items /\ run'.spans = run.spans
        /\ \/ vectors' = vectors /\ run'.embedded = run.embedded
           \/ /\ run'.embedded = BatchEnd
              /\ \A f \in Files : vectors'[f] = Reconciled[f] \union Batch(f)
    BY <1>1, <1>2 DEF RunsOf
  <1>4. UNCHANGED <<row, symbols, torn, clone, lastSha, job, model, left, strays>>
    BY DEF EmbedBatch, CutOff, env, tables, copy, repository
  <1> QED
    BY <1>1, <1>3, <1>4

LEMMA MarkEffect ==
  ASSUME TypeOK, MarkEmbedded
  PROVE  /\ FullyEmbedded(run.spans, run.embedded) \subseteq Spanned
         /\ UNCHANGED <<torn, symbols, vectors, strays, clone, lastSha, job, model, left>>
         /\ \A f \in Files :
              /\ row'[f].hash = row[f].hash
              /\ \/ row'[f] = row[f]
                 \/ /\ f \in FullyEmbedded(run.spans, run.embedded) /\ f \in Spanned
                    /\ run.model # None /\ row'[f].model = run.model
                    /\ Works
  <1>1. row \in [Files -> [hash : Versions \union {None}, model : Models \union {None}]]
    BY DEF TypeOK
  <1>2. FullyEmbedded(run.spans, run.embedded) \subseteq Spanned
    BY DEF FullyEmbedded, Spanned
  <1>3. UNCHANGED <<torn, symbols, vectors, strays, clone, lastSha, job, model, left>>
    BY DEF MarkEmbedded, env, copy, repository, vectorTable
  <1>4. CASE UNCHANGED row
    BY <1>2, <1>3, <1>4
  <1>5. CASE Works /\ row' = [f \in Files |->
                       IF run.model # None /\ f \in FullyEmbedded(run.spans, run.embedded)
                       THEN [row[f] EXCEPT !.model = run.model] ELSE row[f]]
    <2>1. ASSUME NEW f \in Files
          PROVE  /\ row'[f].hash = row[f].hash
                 /\ \/ row'[f] = row[f]
                    \/ /\ f \in FullyEmbedded(run.spans, run.embedded)
                       /\ run.model # None /\ row'[f].model = run.model
      <3>1. [row[f] EXCEPT !.model = run.model].hash = row[f].hash /\ [row[f] EXCEPT !.model = run.model].model = run.model
        BY <1>1
      <3>2. row'[f] = IF run.model # None /\ f \in FullyEmbedded(run.spans, run.embedded)
                      THEN [row[f] EXCEPT !.model = run.model] ELSE row[f]
        BY <1>5
      <3> QED
        BY <3>1, <3>2
    <2> QED
      BY <1>2, <1>3, <1>5, <2>1
  <1> QED
    BY <1>4, <1>5 DEF MarkEmbedded

(* A run that is not reset stays unfinished, and the working copy stays. *)
LEMMA GoingOn ==
  ASSUME [Next]_vars, ~RunReset
  PROVE  job' = job
  BY RecordSteps
     DEF RunReset, Next, vars, Push, SwitchModel, Search, LateStore, RunStep, CloneSucceeds, RecordSucceeds,
         TouchRepoCheck, FetchSucceeds, ResetSucceeds, WalkSucceeds, NextFile, LastFileDone, DeleteSymbols,
         PurgeVectors, InsertFile, ParseFile, RemoveFile, RemoveVectors, BeginEmbedding, EmbedBatch,
         EmbeddingDone, MarkEmbedded, InterruptedLate, Cancel
-----------------------------------------------------------------------------
(* Each part of the invariant is preserved. *)

LEMMA CloneStep ==
  ASSUME TypeOK, CloneInv, RunInv, [Next]_vars
  PROVE  CloneInv'
  <1>1. remote'.sha = pushes' + 1 /\ remote.sha \in Nat /\ clone.sha \in Nat /\ remote.sha # 0
    BY EnvTypeStep, IngestionAssumption DEF TypeOK
  <1>2. clone'.sha <= remote'.sha /\ (clone'.sha = remote'.sha => clone'.tree = remote'.tree)
    <2>1. CASE clone' = clone
      <3>1. CASE UNCHANGED <<remote, former, pushes>>
        BY <2>1, <3>1 DEF CloneInv
      <3>2. CASE Push
        BY <1>1, <2>1, <3>2 DEF CloneInv, Push
      <3> QED
        BY <3>1, <3>2, RemoteSteps
    <2>2. CASE CloneSucceeds \/ ResetSucceeds
      BY <1>1, <2>2 DEF CloneSucceeds, ResetSucceeds, env
    <2>3. CASE clone' = NoClone
      BY <1>1, <2>3, EnvTypeStep, IngestionAssumption DEF NoClone
    <2> QED
      BY <2>1, <2>2, <2>3, CloneSteps DEF Crash, copy
  <1>3. run'.pc \notin {"idle", "fetch", "reset"} => clone'.sha # 0
    <2>1. CASE RunReset
      BY <2>1, ResetEffect
    <2>2. CASE CloneSucceeds \/ ResetSucceeds
      BY <1>1, <2>2 DEF CloneSucceeds, ResetSucceeds
    <2>3. CASE FetchSucceeds
      BY <2>3 DEF FetchSucceeds, TypeOK
    <2>4. CASE ~RunReset /\ ~CloneSucceeds /\ ~ResetSucceeds /\ ~FetchSucceeds
      <3>1. clone' = clone
        BY <2>4, CloneSteps DEF RunReset, copy
      <3>2. run.pc \notin {"idle", "fetch", "reset"} \/ UNCHANGED run
        <4>1. Approach => run.pc \in {"record", "touch"}
          BY <2>4 DEF Approach, RecordSucceeds, TouchRepoCheck
        <4>2. (\/ WalkSucceeds \/ NextFile \/ LastFileDone \/ DeleteSymbols \/ PurgeVectors \/ InsertFile
               \/ ParseFile \/ RemoveFile \/ RemoveVectors \/ BeginEmbedding \/ EmbedBatch \/ EmbeddingDone
               \/ MarkEmbedded \/ InterruptedLate)
              => run.pc \notin {"idle", "fetch", "reset"}
          BY DEF WalkSucceeds, NextFile, LastFileDone, DeleteSymbols, PurgeVectors, InsertFile, ParseFile,
               RemoveFile, RemoveVectors, BeginEmbedding, EmbedBatch, Sending, EmbeddingDone, MarkEmbedded,
               InterruptedLate
        <4> QED
          BY <2>4, <4>1, <4>2, RunSteps
      <3> QED
        BY <3>1, <3>2 DEF CloneInv, Cloned
    <2> QED
      BY <2>1, <2>2, <2>3, <2>4
  <1>4. run'.pc # "idle" => job' = "unfinished"
    <2>1. CASE RunReset
      BY <2>1, ResetEffect
    <2>2. CASE ~RunReset
      <3>1. run.pc # "idle" \/ UNCHANGED run
        BY <2>2, RunSteps DEF Approach, CloneSucceeds, RecordSucceeds, TouchRepoCheck, FetchSucceeds, ResetSucceeds, WalkSucceeds, NextFile,
             LastFileDone, DeleteSymbols, PurgeVectors, InsertFile, ParseFile, RemoveFile, RemoveVectors,
             BeginEmbedding, EmbedBatch, Sending, EmbeddingDone, MarkEmbedded, InterruptedLate
      <3> QED
        BY <2>2, <3>1, GoingOn DEF CloneInv
    <2> QED
      BY <2>1, <2>2
  <1>7. clone'.sha # 0 \/ run'.pc = "reset" => git' = "sound"
    <2>1. CASE CloneSucceeds \/ ResetSucceeds
      <3>1. CloneSucceeds => git' = "sound"
        BY DEF CloneSucceeds
      <3>2. ResetSucceeds => run.pc = "reset" /\ git' = git
        BY DEF ResetSucceeds
      <3>3. run.pc = "reset" => git = "sound"
        BY DEF CloneInv
      <3> QED
        BY <2>1, <3>1, <3>2, <3>3
    <2>2. CASE Crash
      <3>1. run'.pc = "idle"
        BY <2>2 DEF Crash, Resting
      <3>2. UNCHANGED copy \/ clone' = NoClone \/ (git = "none" /\ UNCHANGED clone)
        BY <2>2 DEF Crash
      <3>3. clone.sha # 0 => git = "sound"
        BY DEF CloneInv, Cloned
      <3> QED
        BY <3>1, <3>2, <3>3 DEF copy, NoClone
    <2>3. CASE UNCHANGED copy /\ ~Crash /\ ~CloneSucceeds /\ ~ResetSucceeds
      <3>1. run'.pc = "reset" => run' = run \/ FetchSucceeds
        BY <2>3, RunSteps, ResetEffect, WalkEffect, NextEffect, InsertEffect, ParseEffect, RemoveEffect,
           RemoveVectorsEffect, BeginEffect, EmbedEffect, MoveEffect
           DEF Approach, RecordSucceeds, TouchRepoCheck, Goto, TypeOK
      <3>2. FetchSucceeds => git = "sound"
        BY DEF FetchSucceeds
      <3> QED
        BY <2>3, <3>1, <3>2 DEF copy, CloneInv, Cloned
    <2>4. CASE Submit /\ clone' = NoClone /\ git' = "none"
      BY <2>4 DEF Submit, BeginRun, Resting, NoClone
    <2> QED
      BY <2>1, <2>2, <2>3, <2>4, CloneSteps
  <1>8. job' = "completed" => clone'.sha # 0 \/ git' = "none"
    <2> SUFFICES ASSUME job' = "completed" PROVE clone'.sha # 0 \/ git' = "none"
      OBVIOUS
    <2>1. CASE FinishRun
      BY <2>1 DEF FinishRun, CloneInv, Cloned, copy
    <2>2. CASE Crash
      BY <2>2 DEF Crash, CloneInv, Cloned, copy, NoClone
    <2>3. CASE RunReset /\ ~FinishRun /\ ~Crash
      BY <2>3 DEF RunReset, Submit, Sync, BeginRun, PushedMeanwhile, FetchFails, BrokenClone, RecordFails,
                  WalkFails, InterruptedEarly, EndRun
    <2>4. CASE ~RunReset
      <3>1. job = "completed" /\ run.pc = "idle"
        BY <2>4, GoingOn DEF CloneInv
      <3>2. UNCHANGED copy
        BY <2>4, <3>1, CloneSteps DEF RunReset, CloneSucceeds, ResetSucceeds
      <3> QED
        BY <3>1, <3>2 DEF CloneInv, Cloned, copy
    <2> QED
      BY <2>1, <2>2, <2>3, <2>4
  <1>5. /\ run'.pc \in Early => /\ run'.model = None /\ run'.todo = {} /\ run'.gone = {}
                                /\ run'.items = <<>> /\ run'.spans = <<>>
        /\ run'.pc \notin Ending => run'.embedded = 0
    <2> DEFINE Fresh == /\ run'.pc \in Early => /\ run'.model = None /\ run'.todo = {} /\ run'.gone = {}
                                                /\ run'.items = <<>> /\ run'.spans = <<>>
                        /\ run'.pc \notin Ending => run'.embedded = 0
    <2> USE DEF Early, Ending
    <2>1. CASE RunReset
      BY <2>1, ResetEffect
    <2>2. CASE UNCHANGED run
      BY <2>2 DEF CloneInv
    <2>3. CASE Approach \/ LastFileDone \/ DeleteSymbols \/ PurgeVectors
               \/ EmbeddingDone \/ MarkEmbedded \/ InterruptedLate
      BY <2>3, MoveEffect DEF Kept, KeptItems, CloneInv
    <2>4. CASE WalkSucceeds
      BY <2>4, WalkEffect DEF CloneInv
    <2>5. CASE NextFile
      BY <2>5, NextEffect DEF KeptItems, CloneInv
    <2>6. CASE InsertFile
      BY <2>6, InsertEffect DEF KeptItems, CloneInv
    <2>7. CASE ParseFile
      BY <2>7, ParseEffect DEF CloneInv
    <2>8. CASE RemoveFile \/ RemoveVectors
      BY <2>8, RemoveEffect, RemoveVectorsEffect DEF KeptItems, CloneInv
    <2>9. CASE BeginEmbedding \/ EmbedBatch
      BY <2>9, BeginEffect, EmbedEffect
    <2> QED
      BY <2>1, <2>2, <2>3, <2>4, <2>5, <2>6, <2>7, <2>8, <2>9, RunSteps
  <1>6. cancelled' => "cancel" \in met'
    <2>1. met \subseteq met'
      BY FaultsGrow
    <2>2. cancelled' => cancelled \/ Fault("cancel")
      BY DEF Next, vars, env, Push, SwitchModel, Search, LateStore, Submit, Sync, BeginRun, RunStep, EndRun,
         CloneSucceeds, RecordRepository, TouchRepoCheck, FetchSucceeds, BrokenClone, ResetSucceeds,
         PushedMeanwhile, FetchFails, WalkSucceeds,
         WalkFails, InterruptedEarly, NextFile, LastFileDone, DeleteSymbols, PurgeVectors,
         InsertFile, ParseFile, RemoveFile, RemoveVectors, BeginEmbedding, EmbedBatch,
         EmbeddingDone, MarkEmbedded, FinishRun, InterruptedLate, Cancel, Crash
    <2> QED
      BY <2>1, <2>2 DEF CloneInv, Fault
  <1> QED
    BY <1>1, <1>2, <1>3, <1>4, <1>5, <1>6, <1>7, <1>8 DEF CloneInv, Cloned

(* Models are only ever switched away from. *)
LEMMA ModelStep ==
  ASSUME TypeOK, CloneInv, ModelInv, RunInv, [Next]_vars
  PROVE  ModelInv'
  <1>0. left \subseteq Models /\ model \in Models /\ None \notin Models
    BY IngestionAssumption DEF TypeOK
  <1>1. CASE SwitchModel
    <2>1. left' = left \union {model} /\ model' # model /\ row' = row /\ run' = run /\ model' \in Models
      BY <1>1 DEF SwitchModel, tables
    <2> QED
      BY <1>0, <2>1 DEF ModelInv
  <1>2. CASE model' = model /\ left' = left
    <2>1. run'.model \in {run.model, model, None}
      <3>1. CASE RunReset
        BY <3>1, ResetEffect
      <3>2. CASE Approach \/ LastFileDone \/ DeleteSymbols \/ PurgeVectors
                 \/ EmbeddingDone \/ MarkEmbedded \/ InterruptedLate
        BY <3>2, MoveEffect DEF Kept, KeptItems
      <3>3. CASE WalkSucceeds
        BY <3>3, WalkEffect
      <3>4. CASE NextFile \/ InsertFile \/ ParseFile \/ RemoveFile \/ RemoveVectors
        BY <3>4, NextEffect, InsertEffect, ParseEffect, RemoveEffect, RemoveVectorsEffect DEF KeptItems
      <3>5. CASE BeginEmbedding \/ EmbedBatch
        BY <3>5, BeginEffect, EmbedEffect
      <3> QED
        BY <3>1, <3>2, <3>3, <3>4, <3>5, RunSteps
    <2>2. \A f \in Files : row'[f].model \in {row[f].model, None, run.model}
      <3>1. CASE InsertFile
        BY <3>1, InsertEffect
      <3>2. CASE RemoveFile
        BY <3>2, RemoveEffect DEF NoRow
      <3>3. CASE MarkEmbedded
        BY <3>3, MarkEffect
      <3> QED
        BY <3>1, <3>2, <3>3, RowSteps
    <2> QED
      BY <1>0, <1>2, <2>1, <2>2 DEF ModelInv
  <1> QED
    BY <1>1, <1>2, ModelSteps

(* A push keeps what it takes from the walk. *)
LEMMA PushKeeps ==
  ASSUME TypeOK, Push, NEW f \in Files
  PROVE  /\ former[f] \subseteq former'[f]
         /\ InRemote(f) # None \/ former[f] # {} => InRemote(f) \in former'[f] \union {InRemote(f)'}
         /\ UNCHANGED <<clone, row, run, torn, model, left>>
  <1>1. PICK t \in Trees : /\ remote' = [sha |-> remote.sha + 1, tree |-> t]
                           /\ former' = [g \in Files |-> former[g] \union Replaced(g, t)]
    BY DEF Push
  <1>2. former'[f] = former[f] \union Replaced(f, t) /\ InRemote(f)' = Listed(t, f)
    BY <1>1 DEF InRemote, Listed, Walked
  <1>3. UNCHANGED <<clone, row, run, torn, model, left>>
    BY DEF Push, tables, copy
  <1> QED
    BY <1>2, <1>3 DEF Replaced, InRemote

LEMMA FormerGrows ==
  ASSUME TypeOK, [Next]_vars, NEW f \in Files
  PROVE  former[f] \subseteq former'[f]
  BY RemoteSteps, PushKeeps

(* A working copy that is replaced is the remote's head, or gone. *)
LEMMA CloneEffect ==
  ASSUME [Next]_vars, clone' # clone
  PROVE  /\ UNCHANGED <<remote, former, row, torn, model, left, symbols, vectors>>
         /\ \/ clone' = remote /\ (CloneSucceeds \/ ResetSucceeds)
            \/ clone'.sha = 0 /\ (Crash \/ Submit)
  <1>1. CASE CloneSucceeds \/ ResetSucceeds
    BY <1>1 DEF CloneSucceeds, ResetSucceeds, env, tables, vectorTable
  <1>2. CASE Crash
    <2>1. clone' = [sha |-> 0, tree |-> NoTree] /\ UNCHANGED <<env, tables, vectors, torn>>
      BY <1>2 DEF Crash, CutOff, copy, NoClone
    <2> QED
      BY <1>2, <2>1 DEF env, tables
  <1>3. CASE Submit /\ clone' = NoClone
    BY <1>3 DEF Submit, BeginRun, env, tables, vectorTable, NoClone
  <1> QED
    BY <1>1, <1>2, <1>3, CloneSteps DEF copy

LEMMA RowsKept ==
  ASSUME TypeOK, RunInv, [Next]_vars, NEW f \in Files
  PROVE  \/ row'[f] = row[f]
         \/ InsertFile /\ f = File /\ row'[f] = [hash |-> Content, model |-> None]
         \/ RemoveFile /\ f \in run.gone /\ row'[f] = NoRow
         \/ /\ MarkEmbedded /\ f \in Spanned /\ row'[f].hash = row[f].hash
            /\ run.model # None /\ row'[f].model = run.model
            /\ f \in FullyEmbedded(run.spans, run.embedded)
  <1>1. CASE InsertFile
    BY <1>1, InsertEffect
  <1>2. CASE RemoveFile
    BY <1>2, RemoveEffect
  <1>3. CASE MarkEmbedded
    BY <1>3, MarkEffect
  <1> QED
    BY <1>1, <1>2, <1>3, RowSteps

LEMMA FormerStep ==
  ASSUME TypeOK, CloneInv, RunInv, FormerInv, [Next]_vars
  PROVE  FormerInv'
  <1> SUFFICES ASSUME NEW f \in Files
               PROVE  /\ HasRow(f)' => row'[f].hash \in former'[f] \union {InRemote(f)'}
                      /\ Cloned' =>
                           /\ HasRow(f)' => row'[f].hash \in former'[f] \union {InClone(f)'}
                           /\ HasRow(f)' /\ InClone(f)' = None => None \in former'[f] \union {InRemote(f)'}
                           /\ InClone(f)' # None => InClone(f)' \in former'[f] \union {InRemote(f)'}
    BY DEF FormerInv
  <1>1. /\ HasRow(f) => row[f].hash \in former[f] \union {InRemote(f)}
        /\ Cloned =>
             /\ HasRow(f) => row[f].hash \in former[f] \union {InClone(f)}
             /\ HasRow(f) /\ InClone(f) = None => None \in former[f] \union {InRemote(f)}
             /\ InClone(f) # None => InClone(f) \in former[f] \union {InRemote(f)}
    BY DEF FormerInv
  <1>2. CASE Push
    <2>1. /\ former[f] \subseteq former'[f]
          /\ InRemote(f) # None \/ former[f] # {} => InRemote(f) \in former'[f] \union {InRemote(f)'}
          /\ HasRow(f)' = HasRow(f) /\ row'[f] = row[f] /\ InClone(f)' = InClone(f) /\ Cloned' = Cloned
      BY <1>2, PushKeeps DEF HasRow, InClone, Cloned, Listed, Walked
    <2> QED
      BY <1>1, <2>1 DEF HasRow
  <1>3. CASE clone' # clone
    <2>1. /\ former'[f] = former[f] /\ HasRow(f)' = HasRow(f) /\ row'[f] = row[f] /\ InRemote(f)' = InRemote(f)
          /\ Cloned' => InClone(f)' = InRemote(f)
      BY <1>3, CloneEffect DEF HasRow, InRemote, InClone, Cloned, Listed, Walked
    <2> QED
      BY <1>1, <2>1
  <1>4. CASE clone' = clone /\ UNCHANGED <<remote, former, pushes>>
    <2>1. /\ former'[f] = former[f] /\ InRemote(f)' = InRemote(f) /\ InClone(f)' = InClone(f) /\ Cloned' = Cloned
      BY <1>4 DEF InRemote, InClone, Cloned, Listed, Walked
    <2>2. CASE row'[f].hash = row[f].hash
      BY <1>1, <2>1, <2>2 DEF HasRow
    <2>3. CASE InsertFile /\ f = File /\ row'[f] = [hash |-> Content, model |-> None]
      <3>1. row'[f].hash = Content
        BY <2>3
      <3>2. Content = InClone(f) /\ Content # None /\ Cloned
        BY <2>3, InsertEffect, WalkedFiles DEF InClone, Content, CloneInv, Cloned
      <3> QED
        BY <1>1, <2>1, <3>1, <3>2
    <2>4. CASE row'[f] = NoRow
      BY <1>1, <2>1, <2>4 DEF HasRow, NoRow
    <2> QED
      BY <2>2, <2>3, <2>4, RowsKept
  <1> QED
    BY <1>2, <1>3, <1>4, RemoteSteps

LEMMA TornStep ==
  ASSUME TypeOK, CloneInv, ModelInv, FormerInv, RunInv, TornInv, [Next]_vars
  PROVE  TornInv'
  <1> SUFFICES ASSUME NEW f \in torn'
               PROVE  \/ None \in former'[f]
                      \/ HasRow(f)' /\ row'[f].hash \in former'[f]
                      \/ HasRow(f)' /\ row'[f].model \in left' \union {None}
                      \/ ~HasRow(f)' /\ Gone(f)'
    BY DEF TornInv
  <1>1. f \in Files
    BY TableTypeStep
  <1> DEFINE OK == \/ None \in former[f]
                   \/ HasRow(f) /\ row[f].hash \in former[f]
                   \/ HasRow(f) /\ row[f].model \in left \union {None}
                   \/ ~HasRow(f) /\ Gone(f)
  <1>2. left \subseteq left'
    BY ModelSteps DEF SwitchModel
  <1>3. former[f] \subseteq former'[f]
    BY <1>1, FormerGrows
  <1>4. CASE f \in torn
    <2>1. OK
      BY <1>4 DEF TornInv
    <2>2. Gone(f) => Gone(f)'
      <3>1. CASE Push
        <4>1. /\ InRemote(f) # None \/ former[f] # {} => InRemote(f) \in former'[f] \union {InRemote(f)'}
              /\ InClone(f)' = InClone(f) /\ Cloned' = Cloned
          BY <1>1, <3>1, PushKeeps DEF InClone, Cloned, Listed, Walked
        <4> QED
          BY <1>3, <4>1 DEF Gone
      <3>2. CASE clone' # clone
        <4>1. /\ former'[f] = former[f] /\ InRemote(f)' = InRemote(f) /\ Cloned' => InClone(f)' = InRemote(f)
          BY <3>2, CloneEffect DEF InRemote, InClone, Cloned, Listed, Walked
        <4>2. former'[f] = former[f] /\ InRemote(f)' = InRemote(f)
          BY <3>2, CloneEffect DEF InRemote, Listed, Walked
        <4> QED
          BY <4>1, <4>2 DEF Gone
      <3>3. CASE clone' = clone /\ UNCHANGED <<remote, former, pushes>>
        BY <3>3 DEF Gone, InRemote, InClone, Cloned, Listed, Walked
      <3> QED
        BY <3>1, <3>2, <3>3, RemoteSteps
    <2>3. CASE row'[f] = row[f]
      <3>1. HasRow(f)' = HasRow(f)
        BY <2>3 DEF HasRow
      <3> QED
        BY <1>2, <1>3, <2>1, <2>2, <2>3, <3>1
    <2>4. CASE InsertFile /\ f = File /\ row'[f] = [hash |-> Content, model |-> None]
      <3>1. Content # None
        BY <2>4, InsertEffect, WalkedFiles DEF Content
      <3>2. HasRow(f)' /\ row'[f].model = None
        BY <2>4, <3>1 DEF HasRow
      <3> QED
        BY <3>2
    <2>5. CASE RemoveFile /\ f \in run.gone /\ row'[f] = NoRow
      <3>1. ~HasRow(f)'
        BY <2>5 DEF HasRow, NoRow
      <3>2. HasRow(f) /\ InClone(f) = None /\ Cloned
        BY <2>5 DEF RunInv, InClone, Listed, RemoveFile, CloneInv
      <3>3. former[f] # {} /\ None \in former[f] \union {InRemote(f)}
        BY <1>1, <3>2 DEF FormerInv, HasRow
      <3>4. Gone(f)
        BY <3>2, <3>3 DEF Gone
      <3> QED
        BY <2>2, <3>1, <3>4
    <2>6. CASE MarkEmbedded /\ f \in Spanned
      BY <1>3, <1>4, <2>6 DEF RunInv
    <2> QED
      BY <1>1, <2>3, <2>4, <2>5, <2>6, RowsKept
  <1>5. CASE f \notin torn /\ DeleteSymbols
    <2>1. f = File /\ File = run.file /\ run.pc = "delete" /\ row' = row /\ UNCHANGED <<former, left, clone>>
      BY <1>5 DEF DeleteSymbols, env, copy, File
    <2>2. HasRow(f) /\ ~Unchanged(f) /\ f \in Walked(clone.tree) /\ Cloned
      BY <2>1 DEF RunInv, Taking, CloneInv
    <2>3. HasRow(f)' /\ row'[f] = row[f]
      BY <2>1, <2>2 DEF HasRow
    <2>4. CASE row[f].hash # clone.tree[f]
      <3>1. row[f].hash \in former[f]
        BY <1>1, <2>2, <2>4, WalkedFiles DEF FormerInv, InClone
      <3> QED
        BY <2>3, <3>1, <1>3
    <2>5. CASE run.model # None /\ row[f].model # run.model
      <3>1. row[f].model \in left \union {None}
        BY <1>1, <2>5, IngestionAssumption DEF ModelInv
      <3> QED
        BY <1>2, <2>3, <3>1
    <2> QED
      BY <2>2, <2>4, <2>5 DEF Unchanged
  <1>6. CASE f \notin torn /\ RemoveFile
    <2>1. PICK g \in run.gone :
              /\ g \in Files /\ g \notin Walked(clone.tree) /\ HasRow(g)
              /\ torn' = torn \union {g}
              /\ \/ row'[g] = NoRow
                 \/ UNCHANGED row
      BY <1>6, RemoveEffect
    <2>2. f = g /\ HasRow(f) /\ InClone(f) = None /\ Cloned /\ UNCHANGED <<remote, former, clone>>
      BY <1>6, <2>1 DEF InClone, Listed, RemoveFile, CloneInv, env, copy
    <2>3. CASE UNCHANGED row
      <3>1. row[f].hash \in former[f]
        BY <1>1, <2>2 DEF FormerInv, HasRow
      <3> QED
        BY <1>3, <2>2, <2>3, <3>1 DEF HasRow
    <2>4. CASE row'[g] = NoRow
      <3>1. ~HasRow(f)'
        BY <2>2, <2>4 DEF HasRow, NoRow
      <3>2. former[f] # {} /\ None \in former[f] \union {InRemote(f)}
        BY <1>1, <2>2 DEF FormerInv, HasRow
      <3>3. Gone(f)'
        BY <2>2, <3>2 DEF Gone, InRemote, InClone, Cloned, Listed, Walked
      <3> QED
        BY <3>1, <3>3
    <2> QED
      BY <2>1, <2>3, <2>4
  <1>7. CASE f \notin torn /\ (InsertFile \/ RemoveVectors)
    BY <1>7 DEF InsertFile, RemoveVectors
  <1> QED
    BY <1>4, <1>5, <1>6, <1>7, TornSteps

(* Steps that leave the run alone. *)
RunApart == Push \/ SwitchModel \/ Search \/ LateStore \/ Cancel \/ UNCHANGED vars

LEMMA ApartEffect ==
  ASSUME RunApart
  PROVE  UNCHANGED <<run, row, clone, git, torn, symbols, job, recorded, lastSha>>
  BY DEF RunApart, vars, copy, repository, tables, Push, SwitchModel, Search, LateStore, Cancel

LEMMA Steps ==
  ASSUME [Next]_vars
  PROVE  \/ RunApart
         \/ RunReset
         \/ Approach \/ WalkSucceeds \/ NextFile
         \/ LastFileDone \/ DeleteSymbols \/ PurgeVectors \/ InsertFile \/ ParseFile
         \/ RemoveFile \/ RemoveVectors \/ BeginEmbedding \/ EmbedBatch \/ EmbeddingDone
         \/ MarkEmbedded \/ InterruptedLate
  BY RecordSteps DEF Next, RunApart, RunStep, RunReset, Approach

(* Parsing adds a span; other steps keep the spans or start afresh. *)
LEMMA SpannedStep ==
  ASSUME TypeOK, CloneInv, RunInv, [Next]_vars
  PROVE  \/ run'.spans = run.spans /\ Spanned' = Spanned
         \/ RunReset /\ run'.spans = <<>> /\ Spanned' = {}
         \/ /\ ParseFile /\ Spanned' = Spanned \union {File}
            /\ run'.spans = Append(run.spans, [file  |-> File, start |-> Len(run.items),
                                               end   |-> Len(run.items) + ChunkCount[Content]])
  <1>1. ASSUME run'.spans = run.spans PROVE Spanned' = Spanned
    BY <1>1 DEF Spanned
  <1>2. CASE RunReset
    BY <1>2, ResetEffect DEF Spanned
  <1>3. CASE ParseFile
    <2> DEFINE s == [file |-> File, start |-> Len(run.items), end |-> Len(run.items) + ChunkCount[Content]]
    <2>1. CASE run'.spans = Append(run.spans, s)
      <3> HIDE DEF s
      <3>1. run.spans \in Seq(Span) /\ Len(run.spans) \in Nat
        BY DEF TypeOK
      <3>2. /\ Len(run'.spans) = Len(run.spans) + 1
            /\ run'.spans[Len(run.spans) + 1] = s
            /\ \A i \in 1..Len(run.spans) : run'.spans[i] = run.spans[i]
        BY <2>1, <3>1
      <3>a. Spanned' = {run'.spans[i].file : i \in 1..(Len(run.spans) + 1)}
        BY <3>2 DEF Spanned
      <3>b. Spanned \union {s.file} \subseteq Spanned'
        BY <3>1, <3>2, <3>a DEF Spanned
      <3>c. ASSUME NEW i \in 1..(Len(run.spans) + 1) PROVE run'.spans[i].file \in Spanned \union {s.file}
        <4>1. i \in 1..Len(run.spans) \/ i = Len(run.spans) + 1
          BY <3>1
        <4> QED
          BY <3>2, <4>1 DEF Spanned
      <3>3. Spanned' = Spanned \union {s.file}
        BY <3>a, <3>b, <3>c
      <3>4. s.file = File
        BY DEF s
      <3> QED
        BY <1>3, <2>1, <3>3, <3>4 DEF s
    <2> QED
      BY <1>1, <1>3, <2>1, ParseEffect
  <1>4. CASE Approach \/ LastFileDone \/ DeleteSymbols \/ PurgeVectors
             \/ EmbeddingDone \/ MarkEmbedded \/ InterruptedLate
    BY <1>1, <1>4, MoveEffect DEF Kept, KeptItems
  <1>5. CASE WalkSucceeds \/ NextFile \/ InsertFile
    BY <1>1, <1>5, WalkEffect, NextEffect, InsertEffect DEF KeptItems
  <1>6. CASE RemoveFile \/ RemoveVectors \/ BeginEmbedding \/ EmbedBatch
    BY <1>1, <1>6, RemoveEffect, RemoveVectorsEffect, BeginEffect, EmbedEffect DEF KeptItems
  <1>7. CASE UNCHANGED run
    BY <1>1, <1>7
  <1> QED
    BY <1>2, <1>3, <1>4, <1>5, <1>6, <1>7, RunSteps

LEMMA RunInvStep ==
  ASSUME TypeOK, CloneInv, FormerInv, TornInv, RunInv, [Next]_vars
  PROVE  RunInv'
  <1>0. /\ Spanned \subseteq Files /\ run.todo \subseteq Files /\ run.gone \subseteq Files
        /\ \A f \in Walked(clone.tree) : f \in Files /\ clone.tree[f] # None /\ Listed(clone.tree, f) = clone.tree[f]
    BY WalkedFiles DEF RunInv, TypeOK
  <1>1. \A f \in Files : former[f] \subseteq former'[f]
    BY FormerGrows
  <1>2. CASE RunApart
    <2>1. UNCHANGED <<run, row, clone, torn, symbols, job, lastSha>>
      BY <1>2, ApartEffect
    <2>2. Spanned' = Spanned /\ AtHand' = AtHand /\ Walked(clone.tree)' = Walked(clone.tree)
      BY <2>1 DEF Spanned, AtHand, HasRow, Walked
    <2>3. \A f : HasRow(f)' = HasRow(f) /\ Unchanged(f)' = Unchanged(f)
      BY <2>1 DEF HasRow, Unchanged
    <2>4. /\ \A f \in Spanned : f \notin torn \/ None \in former'[f]
          /\ run.pc = "parse" => run.file \notin torn \/ None \in former'[run.file]
      BY <1>0, <1>1 DEF RunInv, Taking
    <2> QED
      BY <2>1, <2>2, <2>3, <2>4 DEF RunInv
  <1>3. CASE RunReset
    <2>1. Spanned' = {} /\ AtHand' = {}
      BY <1>3, ResetEffect DEF Spanned, AtHand
    <2> QED
      BY <1>3, <2>1, ResetEffect DEF RunInv, Taking, Ending, Early
  <1>4. CASE Approach
    <2>1. run'.todo = {} /\ run'.gone = {} /\ run'.spans = <<>> /\ run'.pc \in {"reset", "record", "touch", "walk"}
      BY <1>4, MoveEffect DEF Kept, CloneInv, Early
    <2>2. Spanned' = {} /\ AtHand' = {}
      BY <2>1 DEF Spanned, AtHand
    <2> QED
      BY <2>1, <2>2 DEF RunInv, Taking, Ending, Early
  <1>5. CASE WalkSucceeds
    <2>1. Spanned' = {} /\ AtHand' = {}
      <3>1. run'.spans = <<>> /\ run'.pc = "next"
        BY <1>5, WalkEffect DEF CloneInv, Early
      <3> QED
        BY <3>1 DEF Spanned, AtHand
    <2>2. UNCHANGED <<row, clone, torn>>
      BY <1>5 DEF WalkSucceeds, tables, copy
    <2>3. Walked(clone.tree)' = Walked(clone.tree) /\ \A f : HasRow(f)' = HasRow(f)
      BY <2>2 DEF Walked, HasRow
    <2> QED
      BY <1>5, <2>1, <2>2, <2>3, WalkEffect DEF RunInv, Taking, Ending, Early
  <1> DEFINE Frame == UNCHANGED <<row, clone, torn>>
  <1>6. ASSUME Frame PROVE /\ Walked(clone.tree)' = Walked(clone.tree) /\ \A f : HasRow(f)' = HasRow(f)
                           /\ run'.model = run.model => \A f : Unchanged(f)' = Unchanged(f)
    BY <1>6 DEF Walked, HasRow, Unchanged
  <1>7. CASE NextFile
    <2>1. Frame /\ Spanned' = Spanned
      BY <1>7, NextFrame
    <2>2. AtHand' = {}
      BY <1>7, <2>1, <1>6, NextEffect DEF AtHand
    <2> QED
      BY <1>0, <1>1, <1>6, <1>7, <2>1, <2>2, NextEffect DEF RunInv, Taking, Ending, Early, KeptItems
  <1>8. CASE LastFileDone
    <2>1. Frame /\ run.todo = {}
      BY <1>8 DEF LastFileDone, tables, copy
    <2>2. Spanned' = Spanned /\ AtHand' = {}
      BY <1>8, MoveEffect DEF Spanned, AtHand, Kept
    <2> QED
      BY <1>0, <1>1, <1>6, <1>8, <2>1, <2>2, MoveEffect DEF RunInv, Taking, Ending, Early, Kept
  <1>9. CASE DeleteSymbols
    <2>1. UNCHANGED <<row, clone>> /\ torn' = torn \union {run.file}
      BY <1>9 DEF DeleteSymbols, File, copy
    <2>2. Spanned' = Spanned /\ AtHand' = {run.file}
      BY <1>9, MoveEffect DEF Spanned, AtHand, Kept
    <2>3. Walked(clone.tree)' = Walked(clone.tree) /\ \A f : HasRow(f)' = HasRow(f)
      BY <2>1 DEF Walked, HasRow
    <2> QED
      BY <1>0, <1>1, <1>9, <2>1, <2>2, <2>3, MoveEffect DEF RunInv, Taking, Ending, Early, Kept
  <1>10. CASE PurgeVectors
    <2>1. Frame
      BY <1>10 DEF PurgeVectors, tables, copy
    <2>2. Spanned' = Spanned /\ AtHand' = {run.file} /\ AtHand = {run.file}
      BY <1>6, <1>10, <2>1, MoveEffect DEF Spanned, AtHand, Kept, RunInv
    <2> QED
      BY <1>0, <1>1, <1>6, <1>10, <2>1, <2>2, MoveEffect DEF RunInv, Taking, Ending, Early, Kept
  <1>11. CASE InsertFile
    <2>1. clone' = clone /\ Walked(clone.tree)' = Walked(clone.tree)
      BY <1>11 DEF InsertFile, Walked, copy
    <2>2. Spanned' = Spanned /\ AtHand' = {}
      BY <1>11, InsertEffect DEF Spanned, AtHand, KeptItems
    <2>3. File \notin Spanned /\ File \notin run.todo /\ File \in Walked(clone.tree) /\ File = run.file
      BY <1>11, InsertEffect DEF RunInv, Taking, File
    <2>4. torn' \subseteq torn
      BY <1>11 DEF InsertFile
    <2>5. \A f \in run.gone : HasRow(f)' /\ f \notin Walked(clone.tree)
      <3>1. \A f \in run.gone : f \in Files \ {File}
        BY <1>0, <2>3 DEF RunInv
      <3> QED
        BY <1>11, <3>1, InsertEffect DEF RunInv, HasRow
    <2>6. CASE UNCHANGED <<row, torn>> /\ run'.pc = "next" /\ run'.file = 0
      BY <1>0, <1>1, <1>11, <2>1, <2>2, <2>4, <2>5, <2>6, InsertEffect DEF RunInv, Taking, Ending, Early, KeptItems
    <2>7. CASE /\ Works /\ run'.pc = "parse" /\ run'.file = File
               /\ row'[File] = [hash |-> Content, model |-> None]
               /\ torn' = IF HasRow(File) THEN torn \ {File} ELSE torn
      <3>1. File \notin torn' \/ None \in former[File]
        <4>1. CASE HasRow(File)
          BY <2>7, <4>1
        <4>2. CASE ~HasRow(File) /\ File \in torn
          <5>1. None \in former[File] \/ Gone(File)
            BY <4>2 DEF TornInv
          <5>2. InClone(File) # None /\ Cloned
            BY <1>0, <1>11, <2>3, InsertEffect DEF InClone, CloneInv
          <5> QED
            BY <5>1, <5>2 DEF Gone
        <4> QED
          BY <2>7, <4>1, <4>2
      <3>2. row'[run'.file] = [hash |-> clone'.tree[run'.file], model |-> None]
        BY <2>1, <2>7 DEF Content, File
      <3> QED
        BY <1>0, <1>1, <1>11, <2>1, <2>2, <2>3, <2>4, <2>5, <2>7, <3>1, <3>2, InsertEffect
           DEF RunInv, Taking, Ending, Early, KeptItems
    <2> QED
      BY <1>11, <2>6, <2>7, InsertEffect
  <1>12. CASE ParseFile
    <2>1. Frame
      BY <1>12 DEF ParseFile, copy
    <2>2. Spanned' \subseteq Spanned \union {File} /\ AtHand' = {}
      <3>1. AtHand' = {}
        BY <1>12, ParseEffect DEF AtHand
      <3>2. ~RunReset
        BY <1>12, ParseEffect, ResetEffect
      <3> QED
        BY <3>1, <3>2, SpannedStep
    <2>3. /\ File \notin run.todo /\ File \in Walked(clone.tree) /\ File = run.file
          /\ File \notin torn \/ None \in former[File]
      BY <1>12, ParseEffect DEF RunInv, Taking, File
    <2> QED
      BY <1>0, <1>1, <1>6, <1>12, <2>1, <2>2, <2>3, ParseEffect DEF RunInv, Taking, Ending, Early
  <1>13. CASE RemoveFile
    <2>1. clone' = clone /\ Walked(clone.tree)' = Walked(clone.tree) /\ UNCHANGED former
      BY <1>13 DEF RemoveFile, Walked, env, copy
    <2>2. Spanned' = Spanned /\ AtHand' = {run'.file}
      BY <1>13, RemoveEffect DEF Spanned, AtHand, KeptItems
    <2>3. PICK g \in run.gone :
              /\ g \in Files /\ g \notin Walked(clone.tree) /\ HasRow(g)
              /\ run'.file = g /\ run'.gone = run.gone \ {g} /\ torn' = torn \union {g}
              /\ \A f \in Files \ {g} : row'[f] = row[f]
      BY <1>13, RemoveEffect
    <2>4. \A f \in run'.gone : HasRow(f)' /\ f \notin Walked(clone.tree)
      BY <1>0, <2>3 DEF RunInv, HasRow
    <2> QED
      BY <1>0, <1>13, <2>1, <2>2, <2>3, <2>4, RemoveEffect DEF RunInv, Taking, Ending, Early, KeptItems
  <1>14. CASE RemoveVectors
    <2>1. UNCHANGED <<row, clone>> /\ torn' \subseteq torn
      BY <1>14 DEF RemoveVectors, tables, copy
    <2>2. Spanned' = Spanned /\ AtHand' = {}
      BY <1>14, RemoveVectorsEffect DEF Spanned, AtHand, KeptItems
    <2>3. Walked(clone.tree)' = Walked(clone.tree) /\ \A f : HasRow(f)' = HasRow(f)
      BY <2>1 DEF Walked, HasRow
    <2> QED
      BY <1>0, <1>1, <1>14, <2>1, <2>2, <2>3, RemoveVectorsEffect DEF RunInv, Taking, Ending, Early, KeptItems
  <1>15. CASE BeginEmbedding \/ EmbedBatch
    <2>1. Frame
      BY <1>15 DEF BeginEmbedding, EmbedBatch, tables, copy
    <2>2. Spanned' = Spanned /\ AtHand' = {}
      BY <1>15, BeginEffect, EmbedEffect DEF Spanned, AtHand
    <2> QED
      BY <1>0, <1>1, <1>6, <1>15, <2>1, <2>2, BeginEffect, EmbedEffect DEF RunInv, Taking, Ending, Early
  <1>16. CASE EmbeddingDone
    <2>1. Frame
      BY <1>16 DEF EmbeddingDone, tables, copy
    <2>2. Spanned' = Spanned /\ AtHand' = {}
      BY <1>16, MoveEffect DEF Spanned, AtHand, Kept
    <2> QED
      BY <1>0, <1>1, <1>6, <1>16, <2>1, <2>2, MoveEffect DEF RunInv, Taking, Ending, Early, Kept
  <1>17. CASE MarkEmbedded
    <2>1. UNCHANGED <<clone, torn>> /\ Walked(clone.tree)' = Walked(clone.tree)
      BY <1>17 DEF MarkEmbedded, Walked, copy
    <2>2. Spanned' = Spanned /\ AtHand' = {}
      BY <1>17, MoveEffect DEF Spanned, AtHand, Kept
    <2> QED
      BY <1>0, <1>1, <1>17, <2>1, <2>2, MoveEffect DEF RunInv, Taking, Ending, Early, Kept
  <1>18. CASE InterruptedLate
    <2>1. Frame
      BY <1>18 DEF InterruptedLate, tables, copy
    <2>2. Spanned' = Spanned /\ AtHand' = {}
      BY <1>18, MoveEffect DEF Spanned, AtHand, KeptItems
    <2> QED
      BY <1>0, <1>1, <1>6, <1>18, <2>1, <2>2, MoveEffect DEF RunInv, Taking, Ending, Early, KeptItems
  <1> QED
    BY <1>2, <1>3, <1>4, <1>5, <1>7, <1>8, <1>9, <1>10, <1>11, <1>12, <1>13, <1>14, <1>15, <1>16,
       <1>17, <1>18, Steps

LEMMA SpanStep ==
  ASSUME TypeOK, CloneInv, RunInv, SpanInv, [Next]_vars
  PROVE  SpanInv'
  <1>0. /\ Spanned \subseteq Files /\ run.items \in Seq(Item) /\ run.spans \in Seq(Span)
        /\ Len(run.items) \in Nat /\ Len(run.spans) \in Nat
        /\ \A i \in 1..Len(run.spans) : run.spans[i] \in Span /\ run.spans[i].file \in Spanned
    <2>1. run.items \in Seq(Item) /\ run.spans \in Seq(Span)
      BY DEF TypeOK
    <2>2. Spanned \subseteq Files
      BY WalkedFiles DEF RunInv
    <2> QED
      BY <2>1, <2>2 DEF Spanned
  <1>1. \A f \in Spanned : row'[f].hash = row[f].hash
    <2> TAKE f \in Spanned
    <2>1. f \in Files /\ f \in Walked(clone.tree)
      BY <1>0 DEF RunInv
    <2>2. ~(InsertFile /\ f = File)
      BY DEF InsertFile, RunInv, Taking, File
    <2>3. f \notin run.gone
      BY <2>1 DEF RunInv
    <2> QED
      BY <2>1, <2>2, <2>3, RowsKept
  <1>2. \A i \in 1..Len(run.spans) :
          /\ row[run.spans[i].file].hash \in Versions
          /\ ChunkCount[row[run.spans[i].file].hash] \in Nat
          /\ run.spans[i].start \in Nat
    <2> TAKE i \in 1..Len(run.spans)
    <2>1. row[run.spans[i].file].hash \in Versions
      BY <1>0 DEF SpanInv, TypeOK
    <2> QED
      BY <1>0, <2>1, ChunkCounts DEF Span
  (* Nothing is added. *)
  <1>3. ASSUME Spanned' = Spanned, run'.spans = run.spans,
               Len(run'.items) \in Nat, Len(run'.items) <= Len(run.items),
               \A k \in 1..Len(run'.items) : run'.items[k] = run.items[k],
               \/ run'.items = run.items /\ (run'.pc \in Taking \union {"next"} => run.pc \in Taking \union {"next"})
               \/ run'.pc \notin Taking \union {"next"}
        PROVE  SpanInv'
    <2>1. ASSUME NEW i \in 1..Len(run'.spans)
          PROVE  LET s == run'.spans[i]  v == row'[s.file].hash IN
                 /\ v # None
                 /\ s.end = s.start + ChunkCount[v]
                 /\ run'.pc \in Taking \union {"next"} => s.end <= Len(run'.items)
                 /\ \A k \in 1..ChunkCount[v] : s.start + k <= Len(run'.items) =>
                      run'.items[s.start + k] = [file |-> s.file, version |-> v, chunk |-> k]
      <3> DEFINE s == run.spans[i]  v == row[s.file].hash
      <3>1. s = run'.spans[i] /\ v = row'[s.file].hash /\ i \in 1..Len(run.spans)
        BY <1>0, <1>1, <1>3
      <3>2. /\ v # None
            /\ s.end = s.start + ChunkCount[v]
            /\ run.pc \in Taking \union {"next"} => s.end <= Len(run.items)
            /\ \A k \in 1..ChunkCount[v] : s.start + k <= Len(run.items) =>
                 run.items[s.start + k] = [file |-> s.file, version |-> v, chunk |-> k]
            /\ ChunkCount[v] \in Nat /\ s.start \in Nat
        BY <1>2, <3>1 DEF SpanInv
      <3> HIDE DEF s, v
      <3>3. ASSUME NEW k \in 1..ChunkCount[v], s.start + k <= Len(run'.items)
            PROVE  run'.items[s.start + k] = [file |-> s.file, version |-> v, chunk |-> k]
        <4>1. s.start + k \in 1..Len(run'.items) /\ s.start + k <= Len(run.items)
          BY <1>0, <1>3, <3>2, <3>3
        <4> QED
          BY <1>3, <3>2, <4>1
      <3> QED
        BY <1>3, <3>1, <3>2, <3>3
    <2>2. ASSUME NEW k \in 1..Len(run'.items)
          PROVE  LET x == run'.items[k] IN
                 x.file \in Spanned' /\ x.version = row'[x.file].hash /\ x.chunk \in 1..ChunkCount[x.version]
      <3>1. k \in 1..Len(run.items) /\ run'.items[k] = run.items[k]
        BY <1>0, <1>3
      <3> QED
        BY <1>1, <1>3, <3>1 DEF SpanInv
    <2> QED
      BY <2>1, <2>2 DEF SpanInv
  <1>4. CASE RunReset
    <2>1. run'.items = <<>> /\ run'.spans = <<>>
      BY <1>4, ResetEffect
    <2> QED
      BY <2>1 DEF SpanInv
  <1>5. CASE ParseFile
    <2>1. CASE run'.items = run.items /\ run'.spans = run.spans
      BY <1>0, <1>3, <1>5, <2>1, ParseEffect DEF Spanned, Taking
    <2> DEFINE c == ChunkCount[Content]
               n == [file |-> File, start |-> Len(run.items), end |-> Len(run.items) + c]
    <2>2. CASE run'.items = run.items \o NewItems /\ run'.spans = Append(run.spans, n)
      <3>1. /\ c \in Nat /\ Content \in Versions /\ Content # None
            /\ run'.items \in Seq(Item) /\ Len(run'.items) = Len(run.items) + c
            /\ \A k \in 1..Len(run.items) : run'.items[k] = run.items[k]
            /\ \A k \in 1..c : run'.items[Len(run.items) + k] = [file |-> File, version |-> Content, chunk |-> k]
        BY <1>5, <2>2, ParseEffect, AtHandTypes, NewItemsTypes, IngestionAssumption DEF Taking
      <3>2. row'[File].hash = Content
        <4>1. row[run.file] = [hash |-> clone.tree[run.file], model |-> None] /\ row' = row
          BY <1>5, ParseEffect DEF RunInv
        <4> QED
          BY <4>1 DEF Content, File
      <3>3. Spanned' = Spanned \union {File}
        <4>1. ~RunReset
          BY <1>5, ParseEffect, ResetEffect
        <4>2. run'.spans # run.spans
          BY <1>0, <2>2
        <4> QED
          BY <4>1, <4>2, SpannedStep
      <3> HIDE DEF c, n
      <3>4. /\ Len(run'.spans) = Len(run.spans) + 1 /\ run'.spans[Len(run.spans) + 1] = n
            /\ \A i \in 1..Len(run.spans) : run'.spans[i] = run.spans[i]
        BY <1>0, <2>2
      <3>5. ASSUME NEW i \in 1..Len(run.spans)
            PROVE  LET s == run'.spans[i]  v == row'[s.file].hash IN
                   /\ v # None
                   /\ s.end = s.start + ChunkCount[v]
                   /\ s.end <= Len(run'.items)
                   /\ \A k \in 1..ChunkCount[v] : s.start + k <= Len(run'.items) =>
                        run'.items[s.start + k] = [file |-> s.file, version |-> v, chunk |-> k]
        <4> DEFINE s == run.spans[i]  v == row[s.file].hash
        <4>1. s = run'.spans[i] /\ v = row'[s.file].hash
          BY <1>0, <1>1, <3>4
        <4>2. /\ v # None
              /\ s.end = s.start + ChunkCount[v]
              /\ s.end <= Len(run.items)
              /\ \A k \in 1..ChunkCount[v] : s.start + k <= Len(run.items) =>
                   run.items[s.start + k] = [file |-> s.file, version |-> v, chunk |-> k]
              /\ ChunkCount[v] \in Nat /\ s.start \in Nat
          BY <1>2, <1>5, ParseEffect DEF SpanInv, Taking
        <4> HIDE DEF s, v
        <4>3. ASSUME NEW k \in 1..ChunkCount[v]
              PROVE  run'.items[s.start + k] = [file |-> s.file, version |-> v, chunk |-> k]
          <5> DEFINE j == s.start + k
          <5>1. j \in 1..Len(run.items) /\ j <= Len(run.items)
            BY <1>0, <4>2
          <5>2. run.items[j] = [file |-> s.file, version |-> v, chunk |-> k]
            BY <4>2, <5>1
          <5>3. run'.items[j] = run.items[j]
            BY <3>1, <5>1
          <5> QED
            BY <5>2, <5>3
        <4>4. s.end <= Len(run'.items)
          BY <1>0, <3>1, <4>2 DEF c
        <4> QED
          BY <4>1, <4>2, <4>3, <4>4
      <3>6. /\ n.file = File /\ n.start = Len(run.items) /\ n.end = Len(run.items) + c
        BY DEF n
      <3>7. LET v == row'[n.file].hash IN
                   /\ v # None
                   /\ n.end = n.start + ChunkCount[v]
                   /\ n.end <= Len(run'.items)
                   /\ \A k \in 1..ChunkCount[v] : n.start + k <= Len(run'.items) =>
                        run'.items[n.start + k] = [file |-> n.file, version |-> v, chunk |-> k]
        BY <1>0, <3>1, <3>2, <3>6 DEF c
      <3>8. ASSUME NEW k \in 1..Len(run'.items)
            PROVE  LET x == run'.items[k] IN
                   x.file \in Spanned' /\ x.version = row'[x.file].hash /\ x.chunk \in 1..ChunkCount[x.version]
        <4>1. CASE k \in 1..Len(run.items)
          BY <1>1, <3>1, <3>3, <4>1 DEF SpanInv
        <4>2. CASE k \notin 1..Len(run.items)
          <5> DEFINE j == k - Len(run.items)
          <5>1. j \in 1..c /\ k = Len(run.items) + j
            BY <1>0, <3>1, <4>2
          <5>2. run'.items[k] = [file |-> File, version |-> Content, chunk |-> j]
            BY <3>1, <5>1
          <5>3. /\ run'.items[k].file = File /\ run'.items[k].version = Content /\ run'.items[k].chunk = j
            BY <5>2
          <5> QED
            BY <3>2, <3>3, <5>1, <5>3 DEF c
        <4> QED
          BY <4>1, <4>2
      <3>9. \A i \in 1..Len(run'.spans) : i \in 1..Len(run.spans) \/ run'.spans[i] = n
        BY <1>0, <3>4
      <3> QED
        BY <3>5, <3>7, <3>8, <3>9 DEF SpanInv
    <2> QED
      BY <1>5, <2>1, <2>2, ParseEffect
  <1>6. CASE RunApart
    <2>1. run' = run /\ Spanned' = Spanned
      BY <1>6, ApartEffect DEF Spanned
    <2> QED
      BY <1>0, <1>3, <2>1
  <1>7. CASE Approach \/ WalkSucceeds
    <2>1. run'.items = <<>> /\ run'.spans = <<>>
      BY <1>7, MoveEffect, WalkEffect DEF Kept, CloneInv, Early
    <2> QED
      BY <2>1 DEF SpanInv
  <1>8. CASE NextFile \/ InsertFile \/ RemoveFile \/ RemoveVectors
    <2>1. /\ run'.items = run.items /\ run'.spans = run.spans
          /\ run'.pc \in Taking \union {"next"} => run.pc \in Taking \union {"next"}
      BY <1>8, NextEffect, InsertEffect, RemoveEffect, RemoveVectorsEffect DEF KeptItems, Taking
    <2> QED
      BY <1>0, <1>3, <2>1 DEF Spanned
  <1>9. CASE LastFileDone \/ DeleteSymbols \/ PurgeVectors \/ EmbeddingDone \/ MarkEmbedded \/ InterruptedLate
    <2>1. /\ run'.items = run.items /\ run'.spans = run.spans
          /\ run'.pc \in Taking \union {"next"} => run.pc \in Taking \union {"next"}
      BY <1>9, MoveEffect DEF Kept, KeptItems, Taking
    <2> QED
      BY <1>0, <1>3, <2>1 DEF Spanned
  <1>10. CASE BeginEmbedding \/ EmbedBatch
    <2>1. /\ run'.spans = run.spans /\ run'.pc \notin Taking \union {"next"}
          /\ Len(run'.items) <= Len(run.items) /\ \A k \in 1..Len(run'.items) : run'.items[k] = run.items[k]
      BY <1>0, <1>10, BeginEffect, EmbedEffect DEF Taking
    <2>2. Len(run'.items) \in Nat
      BY RunTypeStep DEF RunsOf
    <2> QED
      BY <1>3, <2>1, <2>2 DEF Spanned
  <1> QED
    BY <1>4, <1>5, <1>6, <1>7, <1>8, <1>9, <1>10, Steps

(* Vectors of the sidecar's model are only lost with their file's. *)
LEMMA VectorsKept ==
  ASSUME TypeOK, RunInv, [Next]_vars, NEW f \in Files
  PROVE  \/ /\ PurgeVectors \/ RemoveVectors
            /\ f = File /\ File = run.file /\ vectors'[f] = {}
         \/ \A x \in vectors[f] : x.model = model => x \in vectors'[f]
  <1>1. Reconciled[f] = {x \in vectors[f] : x.model = model}
    BY ReconciledTypes
  <1>2. CASE Search \/ LateStore
    BY <1>1, <1>2 DEF Search, LateStore
  <1>3. CASE PurgeVectors \/ RemoveVectors
    <2>1. vectors' = [Reconciled EXCEPT ![File] = {}] \/ vectors' = vectors
      BY <1>3 DEF PurgeVectors, RemoveVectors, Purge, PurgeFails, vectorTable
    <2>2. Reconciled \in [Files -> SUBSET Vector] /\ File = run.file
      BY ReconciledTypes DEF File
    <2> QED
      BY <1>1, <1>3, <2>1, <2>2
  <1>4. CASE EmbedBatch
    BY <1>1, <1>4, EmbedEffect
  <1> QED
    BY <1>2, <1>3, <1>4, VectorSteps

(* Only a batch adds some, but for those that come late. *)
LEMMA VectorsAdded ==
  ASSUME TypeOK, [Next]_vars, NEW f \in Files
  PROVE  \/ vectors'[f] \ strays'[f] \subseteq vectors[f] \ strays[f]
         \/ EmbedBatch /\ vectors'[f] \ strays'[f] \subseteq (vectors[f] \ strays[f]) \union Batch(f)
  <1>1. Reconciled[f] = {x \in vectors[f] : x.model = model} /\ Reconciled \in [Files -> SUBSET Vector]
    BY ReconciledTypes
  <1>2. CASE Search
    BY <1>1, <1>2 DEF Search
  <1>5. CASE LateStore
    BY <1>1, <1>5 DEF LateStore
  <1>3. CASE PurgeVectors \/ RemoveVectors
    <2>1. Purge \/ UNCHANGED <<vectors, strays>>
      BY <1>3 DEF PurgeVectors, RemoveVectors, PurgeFails, vectorTable
    <2>2. strays \in [Files -> SUBSET Vector]
      BY DEF TypeOK
    <2>3. CASE Purge
      <3>1. /\ vectors'[f] = (IF f = File THEN {} ELSE Reconciled[f])
            /\ f # File => strays'[f] = strays[f]
        BY <1>1, <2>2, <2>3 DEF Purge
      <3> QED
        BY <1>1, <3>1
    <2> QED
      BY <2>1, <2>3
  <1>4. CASE EmbedBatch
    BY <1>1, <1>4, EmbedEffect
  <1> QED
    BY <1>2, <1>3, <1>4, <1>5, VectorSteps

LEMMA ChunkedMembers ==
  ASSUME NEW v, NEW x
  PROVE  x \in Chunked(v) <=> v # None /\ \E c \in 1..ChunkCount[v] : x = [version |-> v, chunk |-> c, model |-> model]
  BY DEF Chunked, Chunks

(* A file's items, as far as they are stored, are chunks of its content. *)
LEMMA BatchMembers ==
  ASSUME TypeOK, SpanInv, NEW f \in Files, NEW x \in Batch(f)
  PROVE  f \in Spanned /\ x \in Chunked(row[f].hash)
  <1>1. PICK k \in 1..Len(run.items) :
          run.items[k].file = f /\ x = [version |-> run.items[k].version, chunk |-> run.items[k].chunk, model |-> model]
    BY BatchEnds DEF Batch, TypeOK
  <1>2. /\ f \in Spanned /\ run.items[k].version = row[f].hash
        /\ run.items[k].chunk \in 1..ChunkCount[row[f].hash]
    BY <1>1 DEF SpanInv
  <1>3. row[f].hash # None
    BY <1>2 DEF SpanInv, Spanned
  <1> QED
    BY <1>1, <1>2, <1>3, ChunkedMembers

(* A file whose span is through has all its chunks in the vector table. *)
LEMMA SpannedStored ==
  ASSUME TypeOK, SpanInv, NEW f \in FullyEmbedded(run.spans, run.embedded), f \in Files,
         \A k \in 1..run.embedded : Stored(run.items[k]) \in vectors[run.items[k].file]
  PROVE  Chunked(row[f].hash) \subseteq vectors[f]
  <1> DEFINE v == row[f].hash
  <1>1. PICK i \in 1..Len(run.spans) :
          /\ run.spans[i].file = f
          /\ run.spans[i].end <= run.embedded \/ run.spans[i].start = run.spans[i].end
    BY DEF FullyEmbedded
  <1> DEFINE s == run.spans[i]
  <1>2. /\ v # None /\ s.end = s.start + ChunkCount[v]
        /\ \A k \in 1..ChunkCount[v] : s.start + k <= Len(run.items) =>
              run.items[s.start + k] = [file |-> f, version |-> v, chunk |-> k]
    BY <1>1 DEF SpanInv
  <1>a. /\ run.embedded \in Nat /\ Len(run.items) \in Nat /\ run.embedded <= Len(run.items)
        /\ run.spans \in Seq(Span)
    BY DEF TypeOK
  <1>b. s \in Span
    BY <1>a
  <1>3. s.start \in Nat /\ run.embedded \in Nat /\ Len(run.items) \in Nat /\ run.embedded <= Len(run.items)
    BY <1>a, <1>b DEF Span
  <1>4. ChunkCount[v] \in Nat
    BY <1>2, ChunkCounts DEF TypeOK
  <1>5. run.spans[i].end <= run.embedded \/ ChunkCount[v] = 0
    BY <1>1, <1>2, <1>3, <1>4
  <1> HIDE DEF s, v
  <1> SUFFICES ASSUME NEW c \in 1..ChunkCount[v]
               PROVE  [version |-> v, chunk |-> c, model |-> model] \in vectors[f]
    BY ChunkedMembers DEF v
  <1>6. s.start + c \in 1..run.embedded /\ s.start + c <= Len(run.items)
    BY <1>2, <1>3, <1>4, <1>5 DEF s
  <1>7. run.items[s.start + c] = [file |-> f, version |-> v, chunk |-> c]
    BY <1>2, <1>6
  <1>8. Stored(run.items[s.start + c]) \in vectors[run.items[s.start + c].file]
    BY <1>6
  <1> QED
    BY <1>7, <1>8 DEF Stored

LEMMA SearchStep ==
  ASSUME TypeOK, CloneInv, ModelInv, RunInv, SpanInv, SearchInv, [Next]_vars
  PROVE  SearchInv'
  <1> SUFFICES ASSUME model' \notin left'
               PROVE  /\ run'.model = model' =>
                           \A k \in 1..run'.embedded :
                             [version |-> run'.items[k].version, chunk |-> run'.items[k].chunk, model |-> model']
                                \in vectors'[run'.items[k].file]
                      /\ \A f \in Files \ torn' :
                           HasRow(f)' /\ row'[f].model = model' => Chunked(row[f].hash)' \subseteq vectors'[f]
    BY DEF SearchInv, Stored
  <1>0. left \subseteq Models /\ model \in Models /\ None \notin Models
    BY IngestionAssumption DEF TypeOK
  <1>1. CASE SwitchModel
    <2>1. left' = left \union {model} /\ model' # model /\ row' = row /\ run' = run /\ model' \in Models
      BY <1>1 DEF SwitchModel, tables
    <2>2. run.model # model' /\ \A f \in Files : row[f].model # model'
      BY <1>0, <2>1 DEF ModelInv
    <2> QED
      BY <2>1, <2>2
  <1>2. CASE model' = model /\ left' = left
    <2>1. /\ run.model = model =>
               \A k \in 1..run.embedded : Stored(run.items[k]) \in vectors[run.items[k].file]
          /\ \A f \in Files \ torn :
               HasRow(f) /\ row[f].model = model => Chunked(row[f].hash) \subseteq vectors[f]
      BY <1>2 DEF SearchInv
    <2>2. /\ run.items \in Seq(Item) /\ run.embedded \in Nat /\ Len(run.items) \in Nat
          /\ run.embedded <= Len(run.items)
          /\ \A k \in 1..Len(run.items) : run.items[k].file \in Files
      <3>1. /\ run.items \in Seq(Item) /\ run.embedded \in Nat /\ Len(run.items) \in Nat
            /\ run.embedded <= Len(run.items)
        BY DEF TypeOK
      <3>2. \A k \in 1..Len(run.items) : run.items[k] \in Item
        BY <3>1
      <3> QED
        BY <3>1, <3>2 DEF Item
    <2>3. ASSUME run'.model = model, NEW k \in 1..run'.embedded
          PROVE  [version |-> run'.items[k].version, chunk |-> run'.items[k].chunk, model |-> model]
                     \in vectors'[run'.items[k].file]
      <3>1. run'.pc \in Ending
        BY <2>3, CloneStep DEF CloneInv
      <3>2. CASE EmbedBatch
        <4>1. CASE k \in 1..run.embedded
          <5>1. run.model = model /\ run'.items = run.items
            BY <2>3, <3>2, EmbedEffect
          <5>2. [version |-> run.items[k].version, chunk |-> run.items[k].chunk, model |-> model]
                   \in vectors[run.items[k].file]
            BY <2>1, <4>1, <5>1 DEF Stored
          <5>3. run.items[k].file \in Files
            BY <2>2, <4>1
          <5>4. ~PurgeVectors /\ ~RemoveVectors
            BY <3>2 DEF EmbedBatch, Sending, PurgeVectors, RemoveVectors
          <5> QED
            BY <5>1, <5>2, <5>3, <5>4, VectorsKept
        <4>2. CASE k \notin 1..run.embedded
          <5>1. /\ run'.items = run.items /\ run'.embedded = BatchEnd
                /\ \A f \in Files : vectors'[f] = Reconciled[f] \union Batch(f)
            BY <2>3, <3>2, <4>2, EmbedEffect
          <5>2. k \in run.embedded + 1 .. BatchEnd /\ k \in 1..Len(run.items)
            BY <2>2, <4>2, <5>1, BatchEnds
          <5>3. run.items[k].file \in Files
            BY <2>2, <5>2
          <5>4. [version |-> run.items[k].version, chunk |-> run.items[k].chunk, model |-> model]
                  \in Batch(run.items[k].file)
            BY <5>2 DEF Batch
          <5> QED
            BY <5>1, <5>3, <5>4
        <4> QED
          BY <4>1, <4>2
      <3>3. CASE ~EmbedBatch
        <4>1. run'.items = run.items /\ run'.embedded = run.embedded /\ run'.model = run.model
          <5>1. CASE LastFileDone \/ DeleteSymbols \/ PurgeVectors \/ EmbeddingDone \/ MarkEmbedded \/ InterruptedLate
            BY <5>1, MoveEffect DEF Kept, KeptItems
          <5>2. CASE UNCHANGED run
            BY <5>2
          <5>3. CASE RunReset
            BY <3>1, <5>3, ResetEffect DEF Ending
          <5>4. CASE Approach \/ WalkSucceeds
            BY <3>1, <5>4, MoveEffect, WalkEffect DEF Ending, Early
          <5>5. CASE NextFile \/ InsertFile \/ ParseFile \/ RemoveFile \/ RemoveVectors
            BY <3>1, <5>5, NextEffect, InsertEffect, ParseEffect, RemoveEffect, RemoveVectorsEffect DEF Ending
          <5>6. CASE BeginEmbedding
            BY <2>3, <5>6, BeginEffect
          <5> QED
            BY <3>3, <5>1, <5>2, <5>3, <5>4, <5>5, <5>6, RunSteps
        <4>2. k \in 1..run.embedded /\ k \in 1..Len(run.items) /\ run.model = model
          BY <2>2, <2>3, <4>1
        <4>3. [version |-> run.items[k].version, chunk |-> run.items[k].chunk, model |-> model]
                   \in vectors[run.items[k].file]
          BY <2>1, <4>2 DEF Stored
        <4>4. run.items[k].file \in Files
          BY <2>2, <4>2
        <4>5. ~PurgeVectors /\ ~RemoveVectors
          BY <3>1, MoveEffect, RemoveVectorsEffect DEF Ending
        <4> QED
          BY <4>1, <4>3, <4>4, <4>5, VectorsKept
      <3> QED
        BY <3>2, <3>3
    <2>4. ASSUME NEW f \in Files \ torn', HasRow(f)', row'[f].model = model
          PROVE  Chunked(row[f].hash)' \subseteq vectors'[f]
      <3>1. Chunked(row[f].hash)' = Chunked(row'[f].hash)
        BY <1>2 DEF Chunked
      <3>2. ~(InsertFile /\ f = File /\ row'[f] = [hash |-> Content, model |-> None])
        BY <1>0, <2>4
      <3>3. CASE row'[f] = row[f]
        <4>1. HasRow(f) /\ row[f].model = model
          BY <2>4, <3>3 DEF HasRow
        <4>2. f \notin torn
          <5>1. ASSUME InsertFile, f \in torn PROVE FALSE
            BY <1>0, <2>4, <3>2, <3>3, <5>1, InsertEffect DEF HasRow
          <5>2. ASSUME RemoveVectors, f \in torn PROVE FALSE
            BY <2>4, <4>1, <5>2, RemoveVectorsEffect
          <5> QED
            BY <2>4, <5>1, <5>2, TornSteps DEF DeleteSymbols, RemoveFile
        <4>3. Chunked(row[f].hash) \subseteq vectors[f]
          BY <2>1, <4>1, <4>2
        <4>4. ~((PurgeVectors \/ RemoveVectors) /\ f = File /\ File = run.file)
          <5>1. PurgeVectors \/ RemoveVectors => AtHand = {run.file}
            BY DEF AtHand, PurgeVectors, RemoveVectors
          <5> QED
            BY <4>2, <5>1 DEF RunInv
        <4>5. \A x \in Chunked(row[f].hash) : x.model = model
          BY ChunkedMembers
        <4> QED
          BY <3>1, <3>3, <4>3, <4>4, <4>5, VectorsKept
      <3>4. CASE MarkEmbedded /\ f \in FullyEmbedded(run.spans, run.embedded) /\ row'[f].model = run.model
                   /\ row'[f].hash = row[f].hash
        <4>1. Chunked(row[f].hash) \subseteq vectors[f]
          BY <2>1, <2>4, <3>4, SpannedStored
        <4> QED
          BY <3>1, <3>4, <4>1, MarkEffect
      <3>5. row'[f] # NoRow
        BY <2>4 DEF HasRow, NoRow
      <3> QED
        BY <3>2, <3>3, <3>4, <3>5, RowsKept
    <2> QED
      BY <1>2, <2>3, <2>4
  <1> QED
    BY <1>1, <1>2, ModelSteps

(* As long as every failure leaves a trace, none was passed over. *)
LEMMA CleanSteps ==
  ASSUME TypeOK, CloneInv, [Next]_vars, Clean'
  PROVE  /\ Clean /\ ~cancelled /\ ~InterruptedLate
         /\ \A k \in {"cancel", "store", "read", "purge"} : ~Fault(k)
  <1>1. Clean
    BY FaultsGrow DEF Clean
  <1>2. ~cancelled
    BY <1>1 DEF Clean, CloneInv, Traced
  <1>3. \A k \in {"cancel", "store", "read", "purge"} : ~Fault(k)
    BY DEF Clean, Traced, Fault
  <1> QED
    BY <1>1, <1>2, <1>3 DEF InterruptedLate

LEMMA TablesStep ==
  ASSUME TypeOK, CloneInv, RunInv, SpanInv, TablesInv, FormerInv, TornInv, [Next]_vars
  PROVE  TablesInv'
  <1> DEFINE Agree(f) ==
               /\ f \notin torn' /\ ~HasRow(f)' => Empty(f)'
               /\ HasRow(f)' /\ (f \notin torn' \/ None \notin former'[f]) =>
                    SymbolsAgree(f)' /\ vectors'[f] \ strays'[f] \subseteq Own(f)'
             Hand == /\ run'.pc = "purge" => symbols'[run'.file] = {}
                     /\ run'.pc = "insert" /\ (HasRow(run.file)' \/ run'.file \notin torn') => Empty(run.file)'
                     /\ run'.pc = "parse" /\ run'.file \notin torn' => Empty(run.file)'
                     /\ run'.pc = "removeVectors" => ~HasRow(run.file)' /\ symbols'[run'.file] = {}
  <1> SUFFICES ASSUME Clean' PROVE (\A f \in Files : Agree(f)) /\ Hand
    BY DEF TablesInv
  <1>0. /\ Clean /\ ~cancelled /\ ~InterruptedLate
        /\ ~Fault("cancel") /\ ~Fault("store") /\ ~Fault("read") /\ ~Fault("purge")
    BY CleanSteps
  <1>1. /\ \A f \in Files \ torn : ~HasRow(f) => Empty(f)
        /\ \A f \in Files : HasRow(f) /\ (f \notin torn \/ None \notin former[f]) =>
             SymbolsAgree(f) /\ vectors[f] \ strays[f] \subseteq Own(f)
        /\ run.pc = "purge" => symbols[run.file] = {}
        /\ run.pc = "insert" /\ (HasRow(run.file) \/ run.file \notin torn) => Empty(run.file)
        /\ run.pc = "parse" /\ run.file \notin torn => Empty(run.file)
        /\ run.pc = "removeVectors" => ~HasRow(run.file) /\ symbols[run.file] = {}
    BY <1>0 DEF TablesInv
  <1>2. RunInv' /\ met \subseteq met' /\ \A f \in Files : former[f] \subseteq former'[f]
    BY RunInvStep, FaultsGrow, FormerGrows
  <1>3. \A f \in Spanned : f \in Files /\ HasRow(f) /\ f \in Walked(clone.tree)
    <2>1. \A f \in Spanned : f \in Walked(clone.tree)
      BY DEF RunInv
    <2>2. \A f \in Spanned : HasRow(f)
      BY DEF SpanInv, Spanned, HasRow
    <2> QED
      BY <2>1, <2>2, WalkedFiles
  (* What comes to the vectors that did not come late are chunks of the row's content. *)
  <1>a. ASSUME NEW f \in Files
        PROVE  /\ ~HasRow(f) \/ ~EmbedBatch => vectors'[f] \ strays'[f] \subseteq vectors[f] \ strays[f]
               /\ \A x \in vectors'[f] \ strays'[f] :
                    x \in vectors[f] \ strays[f] \/ (x.version = row[f].hash /\ x.chunk \in Chunks(x.version))
    <2>1. ~HasRow(f) => Batch(f) = {}
      BY <1>3, BatchMembers
    <2>2. \A x \in Batch(f) : x.version = row[f].hash /\ x.chunk \in Chunks(x.version)
      BY BatchMembers DEF Chunked
    <2> QED
      BY <2>1, <2>2, VectorsAdded
  (* A file the step does not touch. *)
  <1>4. ASSUME NEW f \in Files, f \in torn' <=> f \in torn, row'[f] = row[f], symbols'[f] = symbols[f],
               f \in Spanned' => f \in Spanned, run.pc # "parse" \/ run.file # f \/ Excused(f)'
        PROVE  Agree(f)
    <2>1. HasRow(f)' = HasRow(f)
      BY <1>4 DEF HasRow
    <2>2. f \notin torn' /\ ~HasRow(f)' => Empty(f)'
      BY <1>1, <1>4, <1>a, <2>1 DEF Empty
    <2>3. ASSUME HasRow(f)', f \notin torn' \/ None \notin former'[f]
          PROVE  SymbolsAgree(f)' /\ vectors'[f] \ strays'[f] \subseteq Own(f)'
      <3>1. SymbolsAgree(f) /\ vectors[f] \ strays[f] \subseteq Own(f)
        BY <1>1, <1>2, <1>4, <2>1, <2>3
      <3>2. Excused(f) => Excused(f)'
        BY <1>2, <1>4 DEF Excused
      <3>3. SymbolsAgree(f)'
        BY <1>4, <3>1, <3>2 DEF SymbolsAgree
      <3>4. \A x \in vectors'[f] \ strays'[f] : x.version = row[f].hash /\ x.chunk \in Chunks(x.version)
        BY <1>a, <3>1 DEF Own
      <3> QED
        BY <1>4, <3>3, <3>4 DEF Own
    <2> QED
      BY <2>2, <2>3
  (* A file for which nothing is promised. *)
  <1>b. ASSUME NEW f \in Files, f \in torn', ~HasRow(f)' \/ None \in former'[f]
        PROVE  Agree(f)
    BY <1>b
  <1> HIDE DEF Agree
  <1>5. CASE RunApart
    <2>1. UNCHANGED <<run, row, clone, torn, symbols, job, lastSha>>
      BY <1>5, ApartEffect
    <2>2. Spanned' = Spanned /\ (\A f : HasRow(f)' = HasRow(f))
      BY <2>1 DEF Spanned, HasRow
    <2>3. \A f \in Files : run.pc # "parse" \/ run.file # f \/ Excused(f)'
      BY <2>1 DEF Excused
    <2>4. \A f \in Files : Agree(f)
      BY <1>4, <2>1, <2>2, <2>3
    <2>5. run.pc \in {"insert", "parse"} => vectors'[run.file] \ strays'[run.file] \subseteq vectors[run.file] \ strays[run.file]
      BY AtHandTypes, VectorsAdded DEF EmbedBatch, Sending, Taking
    <2> QED
      BY <1>1, <2>1, <2>2, <2>4, <2>5 DEF Empty
  <1>6. CASE RunReset
    <2>1. Spanned' = {} /\ UNCHANGED <<row, symbols, torn>> /\ run'.pc \in {"idle", "fetch"}
      BY <1>6, ResetEffect DEF Spanned
    <2>2. run.pc = "parse" => Crash
      BY <1>6 DEF RunReset, Submit, Sync, PushedMeanwhile, FetchFails, BrokenClone, RecordFails, WalkFails,
                  InterruptedEarly, FinishRun
    <2>3. Crash => "crash" \in met'
      BY DEF Crash, Fault
    <2>4. \A f \in Files : run.pc # "parse" \/ run.file # f \/ Excused(f)'
      BY <2>2, <2>3 DEF Excused
    <2> QED
      BY <1>4, <2>1, <2>4
  <1>7. CASE Approach \/ WalkSucceeds
    <2>1. run'.spans = <<>> /\ run.pc \in Early /\ run'.pc \in {"reset", "record", "touch", "walk", "next"}
      BY <1>7, MoveEffect, WalkEffect DEF Kept, CloneInv, Early
    <2>2. Spanned' = {} /\ UNCHANGED <<row, symbols, torn>>
      BY <1>7, <2>1, MoveEffect DEF Spanned, WalkSucceeds, tables
    <2> QED
      BY <1>4, <2>1, <2>2 DEF Early
  <1>8. CASE NextFile
    <2>1. UNCHANGED <<row, symbols, torn, vectors, strays>> /\ Spanned' = Spanned /\ run.pc = "next"
      BY <1>8, NextFrame, NextEffect
    <2>2. \A f \in Files : Agree(f)
      BY <1>4, <2>1
    <2>3. /\ run'.pc \in {"next", "delete", "insert"}
          /\ run'.pc = "insert" => run'.file \in Files /\ ~HasRow(run'.file)
      BY <1>8, NextEffect DEF TypeOK
    <2>4. /\ run'.pc = "insert" /\ (HasRow(run.file)' \/ run'.file \notin torn') => Empty(run.file)'
      BY <1>1, <2>1, <2>3 DEF HasRow, Empty
    <2> QED
      BY <2>2, <2>3, <2>4
  <1>9. CASE LastFileDone \/ EmbeddingDone
    <2>1. /\ UNCHANGED <<row, symbols, torn>> /\ Spanned' = Spanned
          /\ run.pc # "parse" /\ run'.pc \in {"remove", "mark"}
      BY <1>9, MoveEffect DEF LastFileDone, EmbeddingDone, tables, Kept, Spanned
    <2> QED
      BY <1>4, <2>1
  <1>10. CASE DeleteSymbols
    <2>1. File = run.file /\ File \in Files /\ run.pc = "delete" /\ HasRow(File)
      BY <1>10, AtHandTypes DEF DeleteSymbols, Taking, RunInv
    <2>2. /\ UNCHANGED <<row, former, vectors, strays>> /\ torn' = torn \union {File}
          /\ symbols' = [symbols EXCEPT ![File] = {}]
          /\ Spanned' = Spanned /\ run'.pc = "purge" /\ run'.file = File
      BY <1>0, <1>10, <2>1, MoveEffect DEF DeleteSymbols, Kept, Spanned, env, vectorTable
    <2>3. symbols'[File] = {} /\ \A f \in Files \ {File} : symbols'[f] = symbols[f]
      BY <2>1, <2>2 DEF TypeOK
    <2>4. PICK h \in Files : h = File
      BY <2>1
    <2>5. \A f \in Files : f # h => Agree(f)
      BY <1>4, <2>1, <2>2, <2>3, <2>4
    <2>6. Agree(h)
      <3>1. SymbolsAgree(h)' /\ h \in torn'
        BY <2>2, <2>3, <2>4 DEF SymbolsAgree
      <3>2. None \notin former[h] => vectors[h] \ strays[h] \subseteq Own(h)
        BY <1>1, <2>1, <2>4
      <3>3. Own(h)' = Own(h)
        BY <2>2 DEF Own
      <3> QED
        BY <2>2, <3>1, <3>2, <3>3 DEF Agree
    <2> QED
      BY <2>2, <2>3, <2>5, <2>6
  <1>11. CASE PurgeVectors
    <2>1. File = run.file /\ File \in Files /\ run.pc = "purge"
      BY <1>11, AtHandTypes DEF PurgeVectors, Taking
    <2>2. /\ UNCHANGED <<row, symbols, torn>> /\ vectors' = [Reconciled EXCEPT ![File] = {}]
          /\ Spanned' = Spanned /\ run'.pc = "insert" /\ run'.file = File
      BY <1>0, <1>11, <2>1, MoveEffect DEF PurgeVectors, Purge, PurgeFails, Kept, Spanned, tables
    <2>3. vectors'[File] = {}
      BY <2>1, <2>2, ReconciledTypes
    <2> QED
      BY <1>1, <1>4, <2>1, <2>2, <2>3 DEF Empty
  <1>12. CASE InsertFile
    <2>1. File = run.file /\ File \in Files /\ run.pc = "insert" /\ File \notin Spanned
      BY <1>12, InsertEffect DEF RunInv, Taking, File
    <2>a. UNCHANGED <<symbols, vectors, strays, former>> /\ Spanned' = Spanned
      BY <1>12, InsertEffect DEF InsertFile, vectorTable, env, KeptItems, Spanned
    <2>b. CASE UNCHANGED <<row, torn>> /\ run'.pc = "next"
      BY <1>4, <2>1, <2>a, <2>b
    <2>2. CASE /\ \A f \in Files \ {File} : row'[f] = row[f]
               /\ run'.pc = "parse" /\ run'.file = File
               /\ row'[File] = [hash |-> Content, model |-> None]
               /\ torn' = IF HasRow(File) THEN torn \ {File} ELSE torn
      <3>1. PICK h \in Files : h = File
        BY <2>1
      <3>2. \A f \in Files : f # h => Agree(f)
        BY <1>4, <2>1, <2>a, <2>2, <3>1
      <3>3. HasRow(h)' /\ row'[h].model = None
        BY <1>12, <2>2, <3>1, InsertEffect, WalkedFiles DEF HasRow, Content
      <3>4. h \notin torn' => Empty(h)
        BY <1>1, <2>1, <2>2, <3>1
      <3>5. h \notin torn' \/ None \in former'[h]
        BY <1>2, <2>2, <3>1 DEF RunInv
      <3>6. ASSUME h \notin torn' PROVE Agree(h)
        <4>1. Excused(h)' /\ symbols'[h] = {} /\ h \notin Spanned' /\ vectors'[h] \ strays'[h] = {}
          BY <2>1, <2>a, <2>2, <3>1, <3>4, <3>6 DEF Excused, Empty
        <4>2. SymbolsAgree(h)'
          BY <3>3, <3>6, <4>1 DEF SymbolsAgree
        <4>3. vectors'[h] \ strays'[h] \subseteq Own(h)'
          BY <4>1
        <4> QED
          BY <3>3, <3>6, <4>2, <4>3 DEF Agree
      <3>7. Agree(h)
        BY <1>b, <3>5, <3>6
      <3>8. run'.file \notin torn' => Empty(run.file)'
        BY <2>2, <2>a, <3>1, <3>4 DEF Empty
      <3> QED
        BY <2>2, <3>2, <3>7, <3>8
    <2> QED
      BY <1>12, <2>b, <2>2, InsertEffect
  <1>13. CASE ParseFile
    <2>1. /\ File = run.file /\ File \in Files /\ run.pc = "parse" /\ run'.pc = "next"
          /\ UNCHANGED <<row, torn, vectors, strays>>
      BY <1>13, ParseEffect DEF File
    <2>2. CASE run'.spans = run.spans /\ UNCHANGED symbols /\ (File \in Unsupported \/ Fault("parse"))
      <3>1. Spanned' = Spanned
        BY <2>2 DEF Spanned
      <3>2. Fault("parse") => "parse" \in met'
        BY DEF Fault
      <3>3. \A f \in Files : run.file # f \/ Excused(f)'
        BY <2>1, <2>2, <3>2 DEF Excused
      <3> QED
        BY <1>4, <2>1, <2>2, <3>1, <3>3
    <2>3. CASE symbols' = [symbols EXCEPT ![File] = @ \union {Content}]
      <3>1. symbols'[File] = symbols[File] \union {Content} /\ \A f \in Files \ {File} : symbols'[f] = symbols[f]
        BY <2>1, <2>3 DEF TypeOK
      <3>2. Spanned' \subseteq Spanned \union {File}
        BY <1>13, <2>1, SpannedStep, ResetEffect
      <3>3. PICK h \in Files : h = File
        BY <2>1
      <3>4. \A f \in Files : f # h => Agree(f)
        BY <1>4, <2>1, <3>1, <3>2, <3>3
      <3>5. ASSUME h \notin torn PROVE Agree(h)
        <4>1. symbols[h] = {} /\ vectors[h] \ strays[h] = {}
          BY <1>1, <2>1, <3>3, <3>5 DEF Empty
        <4>2. row'[h].hash = Content /\ HasRow(h)'
          <5>1. row[h] = [hash |-> Content, model |-> None]
            BY <2>1, <3>3 DEF RunInv, Content, File
          <5>2. Content # None
            BY <1>13, ParseEffect, WalkedFiles DEF Content
          <5> QED
            BY <2>1, <5>1, <5>2 DEF HasRow
        <4>3. symbols'[h] = {row'[h].hash} /\ vectors'[h] \ strays'[h] = {} /\ h \notin torn'
          BY <2>1, <3>1, <3>3, <3>5, <4>1, <4>2
        <4>4. SymbolsAgree(h)'
          BY <4>3 DEF SymbolsAgree
        <4>5. vectors'[h] \ strays'[h] \subseteq Own(h)'
          BY <4>3
        <4> QED
          BY <4>2, <4>3, <4>4, <4>5 DEF Agree
      <3>6. ASSUME h \in torn PROVE Agree(h)
        <4>1. None \in former[h] /\ h \in torn'
          BY <2>1, <3>3, <3>6 DEF RunInv
        <4> QED
          BY <1>2, <1>b, <4>1
      <3> QED
        BY <2>1, <3>4, <3>5, <3>6
    <2> QED
      BY <1>0, <1>13, <2>2, <2>3, ParseEffect
  <1>14. CASE RemoveFile
    <2>1. PICK g \in run.gone :
              /\ g \in Files /\ g \notin Walked(clone.tree) /\ HasRow(g)
              /\ run'.file = g /\ torn' = torn \union {g}
              /\ row'[g] = NoRow /\ symbols'[g] = {}
              /\ \A f \in Files \ {g} : row'[f] = row[f] /\ symbols'[f] = symbols[f]
      BY <1>0, <1>14, RemoveEffect
    <2>2. Spanned' = Spanned /\ run.pc = "remove" /\ run'.pc = "removeVectors"
      BY <1>14, RemoveEffect DEF KeptItems, Spanned
    <2>3. ~HasRow(g)'
      BY <2>1 DEF HasRow, NoRow
    <2>4. \A f \in Files : f # g => Agree(f)
      BY <1>4, <2>1, <2>2
    <2> QED
      BY <1>b, <2>1, <2>2, <2>3, <2>4 DEF HasRow, NoRow
  <1>15. CASE RemoveVectors
    <2>1. /\ run.pc = "removeVectors" /\ run'.pc = "remove" /\ Spanned' = Spanned
          /\ run.file \in Files /\ File = run.file /\ UNCHANGED <<row, symbols>>
          /\ vectors'[File] = {} /\ torn' = IF HasRow(File) THEN torn ELSE torn \ {File}
      BY <1>0, <1>15, RemoveVectorsEffect DEF KeptItems, Spanned
    <2>2. PICK h \in Files : h = File
      BY <2>1
    <2>3. \A f \in Files : f # h => Agree(f)
      BY <1>4, <2>1, <2>2
    <2>4. ~HasRow(h)' /\ Empty(h)'
      BY <1>1, <2>1, <2>2 DEF HasRow, Empty
    <2>5. Agree(h)
      BY <2>4 DEF Agree
    <2> QED
      BY <2>1, <2>2, <2>3, <2>5
  <1>16. CASE BeginEmbedding \/ EmbedBatch
    <2>1. /\ UNCHANGED <<row, symbols, torn>> /\ Spanned' = Spanned
          /\ run.pc # "parse" /\ run'.pc \in {"embed", "mark"}
      BY <1>16, BeginEffect, EmbedEffect DEF BeginEmbedding, tables, Spanned
    <2> QED
      BY <1>4, <2>1
  <1>17. CASE MarkEmbedded
    <2>1. /\ UNCHANGED <<symbols, torn, vectors, strays, former>> /\ Spanned' = Spanned
          /\ run.pc = "mark" /\ run'.pc = "finish"
      BY <1>17, MoveEffect, MarkEffect DEF MarkEmbedded, env, Kept, Spanned
    <2>2. ASSUME NEW f \in Files PROVE Agree(f)
      <3>1. CASE row'[f] = row[f]
        BY <1>4, <2>1, <3>1
      <3>2. CASE f \in Spanned /\ f \in torn
        BY <1>2, <1>b, <2>1, <3>2 DEF RunInv
      <3>3. CASE f \in Spanned /\ f \notin torn
        <4>1. row'[f].hash = row[f].hash /\ HasRow(f) /\ HasRow(f)'
          BY <1>3, <1>17, <3>3, MarkEffect DEF HasRow
        <4>2. symbols[f] = {row[f].hash} /\ vectors[f] \ strays[f] \subseteq Own(f)
          BY <1>1, <3>3, <4>1 DEF SymbolsAgree
        <4>3. SymbolsAgree(f)' /\ vectors'[f] \ strays'[f] \subseteq Own(f)'
          BY <2>1, <3>3, <4>1, <4>2 DEF SymbolsAgree, Own
        <4> QED
          BY <2>1, <3>3, <4>1, <4>3 DEF Agree
      <3> QED
        BY <1>17, <3>1, <3>2, <3>3, MarkEffect
    <2> QED
      BY <2>1, <2>2
  <1> QED
    BY <1>0, <1>5, <1>6, <1>7, <1>8, <1>9, <1>10, <1>11, <1>12, <1>13, <1>14, <1>15, <1>16, <1>17, Steps

LEMMA RecordedStep ==
  ASSUME TypeOK, RunInv, RecordedInv, [Next]_vars
  PROVE  RecordedInv'
  <1>1. recorded => recorded'
    BY RecordedSteps DEF TypeOK
  <1>2. InsertFile => recorded \/ UNCHANGED row
    BY DEF InsertFile
  <1> SUFFICES ASSUME NEW f \in Files, HasRow(f)' PROVE recorded'
    BY DEF RecordedInv
  <1>3. CASE HasRow(f)
    BY <1>1, <1>3 DEF RecordedInv
  <1>4. CASE ~HasRow(f)
    BY <1>1, <1>2, <1>4, RowsKept DEF HasRow, NoRow
  <1> QED
    BY <1>3, <1>4

LEMMA CrashStep ==
  ASSUME TypeOK, CloneInv, RunInv, RecordedInv, TablesInv, CrashInv, [Next]_vars
  PROVE  CrashInv'
  <1> SUFFICES ASSUME Clean', "crash" \notin met' PROVE torn' \subseteq AtHand'
    BY DEF CrashInv
  <1>0. /\ Clean /\ ~cancelled /\ ~InterruptedLate
        /\ ~Fault("cancel") /\ ~Fault("store") /\ ~Fault("read") /\ ~Fault("purge")
    BY CleanSteps
  <1>1. torn \subseteq AtHand
    BY <1>0, FaultsGrow DEF CrashInv
  <1>2. ASSUME AtHand = {}, UNCHANGED torn PROVE torn' \subseteq AtHand'
    BY <1>1, <1>2
  <1>3. CASE RunApart
    <2>1. UNCHANGED <<run, row, torn>>
      BY <1>3, ApartEffect
    <2> QED
      BY <1>1, <2>1 DEF AtHand, HasRow
  <1>4. CASE RunReset
    <2>1. ~Crash
      BY DEF Crash, Fault
    <2>2. run.pc \in {"idle", "fetch", "reset", "record", "touch", "walk", "finish"}
      BY <1>4, <2>1 DEF RunReset, Submit, Sync, PushedMeanwhile, FetchFails, BrokenClone, RecordFails, WalkFails,
                        InterruptedEarly, FinishRun
    <2> QED
      BY <1>2, <1>4, <2>2, ResetEffect DEF AtHand
  <1>5. CASE Approach \/ WalkSucceeds \/ NextFile \/ LastFileDone
    <2>1. AtHand = {}
      BY <1>5, MoveEffect, WalkEffect, NextEffect DEF Early, AtHand
    <2>2. torn' = torn
      BY <1>5, MoveEffect DEF WalkSucceeds, NextFile, LastFileDone
    <2> QED
      BY <1>2, <2>1, <2>2
  <1>6. CASE ParseFile \/ BeginEmbedding \/ EmbedBatch \/ EmbeddingDone \/ MarkEmbedded
    BY <1>2, <1>6 DEF ParseFile, BeginEmbedding, EmbedBatch, Sending, EmbeddingDone, MarkEmbedded, AtHand
  <1>7. CASE DeleteSymbols
    <2>1. AtHand = {} /\ torn' = torn \union {run.file}
      BY <1>7 DEF DeleteSymbols, AtHand, File
    <2>2. AtHand' = {run.file}
      BY <1>7, MoveEffect DEF AtHand, Kept
    <2> QED
      BY <1>1, <2>1, <2>2
  <1>8. CASE PurgeVectors
    <2>1. AtHand = {run.file} /\ UNCHANGED <<row, torn>> /\ HasRow(run.file)
      BY <1>8 DEF PurgeVectors, AtHand, RunInv, tables
    <2>2. run'.pc = "insert" /\ run'.file = run.file
      BY <1>8, MoveEffect DEF Kept
    <2> QED
      BY <1>1, <2>1, <2>2 DEF AtHand, HasRow
  <1>9. CASE InsertFile
    <2>1. AtHand = IF HasRow(File) THEN {File} ELSE {}
      BY <1>9 DEF InsertFile, AtHand, File
    <2>2. CASE torn' = IF HasRow(File) THEN torn \ {File} ELSE torn
      BY <1>1, <2>1, <2>2
    <2>3. CASE ~recorded /\ UNCHANGED torn
      <3>1. File \in Files
        BY <1>9, InsertEffect
      <3> QED
        BY <1>1, <2>1, <2>3, <3>1 DEF RecordedInv
    <2> QED
      BY <1>0, <1>9, <2>2, <2>3, InsertEffect
  <1>10. CASE RemoveFile
    <2>1. AtHand = {} /\ torn' = torn \union {run'.file}
      BY <1>10, RemoveEffect DEF AtHand
    <2>2. AtHand' = {run'.file}
      BY <1>10, RemoveEffect DEF AtHand
    <2> QED
      BY <1>1, <2>1, <2>2
  <1>11. CASE RemoveVectors
    <2>1. AtHand = {run.file} /\ ~HasRow(run.file)
      BY <1>0, <1>11 DEF RemoveVectors, AtHand, TablesInv
    <2>2. torn' = torn \ {run.file}
      BY <1>0, <1>11, <2>1, RemoveVectorsEffect
    <2> QED
      BY <1>1, <2>1, <2>2
  <1> QED
    BY <1>0, <1>3, <1>4, <1>5, <1>6, <1>7, <1>8, <1>9, <1>10, <1>11, Steps

(* A step of a run that goes on starts from a position of it. *)
Moving ==
    \/ WalkSucceeds \/ NextFile \/ LastFileDone \/ DeleteSymbols \/ PurgeVectors \/ InsertFile
    \/ ParseFile \/ RemoveFile \/ RemoveVectors \/ BeginEmbedding \/ EmbedBatch \/ EmbeddingDone
    \/ MarkEmbedded \/ InterruptedLate

LEMMA MovingFrom == ASSUME Moving PROVE run.pc \notin Early \ {"walk"}
  BY DEF Moving, Early, WalkSucceeds, NextFile, LastFileDone, DeleteSymbols, PurgeVectors, InsertFile, ParseFile,
         RemoveFile, RemoveVectors, BeginEmbedding, EmbedBatch, Sending, EmbeddingDone, MarkEmbedded, InterruptedLate

LEMMA PassesWalk ==
  ASSUME TypeOK, [Next]_vars, ~RunReset, ~Approach
  PROVE  run.pc \notin Early \ {"walk"} \/ run'.pc \in Early \ {"walk"}
  <1>1. UNCHANGED run \/ Moving
    BY RunSteps DEF Moving
  <1> QED
    BY <1>1, MovingFrom

LEMMA Working == ASSUME TypeOK, Approach \/ Moving PROVE run.pc # "idle"
  BY MovingFrom, MoveEffect DEF Early

LEMMA ProgressStep ==
  ASSUME TypeOK, CloneInv, RunInv, SpanInv, ProgressInv, [Next]_vars
  PROVE  ProgressInv'
  <1> SUFFICES ASSUME Clean', recorded'
               PROVE  /\ run'.pc \notin Early \ {"walk"} => lastSha' = clone'.sha
                      /\ run'.pc \notin Early =>
                           /\ \A f \in Walked(clone.tree)' \ Pending' : row'[f].hash = clone'.tree[f]
                           /\ \A f \in Files \ Walked(clone.tree)' : HasRow(f)' => f \in run'.gone
                      /\ job' = "completed" /\ Cloned' =>
                           lastSha' = clone'.sha /\ \A f \in Files : row'[f].hash = InClone(f)'
    BY DEF ProgressInv
  <1>0. /\ Clean /\ ~cancelled /\ ~InterruptedLate
        /\ ~Fault("cancel") /\ ~Fault("store") /\ ~Fault("read") /\ ~Fault("purge")
    BY CleanSteps
  (* The repository gets its row when nothing is promised of the tables. *)
  <1>r. CASE ~recorded
    <2>1. run.pc = "record" /\ run'.pc = "touch" /\ job' = job
      <3>1. RecordSucceeds
        BY <1>r, RecordedSteps, RecordSteps DEF RecordFails, tables, repository, TypeOK
      <3> QED
        BY <3>1, MoveEffect DEF RecordSucceeds, Approach, Goto, TypeOK
    <2> QED
      BY <2>1 DEF CloneInv, Early
  <1> SUFFICES ASSUME recorded
               PROVE  /\ run'.pc \notin Early \ {"walk"} => lastSha' = clone'.sha
                      /\ run'.pc \notin Early =>
                           /\ \A f \in Walked(clone.tree)' \ Pending' : row'[f].hash = clone'.tree[f]
                           /\ \A f \in Files \ Walked(clone.tree)' : HasRow(f)' => f \in run'.gone
                      /\ job' = "completed" /\ Cloned' =>
                           lastSha' = clone'.sha /\ \A f \in Files : row'[f].hash = InClone(f)'
    BY <1>r
  <1>1. /\ run.pc \notin Early \ {"walk"} => lastSha = clone.sha
        /\ run.pc \notin Early =>
             /\ \A f \in Walked(clone.tree) \ Pending : row[f].hash = clone.tree[f]
             /\ \A f \in Files \ Walked(clone.tree) : HasRow(f) => f \in run.gone
        /\ job = "completed" /\ Cloned =>
             lastSha = clone.sha /\ \A f \in Files : row[f].hash = InClone(f)
    BY <1>0 DEF ProgressInv
  <1>2. run'.pc \notin Early \ {"walk"} => lastSha' = clone'.sha
    <2>1. CASE RunReset
      BY <2>1, ResetEffect DEF Early
    <2>2. CASE TouchRepoCheck
      BY <1>0, <2>2 DEF TouchRepoCheck, copy
    <2>3. CASE Approach /\ ~TouchRepoCheck
      <3>1. run'.pc # "walk"
        BY <2>3 DEF Approach, CloneSucceeds, RecordSucceeds, FetchSucceeds, ResetSucceeds, Goto, TypeOK
      <3> QED
        BY <2>3, <3>1, MoveEffect DEF Early
    <2>4. CASE ~RunReset /\ ~Approach
      <3>1. UNCHANGED <<lastSha, clone>>
        BY <2>4, TouchSteps, CloneSteps DEF RunReset, Approach, copy
      <3>2. run.pc \notin Early \ {"walk"} \/ run'.pc \in Early \ {"walk"}
        BY <2>4, PassesWalk
      <3> QED
        BY <1>1, <3>1, <3>2
    <2> QED
      BY <2>1, <2>2, <2>3, <2>4
  <1>3. ASSUME UNCHANGED clone
        PROVE  /\ Walked(clone.tree)' = Walked(clone.tree) /\ Cloned' = Cloned /\ (\A f : InClone(f)' = InClone(f))
               /\ \A f : row'[f] = row[f] => HasRow(f)' = HasRow(f)
    BY <1>3 DEF Walked, Cloned, InClone, Listed, HasRow
  <1>4. job' = "completed" /\ Cloned' =>
          lastSha' = clone'.sha /\ \A f \in Files : row'[f].hash = InClone(f)'
    <2>1. CASE FinishRun
      <3>1. run.pc = "finish" /\ UNCHANGED <<clone, row, lastSha>>
        BY <2>1 DEF FinishRun, tables, copy, repository
      <3>2. Pending = {} /\ run.gone = {} /\ run.pc \notin Early
        BY <3>1 DEF RunInv, Pending, Early, Taking, Ending
      <3>3. \A f \in Files : row[f].hash = InClone(f)
        BY <1>1, <3>2, WalkedFiles DEF InClone, Listed, HasRow
      <3>4. lastSha = clone.sha
        BY <1>1, <3>1 DEF Early
      <3> QED
        BY <1>3, <3>1, <3>3, <3>4
    <2>2. CASE RunApart
      <3>1. UNCHANGED <<row, clone, job, lastSha>>
        BY <2>2, ApartEffect
      <3> QED
        BY <1>1, <1>3, <3>1
    <2>3. CASE RunReset /\ ~FinishRun
      <3>1. job' = "completed" => Crash /\ job = "completed"
        BY <2>3 DEF RunReset, Submit, Sync, BeginRun, Crash, PushedMeanwhile, FetchFails, BrokenClone, RecordFails, WalkFails,
                    InterruptedEarly, EndRun
      <3>2. Crash => UNCHANGED <<row, lastSha>> /\ (UNCHANGED clone \/ ~Cloned')
        BY DEF Crash, tables, repository, copy, Cloned, NoClone
      <3> QED
        BY <1>1, <1>3, <3>1, <3>2
    <2>4. CASE ~RunReset /\ ~RunApart
      <3>1. job' = job
        BY <2>4, GoingOn
      <3>2. run.pc # "idle"
        <4>1. Approach \/ Moving
          BY <2>4, Steps DEF Moving
        <4> QED
          BY <4>1, Working
      <3> QED
        BY <3>1, <3>2 DEF CloneInv
    <2> QED
      BY <2>1, <2>2, <2>3, <2>4
  <1> DEFINE Done == run'.pc \notin Early =>
                           /\ \A f \in Walked(clone.tree)' \ Pending' : row'[f].hash = clone'.tree[f]
                           /\ \A f \in Files \ Walked(clone.tree)' : HasRow(f)' => f \in run'.gone
  (* Steps that change no row's content and end no file. *)
  <1>5. ASSUME UNCHANGED clone, \A f \in Files : row'[f].hash = row[f].hash, run.pc \notin Early,
               Pending \subseteq Pending', run'.gone = run.gone
        PROVE  Done
    <2>1. \A f \in Files : HasRow(f)' = HasRow(f)
      BY <1>5 DEF HasRow
    <2> QED
      BY <1>1, <1>3, <1>5, <2>1, WalkedFiles
  <1>6. CASE RunApart
    <2>1. UNCHANGED <<run, row, clone>>
      BY <1>6, ApartEffect
    <2>2. Pending' = Pending
      BY <2>1 DEF Pending
    <2> QED
      BY <1>2, <1>4, <1>5, <2>1, <2>2
  <1>7. CASE RunReset \/ Approach
    BY <1>2, <1>4, <1>7, ResetEffect, MoveEffect DEF Early
  <1>8. CASE WalkSucceeds
    <2>1. UNCHANGED <<clone, row>>
      BY <1>8 DEF WalkSucceeds, tables, copy
    <2>2. Pending' = Walked(clone.tree) /\ run'.gone = {f \in Files : HasRow(f)} \ Walked(clone.tree)
      BY <1>8, WalkEffect DEF Pending
    <2> QED
      BY <1>2, <1>3, <1>4, <2>1, <2>2
  <1>9. CASE NextFile
    <2>1. UNCHANGED <<clone, row>> /\ run'.gone = run.gone /\ run.pc = "next" /\ run.pc \notin Early
      BY <1>9, NextEffect DEF NextFile, tables, copy, Early
    <2>2. PICK f \in run.todo :
              /\ run'.todo = run.todo \ {f}
              /\ \/ run'.pc = "next" /\ Unchanged(f)
                 \/ run'.pc = (IF HasRow(f) THEN "delete" ELSE "insert") /\ run'.file = f
      BY <1>0, <1>9, NextEffect
    <2>3. Pending = run.todo
      BY <2>1 DEF Pending
    <2>4. CASE run'.pc = "next" /\ Unchanged(f)
      <3>1. Pending' = run.todo \ {f} /\ row[f].hash = clone.tree[f]
        BY <2>2, <2>4 DEF Pending, Unchanged
      <3> QED
        BY <1>1, <1>2, <1>3, <1>4, <2>1, <2>3, <3>1
    <2>5. CASE run'.pc = (IF HasRow(f) THEN "delete" ELSE "insert") /\ run'.file = f
      <3>1. Pending' = run.todo
        BY <2>2, <2>5 DEF Pending
      <3> QED
        BY <1>2, <1>4, <1>5, <2>1, <2>3, <3>1
    <2> QED
      BY <2>2, <2>4, <2>5
  <1>10. CASE LastFileDone \/ DeleteSymbols \/ PurgeVectors \/ EmbeddingDone
    <2>1. UNCHANGED <<clone, row>>
      BY <1>10 DEF LastFileDone, DeleteSymbols, PurgeVectors, EmbeddingDone, tables, copy
    <2>2. Pending' = Pending /\ run'.gone = run.gone /\ run.pc \notin Early
      BY <1>10, MoveEffect DEF Pending, Kept, Early
    <2> QED
      BY <1>2, <1>4, <1>5, <2>1, <2>2
  <1>11. CASE InsertFile
    <2>1. /\ run.pc = "insert" /\ run'.gone = run.gone /\ run'.todo = run.todo /\ File = run.file
          /\ File \in Files /\ File \in Walked(clone.tree)
          /\ \A f \in Files \ {File} : row'[f] = row[f]
          /\ run'.pc = "parse" /\ row'[File] = [hash |-> Content, model |-> None] /\ UNCHANGED clone
      BY <1>0, <1>11, InsertEffect DEF InsertFile, File, copy
    <2>2. Pending = run.todo \union {File} /\ Pending' = run.todo /\ run.pc \notin Early
      BY <2>1 DEF Pending, Early
    <2>3. row'[File].hash = clone.tree[File]
      BY <2>1 DEF Content
    <2>4. \A f \in Walked(clone.tree) \ Pending' : row'[f].hash = clone.tree[f]
      BY <1>1, <2>1, <2>2, <2>3, WalkedFiles
    <2>5. \A f \in Files \ Walked(clone.tree) : HasRow(f)' => f \in run.gone
      <3> SUFFICES ASSUME NEW f \in Files \ Walked(clone.tree), HasRow(f)' PROVE f \in run.gone
        OBVIOUS
      <3>1. f # File /\ HasRow(f)
        BY <2>1 DEF HasRow
      <3> QED
        BY <1>1, <2>2, <3>1
    <2> QED
      BY <1>2, <1>3, <1>4, <2>1, <2>4, <2>5
  <1>12. CASE ParseFile
    <2>1. UNCHANGED <<clone, row>> /\ run'.gone = run.gone /\ Pending' = Pending /\ run.pc \notin Early
      BY <1>12, ParseEffect DEF Pending, Early
    <2> QED
      BY <1>2, <1>4, <1>5, <2>1
  <1>13. CASE RemoveFile
    <2>1. PICK g \in run.gone :
              /\ g \in Files /\ g \notin Walked(clone.tree) /\ run'.gone = run.gone \ {g}
              /\ row'[g] = NoRow /\ \A f \in Files \ {g} : row'[f] = row[f]
      BY <1>0, <1>13, RemoveEffect
    <2>2. UNCHANGED clone /\ Pending' = Pending /\ run.pc \notin Early
      BY <1>13, RemoveEffect DEF Pending, Early
    <2>3. ~HasRow(g)'
      BY <2>1 DEF HasRow, NoRow
    <2> QED
      BY <1>1, <1>2, <1>3, <1>4, <2>1, <2>2, <2>3, WalkedFiles
  <1>14. CASE RemoveVectors
    <2>1. UNCHANGED <<clone, row>> /\ run'.gone = run.gone /\ Pending' = Pending /\ run.pc \notin Early
      BY <1>14, RemoveVectorsEffect DEF Pending, Early
    <2> QED
      BY <1>2, <1>4, <1>5, <2>1
  <1>15. CASE BeginEmbedding \/ EmbedBatch
    <2>1. UNCHANGED <<clone, row>>
      BY <1>15 DEF BeginEmbedding, EmbedBatch, tables, copy
    <2>2. run'.gone = run.gone /\ Pending' = Pending /\ run.pc \notin Early
      BY <1>15, BeginEffect, EmbedEffect DEF Pending, Early
    <2> QED
      BY <1>2, <1>4, <1>5, <2>1, <2>2
  <1>16. CASE MarkEmbedded
    <2>1. UNCHANGED clone /\ run'.gone = run.gone /\ Pending' = Pending /\ run.pc \notin Early
      BY <1>16, MoveEffect, MarkEffect DEF Pending, Early, Kept
    <2> QED
      BY <1>2, <1>4, <1>5, <1>16, <2>1, MarkEffect
  <1> QED
    BY <1>0, <1>6, <1>7, <1>8, <1>9, <1>10, <1>11, <1>12, <1>13, <1>14, <1>15, <1>16, Steps

LEMMA IngestStep ==
  ASSUME IngestInv, [Next]_vars PROVE IngestInv'
  <1> USE DEF IngestInv
  <1>1. TypeOK' /\ CloneInv' /\ ModelInv'
    BY TypeStep, CloneStep, ModelStep
  <1>2. FormerInv' /\ TornInv' /\ RunInv' /\ RecordedInv'
    BY FormerStep, TornStep, RunInvStep, RecordedStep
  <1>3. SpanInv' /\ SearchInv' /\ TablesInv' /\ CrashInv' /\ ProgressInv'
    BY SpanStep, SearchStep, TablesStep, CrashStep, ProgressStep
  <1> QED
    BY <1>1, <1>2, <1>3
-----------------------------------------------------------------------------
(* What follows from the invariant. *)

(* A listed file has a content and its row, when a run that left no untraced *)
(* failure completed at the remote's head, and none it no longer lists has.  *)
LEMMA UpToDateRows ==
  ASSUME IngestInv, UpToDate(FALSE), Clean
  PROVE  /\ clone.tree = remote.tree /\ AtHand = {} /\ Spanned = {} /\ run.pc = "idle"
         /\ \A f \in Files : row[f].hash = InRemote(f)
  <1>1. run.pc = "idle" /\ job = "completed" /\ recorded /\ git # "none" /\ lastSha = remote.sha
    BY DEF UpToDate, SyncNeeded
  <1>a. Cloned
    BY <1>1 DEF IngestInv, CloneInv
  <1>2. lastSha = clone.sha /\ \A f \in Files : row[f].hash = InClone(f)
    BY <1>1, <1>a DEF IngestInv, ProgressInv
  <1>3. clone.tree = remote.tree
    BY <1>1, <1>2 DEF IngestInv, CloneInv
  <1>4. AtHand = {} /\ Spanned = {}
    <2>1. run.spans = <<>>
      BY <1>1 DEF IngestInv, CloneInv, Early
    <2> QED
      BY <1>1, <2>1 DEF AtHand, Spanned
  <1> QED
    BY <1>1, <1>2, <1>3, <1>4 DEF InClone, InRemote

LEMMA NothingLeft ==
  ASSUME UpToDate(TRUE)
  PROVE  UpToDate(FALSE) /\ \A f \in Files : HasRow(f) => row[f].model = model
  BY DEF UpToDate, SyncNeeded, PendingEmbedding, HasRow

LEMMA SearchableImplied ==
  ASSUME IngestInv PROVE EmbeddedIsSearchable
  <1> SUFFICES ASSUME model \notin left, NEW f \in Files, HasRow(f), row[f].model = model
               PROVE  Chunked(row[f].hash) \subseteq vectors[f] \/ (f \in torn /\ CameBack(f))
    BY DEF EmbeddedIsSearchable, HasRow
  <1>1. CASE f \notin torn
    BY <1>1 DEF IngestInv, SearchInv
  <1>2. CASE f \in torn
    <2>1. model # None
      BY IngestionAssumption DEF IngestInv, TypeOK
    <2> QED
      BY <1>2, <2>1 DEF IngestInv, TornInv, CameBack
  <1> QED
    BY <1>1, <1>2

LEMMA NoOthers ==
  ASSUME TypeOK, NEW f \in Files, vectors[f] \ strays[f] \subseteq Own(f), row[f].hash = remote.tree[f]
  PROVE  NoOtherVectors(f)
  <1> SUFFICES ASSUME NEW x \in vectors[f], x.model = model, x \notin strays[f]
               PROVE  x \in Chunked(remote.tree[f])
    BY ReconciledTypes DEF NoOtherVectors
  <1>1. x \in Vector /\ x.version = remote.tree[f] /\ x.chunk \in Chunks(remote.tree[f])
    BY DEF TypeOK, Own
  <1> QED
    BY <1>1 DEF Vector, Chunked

LEMMA IndexedImplied ==
  ASSUME IngestInv PROVE UpToDateIsIndexed
  <1> SUFFICES ASSUME UpToDate(FALSE), Clean, model \notin left, NEW f \in Wanted
               PROVE  \/ "crash" \in met /\ f \in torn /\ CameBack(f)
                      \/ (UpToDate(TRUE) => IndexedExactly(f)) /\ NothingStale(f)
    BY NothingLeft DEF UpToDateIsIndexed, Clean
  <1>1. f \in Files /\ remote.tree[f] # None /\ InRemote(f) = remote.tree[f] /\ f \notin Unsupported
    BY WalkedFiles DEF Wanted, InRemote
  <1>2. /\ row[f].hash = remote.tree[f] /\ HasRow(f) /\ model # None /\ TypeOK
        /\ UpToDate(TRUE) => row[f].model = model
    BY <1>1, UpToDateRows, NothingLeft, IngestionAssumption DEF HasRow, IngestInv, TypeOK
  <1>3. CASE f \notin torn
    <2>1. SymbolsAgree(f) /\ vectors[f] \ strays[f] \subseteq Own(f)
      BY <1>1, <1>2, <1>3 DEF IngestInv, TablesInv
    <2>2. NoOtherVectors(f)
      BY <1>1, <1>2, <2>1, NoOthers
    <2>3. \/ symbols[f] = {remote.tree[f]}
          \/ symbols[f] = {} /\ row[f].model = None /\ met \cap {"parse", "crash"} # {}
      BY <1>1, <1>2, <1>3, <2>1, UpToDateRows DEF SymbolsAgree, Excused
    <2>4. row[f].model = model => Chunked(row[f].hash) \subseteq vectors[f]
      BY <1>1, <1>2, <1>3 DEF IngestInv, SearchInv
    <2>5. UpToDate(TRUE) => IndexedExactly(f)
      BY <1>2, <2>2, <2>3, <2>4 DEF IndexedExactly
    <2>6. NothingStale(f)
      BY <1>2, <2>2, <2>3 DEF NothingStale
    <2> QED
      BY <2>5, <2>6
  <1>4. CASE f \in torn
    <2>1. "crash" \in met
      BY <1>4, UpToDateRows DEF IngestInv, CrashInv
    <2>2. ASSUME ~CameBack(f) PROVE ~UpToDate(TRUE) /\ NothingStale(f)
      <3>1. row[f].model \in left \union {None} /\ None \notin former[f]
        BY <1>2, <1>4, <2>2 DEF IngestInv, TornInv, CameBack
      <3>2. symbols[f] = {} /\ vectors[f] \ strays[f] \subseteq Own(f)
        BY <1>1, <1>2, <1>4, <3>1 DEF IngestInv, TablesInv, SymbolsAgree
      <3>3. NoOtherVectors(f)
        BY <1>1, <1>2, <3>2, NoOthers
      <3> QED
        BY <1>2, <2>1, <3>1, <3>2, <3>3 DEF NothingStale
    <2> QED
      BY <1>4, <2>1, <2>2
  <1> QED
    BY <1>3, <1>4

LEMMA ForgetsImplied ==
  ASSUME IngestInv PROVE UpToDateForgets
  <1> SUFFICES ASSUME UpToDate(FALSE), Clean, NEW f \in Files, remote.tree[f] = None
               PROVE  (symbols[f] = {} /\ vectors[f] \subseteq strays[f]) \/ ("crash" \in met /\ f \in torn)
    BY DEF UpToDateForgets, Clean
  <1>1. InRemote(f) = None
    BY DEF InRemote, Listed, Walked
  <1>2. ~HasRow(f)
    BY <1>1, UpToDateRows DEF HasRow
  <1>3. CASE f \notin torn
    BY <1>2, <1>3 DEF IngestInv, TablesInv, Empty
  <1>4. CASE f \in torn
    BY <1>4, UpToDateRows DEF IngestInv, CrashInv
  <1> QED
    BY <1>3, <1>4

(* The invariant of an indexing run holds in every behaviour of            *)
(* ingestRepository, the pushes, the model changes and the faults.         *)
THEOREM IngestInvariant == Spec => []IngestInv
  BY IngestInit, IngestStep, PTL DEF Spec

(* Every variable keeps its type, through any faults. *)
THEOREM IngestionTypeOK == Spec => []TypeOK
  <1>1. IngestInv => TypeOK
    BY DEF IngestInv
  <1> QED
    BY <1>1, IngestInvariant, PTL

(* MarkFilesEmbedded records a file only when fullyEmbeddedFiles saw all   *)
(* its chunks stored, and nothing takes them away while the record stands: *)
(* under faults of every kind, any batch size and budget.                  *)
THEOREM IngestionEmbeddedIsSearchable == Spec => []EmbeddedIsSearchable
  BY SearchableImplied, IngestInvariant, PTL

(* "Up to date" of checkAndEnqueueSync means that every file the walk      *)
(* lists at the remote's head is indexed exactly, after any number of      *)
(* traced failures and crashes at any step.                                *)
THEOREM IngestionUpToDateIsIndexed == Spec => []UpToDateIsIndexed
  BY IndexedImplied, IngestInvariant, PTL

(* And that nothing is left of the files the remote no longer has.         *)
THEOREM IngestionUpToDateForgets == Spec => []UpToDateForgets
  BY ForgetsImplied, IngestInvariant, PTL
-----------------------------------------------------------------------------
(* Rounds. *)

(* What the tables lack of the remote's head, or have too much.            *)
Outstanding ==
    {f \in Files : IF f \in Walked(remote.tree) THEN row[f].hash # remote.tree[f] \/ row[f].model # model
                   ELSE HasRow(f)}

(* The file was embedded, or is about to be. *)
Settled(f) ==
    /\ row[f].hash = clone.tree[f]
    /\ \/ row[f].model = model \/ f \in Spanned \/ f \in Unsupported
       \/ run.pc = "parse" /\ run.file = f

(* The spans of a run start at the first item, and none of their files is  *)
(* marked before the end.                                                  *)
FreshInv ==
    /\ run.pc = "idle" => ~cancelled
    /\ run.pc # "finish" => \A f \in Spanned : row[f].model = None
    /\ run.spans # <<>> => run.spans[1].start = 0

(* What a run that nothing has disturbed since it began knows; of the      *)
(* tables, when the repository is recorded.                                *)
Quiet ==
    /\ ~cancelled
    /\ run.pc = "idle" => job = "completed"
    /\ run.pc = "reset" => run.fetched = remote.sha
    /\ run.pc \notin {"fetch", "reset"} => clone = remote
    /\ recorded /\ run.pc \notin {"fetch", "reset", "record", "touch"} => lastSha = remote.sha
    /\ run.pc \notin Early => run.model = model
    /\ recorded /\ run.pc \notin Early =>
         /\ \A f \in Walked(clone.tree) \ Pending : Settled(f)
         /\ \A f \in Files \ Walked(clone.tree) : HasRow(f) => f \in run.gone
    /\ run.pc \in {"delete", "purge", "insert"} => run.file \in Outstanding
    /\ run.pc = "mark" => run.embedded = Len(run.items)

QuietInv == rounds > 0 /\ git # "broken" => Quiet

(* The chunks of the first file are within the budget. *)
Fits == run.spans # <<>> => run.spans[1].end <= Len(run.items)

(* A run after the first one has taken a file off.                         *)
Count ==
    /\ rounds <= 1 \/ rounds <= FileCount
    /\ rounds + Cardinality(Outstanding) <= FileCount + 1
    /\ recorded /\ run.pc \in {"idle", "finish"} =>
         Outstanding = {} \/ rounds + Cardinality(Outstanding) <= FileCount

CountInv == rounds > 0 /\ git # "broken" /\ Affordable => Fits /\ Count

(* The bookkeeping of the rounds since the last disturbance: the first run *)
(* had at most FileCount files before it, and each run that has marked its *)
(* files left fewer.                                                       *)
RoundsInv == rounds \in Nat /\ FreshInv /\ QuietInv /\ CountInv

(* Undisturbed, nothing fails and nobody pushes. *)
LEMMA QuietSteps ==
  ASSUME TypeOK, [Next]_vars, ~Disturbed
  PROVE  /\ UNCHANGED <<remote, model>>
         /\ \A k : ~Fault(k)
         /\ ~FetchFails /\ ~RecordFails /\ ~WalkFails /\ ~Cancel /\ ~Crash
         /\ RunApart => UNCHANGED cancelled
  <1>1. UNCHANGED <<remote, model, faults>> /\ faults \in Nat
    BY IngestionAssumption DEF Disturbed, TypeOK
  <1>2. \A k : ~Fault(k)
    BY <1>1 DEF Fault
  <1>3. ~FetchFails /\ ~RecordFails /\ ~WalkFails /\ ~Cancel /\ ~Crash
    BY <1>2 DEF FetchFails, RecordFails, WalkFails, Cancel, Crash
  <1>4. RunApart => UNCHANGED cancelled
    BY <1>3 DEF RunApart, Push, SwitchModel, Search, LateStore, vars
  <1> QED
    BY <1>1, <1>2, <1>3, <1>4

LEMMA FreshStep ==
  ASSUME TypeOK, CloneInv, RunInv, SpanInv, FreshInv, [Next]_vars
  PROVE  FreshInv'
  <1>1. ASSUME run'.pc = "idle" PROVE ~cancelled'
    <2>1. CASE RunReset
      <3>1. ~Submit /\ ~Sync
        BY <1>1 DEF Submit, Sync, BeginRun, Resting
      <3> QED
        BY <2>1, <3>1 DEF RunReset, Crash, PushedMeanwhile, FetchFails, BrokenClone, RecordFails, WalkFails,
                          InterruptedEarly, FinishRun, EndRun
    <2>2. CASE RunApart
      BY <1>1, <2>2 DEF FreshInv, RunApart, vars, Push, SwitchModel, Search, LateStore, Cancel
    <2>3. CASE ~RunReset /\ ~RunApart
      BY <1>1, <2>3, Steps, MoveEffect, WalkEffect, NextEffect, InsertEffect, ParseEffect, RemoveEffect,
         RemoveVectorsEffect, BeginEffect, EmbedEffect
    <2> QED
      BY <2>1, <2>2, <2>3
  <1>2. ASSUME run'.pc # "finish", NEW f \in Spanned' PROVE row'[f].model = None
    <2>1. CASE RunReset
      BY <1>2, <2>1, ResetEffect DEF Spanned
    <2>2. CASE ParseFile
      <3>1. row' = row /\ run.pc = "parse" /\ File = run.file /\ run'.pc = "next"
        BY <2>2, ParseEffect DEF File
      <3>2. f \in Spanned \/ f = File
        BY <1>2, <3>1, SpannedStep, ResetEffect
      <3> QED
        BY <3>1, <3>2 DEF FreshInv, RunInv
    <2>3. CASE ~RunReset /\ ~ParseFile
      <3>1. f \in Spanned /\ f \in Walked(clone.tree) /\ f \in Files /\ f \notin run.gone
        BY <1>2, <2>3, SpannedStep, WalkedFiles DEF RunInv
      <3>2. run.pc # "finish"
        <4>1. CASE RunApart
          BY <1>2, <4>1, ApartEffect
        <4>2. CASE ~RunApart
          BY <2>3, <4>2, Steps, MoveEffect, WalkEffect, NextEffect, InsertEffect, RemoveEffect,
             RemoveVectorsEffect, BeginEffect, EmbedEffect DEF Early, InterruptedLate
        <4> QED
          BY <4>1, <4>2
      <3>3. row[f].model = None
        BY <3>1, <3>2 DEF FreshInv
      <3>4. ~MarkEmbedded
        BY <1>2, MoveEffect
      <3> QED
        BY <3>1, <3>3, <3>4, RowsKept DEF NoRow
    <2> QED
      BY <2>1, <2>2, <2>3
  <1>3. ASSUME run'.spans # <<>> PROVE run'.spans[1].start = 0
    <2>1. CASE run'.spans = run.spans
      BY <1>3, <2>1 DEF FreshInv
    <2> DEFINE s == [file  |-> File, start |-> Len(run.items), end |-> Len(run.items) + ChunkCount[Content]]
    <2>2. CASE run'.spans = Append(run.spans, s)
      <3>1. run.spans \in Seq(Span) /\ run.items \in Seq(Item)
        BY DEF TypeOK
      <3>2. s.start = Len(run.items)
        OBVIOUS
      <3> HIDE DEF s
      <3>3. CASE run.spans = <<>>
        <4>1. Spanned = {}
          BY <3>3 DEF Spanned
        <4>2. \A k \in 1..Len(run.items) : FALSE
          BY <4>1 DEF SpanInv
        <4>3. Len(run.items) = 0
          BY <3>1, <4>2
        <4>4. run'.spans[1] = s
          BY <2>2, <3>3
        <4> QED
          BY <3>2, <4>3, <4>4
      <3>4. CASE run.spans # <<>>
        <4>1. run'.spans[1] = run.spans[1]
          BY <2>2, <3>1, <3>4
        <4> QED
          BY <3>4, <4>1 DEF FreshInv
      <3> QED
        BY <3>3, <3>4
    <2> QED
      BY <1>3, <2>1, <2>2, SpannedStep
  <1> QED
    BY <1>1, <1>2, <1>3 DEF FreshInv

(* Only a submission or a sync begins a run. *)
LEMMA BeginSteps ==
  ASSUME TypeOK, Next, Begins PROVE Submit \/ Sync
  <1>1. ~RunApart
    BY ApartEffect DEF Begins
  <1>2. ~Crash
    BY DEF Crash, Begins, Resting
  <1>3. ~Approach /\ ~Moving
    BY Working DEF Begins
  <1>4. RunReset
    BY <1>1, <1>3, Steps DEF Moving
  <1> QED
    BY <1>2, <1>4 DEF Begins, RunReset, PushedMeanwhile, FetchFails, BrokenClone, RecordFails, WalkFails,
       InterruptedEarly, FinishRun

(* A run begins quiet and stays so. *)
LEMMA BeginsQuiet ==
  ASSUME FreshInv, run.pc = "idle", Submit \/ Sync
  PROVE  Quiet'
  <1>1. ~cancelled' /\ run'.pc = "fetch"
    BY DEF FreshInv, Submit, Sync, BeginRun, Resting
  <1> QED
    BY <1>1 DEF Quiet, Early

LEMMA QuietStep ==
  ASSUME TypeOK, CloneInv, RunInv, FreshInv, Quiet, git # "broken", [Next]_vars, ~Disturbed
  PROVE  Quiet'
  <1>0. /\ UNCHANGED <<remote, model>>
        /\ \A k : ~Fault(k)
        /\ ~FetchFails /\ ~BrokenClone /\ ~RecordFails /\ ~WalkFails /\ ~Cancel /\ ~Crash
        /\ RunApart => UNCHANGED cancelled
        /\ ~cancelled /\ ~InterruptedEarly /\ ~InterruptedLate
    BY QuietSteps DEF Quiet, InterruptedEarly, InterruptedLate, BrokenClone
  <1>1. run.pc \notin Early =>
          /\ clone = remote /\ run.model = model
          /\ recorded => lastSha = remote.sha
          /\ recorded => \A f \in Walked(clone.tree) \ Pending : Settled(f)
          /\ recorded => \A f \in Files \ Walked(clone.tree) : HasRow(f) => f \in run.gone
    BY DEF Quiet, Early
  <1>r. run.pc # "record" => recorded' = recorded
    BY RecordedSteps DEF RecordRepository
  <1>2. model # None
    BY IngestionAssumption DEF TypeOK
  <1>3. CASE RunReset
    <2>1. CASE Submit \/ Sync
      BY <2>1, BeginsQuiet DEF Submit, Sync
    <2>2. ~PushedMeanwhile
      BY DEF PushedMeanwhile, Quiet
    <2>3. CASE FinishRun
      <3>1. /\ run.pc = "finish" /\ run'.pc = "idle" /\ job' = "completed" /\ ~cancelled'
            /\ UNCHANGED <<clone, lastSha>>
        BY <2>3 DEF FinishRun, EndRun, Resting, tables, copy, repository
      <3>2. clone' = remote' /\ (recorded' => lastSha' = remote'.sha)
        BY <1>0, <1>1, <1>r, <3>1 DEF Early
      <3> QED
        BY <3>1, <3>2 DEF Quiet, Early
    <2> QED
      BY <1>0, <1>3, <2>1, <2>2, <2>3 DEF RunReset
  <1>4. CASE RunApart
    <2>1. UNCHANGED <<run, row, clone, job, recorded, lastSha, remote, model, cancelled>>
      BY <1>0, <1>4, ApartEffect
    <2>2. /\ Pending' = Pending /\ Spanned' = Spanned /\ Outstanding' = Outstanding
          /\ Walked(clone.tree)' = Walked(clone.tree)
          /\ \A f : HasRow(f)' = HasRow(f)
      BY <2>1 DEF Pending, Spanned, Outstanding, Walked, HasRow
    <2>3. \A f : Settled(f)' = Settled(f)
      BY <2>1, <2>2 DEF Settled
    <2> QED
      BY <2>1, <2>2, <2>3 DEF Quiet
  <1>5. CASE Approach
    <2>1. ~cancelled'
      BY <1>0, <1>5 DEF Approach, CloneSucceeds, RecordSucceeds, TouchRepoCheck, FetchSucceeds, ResetSucceeds
    <2>2. CASE CloneSucceeds \/ ResetSucceeds
      <3>1. clone' = remote'
        BY <1>0, <2>2 DEF CloneSucceeds, ResetSucceeds
      <3>2. run'.pc \in {"record", "touch"}
        BY <2>2 DEF CloneSucceeds, ResetSucceeds, Goto, TypeOK
      <3> QED
        BY <2>1, <3>1, <3>2 DEF Quiet, Early
    <2>3. CASE FetchSucceeds
      <3>1. run'.pc = "reset" /\ run'.fetched = remote.sha
        BY <2>3 DEF FetchSucceeds, TypeOK
      <3> QED
        BY <1>0, <2>1, <3>1 DEF Quiet, Early
    <2>4. CASE RecordSucceeds
      <3>1. run.pc = "record" /\ run'.pc = "touch" /\ clone' = clone
        BY <2>4 DEF RecordSucceeds, Goto, TypeOK, copy
      <3> QED
        BY <1>0, <2>1, <3>1 DEF Quiet, Early
    <2>5. CASE TouchRepoCheck
      <3>1. run.pc = "touch" /\ run'.pc = "walk" /\ clone' = clone /\ recorded' = recorded
        BY <2>5 DEF TouchRepoCheck, Goto, TypeOK, copy
      <3>2. recorded => lastSha' = clone.sha
        BY <1>0, <2>5 DEF TouchRepoCheck
      <3> QED
        BY <1>0, <2>1, <3>1, <3>2 DEF Quiet, Early
    <2> QED
      BY <1>5, <2>2, <2>3, <2>4, <2>5 DEF Approach
  (* From the walk on. *)
  <1> DEFINE Done == /\ run'.model = model'
                     /\ recorded => \A f \in Walked(clone.tree)' \ Pending' : Settled(f)'
                     /\ recorded => \A f \in Files \ Walked(clone.tree)' : HasRow(f)' => f \in run'.gone
  <1>6. ASSUME ~cancelled', run'.pc \notin Early, UNCHANGED <<clone, lastSha>>,
               run.pc \notin {"idle", "fetch", "reset", "record", "touch"}, Done,
               run'.pc \in {"delete", "purge", "insert"} => run'.file \in Outstanding',
               run'.pc = "mark" => run'.embedded = Len(run'.items)
        PROVE  Quiet'
    <2>1. clone' = remote' /\ (recorded' => lastSha' = remote'.sha) /\ recorded' = recorded
      BY <1>0, <1>r, <1>6 DEF Quiet
    <2> QED
      BY <1>6, <2>1 DEF Quiet, Early
  <1>7. ASSUME UNCHANGED <<row, clone>>
        PROVE  /\ Walked(clone.tree)' = Walked(clone.tree) /\ Outstanding' = Outstanding
               /\ \A f : HasRow(f)' = HasRow(f)
    BY <1>0, <1>7 DEF Walked, HasRow, Outstanding
  (* Steps that change no row and end no file. *)
  <1>8. ASSUME UNCHANGED <<row, clone>>, run.pc \notin Early, run.pc # "parse",
               Pending \subseteq Pending', Spanned' = Spanned, run'.gone = run.gone, run'.model = run.model
        PROVE  Done
    <2>1. \A f : Settled(f) => Settled(f)'
      BY <1>0, <1>8 DEF Settled
    <2> QED
      BY <1>0, <1>1, <1>7, <1>8, <2>1
  <1>9. CASE WalkSucceeds
    <2>1. UNCHANGED <<row, clone, lastSha, cancelled>> /\ run'.model = model
      <3>1. UNCHANGED <<row, clone, lastSha, cancelled>>
        BY <1>9 DEF WalkSucceeds, tables, copy, repository
      <3>2. PICK m \in {model, None} : /\ IF m = None THEN Fault("info") ELSE Works
                                       /\ run' = [run EXCEPT !.pc = "next", !.model = m, !.todo = Walked(clone.tree),
                                            !.gone = {f \in Files : row[f].hash # None} \ Walked(clone.tree)]
        BY <1>9 DEF WalkSucceeds
      <3>3. m = model
        BY <1>0, <3>2
      <3> QED
        BY <3>1, <3>2, <3>3 DEF TypeOK
    <2>2. /\ run.pc = "walk" /\ run'.pc = "next" /\ run'.todo = Walked(clone.tree)
          /\ run'.gone = {f \in Files : HasRow(f)} \ Walked(clone.tree)
      BY <1>9, WalkEffect
    <2>3. Pending' = Walked(clone.tree)
      BY <2>2 DEF Pending
    <2>4. Done
      BY <1>0, <1>7, <2>1, <2>2, <2>3
    <2> QED
      BY <1>0, <1>6, <2>1, <2>2, <2>4 DEF Early
  <1>10. CASE NextFile
    <2>1. /\ UNCHANGED <<row, clone, lastSha, cancelled>> /\ run'.gone = run.gone
          /\ run.pc = "next" /\ run.pc \notin Early /\ run'.model = run.model /\ Spanned' = Spanned
      BY <1>10, NextFrame, NextEffect DEF Early, KeptItems
    <2>2. PICK f \in run.todo :
              /\ run'.todo = run.todo \ {f}
              /\ \/ run'.pc = "next" /\ Unchanged(f)
                 \/ run'.pc = (IF HasRow(f) THEN "delete" ELSE "insert") /\ run'.file = f /\ ~Unchanged(f)
      BY <1>0, <1>10, NextEffect
    <2>3. Pending = run.todo /\ f \in Walked(clone.tree) /\ f \in Files
      BY <2>1, <2>2, WalkedFiles DEF Pending, RunInv
    <2>4. CASE run'.pc = "next" /\ Unchanged(f)
      <3>1. Pending' = run.todo \ {f}
        BY <2>2, <2>4 DEF Pending
      <3>2. row[f].hash = clone.tree[f] /\ row[f].model = model
        BY <1>1, <1>2, <2>1, <2>4 DEF Unchanged
      <3>3. Settled(f)'
        BY <1>0, <2>1, <3>2 DEF Settled
      <3>4. \A g : Settled(g) => Settled(g)'
        BY <1>0, <2>1 DEF Settled
      <3>5. Done
        BY <1>0, <1>1, <1>7, <2>1, <2>3, <3>1, <3>3, <3>4
      <3> QED
        BY <1>0, <1>6, <2>1, <2>4, <3>5 DEF Early
    <2>5. CASE run'.pc = (IF HasRow(f) THEN "delete" ELSE "insert") /\ run'.file = f /\ ~Unchanged(f)
      <3>1. Pending' = run.todo
        BY <2>2, <2>5 DEF Pending
      <3>2. Done
        BY <1>8, <2>1, <2>3, <3>1
      <3>3. f \in Outstanding
        <4>1. row[f].hash # remote.tree[f] \/ row[f].model # model
          BY <1>1, <1>2, <2>1, <2>5 DEF Unchanged
        <4> QED
          BY <1>1, <2>1, <2>3, <4>1 DEF Outstanding
      <3> QED
        BY <1>0, <1>6, <1>7, <2>1, <2>5, <3>2, <3>3 DEF Early
    <2> QED
      BY <2>2, <2>4, <2>5
  <1>11. CASE LastFileDone \/ DeleteSymbols \/ PurgeVectors
    <2>1. UNCHANGED <<row, clone, lastSha, cancelled>>
      BY <1>11 DEF LastFileDone, DeleteSymbols, PurgeVectors, tables, copy, repository
    <2>2. /\ Pending' = Pending /\ run'.gone = run.gone /\ run.pc \notin Early /\ run.pc # "parse"
          /\ run'.model = run.model /\ Spanned' = Spanned
          /\ run'.pc \notin Early /\ run'.pc # "mark"
      BY <1>11, MoveEffect DEF Pending, Kept, Early, Spanned
    <2>3. Done
      BY <1>8, <2>1, <2>2
    <2>4. run'.pc \in {"delete", "purge", "insert"} => run'.file \in Outstanding
      BY <1>11, MoveEffect DEF Quiet, Kept
    <2> QED
      BY <1>0, <1>6, <1>7, <2>1, <2>2, <2>3, <2>4 DEF Early
  <1>12. CASE InsertFile
    <2>a. /\ run.pc = "insert" /\ run'.gone = run.gone /\ run'.model = run.model
          /\ UNCHANGED <<clone, lastSha, cancelled>> /\ Spanned' = Spanned
      BY <1>12, InsertEffect DEF InsertFile, KeptItems, Spanned, copy, repository
    <2>b. CASE ~recorded /\ run'.pc = "next"
      <3>1. Done
        BY <1>0, <1>1, <2>a, <2>b DEF Early
      <3> QED
        BY <1>0, <1>6, <2>a, <2>b, <3>1 DEF Early
    <2>1. ASSUME recorded PROVE Quiet'
      <3>1. /\ run.pc = "insert" /\ run'.gone = run.gone /\ run'.todo = run.todo /\ File = run.file
            /\ File \in Files /\ File \in Walked(clone.tree) /\ run'.model = run.model /\ Spanned' = Spanned
            /\ \A f \in Files \ {File} : row'[f] = row[f]
            /\ run'.pc = "parse" /\ run'.file = File /\ row'[File] = [hash |-> Content, model |-> None]
            /\ UNCHANGED <<clone, lastSha, cancelled>>
        BY <1>0, <1>12, <2>1, InsertEffect DEF InsertFile, File, KeptItems, Spanned, copy, repository
      <3>2. Pending = run.todo \union {File} /\ Pending' = run.todo /\ run.pc \notin Early
        BY <3>1 DEF Pending, Early
      <3>3. ASSUME NEW f, f = File PROVE Settled(f)'
        BY <3>1, <3>3 DEF Settled, Content
      <3>4. \A f \in Files \ {File} : Settled(f) => Settled(f)'
        BY <1>0, <3>1 DEF Settled
      <3>5. Walked(clone.tree)' = Walked(clone.tree)
        BY <3>1 DEF Walked
      <3>6. \A f \in Walked(clone.tree) \ Pending' : Settled(f)'
        BY <1>1, <2>1, <3>1, <3>2, <3>3, <3>4, WalkedFiles
      <3>7. \A f \in Files \ Walked(clone.tree) : HasRow(f)' => f \in run.gone
        <4> SUFFICES ASSUME NEW f \in Files \ Walked(clone.tree), HasRow(f)' PROVE f \in run.gone
          OBVIOUS
        <4>1. f # File /\ HasRow(f)
          BY <3>1 DEF HasRow
        <4> QED
          BY <1>1, <2>1, <3>2, <4>1
      <3>8. Done
        BY <1>0, <1>1, <2>1, <3>1, <3>2, <3>5, <3>6, <3>7
      <3> QED
        BY <1>0, <1>6, <3>1, <3>8 DEF Early
    <2>2. ~recorded => run'.pc = "next"
      <3>1. run \in RunsOf(remote.sha)
        BY DEF TypeOK, RunsOf
      <3>2. ~recorded => run' = SkipFile
        BY <1>12 DEF InsertFile
      <3> QED
        BY <3>1, <3>2 DEF SkipFile, RunsOf
    <2> QED
      BY <2>b, <2>1, <2>2
  <1>13. CASE ParseFile
    <2>1. /\ run.pc = "parse" /\ run'.pc = "next" /\ run'.gone = run.gone /\ run'.todo = run.todo
          /\ run'.model = run.model /\ File = run.file /\ UNCHANGED <<row, clone, lastSha, cancelled>>
      BY <1>13, ParseEffect DEF ParseFile, File, copy, repository
    <2>2. File \in Spanned' \/ File \in Unsupported
      <3>1. SkipFile.spans = run.spans
        BY DEF SkipFile, TypeOK
      <3>2. ASSUME File \notin Unsupported PROVE run'.spans # run.spans
        <4> DEFINE s == [file |-> File, start |-> Len(run.items), end |-> Len(run.items) + ChunkCount[Content]]
        <4>1. run' = [SkipFile EXCEPT !.items = @ \o NewItems, !.spans = Append(@, s)]
          BY <1>0, <1>13, <3>2 DEF ParseFile
        <4> HIDE DEF s
        <4>2. run'.spans = Append(run.spans, s)
          BY <3>1, <4>1 DEF SkipFile, TypeOK
        <4>3. run.spans \in Seq(Span)
          BY DEF TypeOK
        <4> QED
          BY <4>2, <4>3
      <3>3. ~RunReset
        BY <1>13, ParseEffect, ResetEffect
      <3> QED
        BY <3>2, <3>3, SpannedStep
    <2>3. Spanned \subseteq Spanned'
      BY <1>13, <2>1, SpannedStep, ResetEffect
    <2>4. \A f : Settled(f) => Settled(f)'
      BY <1>0, <2>1, <2>2, <2>3 DEF Settled
    <2>5. Pending' = Pending /\ run.pc \notin Early
      BY <2>1 DEF Pending, Early
    <2>6. Done
      BY <1>0, <1>1, <1>7, <2>1, <2>4, <2>5
    <2> QED
      BY <1>0, <1>6, <2>1, <2>6 DEF Early
  <1>14. CASE RemoveFile
    <2>1. PICK g \in run.gone :
              /\ g \in Files /\ g \notin Walked(clone.tree) /\ run'.gone = run.gone \ {g}
              /\ row'[g] = NoRow /\ \A f \in Files \ {g} : row'[f] = row[f]
      BY <1>0, <1>14, RemoveEffect
    <2>2. /\ UNCHANGED <<clone, lastSha, cancelled>> /\ Pending' = Pending /\ run.pc \notin Early
          /\ run.pc = "remove" /\ run'.pc = "removeVectors" /\ run'.model = run.model /\ Spanned' = Spanned
      <3>1. UNCHANGED <<clone, lastSha, cancelled>>
        BY <1>14 DEF RemoveFile, copy, repository
      <3> QED
        BY <1>14, <3>1, RemoveEffect DEF Pending, Early, KeptItems, Spanned
    <2>3. ~HasRow(g)'
      BY <2>1 DEF HasRow, NoRow
    <2>4. Walked(clone.tree)' = Walked(clone.tree) /\ \A f : row'[f] = row[f] => HasRow(f)' = HasRow(f)
      BY <2>2 DEF Walked, HasRow
    <2>5. \A f \in Files \ {g} : Settled(f) => Settled(f)'
      BY <1>0, <2>1, <2>2 DEF Settled
    <2>6. Done
      BY <1>0, <1>1, <2>1, <2>2, <2>3, <2>4, <2>5, WalkedFiles
    <2> QED
      BY <1>0, <1>6, <2>2, <2>6 DEF Early
  <1>15. CASE RemoveVectors
    <2>1. /\ UNCHANGED <<row, clone, lastSha, cancelled>> /\ run'.gone = run.gone /\ Pending' = Pending
          /\ run.pc = "removeVectors" /\ run'.pc = "remove" /\ run'.model = run.model /\ Spanned' = Spanned
      BY <1>15, RemoveVectorsEffect DEF RemoveVectors, tables, copy, repository, Pending, KeptItems, Spanned
    <2>2. Done
      BY <1>8, <2>1 DEF Early
    <2> QED
      BY <1>0, <1>6, <2>1, <2>2 DEF Early
  <1>16. CASE BeginEmbedding \/ EmbedBatch
    <2>1. /\ UNCHANGED <<row, clone, lastSha, cancelled>> /\ run'.gone = run.gone /\ Pending' = Pending
          /\ run.pc \in {"remove", "embed"} /\ run'.model = run.model /\ Spanned' = Spanned
      BY <1>16, BeginEffect, EmbedEffect DEF BeginEmbedding, EmbedBatch, tables, copy, repository, Pending, Spanned
    <2>2. run'.pc = "embed"
      <3>1. run.pc = "embed" /\ EmbedBatch => run'.pc = "embed"
        BY <1>0 DEF EmbedBatch, TypeOK
      <3> QED
        BY <1>16, <3>1, BeginEffect, EmbedEffect
    <2>3. Done
      BY <1>8, <2>1 DEF Early
    <2> QED
      BY <1>0, <1>6, <2>1, <2>2, <2>3 DEF Early
  <1>17. CASE EmbeddingDone
    <2>1. /\ UNCHANGED <<row, clone, lastSha, cancelled>> /\ run'.gone = run.gone /\ Pending' = Pending
          /\ run.pc = "embed" /\ run'.pc = "mark" /\ run'.model = run.model /\ Spanned' = Spanned
          /\ run'.embedded = run.embedded /\ run'.items = run.items /\ run.embedded = Len(run.items)
      BY <1>17, MoveEffect DEF EmbeddingDone, tables, copy, repository, Pending, Kept, Spanned
    <2>2. Done
      BY <1>8, <2>1 DEF Early
    <2> QED
      BY <1>0, <1>6, <2>1, <2>2 DEF Early
  <1>18. CASE MarkEmbedded
    <2>1. /\ UNCHANGED <<clone, lastSha, cancelled>> /\ run'.gone = run.gone /\ Pending' = Pending
          /\ run.pc = "mark" /\ run'.pc = "finish" /\ run'.model = run.model /\ Spanned' = Spanned
      BY <1>18, MoveEffect DEF MarkEmbedded, copy, repository, Pending, Kept, Spanned
    <2>2. \A f \in Files : row'[f].hash = row[f].hash /\ (row'[f] = row[f] \/ row'[f].model = run.model)
      BY <1>18, MarkEffect
    <2>3. Walked(clone.tree)' = Walked(clone.tree) /\ \A f \in Files : HasRow(f)' = HasRow(f)
      BY <2>1, <2>2 DEF Walked, HasRow
    <2>4. run.model = model
      BY <1>1, <2>1 DEF Early
    <2>5. \A f \in Files : Settled(f) => Settled(f)'
      BY <1>0, <2>1, <2>2, <2>4 DEF Settled
    <2>6. Done
      BY <1>0, <1>1, <2>1, <2>3, <2>5, WalkedFiles DEF Early
    <2> QED
      BY <1>0, <1>6, <2>1, <2>6 DEF Early
  <1> QED
    BY <1>0, <1>3, <1>4, <1>5, <1>9, <1>10, <1>11, <1>12, <1>13, <1>14, <1>15, <1>16, <1>17, <1>18, Steps

(* Sets of files are finite, and none is larger than all. *)
LEMMA FilesCounted ==
  ASSUME NEW S, S \subseteq Files
  PROVE  IsFiniteSet(S) /\ Cardinality(S) \in Nat /\ Cardinality(S) <= FileCount
  <1>1. IsFiniteSet(Files) /\ Cardinality(Files) = FileCount
    BY FS_Interval, IngestionAssumption DEF Files
  <1> QED
    BY <1>1, FS_Subset, FS_CardinalityType

(* The cap of BeginEmbedding leaves the first file whole. *)
LEMMA FitsStep ==
  ASSUME TypeOK, CloneInv, RunInv, RecordedInv, SpanInv, FreshInv, Quiet, Affordable, Fits,
         [Next]_vars, TypeOK', SpanInv'
  PROVE  Fits'
  <1>1. CASE RunReset
    BY <1>1, ResetEffect DEF Fits
  <1>2. CASE ParseFile
    <2>1. SUFFICES ASSUME run'.spans # <<>> PROVE run'.spans[1].end <= Len(run'.items)
      BY DEF Fits
    <2>2. run'.pc = "next"
      BY <1>2, ParseEffect
    <2>3. run'.spans \in Seq(Span)
      BY DEF TypeOK
    <2>4. 1 \in 1..Len(run'.spans)
      BY <2>1, <2>3
    <2> QED
      BY <2>2, <2>4 DEF SpanInv
  <1>3. CASE BeginEmbedding
    <2>1. SUFFICES ASSUME run.spans # <<>> PROVE run.spans[1].end <= Len(Capped(run.items))
      BY <1>3, BeginEffect DEF Fits, BeginEmbedding, TypeOK
    <2> DEFINE s == run.spans[1]
    <2>2. run.pc = "remove" /\ run.items \in Seq(Item) /\ run.spans \in Seq(Span)
      BY <1>3 DEF BeginEmbedding, TypeOK
    <2>3. 1 \in 1..Len(run.spans)
      BY <2>1, <2>2
    <2>4. s.file \in Spanned /\ s.start = 0 /\ s.end = s.start + ChunkCount[row[s.file].hash] /\ s.end <= Len(run.items)
      BY <2>1, <2>3 DEF SpanInv, Spanned, FreshInv, Fits
    <2>5. s.file \in Walked(clone.tree) \ Pending /\ clone = remote
      BY <2>2, <2>4 DEF RunInv, Pending, Quiet, Early, Taking
    <2>a. recorded
      BY <2>3, <2>5, WalkedFiles DEF RecordedInv, SpanInv, HasRow
    <2>6. row[s.file].hash = remote.tree[s.file] /\ s.file \in Walked(remote.tree)
      BY <2>2, <2>5, <2>a DEF Quiet, Settled, Early
    <2>7. MaxEmbedChunks > 0 => ChunkCount[row[s.file].hash] <= MaxEmbedChunks
      BY <2>6 DEF Affordable
    <2>8. ChunkCount[row[s.file].hash] \in Nat
      <3>1. remote.tree \in Trees /\ s.file \in Files /\ remote.tree[s.file] # None
        BY <2>6 DEF TypeOK, Walked
      <3>2. row[s.file].hash \in Versions
        BY <2>6, <3>1 DEF Trees
      <3> QED
        BY <3>2, ChunkCounts
    <2> HIDE DEF s
    <2>9. CASE MaxEmbedChunks > 0 /\ Len(run.items) > MaxEmbedChunks
      <3>1. Len(Capped(run.items)) = MaxEmbedChunks
        BY <2>2, <2>9, IngestionAssumption DEF Capped
      <3> QED
        BY <2>4, <2>7, <2>8, <2>9, <3>1 DEF s
    <2>10. CASE ~(MaxEmbedChunks > 0 /\ Len(run.items) > MaxEmbedChunks)
      BY <2>4, <2>10 DEF Capped, s
    <2> QED
      BY <2>9, <2>10
  <1>4. CASE Approach \/ LastFileDone \/ DeleteSymbols \/ PurgeVectors
             \/ EmbeddingDone \/ MarkEmbedded \/ InterruptedLate
    BY <1>4, MoveEffect DEF Kept, KeptItems, Fits
  <1>5. CASE WalkSucceeds \/ NextFile \/ InsertFile \/ RemoveFile \/ RemoveVectors \/ EmbedBatch
    BY <1>5, WalkEffect, NextEffect, InsertEffect, RemoveEffect, RemoveVectorsEffect, EmbedEffect DEF KeptItems, Fits
  <1>6. CASE RunApart
    BY <1>6, ApartEffect DEF Fits
  <1> QED
    BY <1>1, <1>2, <1>3, <1>4, <1>5, <1>6, Steps

(* A run takes files off only, *)
LEMMA OutstandingShrinks ==
  ASSUME TypeOK, RunInv, RecordedInv, SpanInv, Quiet, [Next]_vars, ~Disturbed
  PROVE  Outstanding' \subseteq Outstanding
  <1>0. UNCHANGED <<remote, model>>
    BY QuietSteps
  <1> SUFFICES ASSUME NEW f \in Outstanding' PROVE f \in Outstanding
    OBVIOUS
  <1>1. /\ f \in Files
        /\ f \in Walked(remote.tree) => row'[f].hash # remote.tree[f] \/ row'[f].model # model
        /\ f \notin Walked(remote.tree) => row'[f].hash # None
    <2>1. Walked(remote.tree)' = Walked(remote.tree)
      BY <1>0 DEF Walked
    <2> QED
      BY <1>0, <2>1 DEF Outstanding, HasRow
  <1>2. CASE row'[f] = row[f]
    BY <1>1, <1>2 DEF Outstanding, HasRow
  <1>3. CASE InsertFile /\ f = File
    BY <1>3 DEF InsertFile, Quiet, File
  <1>4. CASE RemoveFile /\ f \in run.gone /\ row'[f] = NoRow
    <2>1. run.pc = "remove" /\ f \notin Walked(clone.tree)
      BY <1>4 DEF RemoveFile, RunInv
    <2>2. clone = remote
      BY <2>1 DEF Quiet
    <2> QED
      BY <1>1, <1>4, <2>1, <2>2 DEF NoRow
  <1>5. CASE /\ MarkEmbedded /\ f \in Spanned /\ row'[f].hash = row[f].hash
             /\ row'[f].model = run.model
    <2>1. run.pc = "mark"
      BY <1>5 DEF MarkEmbedded
    <2>2. clone = remote /\ run.model = model /\ f \in Walked(clone.tree) \ Pending
      BY <1>5, <2>1 DEF Quiet, Early, RunInv, Pending, Taking
    <2>a. recorded
      BY <1>1, <1>5 DEF RecordedInv, SpanInv, Spanned, HasRow
    <2>3. row[f].hash = remote.tree[f]
      BY <2>1, <2>2, <2>a DEF Quiet, Early, Settled
    <2> QED
      BY <1>1, <1>5, <2>2, <2>3
  <1> QED
    BY <1>1, <1>2, <1>3, <1>4, <1>5, RowsKept

(* and when it records what it embedded, it takes one off or all are.      *)
LEMMA MarkTakesOff ==
  ASSUME TypeOK, RunInv, RecordedInv, SpanInv, FreshInv, Quiet, Affordable, Fits, recorded,
         Next, MarkEmbedded, ~Disturbed
  PROVE  Outstanding' = {} \/ \E f \in Outstanding : f \notin Outstanding'
  <1>0. UNCHANGED <<remote, model>> /\ \A k : ~Fault(k)
    BY QuietSteps
  <1>1. /\ run.pc = "mark" /\ clone = remote /\ run.model = model /\ run.embedded = Len(run.items)
        /\ Pending = {} /\ run.gone = {}
        /\ \A f \in Walked(remote.tree) : Settled(f)
        /\ \A f \in Files \ Walked(remote.tree) : HasRow(f) => f \in run.gone
    <2>1. run.pc = "mark"
      BY DEF MarkEmbedded
    <2>2. Pending = {} /\ run.gone = {}
      BY <2>1 DEF RunInv, Pending, Early, Taking, Ending
    <2> QED
      BY <2>1, <2>2 DEF Quiet, Early
  <1>2. CASE run.spans = <<>>
    <2>1. Spanned = {}
      BY <1>2 DEF Spanned
    <2>2. \A f \in Walked(remote.tree) : row[f].hash = remote.tree[f] /\ row[f].model = model
      BY <1>1, <2>1 DEF Settled, Affordable
    <2>3. Outstanding = {}
      BY <1>1, <2>2 DEF Outstanding
    <2> QED
      BY <2>3, OutstandingShrinks
  <1>3. CASE run.spans # <<>>
    <2> DEFINE f == run.spans[1].file
    <2>1. run.spans \in Seq(Span)
      BY DEF TypeOK
    <2>2. 1 \in 1..Len(run.spans)
      BY <1>3, <2>1
    <2>3. f \in FullyEmbedded(run.spans, run.embedded)
      <3>1. run.spans[1].end <= run.embedded
        BY <1>1, <1>3 DEF Fits
      <3>2. 1 \in {j \in 1..Len(run.spans) : run.spans[j].end <= run.embedded \/ run.spans[j].start = run.spans[j].end}
        BY <2>2, <3>1
      <3> QED
        BY <3>2 DEF FullyEmbedded
    <2>4. f \in Spanned /\ f \in Walked(remote.tree) /\ f \in Files
      <3>1. f \in Spanned
        BY <2>2 DEF Spanned
      <3> HIDE DEF f
      <3>2. f \in Walked(remote.tree)
        BY <1>1, <3>1 DEF RunInv
      <3> QED
        BY <3>1, <3>2, WalkedFiles
    <2>5. row[f].model = None /\ model # None
      BY <1>1, <2>4, IngestionAssumption DEF FreshInv, TypeOK
    <2>6. row'[f].hash = row[f].hash /\ row'[f].model = model
      <3>1. row' = [g \in Files |->
                       IF run.model # None /\ g \in FullyEmbedded(run.spans, run.embedded)
                       THEN [row[g] EXCEPT !.model = run.model] ELSE row[g]]
        BY <1>0 DEF MarkEmbedded
      <3> HIDE DEF f
      <3>2. row'[f] = [row[f] EXCEPT !.model = model]
        BY <1>1, <2>3, <2>4, <2>5, <3>1
      <3> QED
        BY <2>4, <3>2 DEF TypeOK
    <2>7. f \in Outstanding
      BY <2>4, <2>5 DEF Outstanding
    <2>8. row[f].hash = remote.tree[f]
      BY <1>1, <2>4 DEF Settled
    <2> HIDE DEF f
    <2>9. f \notin Outstanding'
      <3>1. Walked(remote.tree)' = Walked(remote.tree)
        BY <1>0 DEF Walked
      <3>2. SUFFICES ASSUME NEW g, g = f PROVE g \notin Outstanding'
        OBVIOUS
      <3> QED
        BY <1>0, <2>4, <2>6, <2>8, <3>1, <3>2 DEF Outstanding
    <2> QED
      BY <2>7, <2>9
  <1> QED
    BY <1>2, <1>3

(* A sync is only asked for while something is outstanding. *)
LEMMA CountStep ==
  ASSUME TypeOK, CloneInv, RunInv, RecordedInv, SpanInv, FreshInv, Quiet, Affordable, Fits, Count,
         git # "broken", ~(Begins /\ ~recorded),
         rounds \in Nat, rounds > 0, Next, Counted, ~Disturbed
  PROVE  Count'
  <1>0. /\ UNCHANGED <<remote, model>>
        /\ ~Crash /\ ~FetchFails /\ ~BrokenClone /\ ~RecordFails /\ ~WalkFails
    BY QuietSteps DEF BrokenClone
  <1> DEFINE n == Cardinality(Outstanding)  n2 == Cardinality(Outstanding')
  <1>1. /\ IsFiniteSet(Outstanding) /\ n \in Nat /\ n <= FileCount /\ FileCount \in Nat
        /\ Outstanding' \subseteq Outstanding
        /\ Outstanding = {} <=> n = 0
    <2>1. Outstanding \subseteq Files
      BY DEF Outstanding
    <2> QED
      BY <2>1, FilesCounted, OutstandingShrinks, FS_EmptySet, IngestionAssumption
  <1>2. IsFiniteSet(Outstanding') /\ n2 \in Nat /\ n2 <= n /\ (n2 = n => Outstanding' = Outstanding)
        /\ (Outstanding' = {} <=> n2 = 0)
    BY <1>1, FS_Subset, FS_CardinalityType, FS_EmptySet
  <1>3. (Cardinality(Outstanding))' = n2
    OBVIOUS
  <1> HIDE DEF n, n2
  <1>4. CASE Begins
    <2>1. /\ run.pc = "idle" /\ job = "completed" /\ recorded
          /\ clone = remote /\ lastSha = remote.sha /\ git = "sound"
      <3>1. run.pc = "idle" /\ recorded
        BY <1>4 DEF Begins
      <3>2. job = "completed" /\ clone = remote /\ lastSha = remote.sha /\ clone.sha # 0
        BY <3>1 DEF Quiet, TypeOK
      <3> QED
        BY <3>1, <3>2 DEF CloneInv, Cloned
    <2>2. ~Submit
      BY <2>1 DEF Submit
    <2>3. Sync
      BY <1>4, <2>2, BeginSteps
    <2>4. PICK f \in Files : row[f].hash # None /\ row[f].model # model
      BY <2>1, <2>3 DEF Sync, SyncNeeded, PendingEmbedding
    <2>5. f \in Outstanding
      BY <2>4 DEF Outstanding, HasRow
    <2>6. rounds + n <= FileCount /\ n > 0
      BY <1>1, <2>1, <2>5 DEF Count, n
    <2>7. run'.pc = "fetch"
      BY <2>3 DEF Sync, BeginRun, Resting
    <2>8. rounds' \in {rounds, rounds + 1}
      BY DEF Counted
    <2>9. /\ rounds' <= 1 \/ rounds' <= FileCount
          /\ rounds' + n2 <= FileCount + 1
      <3>1. n \in Nat /\ n2 \in Nat /\ n2 <= n /\ FileCount \in Nat /\ rounds \in Nat
        BY <1>1, <1>2
      <3>2. ASSUME NEW r \in {rounds, rounds + 1}, NEW a \in Nat, NEW b \in Nat, b <= a, rounds + a <= FileCount, a > 0
            PROVE  (r <= 1 \/ r <= FileCount) /\ r + b <= FileCount + 1
        BY <3>1, <3>2
      <3> QED
        BY <2>6, <2>8, <3>1, <3>2
    <2> QED
      BY <1>3, <2>7, <2>9 DEF Count
  <1>5. CASE ~Begins
    <2>1. rounds' = rounds
      BY <1>5 DEF Counted
    <2>r. recorded' /\ run'.pc \in {"idle", "finish"} => recorded
      <3>1. RecordSucceeds => run'.pc = "touch"
        BY DEF RecordSucceeds, Goto, TypeOK
      <3> QED
        BY <1>0, <3>1, RecordedSteps, RecordSteps
    <2>2. rounds + n2 <= FileCount + 1 /\ (rounds <= 1 \/ rounds <= FileCount)
      BY <1>1, <1>2 DEF Count, n
    <2>3. ASSUME recorded, run'.pc \in {"idle", "finish"}, run.pc \in {"idle", "finish"}
          PROVE  Outstanding' = {} \/ rounds + n2 <= FileCount
      BY <1>1, <1>2, <2>3 DEF Count, n
    <2>4. ASSUME recorded, run'.pc \in {"idle", "finish"}, run.pc \notin {"idle", "finish"}
          PROVE  Outstanding' = {} \/ rounds + n2 <= FileCount
      <3>1. MarkEmbedded
        <4>1. ~PushedMeanwhile /\ ~InterruptedEarly /\ ~InterruptedLate
          BY DEF Quiet, PushedMeanwhile, InterruptedEarly, InterruptedLate
        <4>2. ~RunReset
          BY <1>0, <2>4, <4>1 DEF RunReset, Submit, Sync, BeginRun, FinishRun
        <4>3. ~RunApart
          BY <2>4, ApartEffect
        <4> QED
          BY <2>4, <4>1, <4>2, <4>3, Steps, MoveEffect, WalkEffect, NextEffect, InsertEffect, ParseEffect, RemoveEffect,
             RemoveVectorsEffect, BeginEffect, EmbedEffect DEF Early
      <3>2. Outstanding' = {} \/ Outstanding' # Outstanding
        BY <2>4, <3>1, MarkTakesOff
      <3> QED
        BY <1>1, <1>2, <2>2, <3>2 DEF Count, n
    <2> QED
      BY <1>3, <2>1, <2>2, <2>3, <2>4, <2>r DEF Count
  <1> QED
    BY <1>4, <1>5

(* The first round has every file before it.                               *)
LEMMA FirstRound ==
  ASSUME rounds' = 1, run'.pc = "fetch", run'.spans = <<>>
  PROVE  Fits' /\ Count'
  <1>1. Outstanding' \subseteq Files
    BY DEF Outstanding
  <1>2. Cardinality(Outstanding') \in Nat /\ Cardinality(Outstanding') <= FileCount
    BY <1>1, FilesCounted
  <1> QED
    BY <1>2, IngestionAssumption DEF Fits, Count

LEMMA RoundsInitial ==
  ASSUME RoundsInit PROVE RoundsInv
  BY DEF RoundsInit, Init, Resting, RoundsInv, FreshInv, QuietInv, CountInv, Spanned

LEMMA RoundsStep ==
  ASSUME IngestInv, RoundsInv, [Next /\ Counted]_roundVars
  PROVE  RoundsInv'
  <1> USE DEF IngestInv
  <1>1. CASE UNCHANGED roundVars
    <2>1. UNCHANGED <<remote, clone, git, recorded, lastSha, row, model, job, run, cancelled, rounds>>
      BY <1>1 DEF roundVars, vars, env, copy, repository, tables
    <2>2. /\ Pending' = Pending /\ Spanned' = Spanned /\ Outstanding' = Outstanding /\ Affordable' = Affordable
          /\ Walked(clone.tree)' = Walked(clone.tree) /\ \A f : HasRow(f)' = HasRow(f)
      BY <2>1 DEF Pending, Spanned, Outstanding, HasRow, Walked, Affordable
    <2>3. \A f : Settled(f)' = Settled(f)
      BY <2>1, <2>2 DEF Settled
    <2>4. Quiet' = Quiet
      BY <2>1, <2>2, <2>3 DEF Quiet
    <2>5. Fits' = Fits /\ Count' = Count
      BY <2>1, <2>2 DEF Fits, Count
    <2> QED
      BY <2>1, <2>2, <2>4, <2>5 DEF RoundsInv, FreshInv, QuietInv, CountInv
  <1>2. CASE Next /\ Counted
    <2>1. IngestInv' /\ FreshInv'
      BY <1>2, IngestStep, FreshStep DEF RoundsInv
    <2>2. rounds' \in Nat
      BY <1>2 DEF Counted, RoundsInv
    <2>3. ASSUME rounds' > 0, git' # "broken" PROVE Quiet' /\ (Affordable' => Fits' /\ Count')
      <3>1. ~Disturbed /\ Affordable' = Affordable
        <4>1. ~Disturbed
          BY <1>2, <2>3 DEF Counted
        <4>2. remote' = remote
          BY <4>1 DEF Disturbed
        <4> QED
          BY <4>1, <4>2 DEF Affordable, Walked
      <3>a. git # "broken" \/ (Begins /\ ~recorded)
        <4>1. ~Crash
          BY <1>2, <3>1, QuietSteps
        <4>2. Submit /\ ~recorded => Begins
          BY DEF Submit, BeginRun, Begins, Resting
        <4> QED
          BY <1>2, <2>3, <4>1, <4>2, CloneSteps DEF copy, CloneSucceeds, ResetSucceeds
      <3>2. CASE rounds > 0 /\ ~(Begins /\ ~recorded)
        <4>1. Quiet
          BY <3>2, <3>a DEF RoundsInv, QuietInv
        <4>2. Quiet'
          BY <1>2, <3>1, <3>2, <3>a, <4>1, QuietStep DEF RoundsInv
        <4>3. ASSUME Affordable' PROVE Fits' /\ Count'
          <5>1. Affordable /\ Fits /\ Count
            BY <3>1, <3>2, <3>a, <4>3 DEF RoundsInv, CountInv
          <5> QED
            BY <1>2, <3>a, <2>1, <3>1, <3>2, <4>1, <5>1, FitsStep, CountStep DEF RoundsInv
        <4> QED
          BY <4>2, <4>3
      <3>3. CASE rounds = 0 \/ (Begins /\ ~recorded)
        <4>1. Begins /\ rounds' = 1
          BY <1>2, <2>3, <3>1, <3>3 DEF Counted
        <4>2. (Submit \/ Sync) /\ run.pc = "idle"
          BY <1>2, <4>1, BeginSteps DEF Begins
        <4>3. run'.pc = "fetch" /\ run'.spans = <<>>
          BY <4>2 DEF Submit, Sync, BeginRun, Resting
        <4> QED
          BY <4>1, <4>2, <4>3, BeginsQuiet, FirstRound DEF RoundsInv
      <3> QED
        BY <3>2, <3>3 DEF RoundsInv
    <2> QED
      BY <2>1, <2>2, <2>3 DEF RoundsInv, QuietInv, CountInv
  <1> QED
    BY <1>1, <1>2

LEMMA SyncsAreFewImplied ==
  ASSUME IngestInv, RoundsInv PROVE SyncsAreFew
  <1>0. rounds \in Nat
    BY DEF RoundsInv
  <1>i. rounds <= 0 => rounds <= 1 /\ ~(rounds > 0)
    BY <1>0
  <1> SUFFICES ASSUME Affordable, git # "broken", rounds > 0
               PROVE  /\ rounds <= 1 \/ rounds <= FileCount
                      /\ run.pc = "idle" /\ recorded /\ rounds >= FileCount => UpToDate(TRUE)
    <2>1. rounds > 0 \/ rounds <= 0
      BY <1>0
    <2> QED
      BY <1>i, <2>1 DEF SyncsAreFew
  <1>1. Quiet /\ Count
    BY DEF RoundsInv, QuietInv, CountInv
  <1>2. ASSUME run.pc = "idle", recorded, rounds >= FileCount PROVE UpToDate(TRUE)
    <2>1. job = "completed" /\ clone = remote /\ lastSha = remote.sha /\ git = "sound"
      <3>1. job = "completed" /\ clone = remote /\ lastSha = remote.sha /\ clone.sha # 0
        BY <1>1, <1>2 DEF Quiet, IngestInv, TypeOK
      <3> QED
        BY <3>1 DEF IngestInv, CloneInv, Cloned
    <2>2. Outstanding = {}
      <3>1. Outstanding \subseteq Files
        BY DEF Outstanding
      <3>2. /\ IsFiniteSet(Outstanding) /\ Cardinality(Outstanding) \in Nat
            /\ Cardinality(Outstanding) = 0 => Outstanding = {}
        BY <3>1, FilesCounted, FS_EmptySet
      <3>3. rounds \in Nat /\ FileCount \in Nat
        BY IngestionAssumption DEF RoundsInv
      <3> QED
        BY <1>1, <1>2, <3>2, <3>3 DEF Count
    <2>3. ~PendingEmbedding
      BY <2>2 DEF Outstanding, PendingEmbedding, HasRow
    <2> QED
      BY <1>2, <2>1, <2>3 DEF UpToDate, SyncNeeded
  <1> QED
    BY <1>1, <1>2 DEF Count

LEMMA RoundsRefine == RoundsSpec => Spec
  <1>1. RoundsInit => Init
    BY DEF RoundsInit
  <1>2. [Next /\ Counted]_roundVars => [Next]_vars
    BY DEF roundVars
  <1> QED
    BY <1>1, <1>2, PTL DEF RoundsSpec, Spec

(* The counted rounds, their budget and the files left agree throughout.   *)
THEOREM RoundsInvariant == RoundsSpec => []RoundsInv
  <1>1. RoundsSpec => []IngestInv
    BY RoundsRefine, IngestInvariant, PTL
  <1> QED
    BY <1>1, RoundsInitial, RoundsStep, PTL DEF RoundsSpec

(* Undisturbed syncs of ingestRepository are bounded by the number of      *)
(* files, for any tree, chunk counts and budget that admits each file, and *)
(* after any pushes, model changes and faults of every kind.               *)
THEOREM IngestionSyncsAreFew == RoundsSpec => []SyncsAreFew
  <1>1. RoundsSpec => []IngestInv
    BY RoundsRefine, IngestInvariant, PTL
  <1> QED
    BY <1>1, RoundsInvariant, SyncsAreFewImplied, PTL
-----------------------------------------------------------------------------
(* How far a run is from its end: the stages before it, and the steps left *)
(* in the one it is in.                                                    *)
Stage == [fetch |-> 8, reset |-> 7, record |-> 7, touch |-> 6, walk |-> 5,
          next |-> 4, delete |-> 4, purge |-> 4, insert |-> 4, parse |-> 4,
          remove |-> 3, removeVectors |-> 3, embed |-> 2, mark |-> 1, finish |-> 0][run.pc]

AtThisFile == [next |-> 0, delete |-> 4, purge |-> 3, insert |-> 2, parse |-> 1][run.pc]

LeftInStage ==
    IF run.pc \in Taking \union {"next"} THEN 5 * Cardinality(run.todo) + AtThisFile
    ELSE IF run.pc = "remove" THEN 2 * Cardinality(run.gone)
    ELSE IF run.pc = "removeVectors" THEN 2 * Cardinality(run.gone) + 1
    ELSE IF run.pc = "embed" THEN Len(run.items) - run.embedded
    ELSE 0

Nearer ==
    \/ Stage' < Stage
    \/ Stage' = Stage /\ LeftInStage' \in 0..(LeftInStage - 1)

(* A run of ingestRepository never goes round in circles: every step ends  *)
(* it or takes it nearer to its end, so it ends after boundedly many.      *)
RunAdvances == [][UNCHANGED run \/ run.pc = "idle" \/ run'.pc = "idle" \/ Nearer]_vars

LEMMA OneLess ==
  ASSUME NEW S, S \subseteq Files, NEW f \in S
  PROVE  Cardinality(S) \in Nat \ {0} /\ Cardinality(S \ {f}) = Cardinality(S) - 1
  <1>1. IsFiniteSet(S) /\ Cardinality(S) \in Nat
    BY FilesCounted
  <1> QED
    BY <1>1, FS_RemoveElement, FS_EmptySet

LEMMA AdvanceStep ==
  ASSUME TypeOK, CloneInv, RunInv, TypeOK', [Next]_vars, run' # run, run.pc # "idle", run'.pc # "idle"
  PROVE  Nearer
  <1>0. ASSUME NEW S, S \subseteq Files PROVE Cardinality(S) \in Nat
    BY <1>0, FilesCounted
  <1>1. ~RunApart /\ ~RunReset
    <2>1. ~RunApart
      BY ApartEffect
    <2>2. ~RunReset
      BY DEF RunReset, Submit, Sync, Crash, PushedMeanwhile, FetchFails, BrokenClone, RecordFails, WalkFails,
             InterruptedEarly, FinishRun, EndRun, Resting
    <2> QED
      BY <2>1, <2>2
  <1>2. CASE Approach
    <2>1. \/ run.pc = "fetch" /\ run'.pc \in {"reset", "record"}
          \/ run.pc \in {"reset", "record"} /\ run'.pc = "touch"
          \/ run.pc = "touch" /\ run'.pc = "walk"
      BY <1>2 DEF Approach, CloneSucceeds, RecordSucceeds, TouchRepoCheck, FetchSucceeds, ResetSucceeds, Goto, TypeOK
    <2> QED
      BY <2>1 DEF Nearer, Stage
  <1>3. CASE WalkSucceeds
    BY <1>3, WalkEffect DEF Nearer, Stage
  <1>4. CASE NextFile
    <2>1. PICK f \in run.todo : run'.todo = run.todo \ {f} /\ run'.pc \in {"next", "delete", "insert"}
      BY <1>4, NextEffect
    <2>2. run.pc = "next" /\ run.todo \subseteq Files
      BY <1>4, NextEffect DEF TypeOK
    <2>3. Cardinality(run.todo) \in Nat \ {0} /\ Cardinality(run'.todo) = Cardinality(run.todo) - 1
      BY <2>1, <2>2, OneLess
    <2>4. LeftInStage = 5 * Cardinality(run.todo) /\ Stage = 4 /\ Stage' = 4
      BY <2>1, <2>2, <2>3 DEF LeftInStage, AtThisFile, Stage
    <2>5. LeftInStage' \in 5 * Cardinality(run'.todo) .. 5 * Cardinality(run'.todo) + 4
      BY <2>1, <2>3 DEF LeftInStage, AtThisFile, Taking
    <2> QED
      BY <2>3, <2>4, <2>5 DEF Nearer
  <1>5. CASE LastFileDone \/ EmbeddingDone \/ MarkEmbedded \/ BeginEmbedding
    BY <1>5, MoveEffect, BeginEffect DEF Nearer, Stage
  <1>6. CASE DeleteSymbols \/ PurgeVectors \/ InsertFile \/ ParseFile
    <2>1. /\ run'.todo = run.todo
          /\ \/ run.pc = "delete" /\ run'.pc = "purge"
             \/ run.pc = "purge" /\ run'.pc = "insert"
             \/ run.pc = "insert" /\ run'.pc \in {"parse", "next"}
             \/ run.pc = "parse" /\ run'.pc = "next"
      BY <1>6, MoveEffect, InsertEffect, ParseEffect DEF Kept
    <2>2. Cardinality(run.todo) \in Nat
      BY <1>0 DEF TypeOK
    <2> QED
      BY <2>1, <2>2 DEF Nearer, Stage, LeftInStage, AtThisFile, Taking
  <1>7. CASE RemoveFile
    <2>1. PICK f \in run.gone : run'.gone = run.gone \ {f}
      BY <1>7, RemoveEffect
    <2>2. run.pc = "remove" /\ run'.pc = "removeVectors" /\ run.gone \subseteq Files
      BY <1>7, RemoveEffect DEF TypeOK
    <2>3. Cardinality(run.gone) \in Nat \ {0} /\ Cardinality(run'.gone) = Cardinality(run.gone) - 1
      BY <2>1, <2>2, OneLess
    <2>4. LeftInStage = 2 * Cardinality(run.gone) /\ LeftInStage' = 2 * Cardinality(run'.gone) + 1
          /\ Stage' = Stage
      BY <2>2 DEF LeftInStage, Taking, Stage
    <2> QED
      BY <2>3, <2>4 DEF Nearer
  <1>8. CASE RemoveVectors
    <2>1. run.pc = "removeVectors" /\ run'.pc = "remove" /\ run'.gone = run.gone
      BY <1>8, RemoveVectorsEffect
    <2>2. Cardinality(run.gone) \in Nat
      BY <1>0 DEF TypeOK
    <2> QED
      BY <2>1, <2>2 DEF Nearer, Stage, LeftInStage, Taking
  <1>9. CASE EmbedBatch
    <2>1. run.pc = "embed" /\ run.embedded < Len(run.items) /\ run.embedded \in Nat /\ Len(run.items) \in Nat
      BY <1>9 DEF EmbedBatch, Sending, TypeOK
    <2>2. CASE run' = [run EXCEPT !.embedded = BatchEnd]
      <3>1. run'.pc = "embed" /\ run'.items = run.items /\ run'.embedded = BatchEnd
        BY <2>1, <2>2 DEF TypeOK
      <3>2. BatchEnd \in Nat /\ BatchEnd > run.embedded /\ BatchEnd <= Len(run.items)
        BY <2>1, IngestionAssumption DEF BatchEnd
      <3>3. /\ LeftInStage = Len(run.items) - run.embedded /\ LeftInStage' = Len(run.items) - BatchEnd
            /\ Stage' = Stage
        BY <2>1, <3>1 DEF LeftInStage, Taking, Stage
      <3> QED
        BY <2>1, <3>2, <3>3 DEF Nearer
    <2>3. CASE run' = [run EXCEPT !.pc = "mark"]
      <3>1. run'.pc = "mark"
        BY <2>3 DEF TypeOK
      <3> QED
        BY <2>1, <3>1 DEF Nearer, Stage
    <2> QED
      BY <1>9, <2>2, <2>3 DEF EmbedBatch, Goto
  <1>10. CASE InterruptedLate
    <2>1. run'.pc = "finish" /\ run.pc \in RunPCs \ {"idle", "finish"}
      BY <1>10, MoveEffect DEF InterruptedLate, TypeOK
    <2> QED
      BY <2>1 DEF Nearer, Stage, RunPCs
  <1> QED
    BY <1>1, <1>2, <1>3, <1>4, <1>5, <1>6, <1>7, <1>8, <1>9, <1>10, Steps

(* So whatever is pushed, fails or is cancelled, a run only goes forward.  *)
THEOREM RunsAdvance == Spec => RunAdvances
  <1>1. IngestInv /\ IngestInv' /\ [Next]_vars
          => [UNCHANGED run \/ run.pc = "idle" \/ run'.pc = "idle" \/ Nearer]_vars
    BY AdvanceStep DEF IngestInv
  <1> QED
    BY <1>1, IngestInvariant, PTL DEF Spec, RunAdvances
=============================================================================
