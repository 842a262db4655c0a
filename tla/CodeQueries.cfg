SPECIFICATION QueriesSpec
CONSTANTS
  Trees <- SmallTrees
  NoCaller = NoCaller
  MaxChunk = 7
  Overlap = 3
  Sources = {0, 1, 6, 7, 8, 11, 12, 15, 22}
  GraphSymbols = {1, 2, 3, 4}
  GraphPaths = {fileA, fileB}
  DefaultDepth = 2
  DepthCap = 3
  NodeCap = 3
  RowCap = 4
  AskedDepths = {0, 4}
  NoPath = NoPath
  Main = 1
  DunderMain = 2
  MaxSteps = 3
  Layouts <- SmallLayouts
  NoFile = NoFile
  Questions <- SomeQuestions
  Useless = {the}
  Containing <- NamesContaining
  Equals <- NamesEqual
  Indexes <- SomeIndexes
  Hits <- SomeHits
  DiskStates <- SomeDisks
  MaxCandidates = 2
  MaxResults = 2
  MaxCallRows = 2
  MaxSnippet = 2
  Overview = Overview
  RepoId = RepoId
  NoPlace = NoPlace
  save = save
  saveAll = saveAll
  ioSave = ioSave
  load = load
  the = the
  fileA = fileA
  fileB = fileB
  Sessions = {s1, s2, s3, blank}
  Blank = blank
  Slots = {t1, t2}
  MaxSessions = 2
  MaxMessages = 2
  HistoryTurns = 2
  Ttl = 1
  MaxTurns = 3
  NoSession = NoSession
INVARIANTS
  QueriesTypeOK
  CallsAttributed
  ChunksCoverSource
  GraphIsNeighbourhood
  ReadingPathLeads
  AnswerIsGrounded
  ExactMatchesSurvive
  SessionSurvives
  ConversationIsTail
CHECK_DEADLOCK FALSE
