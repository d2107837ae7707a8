SPECIFICATION PartsSpec
CONSTANTS
  TableRows = 4
  MaxSubagents = 2
  MaxBatchSize = 2
  RowSize <- MCRowSize
  MaxCalls = 2
  MaxTables = 1
  Flows = {f1, f2}
  MaxCreates = 2
  MaxTableRuns = 2
  MaxSessions = 1
  MaxChoices = 2
  MaxScreens = 1
  MaxStops = 2
  Payloads = {125, 126, 65536, 10485761}
  MaxFrames = 2
  MaxFramePayloadBytes = 10485760
  Sources = {"case_law", "legislation"}
  Courts = {c1, c2}
  Years = {2020}
  NoYear = noyear
  RailMatters = {m1, m2}
  Docs = {d1}
  ABSENT = absent
  Requests = {r1, r2}
  MaxEdits = 1
  Pages = {p1, p2}
  Authorities = {a1, a2}
  Closed = closed
  Widths = {1}
  m1 = m1
  k1 = k1
  k2 = k2
  k3 = k3
  CacheMatters = {m1}
  NoMatter = nomatter
  Keys = {k1, k2, k3}
  NamespaceOf <- MCNamespaceOf
  Searchers = {s1, s2}
  MaxEntries = 2
  MaxChanges = 1
  Callers = {q1, q2, q3}
  Threshold = 2
  MaxOutages = 2
  CorpusSize = 2
  ChunkCount <- MCChunkCount
  IngestBatch = 2
  MaxIngests = 3
  MaxJobEntries = 2
  MaxRunEntries = 1
  MaxConcurrency = 2
  MaxSubmits = 4
INVARIANTS
  PartsTyped
  RunAccountsForEveryRow
  BatchesCoverWithinLimit
  ReturnedIsSaved
  OneReconnect
  FramesDelivered
  CourtsNeedCaseLaw
  PanelShowsOpenAuthority
  CacheFresh
  CorpusExact
  UnfinishedKept
PROPERTIES
  ClickArrives
  RailSettles
  BreakerRecovers
CHECK_DEADLOCK FALSE
