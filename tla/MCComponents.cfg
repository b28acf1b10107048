\* One component at a time, each on a small instance of its own.
CONSTANTS
  \* call sites: four sites, two targets, one stop inside a pass
  s1 = s1  s2 = s2  o = o  m = m  t1 = t1  t2 = t2  f1 = f1  f2 = f2  f3 = f3
  Sites = {s1, s2, o, m}
  MacroSites = {m}
  Expands = {m}
  Untyped = {s1}
  Targets = {t1, t2}
  Rowless = {}
  Files = {f1, f2, f3}
  Outside = {f3}
  FileOf <- FileOfDef
  CallerOf <- CallerOfDef
  Callee <- CalleeDef
  MaxEdits = 1
  MaxStops = 1
  \* shared artifacts
  SharedFiles = {p, q}
  Texts = {1, 2}
  Broken = {2}
  Ignored = {}
  DirtyExports = FALSE
  TornExports = FALSE
  MaxTreeEdits = 3
  MaxCommits = 2
  MaxExportStops = 1
  \* co-change mining
  Sources = {u, v, w}
  InGraph = {u, v}
  MaxFilesPerCommit = 2
  MinCochange = 2
  CommitsInPass = FALSE
  GitFails = FALSE
  SkippedCouples = FALSE
  MaxLog = 4
  \* host installation
  Hosts = {j, k}
  TomlHosts = {k}
  Detected = {j}
  UnreadableFiles = FALSE
  TornWrites = FALSE
  MaxRuns = 2
  \* language-server client
  FrameQueueDepth = 1
  PipeDepth = 1
  MaxAsks = 1
  MaxChatter = 2
  \* readiness of the language server
  Tokens = {x, y}
  QuietWindow = 2
  Deadline = 5
  MaxServerFrames = 5
  \* freshness receipts
  r1 = r1  r2 = r2  r3 = r3  p1 = p1  p2 = p2
  Paths = {p1, p2}
  Revisions = {r1, r2, r3}
  FirstRevision = r1
  ContentOf <- ContentOfDef
  AncestorsOf <- AncestorsOfDef
  MovesInIndex = FALSE
  LostManifests = FALSE
  MaxMoves = 2
  MaxSaves = 1
  MaxPasses = 2
SPECIFICATION AllSpec
INVARIANTS
  SiteStateIsBacked NoParallelRows
  BootstrapIsCurrent
  CouplesAreEarned
  AnswerIsOwn
  ReadyIsNotEarly
  FreshIsCurrent
PROPERTIES
  RefreshKeepsResolutions
  FilesAreNotClobbered
  SessionEnds
CHECK_DEADLOCK FALSE
