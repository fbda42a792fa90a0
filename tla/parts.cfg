SPECIFICATION Spec
SYMMETRY Symmetry
CONSTANTS
  PutCall = {1, 2, 3}
  GetCall = {g1, g2}
  JoinCall = {j1, j2}
  NoValue = noItem
  KindsQu = {"fifo", "lifo", "priority"}
  MaxRoom = 1
  MaxCallsQu = 5
  Acquire = {a1, a2, a3, a4}
  MaxInitial = 2
  MaxExtra = 1
  GCAfterSm = 1
  Wait = {a1, a2}
  EventWait = {e1, e2}
  MaxClear = 1
  GCAfterCn = 1
  CallbackLo = {1}
  Timer = {1, 2}
  FdLo = {1, 2}
  CleanAfter = 0
  MaxTimeLo = 1
  MaxGenLo = 5
  FdAs = {1, 2}
  CallbackAs = {1}
  MaxGenAs = 3
  Period = 2
  Timers = {1, 2, 3}
  MaxTimePc = 6
  MaxCallsRs = 2
  MaxTimeRs = 2
  Futures = {f1, f2}
  Keys = {k1, k2}
  MaxYields = 4
  N = 3
  Jobs = {1, 2}
  Threads = 1
  Ctx = {1, 2, 3}
  KindsSc <- KindsScOf
  MaxFramesSc = 3
  MaxSaved = 1
  Delims = {2}
  MaxSent = 3
  MaxBuffer = 2
  MaxWrite = 2
  Sizes = {1, 2}
  Starts = {"connected", "connecting ssl", "start tls"}
  MaxOps = 2
  Large = 3
  MaxBytes = 10
  MaxRequests = 3
  MaxBodyH = 2
  MaxChunks = 2
  MaxBodyY = 1
  MaxFramesWe <- MaxFramesWeOf
  RequestHc = {1, 2, 3}
  MaxClientsHc = 2
  MaxRedirects = 1
  RequestCu = {1, 2, 3}
  Curl = {1, 2}
  MaxAddrs = 2
  MaxLoops = 2
  MaxClientsCa = 2
  MaxFetches = 1
  Sock = {1, 2}
  MaxConns = 3
  Backlog = 2
  PidJ = {1, 2, 3}
  Tasks = 2
  MaxRestarts = 2
  PidD = {1, 2}
  Subproc = {1, 2}
  MaxCallsD = 2
  MaxSize = 3
  Chunk = 2
  MaxVersion = 2
  MaxGets = 2
  Host = {"h1", "h2"}
  Path = {"a", "b"}
  Name = {"n"}
  MaxRules = 2
  MaxGroups = 2
  Page = {1, 2}
  Expires = 1
  MaxAge = 1
  MaxTimeCo = 1
  MaxToken = 3
  Product = {p1, p2}
  Listed = {p1}
  Web = {w1}
  Faults = {"start", "early", "connection", "timeout", "settle", "death", "publish", "restart"}
  MaxFaultsDi = 2
  MaxOrders = 2
  MaxCrossing = 2
  Sale = {1, 3}
  Buy = {2}
  Price = {1, 2}
  MaxVolume = 3
  Few = 2
  MaxFaults = 1
  Viewer = {1, 2}
  MaxLines = 1
  MaxUpdates = 2
INVARIANTS
  TypeOK
  WaitersSound
  LoopsSound
  CoroutinesSound
  ContextsKept
  StreamsSound
  ServingSound
  ClientsSound
  WebSocketSound
  ProcessesSound
  AnswersSound
  WakeUpsSound
  SideProgramsSound
PROPERTIES
  QueueImplementsChannel
  StepsSound
CHECK_DEADLOCK FALSE
