SPECIFICATION Spec
CONSTANTS
  p1 = p1
  p2 = p2
  Pods = {p1, p2}
  NameLength <- Same
  May <- MayBe
  Hungry <- MayUse
  TextLengths <- Texts
  FixLengths <- Texts
  ValueLengths = {0, 1}
  RecoveryText <- Same
  Statuses <- AllStatuses
  StatusLength <- Letters
  Bad <- Unwell
  Explained = {"CrashLoopBackOff"}
  Skipped = {"ImagePullBackOff"}
  Window = 2
  AnalyzeTime = 1
  Namespaces = {n1, n2}
  NamespaceLength <- Alike
  Hour = 2
  Silence = 1
  MaxFailures = 1
  Issues = {DiskPressure}
  Simulated = DiskPressure
  HalfHour = 2
  telegram = telegram
  slack = slack
  Chats = {telegram, slack}
  Platforms = {telegram, slack}
  ChatIds <- IdsOf
  Ttl = 2
  Period = 2
  Connections = {c1, c2}
  Sessions = {s1}
  NoSession = NoSession
  Burst = 2
  Names = {1, 2, 3, 4}
  NoChat = 0
  MaxTicks = 1
INVARIANTS
  PartsTypeOK
  ExposureBound
  NoticesTrue
  SessionKept
  IdleBound
  AdmittedBound
  OneChat
PROPERTIES
  CrashLoopHeard
  HeatHeard
  PressureAlerted
  CordonsOnly
