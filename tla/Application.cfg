SPECIFICATION McSpec
CONSTANTS
  PageSize = 2
  MaxCachedPages = 2
  MaxCachedPayload = 3
  MaxPendingLoads = 1
  VisibleCapacity = 2
  MaintenanceCapacity = 1
  Sizes = {0, 5}
  Payloads = {1, 2}
  MaxReloads = 2
  MaxEvents = 2
  MaxBinds = 1
  HkThreads = {h1, h2}
  HkSounds = {s1}
  HkKeys = {k1, k2}
  HkTab = tab
  HkNone = none
  HkPageSize = 1
  HkMaxEdits = 2
  MaxContents = 3
  MaxLosses = 1
  MaxStarts = 4
  FtFolders <- McFolders
  FtAbove <- McAbove
  FtSounds <- McSounds
  FtFolderOf <- McFolderOf
  FtImported <- McImported
  FtFolderTab = folderB
  FtMaxScans = 2
  FtMaxEdits = 2
  folderA = folderA
  folderB = folderB
  folderC = folderC
  folderD = folderD
  s1 = s1
  s2 = s2
  s3 = s3
  LjCount = 2
  LjPageSize = 1
  LjRunLimit = 1
  LjFlushRows = 1
  LjThreads = 1
  LjMaxEvents = 1
  LjMaxChanges = 2
  ElEngines = {e1, e2}
  ElNobody = nobody
  ElMaxStarts = 4
  ElMaxWindows = 1
  EsVolumes = {1, 2}
  EsNone = none
  EsMaxEdits = 3
  EsMaxFaults = 2
  micEffects = micEffects
  micRaw = micRaw
  CrNames <- McMics
  CrRank <- McMicRank
  CrAuto = auto
  CrNobody = nobody
  CrMaxIds = 4
  CrMaxEdits = 1
  CrMaxFaults = 1
  CrMaxBehind = 3
  FlMaxIds = 6
  FlMaxFaults = 3
  MxLocal = 2
  MxCapacity = 4
  MxUltra = 1
  MxLow = 2
  MxPatience = 2
  MxLength = 2
  MxMaxEdits = 2
  MxMaxMic = 1
  MxMaxFaults = 1
  DcPackets = 2
  DcFrames = 2
  DcRates <- McRates
  DcMaxSeeks = 1
  EcCallers = {caller}
  EcPoller = poller
  EcMaxCalls = 3
  EcMaxFaults = 1
  HdConfigs = {empty, good, bad}
  HdEmpty = empty
  HdRejected = {bad}
  HdNone = none
  HdMaxEdits = 2
  HdMaxDaemons = 2
  HdMaxFaults = 2
  StPageSize = 2
  StMaxPages = 2
  StMargin = 1
  StMaxRows = 4
  StFolders = 5
  StMaxBinds = 3
  StMaxEdits = 1
  StMaxCloses = 1
  StMaxFaults = 1
  TbPageSize = 1
  TbTabs = 2
  TbMaxEvents = 2
  tabA = tabA
  tabB = tabB
  fileA = fileA
  fileB = fileB
  HpTables <- McHpTables
  HpScopes <- McTabs
  HpNone = none
  HpQueueSize = 1
  HpWorkers = 2
  HpMaxEvents = 3
  SsOpeners = {h1, h2}
  SsSounds <- McSounds
  SsKeyOf <- McKeyOf
  SsVersions <- McVersions
  SsNone = none
  SsTab = tab
  SsMaxEvents = 4
  DgSounds = {s1}
  DgOthers = {other}
  DgKeys = {k1, k2}
  DgNone = none
  DgMaxEvents = 3
  ImFiles <- McFiles
  ImTabs = {tabA}
  ImNone = none
  ImBatch = 1
  ImDrops <- McDrops
  ImJobs = {1, 2}
  ImMaxEvents = 2
  ImMaxChanges = 1
  ApSounds = {1, 2, 3}
  ApPlaces = {0, 1}
  ApMaxPlays = 2
  ApMaxChanges = 1
INVARIANTS
  ApplicationTypeOK
  MissingPagesCome
  ControlKeysAreTheirOwn
  BackendFollowsTheTable
  NothingIsDeleted
  SettingsMatchTheLibrary
  BackupIsOffered
  HiddenFoldersStayHidden
  CopiesAgree
  SelectedMicIsNotBypassed
  WantedMicIsCaptured
  SettledMicIsFed
  LocalOutputIsTheSound
  FramesAreExact
  AnswersAreTrue
  DoneIsServed
  SiblingsComeInOrder
  TabsShowTheLibrary
  OnlyHeldModifiersCount
  PressesTakeTurns
  MigrationsLoseNothing
  HotkeysAreAgreedTo
  SoundCommandsAreTrue
  AdjacentFollowsTheList
PROPERTIES
  ImplementsGate
  OneFolderMovesAtATime
  RunsComeToAnEnd
  ServingEnginesKeepTheirSocket
VIEW McView
CHECK_DEADLOCK FALSE
