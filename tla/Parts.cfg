SPECIFICATION Spec
CONSTANTS
  Request = {q1, q2}
  File = {f1}
  FileBytes = 2
  PlainSizes = {0, 2}
  CacheBytes = 4
  Queries <- MCQueries
  MaxFileSteps = 2
  Caller = {c1, c2}
  MaxResourceRuns = 1
  Process = {p1, p2}
  Setting = {s1, s2}
  Value = {v1}
  MaxStarts = 2
  MaxSets = 2
  MaxBody = 2
  MaxFetch = 2
  MaxBytes = 3
  Bodies <- MCBodies
  MaxStreams = 2
  MaxLinks = 1
  JobMessage = {m1, m2}
  JobSizes = {1, 2}
  MaxJobSteps = 4
  FileMessage = {m1, m2, m3}
  AttachPath = {a1, a2}
  MaxFileUses = 4
  OtherTab = FALSE
  MessageId = {m1, m2}
  Connection = {d1, d2}
  primary = d1
  ChunkSize = 1
  MaxVersions = 3
  MaxRuns = 3
  Recipient = {"a", "b"}
  DeviceOf <- MCDeviceOf
  LogMessage = {m1}
  LogTimes = 2
  MaxSends = 2
  RecipientsInTime = TRUE
  Pack = {k1}
  RefMessage = {m1, m2}
  Link = {l1, l2}
  DeletesWait = TRUE
  ChatFolder = {x1, x2}
  MaxPosition = 1
  PinMessage = {"p1", "p2", "p3", "p4"}
  ConversationOf <- MCConversationOf
  PinTimes = 4
  PinLimit = 2
  Envelope = {"e1", "e2", "e3", "e4"}
  KeyOf <- MCKeyOf
  BaseKeyOf <- MCBaseKeyOf
  LastResort = {"last"}
  MaxAttempts = 2
  KeyUsedOnce = TRUE
  BootInputs <- MCBootInputs
  ConfigPath <- MCConfigPath
  MessageKey = {"k1", "k2", "k3"}
  Language = {"en", "de", "xx"}
  Region = {"", "DE", "AT"}
  TaskType = {"t1", "t2"}
  MaxTasks = 3
  PageSize = 1
  MaxTaskAttempts = 2
INVARIANTS
  PartsTypeOK
  CompleteFileIsServed
  BodyMatchesHeaders
  OnlyVerifiedBytes
  KeyOpensDatabase
  SettingsSurvive
  OneWholeAnswer
  EventsAreTheLines
  SessionOfNewestStream
  StatsMatchRows
  ReferencedFilesStay
  IndexMatchesMessages
  PagesMissOnlyLaterWrites
  LogMatchesSends
  StorageKnowsPacks
  DeletionsAreTold
  FoldersInOrder
  NewestPinsStay
  NothingDecryptedIsLost
  BootPayloadIsRight
  ScanMissesNone
CHECK_DEADLOCK FALSE
