SPECIFICATION MCSpec
CONSTANTS
  Calls = {c1, c2}
  ToolBudget = 3
  MaxReflections = 1
  MaxReplans = 1
  MaxTransitions = 14
  MaxIterations = 3
  MaxRounds = 2
  HardCap = 5
  MaxBatch = 3
  Paths = {p1, p2}
  WorkerMaxIter = 2
  WorkerBudget = 1
  WorkerBatch = 2
  Callers = {g1, g2, g3}
  MaxDeaths = 2
  MemoryConfigs <- MCMemories
  EntrySizes = {0, 1, 2}
  MaxEntries = 6
  Tasks = {t1, t2}
  Presses = {b1, b2}
  Publishers = {a, b}
  Panels = {s1}
  ChannelCap = 2
  MaxEvents = 3
  Keys = {k1, k2}
  Values = {v1, v2}
  ProfileLimit = 3
  MaxRows = 5
  Files = {f1, f2}
  MaxAttempts = 2
  Words <- MCWords
  Patterns <- MCPatterns
  Names <- MCNames
  IntLimit = 128
  Numbers <- MCNumbers
  Largest = 60
  Payloads <- MCPayloads
  SerialParts <- MCSerials
  ByteSize = 4
  AlphabetSize = 3
  MaxBytes = 4
  AddressBits = 3
  MaxBlocks = 4
  HourMinutes = 3
  DayHours = 2
  Horizon = 3
  Slots = 1
  MaxSpawns = 2
  MaxUpdates = 3
  HistoryTurns = 1
  ContextTurns = 1
  MaxCrashes = 1
  Requests = {q1, q2}
  PipeCap = 1
  MaxPieces = 2
  MaxAsks = 2
  Agents = {x1, x2}
  MaxAdded = 3
  MaxClears = 1
  Programs = {n1, n2}
  Pids = {1, 2}
  Edits = {"e1", "e2", "e3"}
  EditKinds <- MCEditKinds
  Saves = {w1, w2}
  Providers = {y1, y2}
  Finished = {"d1", "d2", "d3"}
  Tools = {"file", "web"}
  Endings <- MCEndings
  PatternLimit = 4
  MaxStops = 1
INVARIANTS
  AgentTypeOK
  ThinkingBounded
  ConversationAndEndHold
  FindingsCarryTheirTags
  McpFaultsFollowAnUnreadyClient
  ShownVerdictHolds
  PanelsSeeTheNewest
  TaskFolderIsAccountedFor
  ReloadedKeysAreStored
  DelegationReportsAreTrue
  MessagesRunOnceAndShowTheirEnd
  ShutdownSparesWhatItServes
  StreamsReachTheirReader
  SkillsMeetTheirDefinition
  NumbersKeepTheirMeaning
  EditsAreTold
  LoneSavesHold
  SkillsAreLearntOnce
PROPERTIES
  OnlyPostTaskCompactionMoves
CHECK_DEADLOCK FALSE
