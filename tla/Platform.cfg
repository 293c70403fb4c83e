SPECIFICATION PlatformSpec
CONSTANTS
  Markets <- MCMarkets
  Hypotheses <- MCHypotheses
  Modes <- MCModes
  Toggles <- MCToggles
  BaseParams <- MCBase
  Layers <- MCLayers
  Thresholds <- MCThresholds
  Account <- MCAccount
  Confidences <- MCConf
  SignalBars <- MCSignalBars
  RuleSets <- MCRuleSets
  Logics <- MCLogics
  Candles <- MCCandles
  Fetched = 7
  Slice = 6
  ShortSlice = 5
  Lookback = 3
  SwingWidth = 1
  MinBreak = 1
  MinGap = 1
  Bars <- MCBars
  LearnerId = {l1, l2}
  PushEvery = 2
  MaxBars = 3
  MaxCycles = 4
  MaxLives = 2
  ModelChain <- MCChain
  ProviderOf <- MCProviderOf
  Keyed <- MCKeyed
  MaxCalls = 2
  Window = 2
  MaxRetries = 2
  Threshold = 3
  Pause = 2
  MaxNow = 6
  Trades <- MCTrades
  StopPrices <- MCStopPrices
  TrailDistance = 5
  Activation = 1
  MinStep = 1
  MaxStopCycles = 3
  SimBars <- MCSimBars
  Offers <- MCOffers
  Cost = 1
  MaxSimBars = 4
  Name = {a, b}
  MaxVersion = 1
  Instance = {i1}
  Symbol = Symbol
  Trainer = Trainer
  NoRecord = NoRecord
  Request = {q1, q2}
  CheckInterval = 1
  RollbackWindow = 1
  AutoActivate = FALSE
  AnalyzerFits = TRUE
  MaxBodies = 3
  MaxRequests = 3
  MaxCrashes = 1
  Absent = Absent
  Null = Null
  Number = 3
  Text <- MCText
  Rule = {"ema_crossover", "bos_confirm"}
  ApprovedModels = {"haiku", "opus", "default"}
  StoredRecords <- MCRecords
  EditRequests <- MCEdits
  Generations = 4
  Sharpes = {1, 2}
  EarlyStop = 2
  MaxFaults = 1
  MaxJobCalls = 4
  Trader = {t1}
  OtherTypes = {"watchdog_triggered"}
  ListLimit = 1
  MaxIncidents = 2
  Calendars <- MCCalendars
  WeekEnd = 5
  Day = 6
  Lookahead = 8
  CacheTTL = 3
  Blackout = 3
  MaxTime = 14
INVARIANTS
  DirectionsAreTreatedAlike InvalidatorIsStricter RiskWithinBudget ValidatorIsBounded
  SignalParity StructureParity FilterParity 
  ReservationsDistinct AgentRunsTheEdit OneVersion HaltIsShown NewsIsSeen
PROPERTIES
  CleanRestartLosesLittle BreakerHolds StopsAdvance CheckpointAdvances
  PromotionLimits OldContentWrittenLate
SYMMETRY PlatformSymmetry
CHECK_DEADLOCK FALSE
