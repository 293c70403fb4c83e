SPECIFICATION FleetSpec
CONSTANTS
  Name = {a}
  MaxVersion = 2
  Instance = {i1}
  Symbol = Symbol
  Trainer = Trainer
  NoRecord = NoRecord
  Request = {q1, q2}
  CheckInterval = 1
  RollbackWindow = 1
  AutoActivate = TRUE
  AnalyzerFits = TRUE
  MaxBodies = 2
  MaxRequests = 3
  MaxCrashes = 1
  Agent = {a1, a2}
  NoAgent = NoAgent
  LeaseTimeout = 2
  MaxKills = 1
  Warning = 2
  Critical = 3
  Emergency = 5
  Stale = 2
  Unresponsive = 3
  AlertEvery = 2
PROPERTIES
  LeaseIsKept
  CachesConverge StopIsHeeded SilenceRaisesAlarm
CHECK_DEADLOCK FALSE
