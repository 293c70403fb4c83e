SPECIFICATION Spec
CONSTANTS
  Signal = {s1, s2}
  Version = {v1, v2}
  NoSignal = NoSignal
  NoVersion = NoVersion
  Window = 1
  MaxDelay = 1
  MaxConcurrent = 1
  MaxPerHour = 1
  Hour = 2
  FailureThreshold = 1
  KillThreshold = 2
  Pause = 1
  Poll = 1
  MaxManual = 0
  MaxFaults = 0
SYMMETRY Symmetry
PROPERTY GuardsSurviveRestart
