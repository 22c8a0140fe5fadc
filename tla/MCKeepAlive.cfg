SPECIFICATION FairSpec
CONSTANTS
  Hello = 2
  Dead = 5
  MaxDelay = 0
  MaxLoss = 4
  MaxFlap = 1
  MaxBusy = 0
  MaxJoins = 1
  Traffic = FALSE
INVARIANTS
  TypeOK
  RecoveryArmed
  FailedLowerIsDown
  NoFalseAlarm
PROPERTIES
  SilenceLasts
  DeadPeerNoticed
  Settles
