SPECIFICATION Spec
CONSTANTS
  Hello = 1
  Dead = 4
  MaxDelay = 1
  MaxLoss = 2
  MaxFlap = 0
  MaxBusy = 1
  MaxJoins = 1
  Traffic = TRUE
INVARIANTS
  NoFalseAlarm
