SPECIFICATION Spec
CONSTANTS
  Files <- FilesOfThree
  Addresses <- Machines
  Octet = {0, 1, 5, 7, 10, 12, 121}
  PortNum = {2, 10}
  MaxTier = 3
INVARIANTS
  AppropriateServer
CHECK_DEADLOCK FALSE
