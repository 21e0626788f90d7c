SPECIFICATION Spec
CONSTANTS
  Tree <- Device
  Address <- Addresses
  Requests <- Selecting
  Reselect = TRUE
INVARIANT ReadyForUse
