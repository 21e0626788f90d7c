SPECIFICATION Spec
CONSTANTS
  Tree <- Device
  Address <- Addresses
  Requests <- Selecting
  Reselect = FALSE
INVARIANTS TypeOK OpenMatchesActive Discipline DeviceFollows ClosedBeforeSelect
