\* Three endpoints of different kinds, all of them faulty, two handles.
SPECIFICATION Spec
CONSTANTS
  in1 = in1
  in2 = in2
  iso1 = iso1
  out1 = out1
  Endpoints <- Three
  InEndpoints <- AllIn
  IsoEndpoints <- Iso
  Faulty <- Three
  Quiet <- None
  NumHandles = 2
  NoEndpoint = NoEndpoint
INVARIANTS TypeOK BusyPacketsExact SafeToDisable HandleOwned NoHandleLeak IInv
PROPERTY KeepsContract
