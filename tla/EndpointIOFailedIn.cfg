\* Transfers of the interrupt IN endpoint may fail.
SPECIFICATION FairSpec
CONSTANTS
  in1 = in1
  in2 = in2
  iso1 = iso1
  out1 = out1
  Endpoints <- Three
  InEndpoints <- AllIn
  IsoEndpoints <- Iso
  Faulty <- OnlyIn
  Quiet <- None
  NumHandles = 2
  NoEndpoint = NoEndpoint
PROPERTY DisableCompletes
