\* No IN endpoint fails, the OUT endpoint may; the device need not answer one of
\* the two IN endpoints.
SPECIFICATION FairSpec
CONSTANTS
  in1 = in1
  in2 = in2
  iso1 = iso1
  out1 = out1
  Endpoints <- NoIso
  InEndpoints <- BothIn
  IsoEndpoints <- None
  Faulty <- OnlyOut
  Quiet <- SecondIn
  NumHandles = 2
  NoEndpoint = NoEndpoint
PROPERTIES DisableCompletes KeepsPolling
