\* Only the interrupt IN endpoint does not fail: it keeps the system going, for a
\* thread that waits for a lost transfer changes nothing any more.
SPECIFICATION FairSpec
CONSTANTS
  Tree <- Device
  Address <- Addresses
  Requests <- Sent
  InEndpoints <- Ins
  IsoEndpoints <- Iso
  Faulty <- MayFail
  Quiet <- NotAnswered
  NumHandles = 4
  NoEndpoint = NoEndpoint
INVARIANTS TypeOK SafeToDisable HandleOwned QuietBeforeSelect
PROPERTIES RequestsFinish KeepsConfiguration
