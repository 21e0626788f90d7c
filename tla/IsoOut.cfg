\* Two isochronous OUT endpoints that share the static pointer, each with up to
\* two transfers counted.
SPECIFICATION Spec
CONSTANTS
  iso1 = iso1
  iso2 = iso2
  t1 = t1
  t2 = t2
  t3 = t3
  NoTransfer = NoTransfer
  NoEndpoint = NoEndpoint
  Endpoints <- Two
  Faulty <- Two
  Transfers <- TwoBuffers
  NumHandles = 2
  Limit = 2
  Floor = 1
SYMMETRY Alike
INVARIANTS TypeOK HandleOwned
