\* Nothing fails: the counter drifts all by itself.
SPECIFICATION Spec
CONSTANTS
  iso1 = iso1
  iso2 = iso2
  t1 = t1
  t2 = t2
  t3 = t3
  NoTransfer = NoTransfer
  NoEndpoint = NoEndpoint
  Endpoints <- One
  Faulty <- None
  Transfers <- Memory
  NumHandles = 1
  Limit = 2
  Floor = 2
SYMMETRY AnyTransfer
INVARIANT SafeToDisable
