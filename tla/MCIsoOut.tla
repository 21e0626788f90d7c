------------------------------ MODULE MCIsoOut ------------------------------
(* Small instances of IsoOut for TLC. *)
EXTENDS IsoOut, TLC

CONSTANTS iso1, iso2, t1, t2, t3

One == {iso1}
Two == {iso1, iso2}
None == {}
Memory == {t1, t2, t3}
TwoBuffers == {t1, t2}
AnyTransfer == Permutations(Memory)
Alike == Permutations(Two) \cup Permutations(TwoBuffers)

=============================================================================
