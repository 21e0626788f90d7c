---------------------------- MODULE MCEndpointIO ----------------------------
(* Small instances of EndpointIO for TLC. *)
EXTENDS EndpointIO

CONSTANTS in1, in2, iso1, out1   \* two interrupt IN, an isochronous IN, a bulk OUT

Three == {in1, iso1, out1}
NoIso == {in1, in2, out1}
AllIn == {in1, iso1}
BothIn == {in1, in2}
Iso == {iso1}
None == {}
OnlyIn == {in1}
SecondIn == {in2}
OnlyOut == {out1}

=============================================================================
