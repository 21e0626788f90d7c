------------------------------ MODULE MCUtf16 ------------------------------
(* Every kind of byte for TLC, and both ends of the ranges that are tested. *)
EXTENDS Utf16

Kinds == {65, 127, 128, 160, 191, 192, 195, 223, 224, 226, 237, 239, 240}

=============================================================================
