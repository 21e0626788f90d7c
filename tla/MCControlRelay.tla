--------------------------- MODULE MCControlRelay ---------------------------
(* One request of each kind, and a device of two configurations, for TLC. *)
EXTENDS Startup

Kinds == {[dir |-> "in", sets |-> FALSE],    \* GET_DESCRIPTOR
          [dir |-> "out", sets |-> FALSE],   \* SET_REPORT
          [dir |-> "out", sets |-> TRUE]}    \* SET_CONFIGURATION

Shape == <<2, 1>>

=============================================================================
