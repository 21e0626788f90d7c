---------------------------- MODULE MCHidGadget ----------------------------
(* The requests of hosts for TLC: the PlayStation's are those that            *)
(* libusbhax.c replays (mControlTransfers).                                   *)
EXTENDS HidGadget

T(type, in, request, hi, lo, index, length) ==
  [type |-> type, in |-> in, request |-> request, hi |-> hi, lo |-> lo,
   index |-> index, length |-> length]

GetDescriptor(hi, lo, length) == T("standard", TRUE, 6, hi, lo, 0, length)
SetConfiguration == T("standard", FALSE, 9, 0, 1, 0, 0)
Audio(request, unit) == T("class", TRUE, request, 2, 0, unit, 2)
GetReport(id, length) == T("class", TRUE, 1, 3, id, 3, length)
SetReport(id, length) == T("class", FALSE, 9, 3, id, 0, length)
SetInterface(i) == T("standard", FALSE, 11, 0, 1, i, 0)

PlayStation ==
  <<GetDescriptor(1, 0, 18), GetDescriptor(3, 0, 2), GetDescriptor(3, 0, 4),
    GetDescriptor(3, 1, 2), GetDescriptor(3, 1, 62), GetDescriptor(3, 2, 2),
    GetDescriptor(3, 2, 40), GetDescriptor(2, 0, 9), GetDescriptor(2, 0, 227),
    SetConfiguration,
    Audio(130, 5), Audio(131, 5), Audio(132, 5),
    Audio(130, 2), Audio(131, 2), Audio(132, 2),
    T("class", FALSE, 1, 2, 0, 2, 2), SetInterface(1), SetInterface(2),
    GetDescriptor(34, 0, 273), T("class", FALSE, 10, 0, 0, 3, 0),
    GetReport(5, 41), GetReport(32, 64), GetReport(9, 16),
    SetReport(10, 23), SetReport(8, 17)>>

\* A host that asks for more than there is, and for what is not there.
Desktop ==
  <<GetDescriptor(1, 0, 64), GetDescriptor(6, 0, 10), GetDescriptor(2, 0, 255),
    GetDescriptor(3, 2, 255), GetDescriptor(3, 7, 255), SetConfiguration,
    GetDescriptor(10, 0, 4), T("standard", TRUE, 10, 0, 0, 3, 1),
    GetReport(242, 16), GetReport(129, 64), GetReport(129, 200), GetReport(9, 64),
    T("class", FALSE, 11, 0, 1, 3, 0)>>

\* GET_IDLE has no answer.
Probe == <<SetConfiguration, T("class", TRUE, 2, 0, 0, 3, 1)>>

ASSUME HostsAssumption ==
  /\ Known(PlayStation) /\ Known(Desktop) /\ ~Known(Probe)
  /\ ReadsWhatIsThere(PlayStation) /\ ~ReadsWhatIsThere(Desktop)

\* Hardware endpoints with and without fixed numbers.
Controller ==
  <<[addr |-> 1, in |-> TRUE, out |-> FALSE, types |-> {"interrupt", "bulk"}],
    [addr |-> AnyAddress, in |-> FALSE, out |-> TRUE, types |-> {"interrupt"}],
    [addr |-> AnyAddress, in |-> TRUE, out |-> TRUE, types |-> {"isochronous"}],
    [addr |-> AnyAddress, in |-> TRUE, out |-> TRUE, types |-> {"isochronous"}]>>

=============================================================================
