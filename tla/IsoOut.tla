------------------------------- MODULE IsoOut -------------------------------
(***************************************************************************)
(* Isochronous OUT endpoints, ep_out_work_isochronous: many transfers in    *)
(* flight, so the worker's busyPackets++ and the event thread's             *)
(* busyPackets-- do meet, and one static pointer to the transfer at hand    *)
(* that the workers of all isochronous OUT endpoints share.                 *)
(***************************************************************************)
EXTENDS EndpointLoop

CONSTANTS
  Limit,      \* no new transfer while busyPackets is Limit or more; 128
  Transfers,  \* the libusb_transfer objects there is memory for
  NoTransfer,
  Faulty,     \* transfers and ioctls of these endpoints may fail
  Floor       \* the model stops counting busyPackets down at -Floor

ASSUME IsoAssumption ==
  /\ Limit \in Nat \ {0}
  /\ NoTransfer \notin Transfers
  /\ Faulty \subseteq Endpoints
  /\ Floor \in Nat

VARIABLES
  io,        \* io.inner.ep of each worker
  tmp,       \* the value of busyPackets each worker has loaded
  xfr,       \* the static pointer
  transfer,  \* the state of each transfer, and the endpoint it was filled for
  event      \* the event thread, inside cb_transfer_out

isoVars == <<io, tmp, xfr, transfer, event>>
vars == <<loopVars, isoVars>>

Unused == [state |-> "free", ep |-> NoEndpoint]
EventIdle == [pc |-> "idle", xfr |-> NoTransfer, ok |-> TRUE, tmp |-> 0]

Init ==
  /\ LoopInit
  /\ io = [e \in Endpoints |-> -1]
  /\ tmp = [e \in Endpoints |-> 0]
  /\ xfr = NoTransfer
  /\ transfer = [t \in Transfers |-> Unused]
  /\ event = EventIdle

Enabled(h) == h \in Handles /\ owner[h] # NoEndpoint

LoopStep(Step) == Step /\ UNCHANGED isoVars

-----------------------------------------------------------------------------
BusyReturn(e) ==
  /\ pc[e] = "work"
  /\ busyPackets[e] >= Limit
  /\ LoopStep(Moves(e, "loop"))

Load(e, from, to) ==
  /\ pc[e] = from
  /\ tmp' = [tmp EXCEPT ![e] = busyPackets[e]]
  /\ Moves(e, to)
  /\ UNCHANGED <<io, xfr, transfer, event>>

Store(e, from, n, to) ==
  /\ pc[e] = from
  /\ busyPackets' = [busyPackets EXCEPT ![e] = tmp[e] + n]
  /\ tmp' = [tmp EXCEPT ![e] = 0]
  /\ Goto(e, to)
  /\ UNCHANGED <<alive, ep_int, stop, keepRunning, ep0, owner,
                 io, xfr, transfer, event>>

\* Mistake: > for >=.
BeginOneMore(e) ==
  /\ pc[e] = "work"
  /\ busyPackets[e] <= Limit
  /\ LoopStep(Moves(e, "load"))

Begin(e) ==
  /\ pc[e] = "work"
  /\ busyPackets[e] < Limit
  /\ LoopStep(Moves(e, "load"))

\* busyPackets++ comes before the read ...
Count(e) == Load(e, "load", "store") \/ Store(e, "store", 1, "handle")

Handle(e) ==
  /\ pc[e] = "handle"
  /\ io' = [io EXCEPT ![e] = ep_int[e]]
  /\ Moves(e, "read")
  /\ UNCHANGED <<tmp, xfr, transfer, event>>

Read(e) ==
  /\ pc[e] = "read"
  /\ Enabled(io[e])
  /\ io' = [io EXCEPT ![e] = -1]
  /\ \E label \in {"alloc", "undo"} : Moves(e, label)
  /\ UNCHANGED <<tmp, xfr, transfer, event>>

ReadFails(e) ==
  /\ pc[e] = "read"
  /\ e \in Faulty \/ ~Enabled(io[e])
  /\ LoopStep(Exit)

\* ... and is taken back when there was nothing to read.
Uncount(e) == (busyPackets[e] > -Floor /\ Load(e, "undo", "unstore"))
              \/ Store(e, "unstore", -1, "loop")

\* xfr = libusb_alloc_transfer(1)
Alloc(e) ==
  /\ pc[e] = "alloc"
  /\ \E t \in Transfers :
       /\ transfer[t].state = "free"
       /\ transfer' = [transfer EXCEPT ![t].state = "empty"]
       /\ xfr' = t
  /\ Moves(e, "fill")
  /\ UNCHANGED <<io, tmp, event>>

\* libusb_fill_iso_transfer writes whatever xfr points to by now: the transfer
\* of another worker, in flight or ended, or one that its callback has freed.
Fill(e) ==
  /\ pc[e] = "fill"
  /\ transfer' =
       [transfer EXCEPT ![xfr] =
          [state |-> IF @.state = "empty" THEN "filled" ELSE @.state, ep |-> e]]
  /\ Moves(e, "submit")
  /\ UNCHANGED <<io, tmp, xfr, event>>

\* libusb_submit_transfer refuses one that is in flight; nobody looks.
Submit(e) ==
  /\ pc[e] = "submit"
  /\ \/ /\ transfer[xfr].state = "filled"
        /\ transfer' = [transfer EXCEPT ![xfr].state = "in flight"]
     \/ /\ transfer[xfr].state # "filled" \/ e \in Faulty
        /\ UNCHANGED transfer
  /\ Moves(e, "loop")
  /\ UNCHANGED <<io, tmp, xfr, event>>

\* Another worker has moved the pointer to a transfer it has not filled yet, or
\* a callback has freed what it points to: there is no device handle in it.
SubmitCrashes(e) ==
  /\ pc[e] = "submit"
  /\ transfer[xfr].state \in {"empty", "free"}
  /\ LoopStep(Exit)

-----------------------------------------------------------------------------
(* cb_transfer_out *)

Ended(t) ==
  /\ event.pc = "idle"
  /\ transfer[t].state = "in flight"
  /\ \E ok \in {TRUE} \cup (IF transfer[t].ep \in Faulty THEN {FALSE} ELSE {}) :
       event' = [event EXCEPT !.pc = "load", !.xfr = t, !.ok = ok]
  /\ transfer' = [transfer EXCEPT ![t].state = "ended"]
  /\ UNCHANGED <<loopVars, io, tmp, xfr>>

CbLoad ==
  /\ event.pc = "load"
  /\ busyPackets[transfer[event.xfr].ep] > -Floor
  /\ event' = [event EXCEPT !.pc = "store",
                            !.tmp = busyPackets[transfer[event.xfr].ep]]
  /\ UNCHANGED <<loopVars, io, tmp, xfr, transfer>>

CbStore ==
  /\ event.pc = "store"
  /\ busyPackets' =
       [busyPackets EXCEPT ![transfer[event.xfr].ep] = event.tmp - 1]
  /\ event' = [event EXCEPT !.pc = "free"]
  /\ UNCHANGED <<alive, ep_int, stop, keepRunning, pc, ep0, owner,
                 io, tmp, xfr, transfer>>

\* A transfer that has failed is not freed.
CbFree ==
  /\ event.pc = "free"
  /\ transfer' = IF event.ok THEN [transfer EXCEPT ![event.xfr] = Unused]
                 ELSE transfer
  /\ event' = EventIdle
  /\ UNCHANGED <<loopVars, io, tmp, xfr>>

-----------------------------------------------------------------------------
Ep0Step == \/ \E e \in Endpoints : Enable(e) \/ EnableFails(e) \/ DisableStop(e)
           \/ DisableClear \/ DisableJoin \/ DisableEp

Worker(e) == \/ LoopStep(LoopTest(e) \/ Gate(e))
             \/ BusyReturn(e) \/ Begin(e) \/ Count(e) \/ Handle(e)
             \/ Read(e) \/ ReadFails(e)
             \/ Uncount(e) \/ Alloc(e) \/ Fill(e) \/ Submit(e) \/ SubmitCrashes(e)

EventThread == (\E t \in Transfers : Ended(t)) \/ CbLoad \/ CbStore \/ CbFree

\* The process has ended, or one of the model's bounds has been reached.
Exited ==
  /\ \/ ~alive
     \/ \A t \in Transfers : transfer[t].state # "free"
     \/ \E e \in Endpoints : busyPackets[e] <= -Floor
  /\ UNCHANGED vars

Next ==
  \/ /\ alive
     /\ \/ LoopStep(Ep0Step) \/ EventThread
        \/ \E e \in Endpoints : Worker(e)
  \/ Exited

Spec == Init /\ [][Next]_vars

-----------------------------------------------------------------------------
TypeOK ==
  /\ alive \in BOOLEAN
  /\ busyPackets \in [Endpoints -> (-Floor - 1) .. Limit]
  /\ ep_int \in [Endpoints -> Handles \cup {-1, 0}]
  /\ \A t \in Transfers :
       /\ transfer[t].state \in {"free", "empty", "filled", "in flight", "ended"}
       /\ transfer[t].ep \in Endpoints \cup {NoEndpoint}
  /\ xfr \in Transfers \cup {NoTransfer}

(***************************************************************************)
(* The handle a worker reads from is its endpoint's own, whatever the       *)
(* counter has drifted to and whoever's transfer the static pointer points  *)
(* to: it is the join that protects it.                                     *)
(***************************************************************************)
HandleOwned ==
  \A e \in Endpoints : pc[e] = "read" => Enabled(io[e]) /\ owner[io[e]] = e

(***************************************************************************)
(* "to notice then EP is safe to be disabled" (raw-helper.h:196): when      *)
(* usb_raw_ep_disable is called, no transfer of the endpoint is in flight.  *)
(***************************************************************************)
SafeToDisable ==
  ep0.pc = "disable" =>
    \A t \in Transfers :
      transfer[t].ep = ep0.ep => transfer[t].state # "in flight"

=============================================================================
