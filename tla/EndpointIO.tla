----------------------------- MODULE EndpointIO -----------------------------
(***************************************************************************)
(* Interrupt and bulk endpoints in both directions and isochronous IN       *)
(* endpoints: all the endpoints that keep one transfer in flight.           *)
(*                                                                         *)
(* Each endpoint has a worker thread, which submits transfers to the real   *)
(* device.  One event thread for the whole process runs the callbacks of    *)
(* the transfers that have ended.  The two share busyPackets, a plain int:  *)
(* ++ and -- are a load followed by a store.                                *)
(***************************************************************************)
EXTENDS EndpointLoop

CONSTANTS
  InEndpoints,   \* device to host (bEndpointAddress & LIBUSB_ENDPOINT_DIR_MASK)
  IsoEndpoints,  \* the isochronous ones, all IN; the rest is interrupt or bulk
  Faulty,        \* transfers and ioctls of these endpoints may fail
  Quiet          \* the device need not answer the transfers of these

ASSUME IOAssumption ==
  /\ InEndpoints \subseteq Endpoints
  /\ IsoEndpoints \subseteq InEndpoints
  /\ Faulty \subseteq Endpoints
  /\ Quiet \subseteq Endpoints

VARIABLES
  io,        \* io.inner.ep of each OUT worker: the handle it reads from
  tmp,       \* the value busyPackets++ of each worker has loaded
  inFlight,  \* how many transfers libusb holds for each endpoint
  event      \* the event thread, inside a callback

ioVars == <<io, tmp, inFlight, event>>
vars == <<loopVars, ioVars>>

\* Where the event thread is, in a callback for e, and that callback's locals.
EventAt(label, e, handle, loaded) ==
  [pc |-> label, ep |-> e, io |-> handle, tmp |-> loaded]

EventIdle == EventAt("idle", NoEndpoint, -1, 0)

Init ==
  /\ LoopInit
  /\ io = [e \in Endpoints |-> -1]
  /\ tmp = [e \in Endpoints |-> 0]
  /\ inFlight = [e \in Endpoints |-> 0]
  /\ event = EventIdle

\* The gadget driver accepts a read or a write on an enabled handle only.
Enabled(h) == h \in Handles /\ owner[h] # NoEndpoint

\* A Step of the outer loop, or of setEndpoint, or exit.
LoopStep(Step) == Step /\ UNCHANGED ioVars

-----------------------------------------------------------------------------
(* What a worker does in one turn of its loop: epDeviceToHostWorkInterrupt,  *)
(* ep_in_work_isochronous or ep_out_work_interrupt.                          *)

\* if (epInfo->busyPackets >= 1) return;
BusyReturn(e) ==
  /\ pc[e] = "work"
  /\ busyPackets[e] >= 1
  /\ LoopStep(Moves(e, "loop"))

\* Mistake: > for >=.
BeginOneMore(e) ==
  /\ pc[e] = "work"
  /\ busyPackets[e] <= 1
  /\ IF e \in InEndpoints
       THEN Moves(e, "load") /\ UNCHANGED io
       ELSE Moves(e, "read") /\ io' = [io EXCEPT ![e] = ep_int[e]]
  /\ UNCHANGED <<tmp, inFlight, event>>

Begin(e) ==
  /\ pc[e] = "work"
  /\ busyPackets[e] < 1
  /\ IF e \in InEndpoints
       THEN Moves(e, "load") /\ UNCHANGED io
       ELSE Moves(e, "read") /\ io' = [io EXCEPT ![e] = ep_int[e]]
  /\ UNCHANGED <<tmp, inFlight, event>>

\* usb_raw_ep_read: data from the host, or a timeout or an empty packet.
Read(e) ==
  /\ pc[e] = "read"
  /\ Enabled(io[e])
  /\ LoopStep(\E label \in {"load", "loop"} : Moves(e, label))

ReadFails(e) ==
  /\ pc[e] = "read"
  /\ e \in Faulty \/ ~Enabled(io[e])
  /\ LoopStep(Exit)

BusyLoad(e) ==
  /\ pc[e] = "load"
  /\ tmp' = [tmp EXCEPT ![e] = busyPackets[e]]
  /\ Moves(e, "store")
  /\ UNCHANGED <<io, inFlight, event>>

BusyStore(e) ==
  /\ pc[e] = "store"
  /\ busyPackets' = [busyPackets EXCEPT ![e] = tmp[e] + 1]
  /\ Goto(e, "submit")
  /\ UNCHANGED <<alive, ep_int, stop, keepRunning, ep0, owner,
                 io, tmp, inFlight, event>>

Submit(e) ==
  /\ pc[e] = "submit"
  /\ inFlight' = [inFlight EXCEPT ![e] = @ + 1]
  /\ Moves(e, "loop")
  /\ UNCHANGED <<io, tmp, event>>

\* The isochronous worker ignores the result of libusb_submit_transfer.
SubmitFails(e) ==
  /\ pc[e] = "submit"
  /\ e \in Faulty
  /\ LoopStep(IF e \in IsoEndpoints THEN Moves(e, "loop") ELSE Exit)

-----------------------------------------------------------------------------
(* The callbacks, cbTransferIn, cb_transfer_in and cb_transfer_out.          *)

\* A transfer of e has ended with LIBUSB_TRANSFER_COMPLETED.
Completed(e) ==
  /\ event.pc = "idle"
  /\ inFlight[e] > 0
  /\ inFlight' = [inFlight EXCEPT ![e] = @ - 1]
  /\ event' = EventAt(IF e \in InEndpoints THEN "handle" ELSE "load", e, -1, 0)
  /\ UNCHANGED <<loopVars, io, tmp>>

\* Mistake, made in passthrough.c: the OUT callback returns at once as well.
FailedEarlyReturn(e) ==
  /\ event.pc = "idle"
  /\ e \in Faulty
  /\ inFlight[e] > 0
  /\ inFlight' = [inFlight EXCEPT ![e] = @ - 1]
  /\ event' = EventIdle
  /\ UNCHANGED <<loopVars, io, tmp>>

\* Any other status: the IN callbacks return at once, the OUT callback has
\* its decrement before the test.
Failed(e) ==
  /\ event.pc = "idle"
  /\ e \in Faulty
  /\ inFlight[e] > 0
  /\ inFlight' = [inFlight EXCEPT ![e] = @ - 1]
  /\ event' = IF e \in InEndpoints
                THEN EventIdle
                ELSE EventAt("load", e, -1, 0)
  /\ UNCHANGED <<loopVars, io, tmp>>

\* io.inner.ep = epInfo->ep_int; isochronous data is not passed on.
CbHandle ==
  /\ event.pc = "handle"
  /\ event' = EventAt(IF event.ep \in IsoEndpoints THEN "load" ELSE "write",
                      event.ep, ep_int[event.ep], event.tmp)
  /\ UNCHANGED <<loopVars, io, tmp, inFlight>>

\* usb_raw_ep_write: the host takes the packet, or ETIMEDOUT and it is dropped.
CbWrite ==
  /\ event.pc = "write"
  /\ Enabled(event.io)
  /\ event' = [event EXCEPT !.pc = "load"]
  /\ UNCHANGED <<loopVars, io, tmp, inFlight>>

CbWriteFails ==
  /\ event.pc = "write"
  /\ event.ep \in Faulty \/ ~Enabled(event.io)
  /\ LoopStep(Exit)

CbLoad ==
  /\ event.pc = "load"
  /\ event' = EventAt("store", event.ep, event.io, busyPackets[event.ep])
  /\ UNCHANGED <<loopVars, io, tmp, inFlight>>

\* Mistake: the callback frees the transfer but does not count it.
CbStoreNothing ==
  /\ event.pc = "store"
  /\ event' = EventIdle
  /\ UNCHANGED <<loopVars, io, tmp, inFlight>>

CbStore ==
  /\ event.pc = "store"
  /\ busyPackets' = [busyPackets EXCEPT ![event.ep] = event.tmp - 1]
  /\ event' = EventIdle
  /\ UNCHANGED <<alive, ep_int, stop, keepRunning, pc, ep0, owner,
                 io, tmp, inFlight>>

-----------------------------------------------------------------------------
Ep0Step == \/ \E e \in Endpoints : Enable(e) \/ EnableFails(e) \/ DisableStop(e)
           \/ DisableClear \/ DisableJoin \/ DisableEp

Ep0 == alive /\ LoopStep(Ep0Step)

Worker(e) ==
  /\ alive
  /\ \/ LoopStep(LoopTest(e) \/ Gate(e))
     \/ BusyReturn(e) \/ Begin(e) \/ Read(e) \/ ReadFails(e)
     \/ BusyLoad(e) \/ BusyStore(e) \/ Submit(e) \/ SubmitFails(e)

Reap(e) == alive /\ (Completed(e) \/ Failed(e))

Callback == alive /\ (CbHandle \/ CbWrite \/ CbWriteFails \/ CbLoad \/ CbStore)

\* The process has ended.
Exited == ~alive /\ UNCHANGED vars

Next ==
  \/ Ep0
  \/ \E e \in Endpoints : Worker(e) \/ Reap(e)
  \/ Callback
  \/ Exited

Spec == Init /\ [][Next]_vars

(***************************************************************************)
(* Threads are scheduled and the ioctls of the gadget driver return (with   *)
(* data or a timeout), so every thread that can step does.  libusb hands    *)
(* out ended transfers in the order they end, so none is passed over for    *)
(* ever: strong fairness.  Nothing makes a device in Quiet answer, because  *)
(* the transfers have no timeout.  The host owes the gadget no request.     *)
(***************************************************************************)
Fairness ==
  /\ WF_vars(alive /\ LoopStep(DisableClear \/ DisableJoin \/ DisableEp))
  /\ WF_vars(Callback)
  /\ \A e \in Endpoints : WF_vars(Worker(e))
  /\ \A e \in Endpoints \ Quiet : SF_vars(Reap(e))

FairSpec == Spec /\ Fairness

-----------------------------------------------------------------------------
\* Transfers of e that are with libusb or in a callback that has not finished.
Outstanding(e) == inFlight[e] + (IF event.ep = e THEN 1 ELSE 0)

WorkerLabels ==
  {"none", "loop", "gate", "work", "read", "load", "store", "submit", "done"}

TypeOK ==
  /\ alive \in BOOLEAN
  /\ ep_int \in [Endpoints -> Handles \cup {-1, 0}]
  /\ stop \in [Endpoints -> BOOLEAN]
  /\ keepRunning \in [Endpoints -> BOOLEAN]
  /\ busyPackets \in [Endpoints -> 0 .. 1]
  /\ pc \in [Endpoints -> WorkerLabels]
  /\ ep0 \in [pc : {"idle", "clear", "join", "disable"},
              ep : Endpoints \cup {NoEndpoint}, temp : Handles \cup {-1}]
  /\ owner \in [Handles -> Endpoints \cup {NoEndpoint}]
  /\ io \in [Endpoints -> Handles \cup {-1}]
  /\ tmp \in [Endpoints -> 0 .. 1]
  /\ inFlight \in [Endpoints -> 0 .. 1]
  /\ event \in [pc : {"idle", "handle", "write", "load", "store"},
                ep : Endpoints \cup {NoEndpoint},
                io : Handles \cup {-1}, tmp : 0 .. 1]

(***************************************************************************)
(* busyPackets counts what it is used to count: it is never below the       *)
(* number of transfers outstanding, so the loop's "busyPackets > 0" keeps   *)
(* the thread until they end; and it is exact, whatever the interleaving of *)
(* the two threads' ++ and --, for every endpoint but a faulty IN one.      *)
(***************************************************************************)
BusyPacketsExact ==
  \A e \in Endpoints :
    LET counted == Outstanding(e) + (IF pc[e] = "submit" THEN 1 ELSE 0)
    IN  /\ counted <= busyPackets[e]
        /\ e \notin InEndpoints \cap Faulty => counted = busyPackets[e]

(***************************************************************************)
(* "to notice then EP is safe to be disabled" (raw-helper.h): when the      *)
(* endpoint-zero thread calls usb_raw_ep_disable, the worker has ended and  *)
(* neither libusb nor a callback holds a transfer of the endpoint.          *)
(***************************************************************************)
SafeToDisable ==
  ep0.pc = "disable" =>
    /\ pc[ep0.ep] = "none"
    /\ Outstanding(ep0.ep) = 0

(***************************************************************************)
(* A worker reads, and a callback writes, on the handle of its own          *)
(* endpoint: ep_int, read some steps before the ioctl, is not stale when    *)
(* used, although setEndpoint overwrites ep_int and handles are used again. *)
(***************************************************************************)
HandleOwned ==
  /\ \A e \in Endpoints : pc[e] = "read" => Enabled(io[e]) /\ owner[io[e]] = e
  /\ event.pc = "write" => Enabled(event.io) /\ owner[event.io] = event.ep

(***************************************************************************)
(* No handle leaks: one that is in use belongs to an endpoint with a worker *)
(* thread, or to the one being disabled, and that endpoint's ep_int is it.  *)
(***************************************************************************)
NoHandleLeak ==
  \A h \in Handles : owner[h] # NoEndpoint =>
    /\ ep_int[owner[h]] = h
    /\ \/ pc[owner[h]] # "none"
       \/ ep0.pc = "disable" /\ ep0.ep = owner[h]

(***************************************************************************)
(* A disable comes to an end: pthread_join returns and endpoint zero can    *)
(* serve the host again, or the process has exited.  So it is unless the    *)
(* device is quiet on this very endpoint: transfers have no timeout.        *)
(***************************************************************************)
DisableCompletes ==
  \A e \in Endpoints \ Quiet :
    (ep0.pc # "idle" /\ ep0.ep = e) ~> (ep0.pc = "idle" \/ ~alive)

(***************************************************************************)
(* An open IN endpoint goes on polling the device: it has a transfer        *)
(* outstanding again and again until it is stopped.                         *)
(***************************************************************************)
KeepsPolling ==
  \A e \in InEndpoints :
    (pc[e] # "none" /\ ~stop[e]) ~> (inFlight[e] > 0 \/ stop[e] \/ ~alive)

-----------------------------------------------------------------------------
(* The inductive invariant: what the properties above need to be preserved.  *)

\* setEndpoint has set stop, and has not yet joined the worker of e.
Closing(e) == ep0.pc \in {"clear", "join"} /\ ep0.ep = e

\* The flags and the handle of an endpoint with a worker thread.
WorkerInv ==
  \A e \in Endpoints :
    /\ pc[e] # "none" =>
         /\ ep_int[e] \in Handles
         /\ owner[ep_int[e]] = e
         /\ stop[e] <=> Closing(e)
         /\ ~keepRunning[e] <=> (ep0.pc = "join" /\ ep0.ep = e)
    /\ pc[e] = "done" => ~keepRunning[e]
    /\ pc[e] = "read" => io[e] = ep_int[e]

Ep0Inv ==
  /\ ep0.pc = "idle" <=> ep0.ep = NoEndpoint
  /\ ep0.pc # "idle" => /\ ep0.temp \in Handles
                        /\ ep0.temp = ep_int[ep0.ep]
                        /\ owner[ep0.temp] = ep0.ep
                        /\ pc[ep0.ep] = "none" <=> ep0.pc = "disable"

\* Between the test of busyPackets and its increment nobody else changes it.
BusyInv ==
  \A e \in Endpoints :
    /\ pc[e] \in {"none", "done", "read", "load", "store"} => busyPackets[e] = 0
    /\ pc[e] = "store" => tmp[e] = 0

EventInv ==
  /\ event.pc = "idle" <=> event.ep = NoEndpoint
  /\ event.pc = "write" => event.io = ep_int[event.ep]
  /\ event.pc = "store" => event.tmp = 1

IInv == TypeOK /\ BusyPacketsExact /\ NoHandleLeak
        /\ WorkerInv /\ Ep0Inv /\ BusyInv /\ EventInv

-----------------------------------------------------------------------------
(* The refinement of EndpointContract. *)

PastGate(e) == pc[e] \in {"work", "read", "load", "store", "submit"}

\* "disable" is still closing: usb_raw_ep_disable has not been called.
phaseBar ==
  [e \in Endpoints |->
     CASE pc[e] = "none" /\ ~(ep0.pc = "disable" /\ ep0.ep = e) -> "closed"
       [] ep0.pc # "idle" /\ ep0.ep = e -> "closing"
       [] OTHER -> "open"]

\* busyPackets is 1 but nothing will decrement it: the transfer is lost.
slotBar ==
  [e \in Endpoints |->
     CASE Outstanding(e) > 0 -> "used"
       [] busyPackets[e] > 0 /\ Outstanding(e) = 0 /\ pc[e] # "submit" -> "lost"
       [] OTHER -> "free"]

lateBar == [e \in Endpoints |-> phaseBar[e] = "closing" /\ PastGate(e)]

Contract == INSTANCE EndpointContract
  WITH CanLose <- InEndpoints \cap Faulty,
       phase <- phaseBar, slot <- slotBar, late <- lateBar

(***************************************************************************)
(* The threads keep the contract: at most one transfer outstanding, at most *)
(* one started after the stop flag is set, and no endpoint is closed while  *)
(* its transfer is outstanding or lost.                                     *)
(***************************************************************************)
KeepsContract == Contract!Spec

=============================================================================
