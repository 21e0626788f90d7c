---------------------------- MODULE EndpointLoop ----------------------------
(***************************************************************************)
(* The life of an endpoint: how the thread that serves endpoint zero opens  *)
(* and closes the other endpoints (setEndpoint), and the outer loop of the  *)
(* worker thread every open endpoint has (epLoopThread).                    *)
(*                                                                         *)
(* The work one turn of the loop does is left to the modules that extend    *)
(* this one: EndpointIO and IsoOut.                                         *)
(***************************************************************************)
EXTENDS Integers

CONSTANTS
  Endpoints,    \* the EndpointInfo records of the device
  NumHandles,   \* how many endpoints the gadget hardware has
  NoEndpoint    \* "this hardware endpoint is not enabled"

ASSUME LoopAssumption ==
  /\ NumHandles \in Nat
  /\ NoEndpoint \notin Endpoints

\* What USB_RAW_IOCTL_EP_ENABLE returns: an index into the hardware endpoints.
Handles == 0 .. (NumHandles - 1)

VARIABLES
  alive,        \* FALSE once some thread has called exit(EXIT_FAILURE)
  ep_int,       \* EndpointInfo.ep_int, the handle, -1 before the first enable
  stop,         \* EndpointInfo.stop
  keepRunning,  \* EndpointInfo.keepRunning
  busyPackets,  \* EndpointInfo.busyPackets
  pc,           \* where the worker thread of each endpoint is
  ep0,          \* the thread of endpoint zero, inside setEndpoint(.., false)
  owner         \* the gadget driver: which endpoint each handle is enabled for

loopVars ==
  <<alive, ep_int, stop, keepRunning, busyPackets, pc, ep0, owner>>

Ep0Idle == [pc |-> "idle", ep |-> NoEndpoint, temp |-> -1]

\* The EndpointInfo records as initialize() leaves them; no thread exists yet.
LoopInit ==
  /\ alive = TRUE
  /\ ep_int = [e \in Endpoints |-> -1]
  /\ stop = [e \in Endpoints |-> TRUE]
  /\ keepRunning = [e \in Endpoints |-> TRUE]
  /\ busyPackets = [e \in Endpoints |-> 0]
  /\ pc = [e \in Endpoints |-> "none"]
  /\ ep0 = Ep0Idle
  /\ owner = [h \in Handles |-> NoEndpoint]

\* exit(EXIT_FAILURE): every thread of the process ends where it is.
Exit ==
  /\ alive' = FALSE
  /\ UNCHANGED <<ep_int, stop, keepRunning, busyPackets, pc, ep0, owner>>

Goto(e, label) == pc' = [pc EXCEPT ![e] = label]

\* A step of the worker of e that changes nothing else here.
Moves(e, label) ==
  /\ Goto(e, label)
  /\ UNCHANGED <<alive, ep_int, stop, keepRunning, busyPackets, ep0, owner>>

-----------------------------------------------------------------------------
(* setEndpoint, run by the thread of endpoint zero.  Which endpoint it opens *)
(* or closes next is up to the host's requests; module Configuration shows   *)
(* when those requests open closed endpoints and close open ones only.       *)

\* Mistake: an endpoint that is open already is opened again.
EnableAgain(e) ==
  /\ ep0.pc = "idle"
  /\ \E h \in Handles :
       /\ owner[h] = NoEndpoint
       /\ owner' = [owner EXCEPT ![h] = e]
       /\ ep_int' = [ep_int EXCEPT ![e] = h]
  /\ stop' = [stop EXCEPT ![e] = FALSE]
  /\ keepRunning' = [keepRunning EXCEPT ![e] = TRUE]
  /\ Goto(e, "loop")
  /\ UNCHANGED <<alive, busyPackets, ep0>>

\* usb_raw_ep_enable hands out a handle that is not in use.
Enable(e) ==
  /\ ep0.pc = "idle"
  /\ pc[e] = "none"
  /\ \E h \in Handles :
       /\ owner[h] = NoEndpoint
       /\ owner' = [owner EXCEPT ![h] = e]
       /\ ep_int' = [ep_int EXCEPT ![e] = h]
  /\ stop' = [stop EXCEPT ![e] = FALSE]
  /\ keepRunning' = [keepRunning EXCEPT ![e] = TRUE]
  /\ Goto(e, "loop")
  /\ UNCHANGED <<alive, busyPackets, ep0>>

\* No hardware endpoint is left: usb_raw_ep_enable ends the process.
EnableFails(e) ==
  /\ ep0.pc = "idle"
  /\ pc[e] = "none"
  /\ \A h \in Handles : owner[h] # NoEndpoint
  /\ Exit

\* Mistake: the handle is marked invalid while callbacks may still need it.
DisableStopEarly(e) ==
  /\ ep0.pc = "idle"
  /\ pc[e] # "none"
  /\ ep0' = [pc |-> "clear", ep |-> e, temp |-> ep_int[e]]
  /\ stop' = [stop EXCEPT ![e] = TRUE]
  /\ ep_int' = [ep_int EXCEPT ![e] = -1]
  /\ UNCHANGED <<alive, keepRunning, busyPackets, pc, owner>>

DisableStop(e) ==
  /\ ep0.pc = "idle"
  /\ pc[e] # "none"
  /\ ep0' = [pc |-> "clear", ep |-> e, temp |-> ep_int[e]]
  /\ stop' = [stop EXCEPT ![e] = TRUE]
  /\ UNCHANGED <<alive, ep_int, keepRunning, busyPackets, pc, owner>>

\* Mistake: keepRunning, "mostly unused", is not cleared.
DisableClearNothing ==
  /\ ep0.pc = "clear"
  /\ ep0' = [ep0 EXCEPT !.pc = "join"]
  /\ UNCHANGED <<alive, ep_int, stop, keepRunning, busyPackets, pc, owner>>

DisableClear ==
  /\ ep0.pc = "clear"
  /\ ep0' = [ep0 EXCEPT !.pc = "join"]
  /\ keepRunning' = [keepRunning EXCEPT ![ep0.ep] = FALSE]
  /\ UNCHANGED <<alive, ep_int, stop, busyPackets, pc, owner>>

\* Mistake: the worker is given up without waiting for it.
DisableNoJoin ==
  /\ ep0.pc = "join"
  /\ ep0' = [ep0 EXCEPT !.pc = "disable"]
  /\ Goto(ep0.ep, "none")
  /\ UNCHANGED <<alive, ep_int, stop, keepRunning, busyPackets, owner>>

\* pthread_join returns once the worker has left its loop.
DisableJoin ==
  /\ ep0.pc = "join"
  /\ pc[ep0.ep] = "done"
  /\ ep0' = [ep0 EXCEPT !.pc = "disable"]
  /\ Goto(ep0.ep, "none")
  /\ UNCHANGED <<alive, ep_int, stop, keepRunning, busyPackets, owner>>

\* The return value of the ioctl, 0, is stored as the new handle.
DisableEp ==
  /\ ep0.pc = "disable"
  /\ IF ep0.temp \in Handles /\ owner[ep0.temp] # NoEndpoint
       THEN /\ owner' = [owner EXCEPT ![ep0.temp] = NoEndpoint]
            /\ ep_int' = [ep_int EXCEPT ![ep0.ep] = 0]
            /\ ep0' = Ep0Idle
            /\ UNCHANGED <<alive, stop, keepRunning, busyPackets, pc>>
       ELSE Exit

-----------------------------------------------------------------------------
(* The loop of the worker thread, epLoopThread. *)

\* Mistake: while (ep->keepRunning)
LoopTestKeepRunning(e) ==
  /\ pc[e] = "loop"
  /\ Moves(e, IF keepRunning[e] THEN "gate" ELSE "done")

\* while (ep->keepRunning || ep->busyPackets > 0)
LoopTest(e) ==
  /\ pc[e] = "loop"
  /\ Moves(e, IF keepRunning[e] \/ busyPackets[e] > 0 THEN "gate" ELSE "done")

\* if (ep->ep_int >= 0 && !ep->stop); otherwise the thread only sleeps
Gate(e) ==
  /\ pc[e] = "gate"
  /\ Moves(e, IF ep_int[e] >= 0 /\ ~stop[e] THEN "work" ELSE "loop")

=============================================================================
