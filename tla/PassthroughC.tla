---------------------------- MODULE PassthroughC ----------------------------
(***************************************************************************)
(* passthrough.c, the program in C, as a whole: main, which initializes and *)
(* then runs the callbacks of libusb; the thread of endpoint zero, which     *)
(* moves the configuration tree and opens and closes endpoints; the worker  *)
(* threads of the open endpoints; the device, which takes transfers only    *)
(* for the endpoints of its current alternates; and the host.               *)
(*                                                                         *)
(* One turn of a worker up to a call that may wait is one step, and so is   *)
(* each ++ and -- of busyPackets: module EndpointIO takes these apart.      *)
(***************************************************************************)
EXTENDS Integers, Sequences, FiniteSets, SequencesExt

CONSTANTS
  Tree,          \* as in module Configuration
  Address,
  Requests,      \* what the host may send: also kind "in" and kind "out"
  InEndpoints,
  IsoEndpoints,  \* all IN; isochronous OUT is the subject of module IsoOut
  Faulty,        \* transfers of these may fail
  Quiet,         \* and the device need not answer those of these
  NumHandles,
  NoEndpoint

ASSUME PassthroughAssumption ==
  /\ DOMAIN Tree # {}
  /\ NumHandles \in Nat \ {0}
  /\ IsoEndpoints \subseteq InEndpoints
  /\ \A r \in Requests : r.kind \in {"configuration", "interface", "in", "out"}

VARIABLES
  main,           \* how many stages of main are left before its loop
  ended,          \* what has ended the process, "no" while it runs
  activeConfiguration, activeInterface, activeAlternate, configured,
  steps,          \* what is left to do of the request being served
  device,         \* the configuration and the alternates of the device
  failed,         \* history: which kinds of request the device has refused
  ep_int, stop, keepRunning, busyPackets,   \* of each EndpointInfo
  pc,             \* where the worker thread of each endpoint is
  io,             \* the handle an OUT worker reads from
  owner,          \* the gadget driver: the endpoint each handle serves
  inFlight,       \* the transfers libusb holds for each endpoint
  event           \* the loop of main, inside a callback

infoVars == <<activeConfiguration, activeInterface, activeAlternate, configured>>
epVars == <<ep_int, stop, keepRunning>>
workVars == <<busyPackets, pc, io, inFlight>>
vars == <<main, ended, infoVars, steps, device, failed, epVars, workVars,
          owner, event>>

EndpointsOf(c, i, a) == ToSet(Tree[c][i][a])

Endpoints ==
  UNION {UNION {UNION {EndpointsOf(c, i, a) : a \in DOMAIN Tree[c][i]} :
                  i \in DOMAIN Tree[c]} : c \in DOMAIN Tree}

Handles == 0 .. (NumHandles - 1)

CbIdle == [pc |-> "idle", ep |-> NoEndpoint, io |-> -1]

-----------------------------------------------------------------------------
(* main: seven calls that must not fail, one for each configuration, one for *)
(* each alternate, and three to start the gadget and the thread.             *)

Alternates ==
  UNION {UNION {{<<c, i, a>> : a \in DOMAIN Tree[c][i]} :
                  i \in DOMAIN Tree[c]} : c \in DOMAIN Tree}

\* Interfaces and alternates are counted from 0, there is an alternate 0, and
\* every alternate has EndpointInfos of its own.
ASSUME TreeAssumption ==
  /\ IsFiniteSet(DOMAIN Tree) /\ DOMAIN Tree \subseteq Nat /\ 0 \in DOMAIN Tree
  /\ \A c \in DOMAIN Tree :
       /\ IsFiniteSet(DOMAIN Tree[c])
       /\ DOMAIN Tree[c] = 0 .. (Cardinality(DOMAIN Tree[c]) - 1)
       /\ \A i \in DOMAIN Tree[c] :
            /\ DOMAIN Tree[c][i] \subseteq Nat /\ 0 \in DOMAIN Tree[c][i]
            /\ \A a \in DOMAIN Tree[c][i] :
                 /\ Tree[c][i][a] \in Seq(EndpointsOf(c, i, a))
                 /\ \A d \in DOMAIN Tree : \A j \in DOMAIN Tree[d] :
                      \A b \in DOMAIN Tree[d][j] :
                        EndpointsOf(c, i, a) \cap EndpointsOf(d, j, b) # {} =>
                          c = d /\ i = j /\ a = b
  /\ IsFiniteSet(Alternates)
  /\ NoEndpoint \notin Endpoints

Stages == 7 + Cardinality(DOMAIN Tree) + Cardinality(Alternates) + 3

Init ==
  /\ main = Stages
  /\ ended = "no"
  /\ activeConfiguration = -1
  /\ activeInterface = [c \in DOMAIN Tree |-> -1]
  /\ activeAlternate = [c \in DOMAIN Tree |-> [i \in DOMAIN Tree[c] |-> -1]]
  /\ configured = FALSE
  /\ steps = <<>>
  /\ device = [config |-> 0, alt |-> [i \in DOMAIN Tree[0] |-> 0]]
  /\ failed = {}
  /\ ep_int = [e \in Endpoints |-> -1]
  /\ stop = [e \in Endpoints |-> TRUE]
  /\ keepRunning = [e \in Endpoints |-> TRUE]
  /\ busyPackets = [e \in Endpoints |-> 0]
  /\ pc = [e \in Endpoints |-> "none"]
  /\ io = [e \in Endpoints |-> -1]
  /\ owner = [h \in Handles |-> NoEndpoint]
  /\ inFlight = [e \in Endpoints |-> 0]
  /\ event = CbIdle

Exit(why) ==
  /\ ended' = why
  /\ UNCHANGED <<main, infoVars, steps, device, failed, epVars, workVars,
                 owner, event>>

MainStage ==
  /\ main > 0
  /\ main' = main - 1
  /\ UNCHANGED <<ended, infoVars, steps, device, failed, epVars, workVars,
                 owner, event>>

\* Some failures call exit, others return from main: both end the process.
MainFails == main > 1 /\ Exit("main")

-----------------------------------------------------------------------------
(* What a request does, as the sequence of its steps. *)

\* Mistake: the handle is given back before the worker has ended.
setEndpointDisableFirst(e, enable) ==
  IF enable THEN <<[do |-> "enable", ep |-> e]>>
  ELSE <<[do |-> "stop", ep |-> e], [do |-> "disable", ep |-> e],
         [do |-> "join", ep |-> e]>>

setEndpoint(e, enable) ==
  IF enable THEN <<[do |-> "enable", ep |-> e]>>
  ELSE <<[do |-> "stop", ep |-> e], [do |-> "join", ep |-> e],
         [do |-> "disable", ep |-> e]>>

SetEach(c, i, a, enable) ==
  FlattenSeq([k \in DOMAIN Tree[c][i][a] |->
                setEndpoint(Tree[c][i][a][k], enable)])

\* Mistake: the endpoints of the active alternate stay open.
setAlternateStay(c, i, a) ==
  SetEach(c, i, IF a >= 0 THEN a ELSE activeAlternate[c][i], a >= 0)
    \o <<[do |-> "alternate", c |-> c, i |-> i, a |-> a]>>

setAlternate(c, i, a) ==
  LET active == activeAlternate[c][i]
  IN  (IF active \notin {a, -1} /\ a >= 0 THEN SetEach(c, i, active, FALSE)
                                          ELSE <<>>)
        \o SetEach(c, i, IF a >= 0 THEN a ELSE active, a >= 0)
        \o <<[do |-> "alternate", c |-> c, i |-> i, a |-> a]>>

Select(c, i, a) ==
  IF a >= 0 THEN <<[do |-> "select", c |-> c, i |-> i, a |-> a]>> ELSE <<>>

\* Mistake: the device is told first.
setInterfaceSelectFirst(c, i, a) ==
  Select(c, i, a) \o setAlternate(c, i, a)
    \o <<[do |-> "interface", c |-> c, i |-> i]>>

setInterface(c, i, a) ==
  setAlternate(c, i, a) \o <<[do |-> "interface", c |-> c, i |-> i]>>
    \o Select(c, i, a)

SetInterfaces(c, a) ==
  FlattenSeq([k \in 1 .. Cardinality(DOMAIN Tree[c]) |->
                setInterface(c, k - 1, a)])

setConfiguration(c) ==
  (IF activeConfiguration \notin {c, -1} /\ c >= 0
     THEN SetInterfaces(activeConfiguration, -1) ELSE <<>>)
    \o SetInterfaces(c, 0) \o <<[do |-> "configuration", c |-> c]>>

\* An IN request goes to the device first; for the two standard OUT requests
\* the tree is moved.  The other requests change nothing here.
ep0_request(r) ==
  CASE r.kind = "in" -> <<[do |-> "transfer"]>>
    [] r.kind = "out" -> <<>>
    [] r.kind = "configuration" ->
         setConfiguration(r.value - 1) \o <<[do |-> "configure"]>>
    [] r.kind = "interface" ->
         setInterface(activeConfiguration, r.index, r.value)

\* An OUT request is acknowledged and then sent to the device.
ep0_loop(r) ==
  ep0_request(r) \o
    (IF r.kind = "in" THEN <<[do |-> "answer"]>>
     ELSE <<[do |-> "acknowledge"],
            [do |-> IF r.kind = "out" THEN "pass" ELSE "forward",
             request |-> r]>>)

-----------------------------------------------------------------------------
(* The thread of endpoint zero. *)

\* What the host selects is there and is not selected yet; module
\* Configuration shows what follows otherwise.
Sensible(r) ==
  CASE r.kind = "configuration" ->
         r.value - 1 \in DOMAIN Tree \ {activeConfiguration}
    [] r.kind = "interface" ->
         /\ activeConfiguration \in DOMAIN Tree
         /\ r.index \in DOMAIN Tree[activeConfiguration]
         /\ r.value \in DOMAIN Tree[activeConfiguration][r.index]
         /\ r.value # activeAlternate[activeConfiguration][r.index]
    [] OTHER -> TRUE

\* ep0_loop_thread fetches the host's next request.
Request(r) ==
  /\ main = 0
  /\ steps = <<>>
  /\ Sensible(r)
  /\ steps' = ep0_loop(r)
  /\ UNCHANGED <<main, ended, infoVars, device, failed, epVars, workVars,
                 owner, event>>

Doing(what) ==
  /\ steps # <<>>
  /\ Head(steps).do = what
  /\ steps' = Tail(steps)

\* The control transfer of an IN request; if it fails, a stall is the answer.
Transfer ==
  /\ Doing("transfer")
  /\ UNCHANGED <<main, ended, infoVars, device, failed, epVars, workVars,
                 owner, event>>

\* usb_raw_ep0_write or usb_raw_ep0_stall for an IN request, and for an OUT
\* request usb_raw_ep0_read, after which it is passed to the device.
Answer ==
  /\ Doing("answer") \/ Doing("acknowledge") \/ Doing("pass")
  /\ UNCHANGED <<main, ended, infoVars, device, failed, epVars, workVars,
                 owner, event>>

\* These ioctls, and usb_raw_configure, end the process when they fail, as
\* they may when the host has given up its request.
AnswerFails ==
  /\ steps # <<>>
  /\ Head(steps).do \in {"configure", "answer", "acknowledge"}
  /\ Exit("ep0")

\* usb_raw_ep_enable takes the first handle that is free.
Enable ==
  /\ Doing("enable")
  /\ LET e == Head(steps).ep
         free == {h \in Handles : owner[h] = NoEndpoint}
         used == {Address[owner[h]] : h \in Handles \ free}
         h == CHOOSE k \in free : \A j \in free : k <= j
     IN  IF free = {} \/ Address[e] \in used
           THEN /\ ended' = "enable"
                /\ UNCHANGED <<epVars, pc, owner>>
           ELSE /\ owner' = [owner EXCEPT ![h] = e]
                /\ ep_int' = [ep_int EXCEPT ![e] = h]
                /\ stop' = [stop EXCEPT ![e] = FALSE]
                /\ keepRunning' = [keepRunning EXCEPT ![e] = TRUE]
                /\ pc' = [pc EXCEPT ![e] =
                            IF e \in IsoEndpoints THEN "sleep" ELSE "loop"]
                /\ UNCHANGED ended
  /\ UNCHANGED <<main, infoVars, device, failed, busyPackets, io, inFlight,
                 event>>

\* Mistake: the flag of the loop is forgotten.
StopOnly ==
  /\ Doing("stop")
  /\ stop' = [stop EXCEPT ![Head(steps).ep] = TRUE]
  /\ UNCHANGED <<main, ended, infoVars, device, failed, ep_int, keepRunning,
                 workVars, owner, event>>

Stop ==
  /\ Doing("stop")
  /\ stop' = [stop EXCEPT ![Head(steps).ep] = TRUE]
  /\ keepRunning' = [keepRunning EXCEPT ![Head(steps).ep] = FALSE]
  /\ UNCHANGED <<main, ended, infoVars, device, failed, ep_int, workVars,
                 owner, event>>

\* pthread_join
Join ==
  /\ Doing("join")
  /\ pc[Head(steps).ep] = "done"
  /\ pc' = [pc EXCEPT ![Head(steps).ep] = "none"]
  /\ UNCHANGED <<main, ended, infoVars, device, failed, epVars, busyPackets,
                 io, inFlight, owner, event>>

\* usb_raw_ep_disable returns 0, which becomes the handle.
Disable ==
  /\ Doing("disable")
  /\ LET e == Head(steps).ep
     IN  /\ owner' = [owner EXCEPT ![ep_int[e]] = NoEndpoint]
         /\ ep_int' = [ep_int EXCEPT ![e] = 0]
  /\ UNCHANGED <<main, ended, infoVars, device, failed, stop, keepRunning,
                 workVars, event>>

Record ==
  /\ \/ /\ Doing("alternate")
        /\ LET s == Head(steps)
           IN  activeAlternate' = [activeAlternate EXCEPT ![s.c][s.i] = s.a]
        /\ UNCHANGED <<activeConfiguration, activeInterface, configured>>
     \/ /\ Doing("interface")
        /\ LET s == Head(steps)
           IN  activeInterface' = [activeInterface EXCEPT ![s.c] = s.i]
        /\ UNCHANGED <<activeConfiguration, activeAlternate, configured>>
     \/ /\ Doing("configuration")
        /\ activeConfiguration' = Head(steps).c
        /\ UNCHANGED <<activeInterface, activeAlternate, configured>>
     \/ /\ Doing("configure")
        /\ configured' = TRUE
        /\ UNCHANGED <<activeConfiguration, activeInterface, activeAlternate>>
  /\ UNCHANGED <<main, ended, device, failed, epVars, workVars, owner, event>>

\* libusb_set_interface_alt_setting: a failure is only printed.
SelectStep ==
  /\ Doing("select")
  /\ LET s == Head(steps)
     IN  \/ /\ device.config = s.c
            /\ device' = [device EXCEPT !.alt[s.i] = s.a]
            /\ UNCHANGED failed
         \/ failed' = failed \cup {"select"} /\ UNCHANGED device
  /\ UNCHANGED <<main, ended, infoVars, epVars, workVars, owner, event>>

\* The device has the interface and the alternate that r asks for.
Understands(r) ==
  /\ r.index \in DOMAIN device.alt
  /\ r.value \in DOMAIN Tree[device.config][r.index]

\* The request itself goes to the device too, after the acknowledgement.
Forward ==
  /\ Doing("forward")
  /\ LET r == Head(steps).request
     IN  \/ /\ \/ /\ r.kind = "configuration"
                 /\ device' = [config |-> r.value - 1,
                               alt |-> [i \in DOMAIN Tree[r.value - 1] |-> 0]]
              \/ /\ r.kind = "interface" /\ Understands(r)
                 /\ device' = [device EXCEPT !.alt[r.index] = r.value]
            /\ UNCHANGED failed
         \/ failed' = failed \cup {"forward"} /\ UNCHANGED device
  /\ UNCHANGED <<main, ended, infoVars, epVars, workVars, owner, event>>

-----------------------------------------------------------------------------
(* ep_loop_thread and the functions that do its work. *)

Unchanging == <<main, ended, infoVars, steps, device, failed, epVars, owner,
                event>>

\* Mistake: while (ep->keepRunning)
EndThreadEarly(e) ==
  /\ pc[e] = "loop"
  /\ ~keepRunning[e]
  /\ pc' = [pc EXCEPT ![e] = "done"]
  /\ UNCHANGED <<Unchanging, busyPackets, io, inFlight>>

\* An isochronous worker that was stopped at "sleep" ends if it has not begun
\* its first turn.
EndThread(e) ==
  /\ pc[e] \in {"sleep", "loop"}
  /\ ~keepRunning[e] /\ busyPackets[e] = 0
  /\ pc' = [pc EXCEPT ![e] = "done"]
  /\ UNCHANGED <<Unchanging, busyPackets, io, inFlight>>

\* Mistake: the limit is tested with <=.
WorksOneMore(e) ==
  /\ pc[e] = "loop"
  /\ keepRunning[e] /\ ep_int[e] >= 0 /\ ~stop[e]
  /\ busyPackets[e] <= 1

\* The two tests of ep_loop_thread, and that of the function it calls.
Works(e) ==
  /\ pc[e] = "loop"
  /\ keepRunning[e] /\ ep_int[e] >= 0 /\ ~stop[e]
  /\ busyPackets[e] < 1

Count(e) == busyPackets' = [busyPackets EXCEPT ![e] = @ + 1]

ep_in_work_interrupt(e) ==
  /\ e \in InEndpoints \ IsoEndpoints
  /\ Works(e)
  /\ Count(e)
  /\ pc' = [pc EXCEPT ![e] = "submit"]
  /\ UNCHANGED <<Unchanging, io, inFlight>>

\* The first turn of an isochronous worker, with the usleep(1000000) of the
\* thread: its tests were made before it, and are not repeated after it.
Woken(e) == pc[e] = "sleep" /\ busyPackets[e] < 1

ep_in_work_isochronous(e) ==
  /\ e \in IsoEndpoints
  /\ Works(e) \/ Woken(e)
  /\ Count(e)
  /\ pc' = [pc EXCEPT ![e] = "submit"]
  /\ UNCHANGED <<Unchanging, io, inFlight>>

ep_out_work_interrupt(e) ==
  /\ e \notin InEndpoints
  /\ Works(e)
  /\ pc' = [pc EXCEPT ![e] = "read"]
  /\ io' = [io EXCEPT ![e] = ep_int[e]]
  /\ UNCHANGED <<Unchanging, busyPackets, inFlight>>

\* usb_raw_ep_read: data, or nothing, or an error that is only printed.
Read(e) ==
  /\ pc[e] = "read"
  /\ \/ Count(e) /\ pc' = [pc EXCEPT ![e] = "submit"]
     \/ UNCHANGED busyPackets /\ pc' = [pc EXCEPT ![e] = "loop"]
  /\ io' = [io EXCEPT ![e] = -1]
  /\ UNCHANGED <<Unchanging, inFlight>>

\* The device has an endpoint with this address.
Reachable(e) ==
  \E i \in DOMAIN device.alt :
    \E f \in EndpointsOf(device.config, i, device.alt[i]) :
      Address[f] = Address[e]

Submit(e) ==
  /\ pc[e] = "submit"
  /\ Reachable(e)
  /\ inFlight' = [inFlight EXCEPT ![e] = @ + 1]
  /\ pc' = [pc EXCEPT ![e] = "loop"]
  /\ UNCHANGED <<Unchanging, busyPackets, io>>

\* Only the isochronous worker ignores the result.
SubmitFails(e) ==
  /\ pc[e] = "submit"
  /\ ~Reachable(e) \/ e \in Faulty
  /\ IF e \in IsoEndpoints
       THEN /\ pc' = [pc EXCEPT ![e] = "loop"]
            /\ UNCHANGED <<Unchanging, busyPackets, io, inFlight>>
       ELSE Exit("submit")

-----------------------------------------------------------------------------
(* The callbacks, run by the loop of main. *)

Returned(e) ==
  /\ event.pc = "idle"
  /\ inFlight[e] > 0
  /\ inFlight' = [inFlight EXCEPT ![e] = @ - 1]
  /\ UNCHANGED <<main, ended, infoVars, steps, device, failed, epVars, pc, io,
                 owner>>

Uncount(e) == busyPackets' = [busyPackets EXCEPT ![e] = @ - 1]

cb_transfer_out(e) ==
  /\ e \notin InEndpoints
  /\ Returned(e)
  /\ Uncount(e)
  /\ UNCHANGED event

cb_transfer_in(e) ==
  /\ e \in InEndpoints
  /\ Returned(e)
  /\ event' = [pc |-> "write", ep |-> e, io |-> ep_int[e]]
  /\ UNCHANGED busyPackets

\* status != LIBUSB_TRANSFER_COMPLETED: both callbacks return at once.
CbFailed(e) ==
  /\ e \in Faulty
  /\ Returned(e)
  /\ UNCHANGED <<busyPackets, event>>

\* usb_raw_ep_write, whether it fails or not, of what isochronous data came too.
CbWritten ==
  /\ event.pc = "write"
  /\ Uncount(event.ep)
  /\ event' = CbIdle
  /\ UNCHANGED <<main, ended, infoVars, steps, device, failed, epVars, pc, io,
                 inFlight, owner>>

-----------------------------------------------------------------------------
Runs == ended = "no"

Ep0 == /\ Runs
       /\ \/ Transfer \/ Answer \/ Enable \/ Stop \/ Join \/ Disable \/ Record
          \/ SelectStep \/ Forward

Worker(e) ==
  /\ Runs
  /\ \/ EndThread(e)
     \/ ep_in_work_interrupt(e) \/ ep_in_work_isochronous(e)
     \/ ep_out_work_interrupt(e) \/ Read(e) \/ Submit(e) \/ SubmitFails(e)

Callback(e) == Runs /\ (cb_transfer_out(e) \/ cb_transfer_in(e) \/ CbFailed(e))

Next ==
  \/ Runs /\ (MainStage \/ MainFails \/ CbWritten \/ AnswerFails)
  \/ Runs /\ \E r \in Requests : Request(r)
  \/ Ep0
  \/ \E e \in Endpoints : Worker(e) \/ Callback(e)
  \/ ~Runs /\ UNCHANGED vars

Spec == Init /\ [][Next]_vars

(***************************************************************************)
(* As for EndpointIO: the threads are scheduled, reads and writes return,   *)
(* and the transfers that the device answers are handed out, none passed    *)
(* over for ever.  They have no timeout and nobody cancels them, so nothing *)
(* is assumed of those of a quiet endpoint.                                 *)
(***************************************************************************)
FairSpec ==
  /\ Spec
  /\ WF_vars(Runs /\ MainStage) /\ WF_vars(Runs /\ CbWritten) /\ WF_vars(Ep0)
  /\ \A e \in Endpoints : WF_vars(Worker(e))
  /\ \A e \in Endpoints \ Quiet : SF_vars(Callback(e))

-----------------------------------------------------------------------------
Outstanding(e) == inFlight[e] + (IF event.ep = e THEN 1 ELSE 0)

\* A transfer of e has failed, and nothing will take it from the count.
Lost(e) ==
  busyPackets[e] > Outstanding(e) + (IF pc[e] = "submit" THEN 1 ELSE 0)

TypeOK ==
  /\ main \in 0 .. Stages
  /\ ended \in {"no", "main", "enable", "submit", "ep0"}
  /\ failed \subseteq {"select", "forward"}
  /\ ep_int \in [Endpoints -> Handles \cup {-1}]
  /\ {stop[e] : e \in Endpoints} \cup {keepRunning[e] : e \in Endpoints}
       \subseteq BOOLEAN
  /\ busyPackets \in [Endpoints -> 0 .. 1]
  /\ inFlight \in [Endpoints -> 0 .. 1]
  /\ pc \in [Endpoints -> {"none", "sleep", "loop", "read", "submit", "done"}]
  /\ owner \in [Handles -> Endpoints \cup {NoEndpoint}]
  /\ event.pc \in {"idle", "write"}

(***************************************************************************)
(* No endpoint is disabled while its worker runs or a transfer of it is     *)
(* with libusb or in a callback: here the requests of the host decide what  *)
(* is closed when, not any order at all as in EndpointIO.                   *)
(***************************************************************************)
SafeToDisable ==
  steps # <<>> /\ Head(steps).do = "disable" =>
    /\ pc[Head(steps).ep] = "none"
    /\ Outstanding(Head(steps).ep) = 0

(***************************************************************************)
(* Reads and writes use the handle of their own endpoint, although a closed *)
(* endpoint is left with handle 0, which another endpoint owns.  A mistake  *)
(* would move data between endpoints, as no failure ends the process here.  *)
(***************************************************************************)
HandleOwned ==
  /\ \A e \in Endpoints : pc[e] = "read" => io[e] \in Handles /\ owner[io[e]] = e
  /\ event.pc = "write" => event.io \in Handles /\ owner[event.io] = event.ep

(***************************************************************************)
(* When the device is told to change an alternate, it holds no transfer for *)
(* the endpoints it gives up, and none of their workers will submit one.    *)
(***************************************************************************)
QuietBeforeSelect ==
  steps # <<>> /\ Head(steps).do = "select" =>
    LET s == Head(steps)
        left == EndpointsOf(s.c, s.i, device.alt[s.i])
                  \ EndpointsOf(s.c, s.i, s.a)
    IN  \A e \in left : device.config = s.c =>
          Outstanding(e) = 0 /\ pc[e] = "none"

\* The request waits for a worker whose transfer the device does not answer.
HeldUp ==
  /\ steps # <<>> /\ Head(steps).do = "join"
  /\ Head(steps).ep \in Quiet /\ inFlight[Head(steps).ep] > 0

(***************************************************************************)
(* Every request is finished, with all the joins it takes, unless the       *)
(* process ends.  Two things hold it up for ever: a transfer has failed and *)
(* is counted for ever, or a worker that is joined has a transfer that the  *)
(* device does not answer.                                                  *)
(***************************************************************************)
RequestsFinish ==
  steps # <<>> ~>
    (steps = <<>> \/ ~Runs \/ HeldUp \/ \E e \in Endpoints : Lost(e))

(***************************************************************************)
(* The C program moves the tree as the library does: it implements module   *)
(* Configuration, where opening and closing an endpoint is one step.        *)
(***************************************************************************)
Kept(s) ==
  s.do \notin {"stop", "join", "transfer", "answer", "acknowledge", "pass"}

KeptOf(s) ==
  FlattenSeq([k \in DOMAIN s |-> IF Kept(s[k]) THEN <<s[k]>> ELSE <<>>])

OpenEndpoints == {e \in Endpoints : \E h \in Handles : owner[h] = e}

Library == INSTANCE Configuration
  WITH Reselect <- FALSE,
       Requests <- {r \in Requests : r.kind \in {"configuration", "interface"}},
       alive <- ended # "enable", wild <- FALSE,
       open <- OpenEndpoints,
       steps <- KeptOf(steps),
       refused <- "forward" \in failed

KeepsConfiguration == Library!Spec

\* The driver has a handle for each address the device has: the library does
\* not count the handles.
EnoughHandles ==
  LET addresses == {Address[e] : e \in Endpoints}
  IN  IsFiniteSet(addresses) /\ Cardinality(addresses) <= NumHandles

=============================================================================
