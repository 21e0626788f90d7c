---------------------------- MODULE ControlRelay ----------------------------
(***************************************************************************)
(* The relay of control requests between the host and the device, and the   *)
(* life of the two threads it needs: libusbEventHandler, which start()      *)
(* creates, and ep0LoopThread, which that one creates.  The endpoints that  *)
(* SET_CONFIGURATION opens appear as one worker that uses the gadget's fd.  *)
(***************************************************************************)
EXTENDS Integers, Sequences

CONSTANTS
  Requests,   \* control requests, each with a direction and a kind
  MaxEvents   \* how many events the host causes in a behaviour

ASSUME RelayAssumption ==
  /\ MaxEvents \in Nat
  /\ \A r \in Requests : /\ r.dir \in {"in", "out"}
                         /\ r.sets \in BOOLEAN
                         /\ r.sets => r.dir = "out"

VARIABLES
  alive,        \* FALSE once some thread has called exit(EXIT_FAILURE)
  keepRunning,  \* RawGadgetPassthrough.keepRunning
  stopped,      \* stop() has been called
  fd,           \* the raw-gadget descriptor: "idle", "running" or "closed"
  events,       \* the gadget driver's queue of events
  caused,       \* how many events the host has caused
  waiting,      \* the request the host waits for, -1 if none
  evt,          \* where the libusb event thread is
  ep0,          \* where the thread of endpoint zero is, and its event
  worker,       \* the endpoint threads: SET_CONFIGURATION has opened endpoints
  answers,      \* what the host got for its requests
  forwarded     \* the requests the device got

procVars == <<alive, keepRunning, stopped>>
busVars == <<events, caused, waiting>>
logVars == <<answers, forwarded>>
vars == <<procVars, fd, busVars, evt, ep0, worker, logVars>>

NoEvent == [type |-> "none"]

Init ==
  /\ alive = TRUE
  /\ keepRunning = TRUE
  /\ stopped = FALSE
  /\ fd = "idle"
  /\ events = <<>>
  /\ caused = 0
  /\ waiting = -1
  /\ evt = "init"
  /\ ep0 = [pc |-> "none", event |-> NoEvent]
  /\ worker = FALSE
  /\ answers = <<>>
  /\ forwarded = <<>>

Exit ==
  /\ alive' = FALSE
  /\ UNCHANGED <<keepRunning, stopped, fd, busVars, evt, ep0, worker, logVars>>

-----------------------------------------------------------------------------
(* The host.  It has one control request at a time, and it causes other      *)
(* events: CONNECT, and those that ep0Loop leaves alone.                     *)

HostEvent(event) ==
  /\ fd = "running"
  /\ caused < MaxEvents
  /\ IF event.type = "control" THEN waiting = -1 /\ waiting' = event.id
                               ELSE UNCHANGED waiting
  /\ events' = Append(events, event)
  /\ caused' = caused + 1
  /\ UNCHANGED <<procVars, fd, evt, ep0, worker, logVars>>

Host ==
  \/ \E r \in Requests :
       HostEvent([type |-> "control", request |-> r, id |-> caused])
  \/ \E t \in {"connect", "other"} : HostEvent([type |-> t])

\* stop(): the two threads look at keepRunning once a turn.
Stop ==
  /\ ~stopped
  /\ stopped' = TRUE
  /\ keepRunning' = FALSE
  /\ UNCHANGED <<alive, fd, busVars, evt, ep0, worker, logVars>>

-----------------------------------------------------------------------------
(* libusbEventHandler *)

\* Mistake: the thread of endpoint zero is created first.
EvtInitCreates ==
  /\ evt = "init"
  /\ evt' = "create"
  /\ ep0' = [ep0 EXCEPT !.pc = "test"]
  /\ UNCHANGED <<procVars, fd, busVars, worker, logVars>>

\* usb_raw_init, usb_raw_run
EvtInit ==
  /\ evt = "init"
  /\ fd' = "running"
  /\ evt' = "create"
  /\ UNCHANGED <<procVars, busVars, ep0, worker, logVars>>

EvtCreate ==
  /\ evt = "create"
  /\ ep0' = [ep0 EXCEPT !.pc = "test"]
  /\ evt' = "loop"
  /\ UNCHANGED <<procVars, fd, busVars, worker, logVars>>

\* Mistake: while (1), as the loop was before it became a class.
EvtLoopForever ==
  /\ evt = "loop"
  /\ UNCHANGED vars

EvtLoop ==
  /\ evt = "loop"
  /\ ~keepRunning
  /\ evt' = "close"
  /\ UNCHANGED <<procVars, fd, busVars, ep0, worker, logVars>>

EvtClose ==
  /\ evt = "close"
  /\ fd' = "closed"
  /\ evt' = "ended"
  /\ UNCHANGED <<procVars, busVars, ep0, worker, logVars>>

-----------------------------------------------------------------------------
(* ep0LoopThread, ep0Loop and ep0Request *)

Ep0Moves(from, to) ==
  /\ ep0.pc = from
  /\ ep0' = [ep0 EXCEPT !.pc = to]

\* An ioctl on a descriptor that has been closed ends the process.
Ep0Ioctl == fd = "running"

Ep0Test ==
  /\ Ep0Moves("test", IF keepRunning THEN "fetch" ELSE "ended")
  /\ UNCHANGED <<procVars, fd, busVars, evt, worker, logVars>>

\* usb_raw_event_fetch waits in the driver until there is an event.
Ep0Fetch ==
  /\ ep0.pc = "fetch"
  /\ Ep0Ioctl
  /\ events # <<>>
  /\ events' = Tail(events)
  /\ ep0' = LET event == Head(events)
            IN CASE event.type = "connect" -> [pc |-> "connect", event |-> event]
                 [] event.type = "control" -> [pc |-> "request", event |-> event]
                 [] OTHER -> [pc |-> "test", event |-> NoEvent]
  /\ UNCHANGED <<procVars, fd, caused, waiting, evt, worker, logVars>>

\* Mistake: the case of CONNECT does not return.
Ep0ConnectFallsThrough ==
  /\ Ep0Moves("connect", "request")
  /\ Ep0Ioctl
  /\ UNCHANGED <<procVars, fd, busVars, evt, worker, logVars>>

\* process_eps_info asks the driver for its endpoints.
Ep0Connect ==
  /\ ep0.pc = "connect"
  /\ Ep0Ioctl
  /\ ep0' = [pc |-> "test", event |-> NoEvent]
  /\ UNCHANGED <<procVars, fd, busVars, evt, worker, logVars>>

NextOf(request) == IF request.dir = "in" THEN "transfer" ELSE "read"

\* ep0Request.  A configuration that is active has endpoints to close first.
Ep0Request ==
  LET request == ep0.event.request
      joins == request.sets /\ worker
  IN  /\ Ep0Moves("request", IF joins THEN "join" ELSE NextOf(request))
      /\ request.sets => worker \/ Ep0Ioctl
      /\ worker' = (worker \/ request.sets)
      /\ UNCHANGED <<procVars, fd, busVars, evt, logVars>>

\* pthread_join, which returns when the transfer of the last worker has ended;
\* then the rest of setConfiguration, usb_raw_vbus_draw and usb_raw_configure.
Ep0Join ==
  /\ Ep0Moves("join", NextOf(ep0.event.request))
  /\ Ep0Ioctl
  /\ UNCHANGED <<procVars, fd, busVars, evt, worker, logVars>>

\* libusb_control_transfer for the host's IN request.
Ep0Transfer ==
  /\ \E to \in {"write", "stall"} : Ep0Moves("transfer", to)
  /\ forwarded' = Append(forwarded, ep0.event.id)
  /\ UNCHANGED <<procVars, fd, busVars, evt, worker, answers>>

Answer(from, what, to) ==
  /\ ep0.pc = from
  /\ Ep0Ioctl
  /\ answers' = Append(answers, [id |-> ep0.event.id, what |-> what])
  /\ waiting' = -1
  /\ ep0' = IF to = "test" THEN [pc |-> "test", event |-> NoEvent]
                           ELSE [ep0 EXCEPT !.pc = to]
  /\ UNCHANGED <<procVars, fd, events, caused, evt, worker, forwarded>>

Ep0Write == Answer("write", "data", "test")

\* Mistake: the request is answered as if it had worked.
Ep0NoStall ==
  /\ ep0.pc = "stall"
  /\ ep0' = [pc |-> "test", event |-> NoEvent]
  /\ UNCHANGED <<procVars, fd, busVars, evt, worker, logVars>>

Ep0Stall == Answer("stall", "stall", "test")

\* Mistake: a request without data is not acknowledged.
Ep0ReadDataOnly ==
  IF ep0.pc = "read" /\ ep0.event.request.sets
    THEN /\ Ep0Moves("read", "forward")
         /\ UNCHANGED <<procVars, fd, busVars, evt, worker, logVars>>
    ELSE Answer("read", "ack", "forward")

\* usb_raw_ep0_read takes the data and acknowledges an OUT request.
Ep0Read == Answer("read", "ack", "forward")

\* Mistake: a request the device refuses is sent once more.
Ep0ForwardTwice ==
  /\ ep0.pc = "forward"
  /\ forwarded' = Append(forwarded, ep0.event.id)
  /\ \/ UNCHANGED ep0
     \/ ep0' = [pc |-> "test", event |-> NoEvent]
  /\ UNCHANGED <<procVars, fd, busVars, evt, worker, answers>>

\* Whether the device takes the request is not looked at.
Ep0Forward ==
  /\ ep0.pc = "forward"
  /\ forwarded' = Append(forwarded, ep0.event.id)
  /\ ep0' = [pc |-> "test", event |-> NoEvent]
  /\ UNCHANGED <<procVars, fd, busVars, evt, worker, answers>>

\* The ioctl fails: any with EBADF once the descriptor is closed, and before that
\* an answer that the host no longer waits for, or the enabling of an endpoint.
Ep0Exit ==
  /\ \/ ep0.pc \in {"fetch", "connect"} /\ fd = "closed"
     \/ ep0.pc \in {"join", "write", "stall", "read"}
     \/ ep0.pc = "request" /\ ep0.event.request.sets
  /\ Exit

\* So may a read or write of a worker, or of the callback of its transfer.
WorkerExit == worker /\ Exit

-----------------------------------------------------------------------------
Event == alive /\ (EvtInit \/ EvtCreate \/ EvtLoop \/ EvtClose)

\* All but Ep0Join, which needs the workers to end.
Ep0 == /\ alive
       /\ \/ Ep0Test \/ Ep0Fetch \/ Ep0Connect \/ Ep0Request \/ Ep0Transfer
          \/ Ep0Write \/ Ep0Stall \/ Ep0Read \/ Ep0Forward

Next ==
  \/ alive /\ (Host \/ Stop)
  \/ Event
  \/ Ep0
  \/ alive /\ (Ep0Join \/ Ep0Exit \/ WorkerExit)

Spec == Init /\ [][Next]_vars

(***************************************************************************)
(* Both threads are scheduled, and the device answers control transfers or  *)
(* they fail.  Neither the host's requests nor stop() are owed to anybody,  *)
(* nor that a worker ends: its transfer has no timeout (module EndpointIO). *)
(***************************************************************************)
FairSpec == Spec /\ WF_vars(Event) /\ WF_vars(Ep0)

-----------------------------------------------------------------------------
TypeOK ==
  /\ alive \in BOOLEAN /\ keepRunning \in BOOLEAN /\ stopped \in BOOLEAN
  /\ fd \in {"idle", "running", "closed"}
  /\ caused \in 0 .. MaxEvents
  /\ waiting \in -1 .. (MaxEvents - 1)
  /\ evt \in {"init", "create", "loop", "close", "ended"}
  /\ ep0.pc \in {"none", "test", "fetch", "connect", "request", "transfer",
                 "join", "write", "stall", "read", "forward", "ended"}
  /\ ep0.event.type = CASE ep0.pc \in {"none", "test", "fetch", "ended"} -> "none"
                        [] ep0.pc = "connect" -> "connect"
                        [] OTHER -> "control"
  /\ worker \in BOOLEAN

(***************************************************************************)
(* The host gets one answer for each control request that was taken from    *)
(* the driver's queue, in the order of the requests, before the next one is *)
(* taken: no return of ep0Loop leaves a request without an answer, whether  *)
(* the device was told of it or not.                                        *)
(***************************************************************************)
OneAnswerEach ==
  /\ \A j, k \in DOMAIN answers : j < k => answers[j].id < answers[k].id
  /\ ep0.pc \in {"test", "fetch"} =>
       /\ \A k \in DOMAIN forwarded :
            \E j \in DOMAIN answers : answers[j].id = forwarded[k]
       /\ waiting # -1 =>
            \E k \in DOMAIN events :
              events[k].type = "control" /\ events[k].id = waiting

(***************************************************************************)
(* The device gets each request once, in the order of the host, and an IN   *)
(* request before the host gets data for it.                                *)
(***************************************************************************)
DeviceInOrder ==
  /\ \A j, k \in DOMAIN forwarded : j < k => forwarded[j] < forwarded[k]
  /\ \A j \in DOMAIN answers : answers[j].what # "ack" =>
       \E k \in DOMAIN forwarded : forwarded[k] = answers[j].id

\* Endpoint zero is served only while the gadget is running, until stop().
ServesRunningGadget == ep0.pc # "none" /\ ~stopped => fd = "running"

(***************************************************************************)
(* A host that waits gets its answer, whatever it waits for and whatever    *)
(* the device says to it.  It does not if the proxy is stopped or exits, or *)
(* if the thread of endpoint zero waits in setEndpoint for a worker: that   *)
(* may be for ever, as EndpointIO shows (DisableCompletes), and until then  *)
(* no request of the host is answered.                                      *)
(***************************************************************************)
HostIsAnswered ==
  waiting # -1 ~> (waiting = -1 \/ ep0.pc = "join" \/ stopped \/ ~alive)

(***************************************************************************)
(* stop() makes the event thread end and give the gadget back.              *)
(***************************************************************************)
StopCloses == stopped ~> (fd = "closed" \/ ~alive)

=============================================================================
