----------------------------- MODULE HidGadget -----------------------------
(***************************************************************************)
(* hid.c, a gadget without a real device behind it: it answers the control  *)
(* requests of a console from its own tables, and presses one button after  *)
(* the other.  Three threads share two handles and the descriptors: that of *)
(* endpoint zero, and one for each interrupt endpoint.                      *)
(*                                                                         *)
(* Of the data of an answer the module has the length that is reported and  *)
(* the number of bytes that ep0_request has written.                        *)
(***************************************************************************)
EXTENDS EpAssign, FiniteSets

CONSTANTS
  Console,     \* the requests of a console, in order
  Computer,    \* those of another host
  Tester,      \* those of a host that sends what the gadget does not know
  Hardware,    \* the hardware endpoints, as USB_RAW_IOCTL_EPS_INFO lists them
  Width,       \* the bits of an unsigned int: 32
  MaxResets    \* how often the host resets the bus and starts again

ASSUME HidAssumption ==
  /\ MaxResets \in Nat
  /\ Width \in Nat /\ Width > 4
  /\ Hardware \in Seq(ToSet(Hardware))
  /\ \A script \in {Console, Computer, Tester} :
       /\ script \in Seq(ToSet(script))
       /\ \A k \in DOMAIN script : /\ script[k].in \in BOOLEAN
                                  /\ script[k].length \in Nat

VARIABLES
  ended,          \* why the process has ended, or "no"
  main,           \* where main is: "open", "init", "run", "create", "sleep"
  ep0,            \* where the thread of endpoint zero is, its event, its io
  usb_endpoints,  \* the endpoint descriptors
  addr,           \* the static counter of assign_ep_address
  ep_int_in,      \* the handles, -1 before SET_CONFIGURATION
  ep_int_out,
  button,         \* the static variable of ep_int_in_loop
  epin,           \* the thread of the IN endpoint
  epout,          \* the thread of the OUT endpoint
  enabled,        \* the driver: which descriptor each handle was enabled for
  configured,     \* the driver was told usb_raw_configure
  events,         \* the driver's queue of events
  host,           \* what the host has sent and whether it waits
  pressed         \* the button of the last report the host took

ep0Vars == <<usb_endpoints, addr, ep_int_in, ep_int_out>>
driverVars == <<enabled, configured, events>>
inVars == <<button, epin, pressed>>
vars == <<ended, main, ep0, ep0Vars, inVars, epout, driverVars, host>>

\* wValue is split into its two bytes.
SetsConfiguration(r) == r.type = "standard" /\ r.request = 9

\* No thread has called exit(EXIT_FAILURE), or failed an assertion.
alive == ended = "no"

NoRequest == [in |-> FALSE, type |-> "none", request |-> 0, hi |-> 0,
              lo |-> 0, index |-> 0, length |-> 0]

\* A request belongs to one start of the bus: a reset abandons it.
Event(type, request, bus) == [type |-> type, request |-> request, bus |-> bus]
NoEvent == Event("none", NoRequest, 0)

NoReply == [kind |-> "none", length |-> 0, written |-> 0]

\* The table of descriptors: interrupt IN and OUT, isochronous IN and OUT.
Descriptors ==
  <<[num |-> 4, in |-> TRUE, type |-> "interrupt"],
    [num |-> 3, in |-> FALSE, type |-> "interrupt"],
    [num |-> 2, in |-> TRUE, type |-> "isochronous"],
    [num |-> 1, in |-> FALSE, type |-> "isochronous"]>>

\* static unsigned int button = 16; a button is a power of two, by its exponent.
FirstButton == 4
LastBit == Width - 1
NoButton == -1

Init ==
  /\ ended = "no"
  /\ main = "open"
  /\ ep0 = [pc |-> "none", event |-> NoEvent, io |-> NoReply]
  /\ usb_endpoints = Descriptors
  /\ addr = 1
  /\ ep_int_in = -1
  /\ ep_int_out = -1
  /\ button = FirstButton
  /\ epin = [pc |-> "none", joy |-> NoButton]
  /\ epout = "none"
  /\ enabled = <<>>
  /\ configured = FALSE
  /\ events = <<>>
  /\ host \in [script : {Console, Computer, Tester}, pos : {1},
               waits : {FALSE}, resets : {0}]
  /\ pressed = NoButton

Exit(why) ==
  /\ ended' = why
  /\ UNCHANGED <<main, ep0, ep0Vars, inVars, epout, driverVars, host>>

-----------------------------------------------------------------------------
(* main *)

StartFails ==
  /\ main \in {"open", "init", "run"}
  /\ Exit("start")

Start ==
  /\ \/ main = "open" /\ main' = "init" /\ UNCHANGED events
     \/ main = "init" /\ main' = "run" /\ UNCHANGED events
     \/ /\ main = "run" /\ main' = "create"
        /\ events' = <<Event("connect", NoRequest, 0)>>
  /\ UNCHANGED <<ended, ep0, ep0Vars, inVars, epout, enabled, configured, host>>

\* The three threads; main only sleeps from here on.
Create ==
  /\ main = "create"
  /\ main' = "sleep"
  /\ ep0' = [ep0 EXCEPT !.pc = "fetch"]
  /\ epin' = [epin EXCEPT !.pc = "test"]
  /\ epout' = "test"
  /\ UNCHANGED <<ended, ep0Vars, button, pressed, driverVars, host>>

-----------------------------------------------------------------------------
(* The host *)

Running == main \in {"create", "sleep"}

HostSends ==
  /\ Running
  /\ ~host.waits
  /\ host.pos <= Len(host.script)
  /\ events' = Append(events, Event("control", host.script[host.pos], host.resets))
  /\ host' = [host EXCEPT !.waits = TRUE]
  /\ UNCHANGED <<ended, main, ep0, ep0Vars, inVars, epout, enabled, configured>>

\* A bus reset, which some kernels report and others do not.  It may come
\* while the gadget has a request of the host.
HostResets ==
  /\ Running
  /\ host.waits \/ host.pos > 1
  /\ host.resets < MaxResets
  /\ host' = [host EXCEPT !.pos = 1, !.waits = FALSE, !.resets = @ + 1]
  /\ events' \in {events, Append(events, Event("other", NoRequest, 0))}
  /\ UNCHANGED <<ended, main, ep0, ep0Vars, inVars, epout, enabled, configured>>

\* The host polls the endpoints of the configuration it has set.
HostPolls ==
  \E k \in 1 .. (host.pos - 1) : SetsConfiguration(host.script[k])

-----------------------------------------------------------------------------
(* ep0_request: the answer to a request. *)

Data(length, written) ==
  [kind |-> "data", length |-> length, written |-> written]

\* (len + 1) * 2 bytes for the two names, two characters or a code otherwise.
\* The names are ASCII, so utf8_to_utf16le does not refuse them.
StringDescriptor(id) ==
  CASE id = 1 -> (30 + 1) * 2
    [] id = 2 -> (19 + 1) * 2
    [] OTHER -> 4

DescriptorTypes == {1, 2, 3, 6, 34}

\* The device, the device qualifier, rawDualsenseConfig, a string, the report.
\* (build_config copies a table of 227 bytes.)
DescriptorSize(r) ==
  CASE r.hi = 1 -> 18
    [] r.hi = 6 -> 10
    [] r.hi = 2 -> 227
    [] r.hi = 3 -> StringDescriptor(r.lo)
    [] r.hi = 34 -> 273

get_descriptor(r) ==
  IF r.hi \in DescriptorTypes
    THEN Data(DescriptorSize(r), DescriptorSize(r))
    ELSE IF r.hi = 10 THEN [NoReply EXCEPT !.kind = "stall"]
                      ELSE [NoReply EXCEPT !.kind = "exit"]

standard(r) ==
  CASE r.request = 6 -> get_descriptor(r)
    [] r.request = 9 -> [NoReply EXCEPT !.kind = "enable"]
    [] r.request = 10 -> Data(1, 1)
    [] r.request = 11 -> Data(0, 0)     \* "No ide what to do"
    [] OTHER -> [NoReply EXCEPT !.kind = "exit"]

\* How many bytes of a report are the program's: dummyBuffer, which is used
\* for the other numbers, has 128, and is read as far as the host asks.
ReportSize(id, length) ==
  CASE id = 5 -> 41
    [] id = 32 -> 64
    [] id = 9 -> 20
    [] id = 0 -> 2
    [] id = 242 -> 16
    [] OTHER -> IF length < 128 THEN length ELSE 128

\* SET_REPORT 9, SET_IDLE 10, SET_PROTOCOL 11, GET_REPORT 1, and the requests
\* 0x81 to 0x84 and 4 of the audio interfaces.  The direction is not looked
\* at: SET_CUR of an audio interface is served as a GET_REPORT.
class(r) ==
  CASE r.request \in {9, 4} -> Data(r.length, 0)
    [] r.request \in {10, 11} -> Data(0, 0)
    [] r.request = 1 -> Data(r.length, ReportSize(r.lo, r.length))
    [] r.request \in 129 .. 132 -> Data(r.length, 2)
    [] OTHER -> [NoReply EXCEPT !.kind = "exit"]

ep0_request(r) ==
  CASE r.type = "standard" -> standard(r)
    [] r.type = "class" -> class(r)
    [] OTHER -> [NoReply EXCEPT !.kind = "exit"]

-----------------------------------------------------------------------------
(* ep0_loop: one turn of the thread of endpoint zero. *)

Ep0Goes(label) == ep0' = [ep0 EXCEPT !.pc = label]
Ep0Done == ep0' = [pc |-> "fetch", event |-> NoEvent, io |-> NoReply]

Fetch ==
  /\ ep0.pc = "fetch"
  /\ events # <<>>
  /\ events' = Tail(events)
  /\ LET event == Head(events)
     IN  CASE event.type = "connect" -> Ep0Goes("connect")
           [] event.type = "control" ->
                ep0' = [ep0 EXCEPT !.pc = "request", !.event = event]
           [] OTHER -> Ep0Done
  /\ UNCHANGED <<ended, main, ep0Vars, inVars, epout, enabled, configured, host>>

\* process_eps_info_fd does so for the two endpoints of usb_interface.
Connect ==
  /\ ep0.pc = "connect"
  /\ LET new == process_eps_info(Hardware, SubSeq(usb_endpoints, 1, 2), addr)
     IN  IF AllNumbered(new.eps)
           THEN /\ usb_endpoints' = new.eps \o SubSeq(usb_endpoints, 3, 4)
                /\ addr' = new.addr
                /\ Ep0Done
                /\ UNCHANGED <<ended, main, ep_int_in, ep_int_out, inVars,
                               epout, driverVars, host>>
           ELSE Exit("assert")

\* Mistake: the host gets all there is, whatever it has asked for.
CutNever(reply, asked) == reply

\* The length is cut to wLength before the data is transferred.
CutToLength(reply, asked) ==
  IF asked < reply.length THEN [reply EXCEPT !.length = asked] ELSE reply

Request ==
  /\ ep0.pc = "request"
  /\ LET reply == ep0_request(ep0.event.request)
         cut == CutToLength(reply, ep0.event.request.length)
         to == CASE reply.kind = "data" -> "answer"
                 [] reply.kind = "enable" -> "enableIn"
                 [] OTHER -> "stall"
     IN  IF reply.kind = "exit" THEN Exit("unknown")
         ELSE /\ ep0' = [ep0 EXCEPT !.pc = to, !.io = cut]
              /\ UNCHANGED <<ended, main, ep0Vars, inVars, epout, driverVars,
                             host>>

\* usb_raw_ep_enable refuses an address in use, and one too many.
CanEnable(k) ==
  /\ Len(enabled) < Len(Hardware)
  /\ \A h \in DOMAIN enabled : usb_endpoints[enabled[h]] # usb_endpoints[k]

\* The handle that the next usb_raw_ep_enable returns.
NextHandle == Len(enabled)

\* It returns to a thread that stores the handles, or ends the process.
Enable(k, label, in, out) ==
  IF CanEnable(k)
    THEN /\ enabled' = Append(enabled, k)
         /\ ep_int_in' = in /\ ep_int_out' = out
         /\ Ep0Goes(label)
         /\ UNCHANGED <<ended, main, usb_endpoints, addr, inVars, epout,
                        configured, events, host>>
    ELSE Exit("enable")

Skip(label) ==
  /\ Ep0Goes(label)
  /\ UNCHANGED <<ended, main, ep0Vars, inVars, epout, driverVars, host>>

\* Mistake: the handles are not looked at.
EnableInAgain ==
  ep0.pc = "enableIn" /\ Enable(1, "enableOut", NextHandle, ep_int_out)

EnableIn ==
  /\ ep0.pc = "enableIn"
  /\ IF ep_int_in < 0 THEN Enable(1, "enableOut", NextHandle, ep_int_out)
                      ELSE Skip("enableOut")

EnableOut ==
  /\ ep0.pc = "enableOut"
  /\ IF ep_int_out < 0 THEN Enable(2, "enableAudioIn", ep_int_in, NextHandle)
                       ELSE Skip("configure")

\* The handles of the isochronous endpoints are not kept.
EnableAudio ==
  \/ /\ ep0.pc = "enableAudioIn"
     /\ Enable(3, "enableAudioOut", ep_int_in, ep_int_out)
  \/ /\ ep0.pc = "enableAudioOut"
     /\ Enable(4, "configure", ep_int_in, ep_int_out)

\* usb_raw_vbus_draw and usb_raw_configure
Configure ==
  /\ ep0.pc = "configure"
  /\ configured' = TRUE
  /\ Ep0Goes("answer")
  /\ UNCHANGED <<ended, main, ep0Vars, inVars, epout, enabled, events, host>>

\* Mistake: a stalled request is not answered.
StallNothing ==
  /\ ep0.pc = "stall"
  /\ Ep0Done
  /\ UNCHANGED <<ended, main, ep0Vars, inVars, epout, driverVars, host>>

\* A reset of the bus has abandoned the request that is served.
Abandoned == ep0.event.bus # host.resets

\* The host gets its answer and goes on with its next request, unless it has
\* reset the bus: nobody gets that answer.
HostIsAnswered ==
  host' = IF Abandoned THEN host
                       ELSE [host EXCEPT !.waits = FALSE, !.pos = @ + 1]

Stall ==
  /\ ep0.pc = "stall"
  /\ HostIsAnswered
  /\ Ep0Done
  /\ UNCHANGED <<ended, main, ep0Vars, inVars, epout, driverVars>>

\* usb_raw_ep0_write or usb_raw_ep0_read
Answer ==
  /\ ep0.pc = "answer"
  /\ HostIsAnswered
  /\ Ep0Done
  /\ UNCHANGED <<ended, main, ep0Vars, inVars, epout, driverVars>>

\* The ioctls for an abandoned request may fail, which ends the process.
Ep0Fails ==
  /\ ep0.pc \in {"configure", "stall", "answer"}
  /\ Abandoned
  /\ Exit("ep0")

-----------------------------------------------------------------------------
(* The threads of the interrupt endpoints. *)

\* Mistake: > for >=.
NextButtonLater == IF button > LastBit THEN 0
                   ELSE IF button = LastBit THEN NoButton ELSE button + 1

\* The button is shifted left, 1 again after 0x80000000.
NextButton == IF button >= LastBit THEN 0 ELSE button + 1

\* Mistake: handle 0 is not taken for one.
InTestPositive ==
  /\ epin.pc = "test"
  /\ ep_int_in > 0
  /\ epin' = [pc |-> "write", joy |-> button]
  /\ button' = NextButton
  /\ UNCHANGED <<ended, main, ep0, ep0Vars, epout, driverVars, host, pressed>>

\* if (ep_int_in >= 0) ep_int_in_loop(fd); the button is in the report.
InTest ==
  /\ epin.pc = "test"
  /\ ep_int_in >= 0
  /\ epin' = [pc |-> "write", joy |-> button]
  /\ button' = NextButton
  /\ UNCHANGED <<ended, main, ep0, ep0Vars, epout, driverVars, host, pressed>>

InBack ==
  /\ epin.pc = "write"
  /\ epin' = [pc |-> "test", joy |-> NoButton]
  /\ UNCHANGED <<ended, main, ep0, ep0Vars, button, epout, driverVars, host>>

\* usb_raw_ep_write returns when the host has taken the report ...
InWrite == HostPolls /\ InBack /\ pressed' = epin.joy

\* ... or fails while the gadget is not configured, which is only printed.
InWriteFails == ~HostPolls /\ InBack /\ UNCHANGED pressed

OutTest ==
  /\ epout = "test"
  /\ ep_int_out >= 0
  /\ epout' = "read"
  /\ UNCHANGED <<ended, main, ep0, ep0Vars, inVars, driverVars, host>>

\* usb_raw_ep_read returns with data of the host, or fails.
OutRead ==
  /\ epout = "read"
  /\ epout' = "test"
  /\ UNCHANGED <<ended, main, ep0, ep0Vars, inVars, driverVars, host>>

-----------------------------------------------------------------------------
Main == alive /\ (Start \/ Create)

Ep0 == /\ alive
       /\ \/ Fetch \/ Connect \/ Request \/ EnableIn \/ EnableOut
          \/ EnableAudio \/ Configure \/ Stall \/ Answer \/ Ep0Fails

EpIn == alive /\ (InTest \/ InWrite)

EpOut == alive /\ (OutTest \/ OutRead)

\* The process has ended.
Exited == ~alive /\ UNCHANGED vars

Next ==
  \/ Main \/ Ep0 \/ EpIn \/ EpOut
  \/ alive /\ (StartFails \/ HostSends \/ HostResets \/ InWriteFails)
  \/ Exited

Spec == Init /\ [][Next]_vars

(***************************************************************************)
(* The threads are scheduled, the ioctls return, and the host goes through  *)
(* its requests and polls the IN endpoint once it has configured the        *)
(* gadget.  It owes the gadget neither data on the OUT endpoint nor a reset.*)
(***************************************************************************)
FairSpec ==
  /\ Spec
  /\ WF_vars(Main) /\ WF_vars(Ep0) /\ WF_vars(EpIn)
  /\ WF_vars(alive /\ OutTest)
  /\ WF_vars(alive /\ HostSends)

-----------------------------------------------------------------------------
(* What the properties ask of hosts.                                         *)

\* ep0_request has an answer, or a stall, for whatever the host sends.
Known(script) == \A k \in DOMAIN script : ep0_request(script[k]).kind # "exit"

\* The host reads no more than there is.
ReadsWhatIsThere(script) ==
  \A k \in DOMAIN script : script[k].in =>
    script[k].length <= ep0_request(script[k]).written

Buttons == 0 .. LastBit

TypeOK ==
  /\ ended \in {"no", "start", "assert", "unknown", "enable", "ep0"}
  /\ main \in {"open", "init", "run", "create", "sleep"}
  /\ ep0.pc \in {"none", "fetch", "connect", "request", "enableIn", "enableOut",
                 "enableAudioIn", "enableAudioOut", "configure", "stall", "answer"}
  /\ ep0.io.kind \in {"none", "data", "enable", "stall"}
  /\ ep_int_in \in -1 .. 3 /\ ep_int_out \in -1 .. 3
  /\ button \in Buttons
  /\ epin.pc \in {"none", "test", "write"}
  /\ epin.joy \in Buttons \cup {NoButton}
  /\ epout \in {"none", "test", "read"}
  /\ Len(enabled) <= Len(Descriptors)
  /\ Len(events) <= 2 + 2 * MaxResets
  /\ host.pos \in 1 .. (Len(host.script) + 1)
  /\ pressed \in Buttons \cup {NoButton}

(***************************************************************************)
(* A host never gets more bytes than it asks for, and gets all that it asks *)
(* for when the program has as many.  When it asks for more, a descriptor   *)
(* ends with the program's table; but GET_REPORT and the requests of the    *)
(* audio interfaces are answered with wLength bytes whatever there is (those*)
(* beyond the table come from a buffer that is not initialised, or from     *)
(* behind dummyBuffer), so that nothing is promised of the rest there.      *)
(***************************************************************************)
AnswersInFull ==
  ep0.pc = "answer" /\ ep0.event.request.in =>
    /\ ep0.io.length <= ep0.event.request.length
    /\ ep0.event.request.length <= ep0.io.written =>
         ep0.io.length = ep0.event.request.length
    /\ ep0.event.request.type # "class" => ep0.io.length <= ep0.io.written

(***************************************************************************)
(* However often a host resets the bus, in the middle of a request too, and *)
(* configures the gadget again, no endpoint is enabled twice and no         *)
(* assertion about the addresses fails.  The process ends only at the start,*)
(* with a request that a reset has abandoned, or for a host that sends what *)
(* ep0_request has an exit for.                                             *)
(***************************************************************************)
StaysAlive ==
  /\ ended \notin {"enable", "assert"}
  /\ ended = "unknown" => ~Known(host.script)
  /\ ended = "ep0" => host.resets > 0

(***************************************************************************)
(* When the host sees SET_CONFIGURATION acknowledged, the driver has all    *)
(* the endpoints and the two threads have handles of their own endpoints,   *)
(* with the addresses that the configuration descriptor tells the host.     *)
(***************************************************************************)
ReadyWhenConfigured ==
  alive /\ HostPolls =>
    /\ configured
    /\ Len(enabled) = 4
    /\ enabled[ep_int_in + 1] = 1
    /\ enabled[ep_int_out + 1] = 2
    /\ usb_endpoints = Descriptors

\* The ends of the process that the code has.
Excused == ended \in {"start", "ep0"} \/ (ended = "unknown" /\ host.script = Tester)

(***************************************************************************)
(* The console and the computer come to the end of their requests, whatever *)
(* they reset, unless the gadget could not start or an ioctl fails for a    *)
(* request that a reset has abandoned.                                      *)
(***************************************************************************)
ConsoleServed == <>(host.pos > Len(host.script) \/ Excused)

(***************************************************************************)
(* Every button is pressed again and again: the variable that is shifted    *)
(* never loses its bit, and reports that are lost before the gadget is      *)
(* configured, or during a reset, do not end the reports.                   *)
(***************************************************************************)
EveryButtonPressed == \A b \in Buttons : []<>(pressed = b \/ Excused)

=============================================================================
