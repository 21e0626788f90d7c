--------------------------- MODULE Configuration ---------------------------
(***************************************************************************)
(* How SET_CONFIGURATION and SET_INTERFACE requests of the host move the    *)
(* tree of ConfigurationInfo, InterfaceInfo and AlternateInfo records, which *)
(* endpoints they open and close, and what the real device is told.         *)
(*                                                                         *)
(* One thread, that of endpoint zero, does all of this; but each step of it *)
(* is visible to the worker threads, to the device and to the host, so a    *)
(* request is the sequence of its steps.  All indices count from 0.         *)
(***************************************************************************)
EXTENDS Integers, Sequences, FiniteSets, SequencesExt

CONSTANTS
  Tree,      \* Tree[c][i][a]: the sequence of EndpointInfos of an alternate
  Address,   \* the bEndpointAddress of an EndpointInfo
  Requests,  \* what the host may send: configuration or interface requests
  Reselect   \* the host may also select what is selected already

\* Interfaces and alternates are counted from 0, there is an alternate 0, and
\* every alternate has EndpointInfos of its own.
ASSUME TreeAssumption ==
  /\ DOMAIN Tree \subseteq Nat /\ 0 \in DOMAIN Tree
  /\ \A c \in DOMAIN Tree :
       /\ IsFiniteSet(DOMAIN Tree[c])
       /\ DOMAIN Tree[c] = 0 .. (Cardinality(DOMAIN Tree[c]) - 1)
       /\ \A i \in DOMAIN Tree[c] :
            /\ DOMAIN Tree[c][i] \subseteq Nat /\ 0 \in DOMAIN Tree[c][i]
            /\ \A a \in DOMAIN Tree[c][i] :
                 /\ Tree[c][i][a] \in Seq(ToSet(Tree[c][i][a]))
                 /\ \A d \in DOMAIN Tree : \A j \in DOMAIN Tree[d] :
                      \A b \in DOMAIN Tree[d][j] :
                        ToSet(Tree[c][i][a]) \cap ToSet(Tree[d][j][b]) # {} =>
                          c = d /\ i = j /\ a = b

ASSUME RequestAssumption ==
  /\ Reselect \in BOOLEAN
  /\ \A r \in Requests : r.kind \in {"configuration", "interface"}

VARIABLES
  alive,                \* FALSE once usb_raw_ep_enable has ended the process
  wild,                 \* an index was outside its array: anything may follow
  activeConfiguration,
  activeInterface,      \* of each configuration
  activeAlternate,      \* of each interface of each configuration
  open,                 \* the EndpointInfos with a handle and a worker thread
  configured,           \* the gadget driver was told usb_raw_configure
  steps,                \* what is left to do of the request being served
  device,               \* the configuration and the alternates of the device
  refused               \* history: the device has refused a forwarded request

infoVars == <<activeConfiguration, activeInterface, activeAlternate>>
vars == <<alive, wild, infoVars, open, configured, steps, device,
          refused>>

AltsZero(c) == [i \in DOMAIN Tree[c] |-> 0]

\* The system has already put the device into its first configuration.
Init ==
  /\ alive = TRUE
  /\ wild = FALSE
  /\ activeConfiguration = -1
  /\ activeInterface = [c \in DOMAIN Tree |-> -1]
  /\ activeAlternate = [c \in DOMAIN Tree |-> [i \in DOMAIN Tree[c] |-> -1]]
  /\ open = {}
  /\ configured = FALSE
  /\ steps = <<>>
  /\ device = [config |-> 0, alt |-> AltsZero(0)]
  /\ refused = FALSE

-----------------------------------------------------------------------------
(* The steps of each function.  The loops read only fields that none of the  *)
(* steps before them in the same request writes.                             *)

EachEndpoint(do, c, i, a) ==
  [k \in DOMAIN Tree[c][i][a] |-> [do |-> do, ep |-> Tree[c][i][a][k]]]

\* Mistake: the alternate that was active is not closed.
setAlternateNoLeave(c, i, a) ==
  (IF a >= 0 THEN EachEndpoint("enable", c, i, a)
             ELSE EachEndpoint("disable", c, i, activeAlternate[c][i]))
    \o <<[do |-> "alternate", c |-> c, i |-> i, a |-> a]>>

setAlternate(c, i, a) ==
  LET active == activeAlternate[c][i]
      leave == IF active # a /\ active >= 0 /\ a >= 0
                 THEN EachEndpoint("disable", c, i, active) ELSE <<>>
      enter == IF a >= 0 THEN EachEndpoint("enable", c, i, a)
                         ELSE EachEndpoint("disable", c, i, active)
  IN  leave \o enter \o <<[do |-> "alternate", c |-> c, i |-> i, a |-> a]>>

\* Mistake: the device is switched first.
setInterfaceSelectFirst(c, i, a) ==
  (IF a >= 0 THEN <<[do |-> "select", c |-> c, i |-> i, a |-> a]>> ELSE <<>>)
    \o setAlternate(c, i, a)
    \o <<[do |-> "interface", c |-> c, i |-> i]>>

setInterface(c, i, a) ==
  setAlternate(c, i, a)
    \o <<[do |-> "interface", c |-> c, i |-> i]>>
    \o (IF a >= 0 THEN <<[do |-> "select", c |-> c, i |-> i, a |-> a]>>
                  ELSE <<>>)

AllInterfaces(c, a) ==
  FlattenSeq([k \in 1 .. Cardinality(DOMAIN Tree[c]) |->
                setInterface(c, k - 1, a)])

\* Mistake: the configuration that was active is not closed.
setConfigurationNoLeave(c) ==
  AllInterfaces(c, 0) \o <<[do |-> "configuration", c |-> c]>>

\* Mistake: wValue is recorded, which counts from 1.
setConfigurationRecordsValue(c) ==
  (IF activeConfiguration # c /\ activeConfiguration >= 0 /\ c >= 0
     THEN AllInterfaces(activeConfiguration, -1) ELSE <<>>)
    \o AllInterfaces(c, 0)
    \o <<[do |-> "configuration", c |-> c + 1]>>

setConfiguration(c) ==
  (IF activeConfiguration # c /\ activeConfiguration >= 0 /\ c >= 0
     THEN AllInterfaces(activeConfiguration, -1) ELSE <<>>)
    \o AllInterfaces(c, 0)
    \o <<[do |-> "configuration", c |-> c]>>

\* (wValue & 0xff) - 1, and wIndex and wValue, are used as array indices.
IndicesInRange(r) ==
  IF r.kind = "configuration"
    THEN r.value - 1 \in DOMAIN Tree
    ELSE /\ activeConfiguration \in DOMAIN Tree
         /\ r.index \in DOMAIN Tree[activeConfiguration]
         /\ r.value \in DOMAIN Tree[activeConfiguration][r.index]

\* The status stage is acknowledged before the request goes to the device.
ep0Request(r) ==
  (IF r.kind = "configuration"
     THEN setConfiguration(r.value - 1) \o <<[do |-> "configure"]>>
     ELSE setInterface(activeConfiguration, r.index, r.value))
    \o <<[do |-> "forward", request |-> r]>>

-----------------------------------------------------------------------------
\* r asks for an alternate with endpoints, or a configuration, that is active.
SelectsActive(r) ==
  IF r.kind = "configuration"
    THEN r.value - 1 = activeConfiguration
    ELSE /\ IndicesInRange(r)
         /\ activeAlternate[activeConfiguration][r.index] = r.value
         /\ Tree[activeConfiguration][r.index][r.value] # <<>>

\* A new request of the host.
Request(r) ==
  /\ steps = <<>>
  /\ Reselect \/ ~SelectsActive(r)
  /\ IF IndicesInRange(r)
       THEN steps' = ep0Request(r) /\ UNCHANGED wild
       ELSE wild' = TRUE /\ UNCHANGED steps
  /\ UNCHANGED <<alive, infoVars, open, configured, device, refused>>

Doing(what) ==
  /\ steps # <<>>
  /\ Head(steps).do = what
  /\ steps' = Tail(steps)

\* The driver refuses an address in use: usb_raw_ep_enable ends the process.
EnableStep ==
  /\ Doing("enable")
  /\ LET e == Head(steps).ep
     IN  IF \E f \in open : Address[f] = Address[e]
           THEN alive' = FALSE /\ UNCHANGED open
           ELSE open' = open \cup {e} /\ UNCHANGED alive
  /\ UNCHANGED <<wild, infoVars, configured, device, refused>>

DisableStep ==
  /\ Doing("disable")
  /\ open' = open \ {Head(steps).ep}
  /\ UNCHANGED <<alive, wild, infoVars, configured, device, refused>>

AlternateStep ==
  /\ Doing("alternate")
  /\ LET s == Head(steps)
     IN  activeAlternate' = [activeAlternate EXCEPT ![s.c][s.i] = s.a]
  /\ UNCHANGED <<alive, wild, activeConfiguration, activeInterface, open,
                 configured, device, refused>>

InterfaceStep ==
  /\ Doing("interface")
  /\ LET s == Head(steps)
     IN  activeInterface' = [activeInterface EXCEPT ![s.c] = s.i]
  /\ UNCHANGED <<alive, wild, activeConfiguration, activeAlternate, open,
                 configured, device, refused>>

\* libusb_set_interface_alt_setting: a failure is printed and no more.
SelectStep ==
  /\ Doing("select")
  /\ LET s == Head(steps)
     IN  \/ device.config = s.c /\ device' = [device EXCEPT !.alt[s.i] = s.a]
         \/ UNCHANGED device
  /\ UNCHANGED <<alive, wild, infoVars, open, configured, refused>>

ConfigurationStep ==
  /\ Doing("configuration")
  /\ activeConfiguration' = Head(steps).c
  /\ UNCHANGED <<alive, wild, activeInterface, activeAlternate, open,
                 configured, device, refused>>

ConfigureStep ==
  /\ Doing("configure")
  /\ configured' = TRUE
  /\ UNCHANGED <<alive, wild, infoVars, open, device, refused>>

\* Told to leave what it has for a configuration, it starts all over in that.
InConfiguration(c) == [config |-> c, alt |-> AltsZero(c)]

\* The device has the interface and the alternate that r asks for.
Understands(r) ==
  /\ r.index \in DOMAIN device.alt
  /\ r.value \in DOMAIN Tree[device.config][r.index]

\* Mistake: setInterface has told the device, so the request is not forwarded.
ForwardConfigurationOnly ==
  /\ Doing("forward")
  /\ LET r == Head(steps).request
     IN  device' = IF r.kind = "configuration"
                     THEN InConfiguration(r.value - 1) ELSE device
  /\ UNCHANGED <<alive, wild, infoVars, open, configured, refused>>

\* The device gets the request itself as well.  If it fails, that is printed.
ForwardStep ==
  /\ Doing("forward")
  /\ LET r == Head(steps).request
     IN  \/ /\ r.kind = "configuration"
            /\ device' = InConfiguration(r.value - 1)
            /\ UNCHANGED refused
         \/ /\ r.kind = "interface" /\ Understands(r)
            /\ device' = [device EXCEPT !.alt[r.index] = r.value]
            /\ UNCHANGED refused
         \/ refused' = TRUE /\ UNCHANGED device
  /\ UNCHANGED <<alive, wild, infoVars, open, configured>>

Step == \/ EnableStep \/ DisableStep \/ AlternateStep \/ InterfaceStep
        \/ SelectStep \/ ConfigurationStep \/ ConfigureStep \/ ForwardStep

\* After exit nothing runs; after a wild access the model says nothing.
Stopped == (~alive \/ wild) /\ UNCHANGED vars

Next ==
  \/ alive /\ ~wild /\ (Step \/ \E r \in Requests : Request(r))
  \/ Stopped

Spec == Init /\ [][Next]_vars

-----------------------------------------------------------------------------
EndpointsOf(c, i, a) == IF a < 0 THEN {} ELSE ToSet(Tree[c][i][a])

ActiveEndpoints ==
  IF activeConfiguration < 0 THEN {}
  ELSE LET alt == activeAlternate[activeConfiguration]
       IN  UNION {EndpointsOf(activeConfiguration, i, alt[i]) :
                    i \in DOMAIN alt}

AllEndpoints ==
  UNION {UNION {UNION {EndpointsOf(c, i, a) : a \in DOMAIN Tree[c][i]} :
                  i \in DOMAIN Tree[c]} : c \in DOMAIN Tree}

TypeOK ==
  /\ {alive, wild, configured, refused} \subseteq BOOLEAN
  /\ activeConfiguration \in DOMAIN Tree \cup {-1}
  /\ \A c \in DOMAIN Tree :
       /\ activeInterface[c] \in DOMAIN Tree[c] \cup {-1}
       /\ \A i \in DOMAIN Tree[c] :
            activeAlternate[c][i] \in DOMAIN Tree[c][i] \cup {-1}
  /\ open \subseteq AllEndpoints
  /\ device.config \in DOMAIN Tree
  /\ DOMAIN device.alt = DOMAIN Tree[device.config]
  /\ \A i \in DOMAIN device.alt :
       device.alt[i] \in DOMAIN Tree[device.config][i]

(***************************************************************************)
(* Between requests the endpoints that are open are exactly those of the    *)
(* active alternate of every interface of the active configuration, however *)
(* many requests came before.                                               *)
(***************************************************************************)
OpenMatchesActive ==
  alive /\ ~wild /\ steps = <<>> =>
    /\ open = ActiveEndpoints
    /\ configured <=> activeConfiguration >= 0

(***************************************************************************)
(* setEndpoint opens an endpoint that is closed and closes one that is      *)
(* open: nothing else would keep one worker thread per EndpointInfo.  And   *)
(* the address it opens is not in use, even when two alternates share it.   *)
(***************************************************************************)
Discipline ==
  steps # <<>> =>
    /\ Head(steps).do = "enable" =>
         \A e \in open : Address[e] # Address[Head(steps).ep]
    /\ Head(steps).do = "disable" => Head(steps).ep \in open

(***************************************************************************)
(* "The device is now in the Configured state and all of the endpoints in   *)
(* this configuration have taken on their described characteristics"        *)
(* (raw-gadget-passthrough.cpp:406): a SET_CONFIGURATION of a configuration *)
(* there is gets as far as usb_raw_configure; it does not end the process.  *)
(***************************************************************************)
ReadyForUse ==
  (\E k \in DOMAIN steps : steps[k].do = "configure") => alive

(***************************************************************************)
(* As long as the device has refused none of the requests forwarded to it,  *)
(* it has, between requests, the configuration and the alternates that the  *)
(* proxy's records say are active, even where                               *)
(* libusb_set_interface_alt_setting failed, which nobody looks at.          *)
(***************************************************************************)
DeviceFollows ==
  alive /\ ~wild /\ ~refused /\ steps = <<>> /\ activeConfiguration >= 0 =>
    /\ device.config = activeConfiguration
    /\ device.alt = activeAlternate[activeConfiguration]

(***************************************************************************)
(* The device is told to leave an alternate only when no endpoint of it is  *)
(* open any more, so no worker loses the endpoint under its transfer.       *)
(***************************************************************************)
ClosedBeforeSelect ==
  steps # <<>> /\ Head(steps).do \in {"select", "forward"} =>
    \A i \in DOMAIN device.alt :
      LET s == Head(steps)
          leaving == \/ s.do = "select" /\ s.c = device.config
                          /\ s.i = i /\ s.a # device.alt[i]
                     \/ s.do = "forward" /\ s.request.kind = "configuration"
                          /\ s.request.value - 1 # device.config
      IN  leaving => EndpointsOf(device.config, i, device.alt[i]) \cap open = {}

=============================================================================
