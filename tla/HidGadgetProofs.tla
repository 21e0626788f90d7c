--------------------------- MODULE HidGadgetProofs ---------------------------
(***************************************************************************)
(* hid.c, for any scripts of the hosts, any hardware endpoints, any number  *)
(* of bus resets and any width of the button: the answers, the handles and  *)
(* the exits.                                                               *)
(*                                                                         *)
(* IInv is inductive.  What the hosts have to be like, and how many         *)
(* endpoints the hardware must have, is said with each theorem.             *)
(***************************************************************************)
EXTENDS HidGadget, SequenceLemmas, FiniteSetTheorems

-----------------------------------------------------------------------------
(* process_eps_info: the descriptors of the program have their numbers, so    *)
(* CONNECT changes nothing. *)

(* A set of numbers up to n has a greatest. *)
LEMMA GreatestNumber ==
  ASSUME NEW n \in Nat, NEW T \in SUBSET (1 .. n), T # {}
  PROVE  /\ Max(T) \in T
         /\ \A y \in T : y <= Max(T)
<1> DEFINE U == {k \in Nat : \A y \in T : y <= k}
<1>1. n \in U
  OBVIOUS
<1>2. PICK k \in U : \A l \in U : k <= l
  <2>1. U \in SUBSET Nat /\ U # {}
    BY <1>1
  <2> HIDE DEF U
  <2> QED  BY <2>1, LeastNumber
<1>3. k \in T
  <2> SUFFICES ASSUME k \notin T
               PROVE  FALSE
    OBVIOUS
  <2>1. PICK y \in T : TRUE
    OBVIOUS
  <2>2. k - 1 \in Nat /\ \A z \in T : z <= k - 1
    BY <1>2, <2>1
  <2> QED  BY <1>2, <2>2
<1> QED  BY <1>2, <1>3, Zenon DEF Max

\* What is assigned to one descriptor.
Assigned(infos, s) == FoldLeft(LAMBDA t, info : assign_ep_address(info, t), s, infos)

(* Nothing is assigned to a descriptor that has a number. *)
LEMMA AssignedStays ==
  ASSUME NEW n \in Nat, NEW infos, DOMAIN infos = 1 .. n, NEW s, s.ep.num # 0
  PROVE  Assigned(infos, s) = s
<1> DEFINE S == SUBSET (1 .. n)
           F(g) == [T \in S |-> IF T = {} THEN s
                     ELSE assign_ep_address(infos[Max(T)], g[T \ {Max(T)}])]
           iter == CHOOSE g : g = F(g)
<1>1. \A info : assign_ep_address(info, s) = s
  BY DEF assign_ep_address
<1>2. Assigned(infos, s) = iter[1 .. n]
  BY DEF Assigned, FoldLeft, MapThenFoldSet
<1>3. \A T \in S : T # {} => Max(T) \in T
  BY GreatestNumber
<1>4. iter = F(iter)
  <2> DEFINE g == [T \in S |-> s]
  <2>1. g = F(g)
    BY <1>1
  <2> HIDE DEF g, F
  <2> QED  BY <2>1
<1>6. /\ iter[{}] = s
      /\ \A T \in S : T # {} =>
           iter[T] = assign_ep_address(infos[Max(T)], iter[T \ {Max(T)}])
  <2> HIDE DEF iter
  <2> QED  BY <1>4, Zenon
<1> HIDE DEF iter, F
<1>5. \A m \in 0 .. n : \A T \in SUBSET (1 .. m) : iter[T] = s
  <2> DEFINE Fails == {m \in 0 .. n : \E T \in SUBSET (1 .. m) : iter[T] # s}
  <2> SUFFICES ASSUME Fails # {}
               PROVE  FALSE
    OBVIOUS
  <2>1. PICK m \in Fails : \A k \in Fails : m <= k
    <3>1. Fails \in SUBSET Nat
      OBVIOUS
    <3> HIDE DEF Fails
    <3> QED  BY <3>1, LeastNumber
  <2>2. PICK T \in SUBSET (1 .. m) : iter[T] # s
    BY <2>1
  <2> DEFINE x == Max(T)
  <2>3. T \in S /\ T # {} /\ m \in 0 .. n
    <3>1. m \in 0 .. n
      OBVIOUS
    <3>2. T \in S
      BY <3>1
    <3>3. T # {}
      BY <1>6, <2>2
    <3> QED  BY <3>1, <3>2, <3>3
  <2>4. x \in T /\ \A y \in T : y <= x
    BY <2>3, GreatestNumber
  <2> HIDE DEF x
  <2>5. x \in 1 .. m /\ x - 1 \in 0 .. n /\ x - 1 \notin Fails
    <3>1. x \in 1 .. m /\ x - 1 \in 0 .. n
      BY <2>4, <2>3
    <3>2. ~(m <= x - 1)
      BY <3>1, <2>3
    <3> HIDE DEF Fails
    <3> QED  BY <2>1, <3>1, <3>2
  <2>6. T \ {x} \in SUBSET (1 .. (x - 1))
    BY <2>4, <2>3
  <2>7. iter[T \ {x}] = s
    BY <2>5, <2>6
  <2>8. iter[T] = assign_ep_address(infos[x], iter[T \ {x}])
    BY <1>6, <2>3 DEF x
  <2> QED  BY <2>2, <2>7, <2>8, <1>1
<1>7. iter[1 .. n] = s
  <2>1. n \in 0 .. n /\ 1 .. n \in SUBSET (1 .. n)
    OBVIOUS
  <2> QED  BY <1>5, <2>1, Zenon
<1> QED  BY <1>2, <1>7, Zenon
LEMMA AppendTwice ==
  ASSUME NEW p, NEW q
  PROVE  Append(<<>>, p) = <<p>> /\ Append(<<p>>, q) = <<p, q>>
<1> DEFINE S == {p, q}
<1>1. <<>> \in Seq(S) /\ <<p>> \in Seq(S) /\ <<p, q>> \in Seq(S)
  OBVIOUS
<1>2. Append(<<>>, p) = <<p>>
  BY <1>1
<1>3. Append(<<p>>, q) \in Seq(S) /\ Len(Append(<<p>>, q)) = 2
      /\ Append(<<p>>, q)[1] = p /\ Append(<<p>>, q)[2] = q
  BY <1>1
<1>4. Append(<<p>>, q) = <<p, q>>
  <2> DEFINE a == Append(<<p>>, q)
             b == <<p, q>>
  <2>1. Len(b) = 2 /\ b[1] = p /\ b[2] = q
    OBVIOUS
  <2>2. a \in Seq(S) /\ b \in Seq(S) /\ Len(a) = 2 /\ a[1] = p /\ a[2] = q
    BY <1>1, <1>3
  <2> HIDE DEF a, b
  <2>3. a = b
    BY <2>1, <2>2, SeqEqual
  <2> QED  BY <2>3 DEF a, b
<1> QED  BY <1>2, <1>4

LEMMA Pairs ==
  /\ {1} \ {1} = {} /\ {2} \ {2} = {} /\ {1, 2} \ {2} = {1}
  /\ {1} # {} /\ {2} # {} /\ {1, 2} # {} /\ {1} # {2} /\ {1, 2} # {1}
  /\ {1, 2} # {2}
<1>1. \A x : x \in {1, 2} <=> x = 1 \/ x = 2
  OBVIOUS
<1> QED  BY <1>1

(* Nothing changes when both of two descriptors have a number. *)
LEMMA NumberedStay ==
  ASSUME NEW n \in Nat, NEW infos, DOMAIN infos = 1 .. n,
         NEW p, NEW q, p.num # 0, q.num # 0, NEW next
  PROVE  process_eps_info(infos, <<p, q>>, next) = [eps |-> <<p, q>>, addr |-> next]
<1> DEFINE eps == <<p, q>>
           S == SUBSET {1, 2}
           Op(ep, acc) ==
              LET s == Assigned(infos, [ep |-> ep, addr |-> acc.addr])
             IN  [eps |-> Append(acc.eps, s.ep), addr |-> s.addr]
           Base == [eps |-> <<>>, addr |-> next]
           F(g) == [T \in S |-> IF T = {} THEN Base
                                ELSE Op(eps[Max(T)], g[T \ {Max(T)}])]
           iter == CHOOSE g : g = F(g)
<1>1. ASSUME NEW ep, ep.num # 0, NEW acc
      PROVE  Op(ep, acc) = [eps |-> Append(acc.eps, ep), addr |-> acc.addr]
  <2> DEFINE s == [ep |-> ep, addr |-> acc.addr]
  <2>1. s.ep.num # 0
    BY <1>1
  <2>2. Assigned(infos, s) = s
    BY <2>1, AssignedStays
  <2>3. s.ep = ep /\ s.addr = acc.addr
    OBVIOUS
  <2>4. Op(ep, acc) = [eps |-> Append(acc.eps, Assigned(infos, s).ep),
                       addr |-> Assigned(infos, s).addr]
    OBVIOUS
  <2> HIDE DEF s, Op
  <2> QED  BY <2>2, <2>3, <2>4
<1>2. process_eps_info(infos, eps, next) = iter[{1, 2}]
  <2>1. DOMAIN eps = {1, 2}
    OBVIOUS
  <2>2. process_eps_info(infos, eps, next)
          = (CHOOSE g : g = [T \in SUBSET DOMAIN eps |->
               IF T = {} THEN Base
               ELSE Op(eps[Max(T)], g[T \ {Max(T)}])])[DOMAIN eps]
    BY DEF process_eps_info, Assigned, FoldLeft, MapThenFoldSet
  <2> QED  BY <2>1, <2>2, Zenon
<1> HIDE DEF Op
<1>3. \A T \in S : T # {} => Max(T) \in T /\ \A y \in T : y <= Max(T)
  <2>1. {1, 2} = 1 .. 2
    OBVIOUS
  <2> QED  BY <2>1, GreatestNumber
<1>4. S = {{}, {1}, {2}, {1, 2}}
  OBVIOUS
<1>5. Max({1}) = 1 /\ Max({2}) = 2 /\ Max({1, 2}) = 2
  <2>1. {1} \in S /\ {2} \in S /\ {1, 2} \in S
    OBVIOUS
  <2> QED  BY <1>3, <2>1
<1>6. iter = F(iter)
  <2> DEFINE One == Op(p, Base)
             g == [T \in S |-> IF T = {} THEN Base
                               ELSE IF T = {1} THEN One
                               ELSE IF T = {2} THEN Op(q, Base)
                               ELSE Op(q, One)]
  <2>2. eps[1] = p /\ eps[2] = q
    OBVIOUS
  <2> HIDE DEF One, Base, S
  <2>3. /\ {} \in S /\ {1} \in S /\ {2} \in S /\ {1, 2} \in S
    BY <1>4
  <2>4. g[{}] = Base /\ g[{1}] = One /\ g[{2}] = Op(q, Base) /\ g[{1, 2}] = Op(q, One)
    BY Pairs, <2>3
  <2>5. F(g)[{}] = Base /\ F(g)[{1}] = One /\ F(g)[{2}] = Op(q, Base)
        /\ F(g)[{1, 2}] = Op(q, One)
    <3> HIDE DEF g, eps
    <3> QED  BY <1>5, Pairs, <2>2, <2>3, <2>4 DEF One
  <2>6. \A T \in S : g[T] = F(g)[T]
    <3> HIDE DEF g, F
    <3> QED  BY <1>4, <2>4, <2>5
  <2>7. g = F(g)
    <3>1. g = [T \in S |-> g[T]]
      OBVIOUS
    <3>2. F(g) = [T \in S |-> F(g)[T]]
      OBVIOUS
    <3> HIDE DEF g, F
    <3> QED  BY <2>6, <3>1, <3>2
  <2> HIDE DEF g, F
  <2> QED  BY <2>7
<1>7. iter[{1, 2}] = Op(q, Op(p, Base))
  <2> HIDE DEF iter, Base
  <2>2. eps[1] = p /\ eps[2] = q
    OBVIOUS
  <2> HIDE DEF S, eps
  <2>3. /\ {} \in S /\ {1} \in S /\ {1, 2} \in S
    BY <1>4
  <2>4. \A T \in S : iter[T] = IF T = {} THEN Base
                              ELSE Op(eps[Max(T)], iter[T \ {Max(T)}])
    BY <1>6
  <2>5. iter[{}] = Base
    BY <2>3, <2>4
  <2>6. iter[{1}] = Op(p, Base)
    <3>1. iter[{1}] = Op(eps[Max({1})], iter[{1} \ {Max({1})}])
      BY Pairs, <2>3, <2>4
    <3> QED  BY <3>1, Pairs, <2>2, <2>5, <1>5
  <2>7. iter[{1, 2}] = Op(eps[Max({1, 2})], iter[{1, 2} \ {Max({1, 2})}])
    BY Pairs, <2>3, <2>4
  <2> QED  BY <2>7, Pairs, <2>2, <2>6, <1>5
<1>8. Op(q, Op(p, Base)) = [eps |-> eps, addr |-> next]
  <2>1. Append(<<>>, p) = <<p>> /\ Append(<<p>>, q) = <<p, q>>
    BY AppendTwice, Zenon
  <2>2. Base.eps = <<>> /\ Base.addr = next
    OBVIOUS
  <2>3. Op(p, Base) = [eps |-> <<p>>, addr |-> next]
    <3> HIDE DEF Base
    <3> QED  BY <1>1, <2>1, <2>2
  <2> DEFINE One == [eps |-> <<p>>, addr |-> next]
  <2>4. One.eps = <<p>> /\ One.addr = next
    OBVIOUS
  <2>5. Op(q, One) = [eps |-> <<p, q>>, addr |-> next]
    <3> HIDE DEF One
    <3> QED  BY <1>1, <2>1, <2>4
  <2> QED  BY <2>3, <2>5, Zenon
<1> QED  BY <1>2, <1>7, <1>8
-----------------------------------------------------------------------------
(* The invariant. *)

Scripts == {Console, Computer, Tester}

Sent == ToSet(Console) \cup ToSet(Computer) \cup ToSet(Tester) \cup {NoRequest}

Events == [type : {"connect", "control", "other", "none"}, request : Sent, bus : Nat]

Replies == [kind : {"none", "data", "enable", "stall"}, length : Nat, written : Nat]

\* The thread of endpoint zero has a request of the host ...
Replied == {"enableIn", "enableOut", "enableAudioIn", "enableAudioOut",
            "configure", "stall", "answer"}
Serving == ep0.pc \in Replied \cup {"request"}

\* ... that it still waits for.
ServingHost == Serving /\ ~Abandoned

ThreadTypes ==
  /\ ended \in {"no", "start", "assert", "unknown", "enable", "ep0"}
  /\ main \in {"open", "init", "run", "create", "sleep"}
  /\ button \in Buttons
  /\ epin \in [pc : {"none", "test", "write"}, joy : Buttons \cup {NoButton}]
  /\ epout \in {"none", "test", "read"}
  /\ pressed \in Buttons \cup {NoButton}

Labels == {"none", "fetch", "connect", "request"} \cup Replied

Ep0Types == ep0 \in [pc : Labels, event : Events, io : Replies]

HandleTypes ==
  /\ usb_endpoints = Descriptors
  /\ ep_int_in \in -1 .. 3 /\ ep_int_out \in -1 .. 3
  /\ enabled \in Seq(1 .. 4)
  /\ Len(enabled) <= 4
  /\ configured \in BOOLEAN

HostTypes ==
  /\ events \in Seq(Events)
  /\ host \in [script : Scripts, pos : Nat, waits : BOOLEAN, resets : Nat]

HidTypes == ThreadTypes /\ Ep0Types /\ HandleTypes /\ HostTypes

\* Each request is one of the host's; the one it waits for is in the queue, or
\* being served.
QueueInv ==
  /\ \A k \in DOMAIN events : events[k].type = "control" =>
       /\ events[k].bus <= host.resets
       /\ events[k].request \in ToSet(host.script)
       /\ events[k].bus = host.resets =>
            host.waits /\ ~ServingHost /\ events[k].request = host.script[host.pos]
  /\ \A j, k \in DOMAIN events :
       /\ events[j].type = "control" /\ events[j].bus = host.resets
       /\ events[k].type = "control" /\ events[k].bus = host.resets
       => j = k
  /\ Serving => /\ ep0.event.bus <= host.resets
                /\ ep0.event.request \in ToSet(host.script)
  /\ ServingHost => host.waits /\ ep0.event.request = host.script[host.pos]
  /\ host.pos \in 1 .. (Len(host.script) + 1)
  /\ host.waits => host.pos <= Len(host.script)
  /\ host.resets <= MaxResets
  /\ Len(events) <=
       1 + 2 * host.resets + (IF host.waits /\ ~ServingHost THEN 1 ELSE 0)

\* Nothing is sent, and nothing waited for, before main has started the gadget.
StartInv ==
  /\ main \in {"open", "init", "run"} =>
       events = <<>> /\ ~host.waits /\ host.resets = 0
  /\ main # "sleep" => ep0.pc = "none"

Cut(r) ==
  LET reply == ep0_request(r)
  IN  IF r.length < reply.length THEN [reply EXCEPT !.length = r.length] ELSE reply

\* The answer is that of the request, cut to what the host asks for, until it
\* is given; only SET_CONFIGURATION takes the way through the endpoints.
ReplyInv ==
  ep0.pc \in Replied =>
    /\ ep0.io = Cut(ep0.event.request)
    /\ ep0.pc = "answer" => ep0.io.kind \in {"data", "enable"}
    /\ ep0.pc = "stall" => ep0.io.kind = "stall"
    /\ ep0.pc \notin {"stall", "answer"} => ep0.io.kind = "enable"

\* The endpoints are enabled once, in order, in the first SET_CONFIGURATION,
\* and its answer is given when all are.
EnableInv ==
  /\ ep_int_in \in {-1, 0} /\ ep_int_out \in {-1, 1}
  /\ ep_int_in = -1 =>
       /\ enabled = <<>> /\ ep_int_out = -1
       /\ ep0.pc \notin {"enableOut", "enableAudioIn", "enableAudioOut", "configure"}
  /\ ep_int_in = 0 /\ ep_int_out = -1 => enabled = <<1>> /\ ep0.pc = "enableOut"
  /\ ep_int_out = 1 =>
       enabled = CASE ep0.pc = "enableAudioIn" -> <<1, 2>>
                   [] ep0.pc = "enableAudioOut" -> <<1, 2, 3>>
                   [] OTHER -> <<1, 2, 3, 4>>
  /\ configured => /\ ep_int_out = 1
                   /\ ep0.pc \notin {"enableAudioIn", "enableAudioOut"}
  /\ HostPolls => configured
  /\ ep0.pc = "answer" /\ SetsConfiguration(ep0.event.request) => configured

IInv == HidTypes /\ QueueInv /\ StartInv /\ ReplyInv /\ EnableInv

-----------------------------------------------------------------------------
(* The answers. *)

LEMMA ScriptTypes ==
  /\ \A script \in Scripts :
       /\ script \in Seq(ToSet(script)) /\ Len(script) \in Nat
       /\ DOMAIN script = 1 .. Len(script)
       /\ \A k \in DOMAIN script : script[k] \in Sent
  /\ \A r \in Sent : r.in \in BOOLEAN /\ r.length \in Nat
  /\ NoRequest \in Sent
<1>1. ASSUME NEW script \in Scripts
      PROVE  /\ script \in Seq(ToSet(script)) /\ Len(script) \in Nat
             /\ DOMAIN script = 1 .. Len(script)
             /\ \A k \in DOMAIN script : script[k] \in ToSet(script)
  BY <1>1, HidAssumption DEF Scripts, ToSet
<1>2. ASSUME NEW script \in Scripts, NEW r \in ToSet(script)
      PROVE  r.in \in BOOLEAN /\ r.length \in Nat
  BY HidAssumption DEF Scripts, ToSet
<1>3. NoRequest.in \in BOOLEAN /\ NoRequest.length \in Nat
  BY DEF NoRequest
<1>4. \A script \in Scripts : ToSet(script) \subseteq Sent
  BY DEF Sent, Scripts
<1>5. \A r \in Sent : r = NoRequest \/ \E script \in Scripts : r \in ToSet(script)
  BY DEF Sent, Scripts
<1>6. NoRequest \in Sent
  BY DEF Sent
<1> QED  BY <1>1, <1>2, <1>3, <1>4, <1>5, <1>6

(* What ep0_request answers, whatever the request. *)
LEMMA ReplyTypes ==
  ASSUME NEW r \in Sent
  PROVE  LET a == ep0_request(r)
         IN  /\ a \in [kind : {"data", "enable", "stall", "exit"},
                       length : Nat, written : Nat]
             /\ a.kind = "enable" <=> SetsConfiguration(r)
             /\ r.type # "class" => a.length <= a.written
             /\ r.length <= a.written => r.length <= a.length
<1> DEFINE A == [kind : {"data", "enable", "stall", "exit"},
                 length : Nat, written : Nat]
<1>1. r.length \in Nat
  BY ScriptTypes
<1>2. \A k \in {"enable", "stall", "exit"} :
        LET a == [NoReply EXCEPT !.kind = k]
        IN  a \in A /\ a.kind = k /\ a.length = 0 /\ a.written = 0
  BY DEF NoReply
<1>3. \A l, w \in Nat : /\ Data(l, w) \in A /\ Data(l, w).kind = "data"
                        /\ Data(l, w).length = l /\ Data(l, w).written = w
  BY DEF Data
<1>4. r.hi \in DescriptorTypes => DescriptorSize(r) \in Nat
  <2>1. StringDescriptor(r.lo) \in Nat
    BY DEF StringDescriptor
  <2> QED  BY <2>1 DEF DescriptorTypes, DescriptorSize
<1>5. ReportSize(r.lo, r.length) \in Nat
  BY <1>1 DEF ReportSize
<1>6. LET a == get_descriptor(r)
      IN  a \in A /\ a.kind # "enable" /\ a.length = a.written
  BY <1>2, <1>3, <1>4 DEF get_descriptor
<1>7. CASE r.type = "standard"
  <2>1. LET a == standard(r)
        IN  /\ a \in A /\ a.length = a.written
            /\ a.kind = "enable" <=> r.request = 9
    BY <1>2, <1>3, <1>6 DEF standard
  <2> QED  BY <1>7, <2>1 DEF ep0_request, SetsConfiguration
<1>8. CASE r.type = "class"
  <2>1. /\ class(r) \in A /\ class(r).kind # "enable"
        /\ r.length <= class(r).written => r.length <= class(r).length
    BY <1>1, <1>2, <1>3, <1>5 DEF class
  <2> QED  BY <1>8, <2>1 DEF ep0_request, SetsConfiguration
<1>9. CASE r.type \notin {"standard", "class"}
  BY <1>2, <1>9 DEF ep0_request, SetsConfiguration
<1> QED  BY <1>7, <1>8, <1>9

(* The length is cut, and the rest of the answer stays. *)
LEMMA CutTypes ==
  ASSUME NEW r \in Sent, ep0_request(r).kind # "exit"
  PROVE  LET a == ep0_request(r)
         IN  /\ Cut(r) \in Replies
             /\ Cut(r).kind = a.kind /\ Cut(r).written = a.written
             /\ Cut(r).length <= a.length /\ Cut(r).length <= r.length
             /\ r.length <= a.length => Cut(r).length = r.length
<1> DEFINE a == ep0_request(r)
<1>1. a \in [kind : {"data", "enable", "stall", "exit"}, length : Nat, written : Nat]
      /\ r.length \in Nat
  BY ReplyTypes, ScriptTypes
<1> HIDE DEF a
<1>2. Cut(r) = IF r.length < a.length THEN [a EXCEPT !.length = r.length] ELSE a
  BY DEF Cut, a
<1>3. a.kind # "exit"
  BY DEF a
<1>4. CASE r.length < a.length
  BY <1>1, <1>2, <1>3, <1>4 DEF Replies, a
<1>5. CASE ~(r.length < a.length)
  BY <1>1, <1>2, <1>3, <1>5 DEF Replies, a
<1> QED  BY <1>4, <1>5

-----------------------------------------------------------------------------
(* Each action keeps the invariant. *)

\* What an action that leaves endpoint zero, the driver and the host alone
\* cannot disturb.
LEMMA ControlUntouched ==
  ASSUME IInv, UNCHANGED <<ep0, ep_int_in, ep_int_out, driverVars, host>>
  PROVE  QueueInv' /\ ReplyInv' /\ EnableInv'
BY DEF IInv, QueueInv, ReplyInv, EnableInv, Serving, ServingHost, Abandoned,
       HostPolls, driverVars

LEMMA ThreadsKept ==
  ASSUME ThreadTypes, UNCHANGED <<ended, main, button, epin, epout, pressed>>
  PROVE  ThreadTypes'
BY Zenon DEF ThreadTypes, Buttons, LastBit

LEMMA HandlesKept ==
  ASSUME HandleTypes, UNCHANGED <<usb_endpoints, ep_int_in, ep_int_out, enabled, configured>>
  PROVE  HandleTypes'
BY Zenon DEF HandleTypes

LEMMA HostKept ==
  ASSUME HostTypes, UNCHANGED <<events, host>>
  PROVE  HostTypes'
BY Zenon DEF HostTypes

LEMMA Ep0Kept ==
  ASSUME Ep0Types, UNCHANGED ep0
  PROVE  Ep0Types'
BY Zenon DEF Ep0Types

LEMMA InitInv == Init => IInv
<1> SUFFICES ASSUME Init
             PROVE  IInv
  OBVIOUS
<1>1. NoEvent \in Events /\ NoReply \in Replies
  BY ScriptTypes DEF NoEvent, Event, Events, NoReply, Replies
<1>2. host \in [script : Scripts, pos : {1}, waits : {FALSE}, resets : {0}]
  BY DEF Init, Scripts
<1>3. Len(host.script) \in Nat
  BY <1>2, ScriptTypes
<1>4. HidTypes
  <2>1. ThreadTypes
    BY HidAssumption DEF Init, ThreadTypes, Buttons, LastBit, FirstButton
  <2>2. Ep0Types
    <3>1. "none" \in Labels
      BY DEF Labels
    <3> HIDE DEF Labels
    <3> QED  BY <3>1, <1>1 DEF Init, Ep0Types
  <2>3. HandleTypes
    <3>1. enabled \in Seq(1 .. 4) /\ Len(enabled) <= 4
      BY DEF Init
    <3>2. configured \in BOOLEAN
      BY DEF Init
    <3>3. ep_int_in \in -1 .. 3 /\ ep_int_out \in -1 .. 3
      BY DEF Init
    <3> QED  BY <3>1, <3>2, <3>3 DEF Init, HandleTypes
  <2>4. HostTypes
    <3>1. events \in Seq(Events)
      BY DEF Init
    <3>2. host \in [script : Scripts, pos : Nat, waits : BOOLEAN, resets : Nat]
      <4>1. {1} \subseteq Nat /\ {0} \subseteq Nat
        OBVIOUS
      <4>2. {FALSE} \subseteq BOOLEAN
        BY Zenon
      <4> QED  BY <1>2, <4>1, <4>2, Zenon
    <3> QED  BY <3>1, <3>2 DEF HostTypes
  <2> QED  BY <2>1, <2>2, <2>3, <2>4 DEF HidTypes
<1>7. /\ host.pos = 1 /\ ~host.waits /\ host.resets = 0 /\ events = <<>>
      /\ ep0.pc = "none" /\ main = "open"
  BY <1>2 DEF Init
<1>5. QueueInv /\ StartInv
  <2>1. ~Serving /\ ~ServingHost
    BY <1>7 DEF Serving, ServingHost, Replied
  <2>2. QueueInv
    BY <2>1, <1>7, <1>3, HidAssumption DEF QueueInv
  <2>3. StartInv
    BY <1>7 DEF StartInv
  <2> QED  BY <2>2, <2>3
<1>6. ReplyInv /\ EnableInv
  BY <1>2 DEF Init, ReplyInv, Replied, EnableInv, HostPolls
<1> QED  BY <1>4, <1>5, <1>6 DEF IInv

(* exit() changes nothing else. *)
LEMMA ExitKeeps ==
  ASSUME IInv, NEW why \in {"start", "assert", "unknown", "enable", "ep0"}, Exit(why)
  PROVE  IInv'
<1>1. HidTypes'
  <2>1. ThreadTypes'
    BY DEF IInv, HidTypes, ThreadTypes, Exit, inVars
  <2> QED  BY <2>1, Ep0Kept, HandlesKept, HostKept
        DEF IInv, HidTypes, Exit, ep0Vars, driverVars
<1>2. QueueInv' /\ ReplyInv' /\ EnableInv'
  BY ControlUntouched DEF Exit, ep0Vars
<1>3. StartInv'
  BY DEF IInv, StartInv, Exit, driverVars
<1> QED  BY <1>1, <1>2, <1>3 DEF IInv

LEMMA StartKeeps ==
  ASSUME IInv, Start
  PROVE  IInv'
<1>1. Event("connect", NoRequest, 0) \in Events /\ Event("connect", NoRequest, 0).type = "connect"
  BY ScriptTypes DEF Event, Events
<1>2. HidTypes'
  <2>1. ThreadTypes'
    BY DEF IInv, HidTypes, ThreadTypes, Start, inVars
  <2>2. HostTypes'
    <3>1. UNCHANGED host /\ (UNCHANGED events \/ events' = <<Event("connect", NoRequest, 0)>>)
      BY DEF Start
    <3>2. <<Event("connect", NoRequest, 0)>> \in Seq(Events)
      BY <1>1
    <3> QED  BY <3>1, <3>2, Zenon DEF IInv, HidTypes, HostTypes
  <2> QED  BY <2>1, <2>2, Ep0Kept, HandlesKept DEF IInv, HidTypes, Start, ep0Vars
<1>3. StartInv' /\ ReplyInv' /\ EnableInv'
  BY DEF IInv, StartInv, ReplyInv, EnableInv, HostPolls, Start, ep0Vars
<1>4. QueueInv'
  <2>1. CASE UNCHANGED events
    BY <2>1 DEF IInv, QueueInv, Serving, ServingHost, Abandoned, Start
  <2>2. CASE main = "run" /\ events' = <<Event("connect", NoRequest, 0)>>
    <3>1. host.resets \in Nat /\ ~host.waits /\ UNCHANGED <<host, ep0>>
      BY <2>2 DEF IInv, StartInv, HidTypes, HostTypes, Start
    <3>2. DOMAIN events' = {1} /\ Len(events') = 1 /\ events'[1].type = "connect"
      BY <1>1, <2>2
    <3> QED  BY <3>1, <3>2 DEF IInv, QueueInv, Serving, ServingHost, Abandoned
  <2> QED  BY <2>1, <2>2 DEF Start
<1> QED  BY <1>2, <1>3, <1>4 DEF IInv

LEMMA CreateKeeps ==
  ASSUME IInv, Create
  PROVE  IInv'
<1>1. HidTypes'
  <2>1. ThreadTypes'
    BY DEF IInv, HidTypes, ThreadTypes, Create
  <2>2. Ep0Types'
    <3>1. "fetch" \in Labels
      BY DEF Labels
    <3> HIDE DEF Labels
    <3> QED  BY <3>1 DEF IInv, HidTypes, Ep0Types, Create
  <2> QED  BY <2>1, <2>2, HostKept, HandlesKept
        DEF IInv, HidTypes, Create, ep0Vars, driverVars
<1>2. ep0.pc = "none" /\ ep0'.pc = "fetch" /\ ep0'.event = ep0.event
  BY DEF IInv, HidTypes, Ep0Types, StartInv, Create
<1>3. /\ ~Serving /\ ~Serving' /\ ~ServingHost /\ ~ServingHost'
      /\ UNCHANGED <<host, events>>
  BY <1>2 DEF Serving, ServingHost, Replied, Create, driverVars
<1>4. QueueInv'
  BY <1>3 DEF IInv, QueueInv
<1>5. StartInv' /\ ReplyInv' /\ EnableInv'
  BY <1>2 DEF IInv, StartInv, ReplyInv, Replied, EnableInv, HostPolls, Create,
             ep0Vars, driverVars
<1> QED  BY <1>1, <1>4, <1>5 DEF IInv

(* What Append does to an element and to the positions. *)
LEMMA Appended ==
  ASSUME NEW S, NEW s \in Seq(S), NEW x \in S
  PROVE  /\ Append(s, x) \in Seq(S) /\ Len(s) \in Nat
         /\ Len(Append(s, x)) = Len(s) + 1
         /\ DOMAIN s = 1 .. Len(s) /\ DOMAIN Append(s, x) = 1 .. (Len(s) + 1)
         /\ \A k \in DOMAIN s : Append(s, x)[k] = s[k]
         /\ Append(s, x)[Len(s) + 1] = x
OBVIOUS

LEMMA HostSendsKeeps ==
  ASSUME IInv, HostSends
  PROVE  IInv'
<1> DEFINE x == Event("control", host.script[host.pos], host.resets)
<1>1. /\ host \in [script : Scripts, pos : Nat, waits : BOOLEAN, resets : Nat]
      /\ host' = [host EXCEPT !.waits = TRUE]
      /\ host.pos \in DOMAIN host.script
      /\ host.pos <= Len(host.script)
  BY ScriptTypes DEF IInv, HidTypes, HostTypes, QueueInv, HostSends
<1>2. /\ x \in Events /\ x.type = "control" /\ x.bus = host.resets
      /\ x.request = host.script[host.pos] /\ x.request \in ToSet(host.script)
      /\ host.resets \in Nat
  BY <1>1, ScriptTypes DEF Event, Events, ToSet
<1>3. /\ host'.script = host.script /\ host'.pos = host.pos
      /\ host'.resets = host.resets /\ host'.waits /\ ~host.waits
  BY <1>1 DEF HostSends
<1>4. /\ ~ServingHost /\ ~ServingHost' /\ Serving' = Serving
      /\ UNCHANGED <<ep0, main, enabled, configured, ep0Vars>>
  <2>1. UNCHANGED <<ep0, main, enabled, configured, ep0Vars>>
    BY DEF HostSends
  <2>2. ~ServingHost
    BY <1>3 DEF IInv, QueueInv
  <2> QED  BY <2>1, <2>2, <1>3 DEF Serving, ServingHost, Abandoned
<1>5. events' = Append(events, x) /\ events \in Seq(Events)
  BY DEF HostSends, IInv, HidTypes, HostTypes
<1> HIDE DEF x
<1>6. HidTypes'
  <2>1. HostTypes'
    BY <1>1, <1>2, <1>5, Appended DEF HostTypes
  <2> QED  BY <2>1, Ep0Kept, HandlesKept, ThreadsKept
        DEF IInv, HidTypes, HostSends, ep0Vars, inVars
<1>7. QueueInv'
  <2>1. /\ Len(events) \in Nat /\ DOMAIN events' = 1 .. (Len(events) + 1)
        /\ \A k \in DOMAIN events' :
             \/ k \in DOMAIN events /\ events'[k] = events[k]
             \/ k = Len(events) + 1 /\ events'[k] = x
        /\ Len(events') = Len(events) + 1
    BY <1>2, <1>5, Appended
  <2>2. \A k \in DOMAIN events : events[k].type = "control" =>
          /\ events[k].bus <= host.resets /\ events[k].bus # host.resets
          /\ events[k].request \in ToSet(host.script)
    BY <1>3 DEF IInv, QueueInv
  <2>3. \A k \in DOMAIN events' : events'[k].type = "control" =>
          /\ events'[k].bus <= host.resets
          /\ events'[k].request \in ToSet(host.script)
          /\ events'[k].bus = host.resets => k = Len(events) + 1 /\ events'[k] = x
    BY <2>1, <2>2, <1>2
  <2>4. Len(events') <= 1 + 2 * host.resets + 1
    <3>1. Len(events) <= 1 + 2 * host.resets + 0
      BY <1>3, <1>4 DEF IInv, QueueInv
    <3> QED  BY <3>1, <2>1, <1>2
  <2>5. \A k \in DOMAIN events' : events'[k].type = "control" =>
          /\ events'[k].bus <= host'.resets
          /\ events'[k].request \in ToSet(host'.script)
          /\ events'[k].bus = host'.resets =>
               host'.waits /\ ~ServingHost' /\ events'[k].request = host'.script[host'.pos]
    BY <2>3, <1>2, <1>3, <1>4
  <2>6. \A j, k \in DOMAIN events' :
          /\ events'[j].type = "control" /\ events'[j].bus = host'.resets
          /\ events'[k].type = "control" /\ events'[k].bus = host'.resets
          => j = k
    BY <2>3, <1>3
  <2> QED  BY <1>1, <1>3, <1>4, <2>4, <2>5, <2>6 DEF IInv, QueueInv
<1>8. StartInv' /\ ReplyInv'
  BY <1>4 DEF IInv, StartInv, ReplyInv, HostSends, Running
<1>9. HostPolls' = HostPolls
  BY <1>3 DEF HostPolls
<1>10. EnableInv'
  BY <1>4, <1>9 DEF IInv, EnableInv, ep0Vars
<1> QED  BY <1>6, <1>7, <1>8, <1>10 DEF IInv

LEMMA HostResetsKeeps ==
  ASSUME IInv, HostResets
  PROVE  IInv'
<1> DEFINE x == Event("other", NoRequest, 0)
<1>1. /\ host \in [script : Scripts, pos : Nat, waits : BOOLEAN, resets : Nat]
      /\ host' = [host EXCEPT !.pos = 1, !.waits = FALSE, !.resets = @ + 1]
      /\ Len(host.script) \in Nat
  BY ScriptTypes DEF IInv, HidTypes, HostTypes, HostResets
<1>2. x \in Events /\ x.type = "other"
  BY ScriptTypes DEF Event, Events
<1>3. /\ host'.script = host.script /\ host'.pos = 1
      /\ host'.resets = host.resets + 1 /\ ~host'.waits /\ host.resets \in Nat
  BY <1>1 DEF HostResets
<1>4. /\ ~ServingHost' /\ Serving' = Serving
      /\ UNCHANGED <<ep0, main, enabled, configured, ep0Vars>>
  <2>1. UNCHANGED <<ep0, main, enabled, configured, ep0Vars>>
    BY DEF HostResets
  <2>2. Serving => ep0.event.bus <= host.resets
    BY DEF IInv, QueueInv
  <2>3. ep0.event.bus \in Nat
    BY DEF IInv, HidTypes, Ep0Types, Events
  <2> QED  BY <2>1, <2>2, <2>3, <1>3 DEF Serving, ServingHost, Abandoned
<1>5. events \in Seq(Events) /\ (events' = events \/ events' = Append(events, x))
  BY DEF HostResets, IInv, HidTypes, HostTypes
<1> HIDE DEF x
<1>6. HidTypes'
  <2>2. events' \in Seq(Events)
    BY <1>2, <1>5, Appended
  <2>3. host' \in [script : Scripts, pos : Nat, waits : BOOLEAN, resets : Nat]
    <3>1. /\ 1 \in Nat /\ host.resets + 1 \in Nat
          /\ host.script \in Scripts /\ host.resets \in Nat
      BY <1>1
    <3>2. host' = [script |-> host.script, pos |-> 1, waits |-> FALSE,
                   resets |-> host.resets + 1]
      BY <1>1
    <3>3. FALSE \in BOOLEAN
      BY Zenon
    <3> QED  BY <3>1, <3>2, <3>3, Zenon
  <2>1. HostTypes'
    BY <2>2, <2>3 DEF HostTypes
  <2> QED  BY <2>1, Ep0Kept, HandlesKept, ThreadsKept
        DEF IInv, HidTypes, HostResets, ep0Vars, inVars
<1>7. QueueInv'
  <2>1. /\ Len(events) \in Nat /\ Len(events') \in Nat
        /\ Len(events') <= Len(events) + 1
        /\ \A k \in DOMAIN events' :
             \/ k \in DOMAIN events /\ events'[k] = events[k]
             \/ events'[k].type = "other"
    BY <1>2, <1>5, Appended
  <2>2. \A k \in DOMAIN events : events[k].bus \in Nat
    <3>1. \A k \in DOMAIN events : events[k] \in Events
      BY <1>5
    <3> QED  BY <3>1 DEF Events
  <2>3. \A k \in DOMAIN events : events[k].type = "control" =>
          /\ events[k].bus <= host.resets
          /\ events[k].request \in ToSet(host.script)
    BY DEF IInv, QueueInv
  <2>4. \A k \in DOMAIN events' : events'[k].type = "control" =>
          /\ events'[k].bus <= host'.resets /\ events'[k].bus # host'.resets
          /\ events'[k].request \in ToSet(host'.script)
    BY <2>1, <2>2, <2>3, <1>3
  <2>5. Len(events') <= 1 + 2 * host'.resets + 0
    <3>1. Len(events) <= 1 + 2 * host.resets + 1
      BY <1>3, <2>1 DEF IInv, QueueInv
    <3> QED  BY <3>1, <2>1, <1>3
  <2>6. host'.resets <= MaxResets
    BY <1>1, <1>3, HidAssumption DEF HostResets
  <2>7. Serving' => /\ ep0'.event.bus <= host'.resets
                    /\ ep0'.event.request \in ToSet(host'.script)
    <3>1. ep0.event.bus \in Nat
      BY DEF IInv, HidTypes, Ep0Types, Events
    <3> QED  BY <3>1, <1>3, <1>4 DEF IInv, QueueInv
  <2> QED  BY <1>1, <1>3, <1>4, <2>4, <2>5, <2>6, <2>7 DEF QueueInv
<1>8. StartInv' /\ ReplyInv'
  BY <1>4 DEF IInv, StartInv, ReplyInv, HostResets, Running
<1>9. ~HostPolls'
  BY <1>3 DEF HostPolls
<1>10. EnableInv'
  BY <1>4, <1>9 DEF IInv, EnableInv, ep0Vars
<1> QED  BY <1>6, <1>7, <1>8, <1>10 DEF IInv

(* The first event, and the others. *)
LEMMA Taken ==
  ASSUME NEW S, NEW s \in Seq(S), s # <<>>
  PROVE  /\ Head(s) = s[1] /\ Head(s) \in S /\ 1 \in DOMAIN s
         /\ Tail(s) \in Seq(S) /\ Len(Tail(s)) = Len(s) - 1 /\ Len(s) \in Nat
         /\ \A k \in DOMAIN Tail(s) : k \in Nat /\ k + 1 \in DOMAIN s
                                      /\ k + 1 # 1 /\ Tail(s)[k] = s[k + 1]
OBVIOUS

LEMMA NoneTypes == NoEvent \in Events /\ NoReply \in Replies
BY ScriptTypes DEF NoEvent, Event, Events, NoReply, Replies

(* What the thread of endpoint zero does to its state. *)
LEMMA Ep0Changes ==
  ASSUME Ep0Types, NEW l \in Labels
  PROVE  /\ Ep0Goes(l) => /\ Ep0Types' /\ ep0'.pc = l
                          /\ ep0'.event = ep0.event /\ ep0'.io = ep0.io
         /\ Ep0Done => /\ Ep0Types' /\ ep0'.pc = "fetch"
                       /\ ep0'.event = NoEvent /\ ep0'.io = NoReply
         /\ \A e \in Events : ep0' = [ep0 EXCEPT !.pc = l, !.event = e] =>
              /\ Ep0Types' /\ ep0'.pc = l /\ ep0'.event = e /\ ep0'.io = ep0.io
         /\ \A i \in Replies : ep0' = [ep0 EXCEPT !.pc = l, !.io = i] =>
              /\ Ep0Types' /\ ep0'.pc = l /\ ep0'.event = ep0.event /\ ep0'.io = i
<1>1. "fetch" \in Labels
  BY DEF Labels
<1> HIDE DEF Labels
<1>2. ASSUME Ep0Goes(l)
      PROVE  /\ Ep0Types' /\ ep0'.pc = l
             /\ ep0'.event = ep0.event /\ ep0'.io = ep0.io
  BY <1>2 DEF Ep0Types, Ep0Goes
<1>3. ASSUME Ep0Done
      PROVE  /\ Ep0Types' /\ ep0'.pc = "fetch"
             /\ ep0'.event = NoEvent /\ ep0'.io = NoReply
  BY <1>1, <1>3, NoneTypes DEF Ep0Types, Ep0Done
<1>4. ASSUME NEW e \in Events, ep0' = [ep0 EXCEPT !.pc = l, !.event = e]
      PROVE  /\ Ep0Types' /\ ep0'.pc = l /\ ep0'.event = e /\ ep0'.io = ep0.io
  BY <1>4 DEF Ep0Types
<1>5. ASSUME NEW i \in Replies, ep0' = [ep0 EXCEPT !.pc = l, !.io = i]
      PROVE  /\ Ep0Types' /\ ep0'.pc = l /\ ep0'.event = ep0.event /\ ep0'.io = i
  BY <1>5 DEF Ep0Types
<1> QED  BY <1>2, <1>3, <1>4, <1>5

LEMMA FetchKeeps ==
  ASSUME IInv, Fetch
  PROVE  IInv'
<1> DEFINE event == Head(events)
<1>1. /\ events \in Seq(Events) /\ events # <<>> /\ events' = Tail(events)
      /\ ep0.pc = "fetch" /\ ep0.io \in Replies
      /\ host.resets \in Nat /\ Ep0Types
  BY DEF IInv, HidTypes, HostTypes, Ep0Types, Fetch
<1>2. /\ 1 \in DOMAIN events /\ event = events[1] /\ event \in Events
      /\ events' \in Seq(Events) /\ Len(events') = Len(events) - 1
      /\ Len(events) \in Nat
      /\ \A k \in DOMAIN events' : k + 1 \in DOMAIN events /\ k + 1 # 1
                                   /\ events'[k] = events[k + 1]
  BY <1>1, Taken
<1>3. UNCHANGED <<ended, main, ep0Vars, inVars, epout, enabled, configured, host>>
  BY DEF Fetch
<1>4. /\ Ep0Types'
      /\ \/ event.type = "control" /\ ep0'.pc = "request" /\ ep0'.event = event
         \/ event.type # "control" /\ ep0'.pc \in {"connect", "fetch"}
  <2>1. {"connect", "request", "fetch"} \subseteq Labels
    BY DEF Labels
  <2>2. CASE event.type = "connect"
    <3>1. Ep0Goes("connect")
      BY <2>2 DEF Fetch
    <3> QED  BY <3>1, <2>1, <2>2, <1>1, Ep0Changes
  <2>3. CASE event.type = "control"
    <3>1. ep0' = [ep0 EXCEPT !.pc = "request", !.event = event]
      BY <2>3 DEF Fetch
    <3>2. Ep0Types /\ "request" \in Labels /\ event \in Events
      BY <1>1, <1>2, <2>1
    <3> HIDE DEF event
    <3>3. Ep0Types' /\ ep0'.pc = "request" /\ ep0'.event = event
      BY <3>1, <3>2, Ep0Changes
    <3> QED  BY <2>3, <3>3
  <2>4. CASE event.type \notin {"connect", "control"}
    <3>1. Ep0Done
      BY <2>4 DEF Fetch
    <3> QED  BY <3>1, <2>1, <2>4, <1>1, Ep0Changes
  <2> QED  BY <2>2, <2>3, <2>4
<1> HIDE DEF event
<1>5. HidTypes'
  <2>2. HostTypes'
    BY <1>2, <1>3, Zenon DEF IInv, HidTypes, HostTypes
  <2> QED  BY <1>4, <2>2, <1>3, ThreadsKept, HandlesKept
        DEF IInv, HidTypes, ep0Vars, inVars
<1>6. /\ ep0'.pc \in {"fetch", "connect", "request"} /\ ~Serving /\ ~ServingHost
      /\ (Serving' <=> ep0'.pc = "request")
      /\ (ServingHost' <=> Serving' /\ ep0'.event.bus = host.resets)
  BY <1>1, <1>3, <1>4 DEF Serving, ServingHost, Abandoned, Replied
<1>7. QueueInv'
  <2>1. /\ \A k \in DOMAIN events' : events'[k].type = "control" =>
              /\ events'[k].bus <= host.resets
              /\ events'[k].request \in ToSet(host.script)
              /\ events'[k].bus = host.resets =>
                   host.waits /\ events'[k].request = host.script[host.pos]
        /\ \A k \in DOMAIN events' :
              /\ events'[k].type = "control" /\ events'[k].bus = host.resets
              /\ event.type = "control" /\ event.bus = host.resets
              => 1 = k + 1
    BY <1>2 DEF IInv, QueueInv
  <2>2. \A j, k \in DOMAIN events' :
          /\ events'[j].type = "control" /\ events'[j].bus = host.resets
          /\ events'[k].type = "control" /\ events'[k].bus = host.resets
          => j = k
    <3>1. TAKE j, k \in DOMAIN events'
    <3>2. /\ events'[j].type = "control" /\ events'[j].bus = host.resets
          /\ events'[k].type = "control" /\ events'[k].bus = host.resets
          => j + 1 = k + 1
      BY <1>2 DEF IInv, QueueInv
    <3>3. j \in Nat /\ k \in Nat
      BY <1>2
    <3> QED  BY <3>2, <3>3
  <2>3. \A k \in DOMAIN events' : k \in Nat /\ k + 1 # 1
    BY <1>2
  <2>4. Serving' => /\ event.type = "control" /\ ep0'.event = event
                    /\ event.bus <= host.resets
                    /\ event.request \in ToSet(host.script)
                    /\ event.bus = host.resets =>
                         host.waits /\ event.request = host.script[host.pos]
    BY <1>2, <1>4, <1>6 DEF IInv, QueueInv
  <2>5. \A k \in DOMAIN events' :
          events'[k].type = "control" /\ events'[k].bus = host.resets => ~ServingHost'
    BY <2>1, <2>3, <2>4, <1>6
  <2>6. Len(events') <=
          1 + 2 * host.resets + (IF host.waits /\ ~ServingHost' THEN 1 ELSE 0)
    <3>1. Len(events) <= 1 + 2 * host.resets + (IF host.waits THEN 1 ELSE 0)
      BY <1>6 DEF IInv, QueueInv
    <3> QED  BY <3>1, <1>1, <1>2, <1>6, <2>4
  <2>7. UNCHANGED host
    BY <1>3
  <2> QED  BY <1>6, <2>1, <2>2, <2>4, <2>5, <2>6, <2>7 DEF IInv, QueueInv
<1>8. StartInv'
  BY <1>1, <1>3 DEF IInv, StartInv
<1>9. ReplyInv' /\ EnableInv'
  <2>1. ep0.pc \notin Replied /\ ep0'.pc \notin Replied
    BY <1>1, <1>6 DEF Replied
  <2>2. HostPolls' = HostPolls
    BY <1>3 DEF HostPolls
  <2> QED  BY <2>1, <2>2, <1>3, <1>6, <1>1
        DEF IInv, ReplyInv, Replied, EnableInv, ep0Vars
<1> QED  BY <1>5, <1>7, <1>8, <1>9 DEF IInv

(* process_eps_info leaves the descriptors alone, which have their numbers. *)
LEMMA Connected ==
  ASSUME IInv, Connect
  PROVE  /\ usb_endpoints' = usb_endpoints
         /\ Ep0Done
         /\ UNCHANGED <<ended, main, ep_int_in, ep_int_out, inVars, epout,
                        driverVars, host>>
<1> DEFINE p == [num |-> 4, in |-> TRUE, type |-> "interrupt"]
           q == [num |-> 3, in |-> FALSE, type |-> "interrupt"]
           u == [num |-> 2, in |-> TRUE, type |-> "isochronous"]
           v == [num |-> 1, in |-> FALSE, type |-> "isochronous"]
           new == process_eps_info(Hardware, SubSeq(usb_endpoints, 1, 2), addr)
<1>1. p.num = 4 /\ q.num = 3
  OBVIOUS
<1>2. usb_endpoints = <<p, q, u, v>>
  BY DEF IInv, HidTypes, HandleTypes, Descriptors
<1> HIDE DEF p, q, u, v
<1>3. /\ SubSeq(usb_endpoints, 1, 2) = <<p, q>>
      /\ <<p, q>> \o SubSeq(usb_endpoints, 3, 4) = <<p, q, u, v>>
  <2> DEFINE S == {p, q, u, v}
  <2>1. /\ <<p, q, u, v>> \in Seq(S) /\ <<p, q>> \in Seq(S) /\ <<u, v>> \in Seq(S)
    OBVIOUS
  <2>2. SubSeq(<<p, q, u, v>>, 1, 2) = <<p, q>>
    <3> DEFINE a == SubSeq(<<p, q, u, v>>, 1, 2)
    <3>1. a \in Seq(S) /\ Len(a) = 2 /\ a[1] = p /\ a[2] = q
      BY <2>1
    <3>2. Len(<<p, q>>) = 2
      OBVIOUS
    <3> HIDE DEF a
    <3>3. a = <<p, q>>
      BY <2>1, <3>1, <3>2, SeqEqual
    <3> QED  BY <3>3 DEF a
  <2>3. SubSeq(<<p, q, u, v>>, 3, 4) = <<u, v>>
    <3> DEFINE a == SubSeq(<<p, q, u, v>>, 3, 4)
    <3>1. a \in Seq(S) /\ Len(a) = 2 /\ a[1] = u /\ a[2] = v
      BY <2>1
    <3>2. Len(<<u, v>>) = 2
      OBVIOUS
    <3> HIDE DEF a
    <3>3. a = <<u, v>>
      BY <2>1, <3>1, <3>2, SeqEqual
    <3> QED  BY <3>3 DEF a
  <2>4. <<p, q>> \o <<u, v>> = <<p, q, u, v>>
    <3> DEFINE a == <<p, q>> \o <<u, v>>
    <3>1. /\ a \in Seq(S) /\ Len(a) = 4
          /\ a[1] = p /\ a[2] = q /\ a[3] = u /\ a[4] = v
      BY <2>1
    <3>2. Len(<<p, q, u, v>>) = 4
      OBVIOUS
    <3> HIDE DEF a
    <3>3. a = <<p, q, u, v>>
      <4>1. \A k \in 1 .. 4 : a[k] = <<p, q, u, v>>[k]
        BY <3>1
      <4> QED  BY <2>1, <3>1, <3>2, <4>1, SeqEqual
    <3> QED  BY <3>3 DEF a
  <2> QED  BY <1>2, <2>2, <2>3, <2>4
<1>4. DOMAIN Hardware = 1 .. Len(Hardware) /\ Len(Hardware) \in Nat
  BY HidAssumption
<1>5. new = [eps |-> <<p, q>>, addr |-> addr]
  <2>1. p.num # 0 /\ q.num # 0
    BY <1>1
  <2>2. process_eps_info(Hardware, <<p, q>>, addr) = [eps |-> <<p, q>>, addr |-> addr]
    BY <1>4, <2>1, NumberedStay
  <2> QED  BY <1>3, <2>2, Zenon
<1>6. AllNumbered(new.eps)
  BY <1>1, <1>5 DEF AllNumbered
<1>7. /\ usb_endpoints' = new.eps \o SubSeq(usb_endpoints, 3, 4)
      /\ Ep0Done
      /\ UNCHANGED <<ended, main, ep_int_in, ep_int_out, inVars, epout,
                     driverVars, host>>
  BY <1>6 DEF Connect
<1>8. new.eps = <<p, q>>
  BY <1>5
<1> QED  BY <1>2, <1>3, <1>7, <1>8

LEMMA ConnectKeeps ==
  ASSUME IInv, Connect
  PROVE  IInv'
<1>1. /\ ep0.pc = "connect" /\ UNCHANGED usb_endpoints
      /\ Ep0Done
      /\ UNCHANGED <<ended, main, ep_int_in, ep_int_out, inVars, epout,
                     driverVars, host>>
  BY Connected DEF Connect
<1>2. HidTypes'
  <2>1. Ep0Types'
    <3>1. "fetch" \in Labels
      BY DEF Labels
    <3> QED  BY <3>1, <1>1, Ep0Changes DEF IInv, HidTypes
  <2> QED  BY <2>1, <1>1, ThreadsKept, HandlesKept, HostKept
        DEF IInv, HidTypes, driverVars, inVars
<1>3. /\ ~Serving /\ ~Serving' /\ ~ServingHost /\ ~ServingHost'
      /\ ep0'.pc = "fetch"
  BY <1>1 DEF Serving, ServingHost, Replied, Ep0Done
<1>4. QueueInv' /\ StartInv'
  BY <1>1, <1>3 DEF IInv, QueueInv, StartInv, driverVars
<1>5. HostPolls' = HostPolls
  BY <1>1 DEF HostPolls
<1>6. ReplyInv' /\ EnableInv'
  BY <1>1, <1>3, <1>5 DEF IInv, ReplyInv, Replied, EnableInv, driverVars
<1> QED  BY <1>2, <1>4, <1>6 DEF IInv

(* While a request is served, only what the thread of endpoint zero does to
   its own state and to the handles can matter. *)
LEMMA Serves ==
  ASSUME IInv, Serving, ep0'.pc \in Replied, ep0'.event = ep0.event,
         Ep0Types', HandleTypes',
         UNCHANGED <<ended, main, events, host, inVars, epout>>
  PROVE  HidTypes' /\ QueueInv' /\ StartInv' /\ HostPolls' = HostPolls
<1>1. ThreadTypes'
  BY DEF IInv, HidTypes, ThreadTypes, inVars
<1>2. HidTypes'
  BY <1>1, HostKept DEF IInv, HidTypes
<1>3. Serving' /\ ServingHost' = ServingHost
  BY DEF Serving, ServingHost, Abandoned
<1>4. QueueInv'
  BY <1>3 DEF IInv, QueueInv
<1>5. ep0.pc # "none" /\ main = "sleep"
  BY DEF IInv, StartInv, Serving, Replied, HidTypes, ThreadTypes
<1>6. StartInv'
  BY <1>5 DEF StartInv
<1>7. HostPolls' = HostPolls
  BY DEF HostPolls
<1> QED  BY <1>2, <1>4, <1>6, <1>7

\* The request that is served is one of the host's.
LEMMA RequestOf ==
  ASSUME IInv, Serving
  PROVE  /\ ep0.event.request \in Sent /\ Ep0Types
         /\ \E k \in DOMAIN host.script : ep0.event.request = host.script[k]
<1>1. Ep0Types
  BY DEF IInv, HidTypes
<1>2. ep0.event.request \in Sent
  BY <1>1 DEF Ep0Types, Events
<1>3. ep0.event.request \in ToSet(host.script)
  BY DEF IInv, QueueInv
<1> QED  BY <1>1, <1>2, <1>3 DEF ToSet

LEMMA RequestKeeps ==
  ASSUME IInv, Request
  PROVE  IInv'
<1> DEFINE r == ep0.event.request
           reply == ep0_request(r)
           to == CASE reply.kind = "data" -> "answer"
                   [] reply.kind = "enable" -> "enableIn"
                   [] OTHER -> "stall"
<1>1. CASE Exit("unknown")
  BY <1>1, ExitKeeps
<1>2. CASE ~Exit("unknown")
  <2>1. Serving /\ ep0.pc = "request"
    BY DEF Request, Serving
  <2>2. r \in Sent /\ Ep0Types
    BY <2>1, RequestOf
  <2>3. /\ reply.kind # "exit"
        /\ ep0' = [ep0 EXCEPT !.pc = to, !.io = Cut(r)]
        /\ UNCHANGED <<ended, main, ep0Vars, inVars, epout, driverVars, host>>
    BY <1>2 DEF Request, CutToLength, Cut
  <2>4. /\ reply.kind \in {"data", "enable", "stall"}
        /\ (reply.kind = "enable" <=> SetsConfiguration(r))
    BY <2>2, <2>3, ReplyTypes
  <2>5. Cut(r) \in Replies /\ Cut(r).kind = reply.kind
    BY <2>2, <2>3, CutTypes
  <2> HIDE DEF reply
  <2>6. to \in {"answer", "enableIn", "stall"} /\ to \in Replied /\ to \in Labels
    BY <2>4 DEF Replied, Labels
  <2>7. Ep0Types' /\ ep0'.pc = to /\ ep0'.event = ep0.event /\ ep0'.io = Cut(r)
    <3> HIDE DEF to
    <3> QED  BY <2>2, <2>3, <2>5, <2>6, Ep0Changes
  <2>8. HandleTypes'
    BY <2>3, HandlesKept DEF IInv, HidTypes, ep0Vars, driverVars
  <2>9. HidTypes' /\ QueueInv' /\ StartInv' /\ HostPolls' = HostPolls
    <3>1. UNCHANGED <<ended, main, events, host, inVars, epout>>
      BY <2>3 DEF driverVars
    <3> HIDE DEF to
    <3> QED  BY <2>1, <2>6, <2>7, <2>8, <3>1, Serves
  <2>10. ReplyInv'
    <3>1. /\ to = "answer" => Cut(r).kind = "data"
          /\ to = "stall" => Cut(r).kind = "stall"
          /\ to = "enableIn" => Cut(r).kind = "enable"
      BY <2>4, <2>5
    <3> HIDE DEF to, r
    <3>2. r' = r
      BY <2>7 DEF r
    <3> QED  BY <2>6, <2>7, <3>1, <3>2 DEF ReplyInv, r
  <2>11. EnableInv'
    <3>1. EnableInv /\ UNCHANGED <<ep_int_in, ep_int_out, enabled, configured>>
      BY <2>3 DEF IInv, ep0Vars, driverVars
    <3>2. to = "answer" => ~SetsConfiguration(r)
      BY <2>4
    <3> HIDE DEF to
    <3> QED  BY <2>1, <2>6, <2>7, <2>9, <3>1, <3>2 DEF EnableInv
  <2> QED  BY <2>9, <2>10, <2>11 DEF IInv
<1> QED  BY <1>1, <1>2

\* The labels on the way through the endpoints.
Enabling == {"enableIn", "enableOut", "enableAudioIn", "enableAudioOut", "configure"}

(* On that way the answer stays what it is. *)
LEMMA EnablingGoesOn ==
  ASSUME IInv, ep0.pc \in Enabling,
         NEW l \in Enabling \cup {"answer"}, Ep0Goes(l), HandleTypes',
         UNCHANGED <<ended, main, events, host, inVars, epout>>
  PROVE  /\ HidTypes' /\ QueueInv' /\ StartInv' /\ ReplyInv'
         /\ HostPolls' = HostPolls /\ ep0'.pc = l /\ ep0'.event = ep0.event
<1>1. ep0.pc \in Replied /\ l \in Replied /\ l \in Labels /\ l # "stall"
      /\ ep0.pc \notin {"stall", "answer"}
  BY DEF Enabling, Replied, Labels
<1>2. Serving
  BY <1>1 DEF Serving
<1>3. /\ Ep0Types' /\ ep0'.pc = l /\ ep0'.event = ep0.event /\ ep0'.io = ep0.io
  BY <1>1, Ep0Changes DEF IInv, HidTypes
<1>4. HidTypes' /\ QueueInv' /\ StartInv' /\ HostPolls' = HostPolls
  BY <1>1, <1>2, <1>3, Serves
<1>5. ReplyInv'
  <2>1. ep0.io = Cut(ep0.event.request) /\ ep0.io.kind = "enable"
    BY <1>1 DEF IInv, ReplyInv
  <2> QED  BY <1>1, <1>3, <2>1 DEF ReplyInv
<1> QED  BY <1>3, <1>4, <1>5

\* The lists of enabled descriptors, in the order of the code.
EnabledInOrder == {<<>>, <<1>>, <<1, 2>>, <<1, 2, 3>>, <<1, 2, 3, 4>>}

(* They are sequences of at most four, each one longer than the one before. *)
LEMMA EnabledLists ==
  /\ Len(<<>>) = 0 /\ Len(<<1>>) = 1 /\ Len(<<1, 2>>) = 2
  /\ Len(<<1, 2, 3>>) = 3 /\ Len(<<1, 2, 3, 4>>) = 4
  /\ Append(<<>>, 1) = <<1>> /\ Append(<<1>>, 2) = <<1, 2>>
  /\ Append(<<1, 2>>, 3) = <<1, 2, 3>> /\ Append(<<1, 2, 3>>, 4) = <<1, 2, 3, 4>>
  /\ \A s \in EnabledInOrder :
       s \in Seq(1 .. 4) /\ Len(s) <= 4
  /\ <<1>> \in EnabledInOrder /\ <<1, 2>> \in EnabledInOrder
  /\ <<1, 2, 3>> \in EnabledInOrder /\ <<1, 2, 3, 4>> \in EnabledInOrder
<1>1. Len(<<>>) = 0 /\ Len(<<1>>) = 1 /\ Len(<<1, 2>>) = 2
      /\ Len(<<1, 2, 3>>) = 3 /\ Len(<<1, 2, 3, 4>>) = 4
  OBVIOUS
<1>2. /\ <<>> \in Seq(1 .. 4) /\ <<1>> \in Seq(1 .. 4) /\ <<1, 2>> \in Seq(1 .. 4)
      /\ <<1, 2, 3>> \in Seq(1 .. 4) /\ <<1, 2, 3, 4>> \in Seq(1 .. 4)
  OBVIOUS
<1>3. ASSUME NEW s \in Seq(1 .. 4), NEW t \in Seq(1 .. 4), NEW k \in 1 .. 4,
             Len(t) = Len(s) + 1, \A i \in 1 .. Len(s) : t[i] = s[i],
             t[Len(s) + 1] = k
      PROVE  Append(s, k) = t
  <2> DEFINE a == Append(s, k)
  <2>1. /\ a \in Seq(1 .. 4) /\ Len(a) = Len(t)
        /\ \A i \in 1 .. Len(a) : a[i] = t[i]
    BY <1>3
  <2> HIDE DEF a
  <2>2. a = t
    BY <2>1, SeqEqual
  <2> QED  BY <2>2 DEF a
<1>4. Append(<<>>, 1) = <<1>>
  BY <1>1, <1>2, <1>3
<1>5. Append(<<1>>, 2) = <<1, 2>>
  <2> DEFINE s == <<1>>
             t == <<1, 2>>
  <2>1. /\ \A i \in 1 .. Len(s) : t[i] = s[i]
        /\ Len(t) = Len(s) + 1 /\ t[Len(s) + 1] = 2 /\ 2 \in 1 .. 4
    OBVIOUS
  <2>2. s \in Seq(1 .. 4) /\ t \in Seq(1 .. 4)
    BY <1>2
  <2> HIDE DEF s, t
  <2>3. Append(s, 2) = t
    BY <2>1, <2>2, <1>3, Zenon
  <2> QED  BY <2>3 DEF s, t
<1>6. Append(<<1, 2>>, 3) = <<1, 2, 3>>
  <2> DEFINE s == <<1, 2>>
             t == <<1, 2, 3>>
  <2>1. /\ \A i \in 1 .. Len(s) : t[i] = s[i]
        /\ Len(t) = Len(s) + 1 /\ t[Len(s) + 1] = 3 /\ 3 \in 1 .. 4
    OBVIOUS
  <2>2. s \in Seq(1 .. 4) /\ t \in Seq(1 .. 4)
    BY <1>2
  <2> HIDE DEF s, t
  <2>3. Append(s, 3) = t
    BY <2>1, <2>2, <1>3, Zenon
  <2> QED  BY <2>3 DEF s, t
<1>7. Append(<<1, 2, 3>>, 4) = <<1, 2, 3, 4>>
  <2> DEFINE s == <<1, 2, 3>>
             t == <<1, 2, 3, 4>>
  <2>1. /\ \A i \in 1 .. Len(s) : t[i] = s[i]
        /\ Len(t) = Len(s) + 1 /\ t[Len(s) + 1] = 4 /\ 4 \in 1 .. 4
    OBVIOUS
  <2>2. s \in Seq(1 .. 4) /\ t \in Seq(1 .. 4)
    BY <1>2
  <2> HIDE DEF s, t
  <2>3. Append(s, 4) = t
    BY <2>1, <2>2, <1>3, Zenon
  <2> QED  BY <2>3 DEF s, t
<1>8. \A s \in EnabledInOrder :
        s \in Seq(1 .. 4) /\ Len(s) <= 4
  <2> TAKE s \in EnabledInOrder
  <2>1. CASE s = <<>>
    BY <2>1, <1>1, <1>2
  <2>2. CASE s = <<1>>
    BY <2>2, <1>1, <1>2
  <2>3. CASE s = <<1, 2>>
    BY <2>3, <1>1, <1>2
  <2>4. CASE s = <<1, 2, 3>>
    BY <2>4, <1>1, <1>2
  <2>5. CASE s = <<1, 2, 3, 4>>
    BY <2>5, <1>1, <1>2
  <2> QED  BY <2>1, <2>2, <2>3, <2>4, <2>5 DEF EnabledInOrder
<1>9. /\ <<1>> \in EnabledInOrder /\ <<1, 2>> \in EnabledInOrder
      /\ <<1, 2, 3>> \in EnabledInOrder /\ <<1, 2, 3, 4>> \in EnabledInOrder
  BY Zenon DEF EnabledInOrder
<1> QED  BY <1>1, <1>4, <1>5, <1>6, <1>7, <1>8, <1>9, Zenon

(* What usb_raw_ep_enable does when it returns. *)
LEMMA EnablesOne ==
  ASSUME IInv, ep0.pc \in Enabling, NEW k \in 1 .. 4, NEW l \in Enabling,
         NEW in \in -1 .. 3, NEW out \in -1 .. 3, Enable(k, l, in, out),
         Append(enabled, k) \in EnabledInOrder
  PROVE  \/ IInv'
         \/ /\ HidTypes' /\ QueueInv' /\ StartInv' /\ ReplyInv'
            /\ HostPolls' = HostPolls /\ ep0'.pc = l /\ UNCHANGED configured
            /\ ep_int_in' = in /\ ep_int_out' = out
            /\ enabled' = Append(enabled, k)
<1>1. CASE ~CanEnable(k)
  BY <1>1, ExitKeeps DEF Enable
<1>2. CASE CanEnable(k)
  <2>1. /\ enabled' = Append(enabled, k) /\ ep_int_in' = in /\ ep_int_out' = out
        /\ Ep0Goes(l)
        /\ UNCHANGED <<ended, main, usb_endpoints, addr, inVars, epout,
                       configured, events, host>>
    BY <1>2 DEF Enable
  <2>2. Append(enabled, k) \in Seq(1 .. 4) /\ Len(Append(enabled, k)) <= 4
    BY EnabledLists, Zenon
  <2>3. HandleTypes'
    BY <2>1, <2>2 DEF IInv, HidTypes, HandleTypes
  <2> QED  BY <2>1, <2>3, EnablingGoesOn
<1> QED  BY <1>1, <1>2

(* Nor is anything enabled when there is a handle. *)
LEMMA Skipped ==
  ASSUME IInv, ep0.pc \in Enabling, NEW l \in Enabling, Skip(l)
  PROVE  /\ HidTypes' /\ QueueInv' /\ StartInv' /\ ReplyInv'
         /\ HostPolls' = HostPolls /\ ep0'.pc = l
         /\ UNCHANGED <<configured, ep_int_in, ep_int_out, enabled>>
<1>1. /\ Ep0Goes(l) /\ UNCHANGED <<configured, ep_int_in, ep_int_out, enabled>>
      /\ UNCHANGED <<ended, main, events, host, inVars, epout>>
  BY DEF Skip, ep0Vars, driverVars
<1>2. HandleTypes'
  BY HandlesKept DEF IInv, HidTypes, Skip, ep0Vars, driverVars
<1> QED  BY <1>1, <1>2, EnablingGoesOn

LEMMA EnableInKeeps ==
  ASSUME IInv, EnableIn
  PROVE  IInv'
<1>1. /\ ep0.pc = "enableIn" /\ ep0.pc \in Enabling /\ "enableOut" \in Enabling
      /\ EnableInv /\ HandleTypes
  BY DEF IInv, HidTypes, EnableIn, Enabling
<1>2. CASE ep_int_in < 0
  <2>1. enabled = <<>> /\ ep_int_in = -1 /\ ep_int_out = -1 /\ ~configured
    BY <1>1, <1>2 DEF EnableInv
  <2>2. Enable(1, "enableOut", 0, -1)
    BY <1>2, <2>1, EnabledLists DEF EnableIn, NextHandle
  <2>3. \/ IInv'
        \/ /\ HidTypes' /\ QueueInv' /\ StartInv' /\ ReplyInv'
           /\ HostPolls' = HostPolls /\ ep0'.pc = "enableOut" /\ UNCHANGED configured
           /\ ep_int_in' = 0 /\ ep_int_out' = -1 /\ enabled' = <<1>>
    <3>1. Append(enabled, 1) = <<1>> /\ 1 \in 1 .. 4 /\ 0 \in -1 .. 3 /\ -1 \in -1 .. 3
      BY <2>1, EnabledLists
    <3>2. Append(enabled, 1) \in EnabledInOrder
      BY <2>1, EnabledLists, Zenon
    <3> HIDE DEF Enabling
    <3> QED  BY <1>1, <2>1, <2>2, <3>1, <3>2, EnablesOne
  <2> QED  BY <1>1, <2>1, <2>3 DEF IInv, EnableInv
<1>3. CASE ~(ep_int_in < 0)
  <2>1. Skip("enableOut")
    BY <1>3 DEF EnableIn
  <2>2. /\ HidTypes' /\ QueueInv' /\ StartInv' /\ ReplyInv'
        /\ HostPolls' = HostPolls /\ ep0'.pc = "enableOut"
        /\ UNCHANGED <<configured, ep_int_in, ep_int_out, enabled>>
    BY <1>1, <2>1, Skipped
  <2>3. ep_int_in = 0 /\ ep_int_out = 1 /\ enabled = <<1, 2, 3, 4>>
    BY <1>1, <1>3 DEF EnableInv, HandleTypes
  <2> QED  BY <1>1, <2>2, <2>3 DEF IInv, EnableInv
<1> QED  BY <1>2, <1>3

LEMMA EnableOutKeeps ==
  ASSUME IInv, EnableOut
  PROVE  IInv'
<1>1. /\ ep0.pc = "enableOut" /\ ep0.pc \in Enabling /\ ep_int_in = 0
      /\ "enableAudioIn" \in Enabling /\ "configure" \in Enabling
      /\ EnableInv /\ HandleTypes
  BY DEF IInv, HidTypes, EnableOut, EnableInv, Enabling
<1>2. CASE ep_int_out < 0
  <2>1. enabled = <<1>> /\ ep_int_out = -1 /\ ~configured
    BY <1>1, <1>2 DEF EnableInv
  <2>2. Enable(2, "enableAudioIn", 0, 1)
    BY <1>1, <1>2, <2>1, EnabledLists DEF EnableOut, NextHandle
  <2>3. \/ IInv'
        \/ /\ HidTypes' /\ QueueInv' /\ StartInv' /\ ReplyInv'
           /\ HostPolls' = HostPolls /\ ep0'.pc = "enableAudioIn"
           /\ UNCHANGED configured
           /\ ep_int_in' = 0 /\ ep_int_out' = 1 /\ enabled' = <<1, 2>>
    <3>1. Append(enabled, 2) = <<1, 2>> /\ 2 \in 1 .. 4 /\ 0 \in -1 .. 3 /\ 1 \in -1 .. 3
      BY <2>1, EnabledLists
    <3>2. Append(enabled, 2) \in EnabledInOrder
      BY <2>1, EnabledLists, Zenon
    <3> HIDE DEF Enabling
    <3> QED  BY <1>1, <2>1, <2>2, <3>1, <3>2, EnablesOne
  <2> QED  BY <1>1, <2>1, <2>3 DEF IInv, EnableInv
<1>3. CASE ~(ep_int_out < 0)
  <2>1. Skip("configure")
    BY <1>3 DEF EnableOut
  <2>2. /\ HidTypes' /\ QueueInv' /\ StartInv' /\ ReplyInv'
        /\ HostPolls' = HostPolls /\ ep0'.pc = "configure"
        /\ UNCHANGED <<configured, ep_int_in, ep_int_out, enabled>>
    BY <1>1, <2>1, Skipped
  <2>3. ep_int_out = 1 /\ enabled = <<1, 2, 3, 4>>
    BY <1>1, <1>3 DEF EnableInv, HandleTypes
  <2> QED  BY <1>1, <2>2, <2>3 DEF IInv, EnableInv
<1> QED  BY <1>2, <1>3

LEMMA EnableAudioKeeps ==
  ASSUME IInv, EnableAudio
  PROVE  IInv'
<1>1. /\ ep0.pc \in Enabling /\ ep_int_in = 0 /\ ep_int_out = 1 /\ ~configured
      /\ "enableAudioOut" \in Enabling /\ "configure" \in Enabling
      /\ EnableInv /\ HandleTypes
  BY DEF IInv, HidTypes, EnableAudio, EnableInv, Enabling
<1>2. CASE ep0.pc = "enableAudioIn"
  <2>1. enabled = <<1, 2>> /\ Enable(3, "enableAudioOut", 0, 1)
    BY <1>1, <1>2 DEF EnableInv, EnableAudio
  <2>2. \/ IInv'
        \/ /\ HidTypes' /\ QueueInv' /\ StartInv' /\ ReplyInv'
           /\ HostPolls' = HostPolls /\ ep0'.pc = "enableAudioOut"
           /\ UNCHANGED configured
           /\ ep_int_in' = 0 /\ ep_int_out' = 1 /\ enabled' = <<1, 2, 3>>
    <3>1. Append(enabled, 3) = <<1, 2, 3>> /\ 3 \in 1 .. 4 /\ 0 \in -1 .. 3 /\ 1 \in -1 .. 3
      BY <2>1, EnabledLists
    <3>2. Append(enabled, 3) \in EnabledInOrder
      BY <2>1, EnabledLists, Zenon
    <3> HIDE DEF Enabling
    <3> QED  BY <1>1, <2>1, <3>1, <3>2, EnablesOne
  <2> QED  BY <1>1, <2>2 DEF IInv, EnableInv
<1>3. CASE ep0.pc = "enableAudioOut"
  <2>1. enabled = <<1, 2, 3>> /\ Enable(4, "configure", 0, 1)
    BY <1>1, <1>3 DEF EnableInv, EnableAudio
  <2>2. \/ IInv'
        \/ /\ HidTypes' /\ QueueInv' /\ StartInv' /\ ReplyInv'
           /\ HostPolls' = HostPolls /\ ep0'.pc = "configure"
           /\ UNCHANGED configured
           /\ ep_int_in' = 0 /\ ep_int_out' = 1 /\ enabled' = <<1, 2, 3, 4>>
    <3>1. Append(enabled, 4) = <<1, 2, 3, 4>> /\ 4 \in 1 .. 4 /\ 0 \in -1 .. 3 /\ 1 \in -1 .. 3
      BY <2>1, EnabledLists
    <3>2. Append(enabled, 4) \in EnabledInOrder
      BY <2>1, EnabledLists, Zenon
    <3> HIDE DEF Enabling
    <3> QED  BY <1>1, <2>1, <3>1, <3>2, EnablesOne
  <2> QED  BY <1>1, <2>2 DEF IInv, EnableInv
<1> QED  BY <1>2, <1>3 DEF EnableAudio

LEMMA ConfigureKeeps ==
  ASSUME IInv, Configure
  PROVE  IInv'
<1>1. /\ ep0.pc = "configure" /\ Ep0Goes("answer") /\ configured' = TRUE
      /\ ep_int_in = 0 /\ ep_int_out = 1
      /\ UNCHANGED <<ended, main, ep0Vars, inVars, epout, enabled, events, host>>
      /\ EnableInv /\ HandleTypes
  BY DEF IInv, HidTypes, Configure, EnableInv
<1>2. HandleTypes'
  BY <1>1 DEF HandleTypes, ep0Vars
<1>3. ep0.pc \in Enabling
  BY <1>1 DEF Enabling
<1>4. /\ HidTypes' /\ QueueInv' /\ StartInv' /\ ReplyInv' /\ HostPolls' = HostPolls
      /\ ep0'.pc = "answer"
  BY <1>1, <1>2, <1>3, EnablingGoesOn
<1>5. EnableInv'
  BY <1>1, <1>4 DEF EnableInv, ep0Vars
<1> QED  BY <1>4, <1>5 DEF IInv

(* The host gets its answer, or a stall, and goes on; the endpoints it polls
   from then on, if the request was SET_CONFIGURATION, are there. *)
LEMMA AnswerKeeps ==
  ASSUME IInv, Stall \/ Answer
  PROVE  IInv'
<1> DEFINE r == ep0.event.request
<1>1. /\ ep0.pc \in {"stall", "answer"} /\ HostIsAnswered /\ Ep0Done
      /\ UNCHANGED <<ended, main, ep0Vars, inVars, epout, driverVars>>
  BY DEF Stall, Answer
<1>2. Serving /\ ep0.pc \in Replied
  BY <1>1 DEF Serving, Replied
<1>3. /\ r \in Sent /\ Ep0Types /\ HostTypes /\ HandleTypes /\ ThreadTypes
  BY <1>2, RequestOf DEF IInv, HidTypes
<1>4. /\ Len(host.script) \in Nat /\ host.pos \in Nat /\ host.resets \in Nat
      /\ host.waits \in BOOLEAN /\ Len(events) \in Nat
  BY <1>3, ScriptTypes DEF HostTypes
<1>5. /\ Ep0Types' /\ ep0'.pc = "fetch"
  <2>1. "fetch" \in Labels
    BY DEF Labels
  <2> QED  BY <1>1, <1>3, <2>1, Ep0Changes
<1>6. ~Serving' /\ ~ServingHost' /\ UNCHANGED events
  BY <1>1, <1>5 DEF Serving, ServingHost, Replied, driverVars
<1>7. \/ Abandoned /\ UNCHANGED host
      \/ ~Abandoned /\ host' = [script |-> host.script, pos |-> host.pos + 1,
                                waits |-> FALSE, resets |-> host.resets]
  BY <1>1, <1>3 DEF HostIsAnswered, HostTypes
<1>8. HidTypes'
  <2>1. host' \in [script : Scripts, pos : Nat, waits : BOOLEAN, resets : Nat]
    <3>1. /\ host.pos + 1 \in Nat /\ host.script \in Scripts /\ host.resets \in Nat
          /\ host \in [script : Scripts, pos : Nat, waits : BOOLEAN, resets : Nat]
      BY <1>3, <1>4 DEF HostTypes
    <3>2. CASE UNCHANGED host
      BY <3>1, <3>2
    <3>3. CASE host' = [script |-> host.script, pos |-> host.pos + 1,
                        waits |-> FALSE, resets |-> host.resets]
      BY <3>1, <3>3, Zenon
    <3> QED  BY <1>7, <3>2, <3>3
  <2>2. HostTypes'
    BY <2>1, <1>6, <1>3 DEF HostTypes
  <2> QED  BY <1>1, <1>3, <1>5, <2>2, ThreadsKept, HandlesKept
        DEF HidTypes, ep0Vars, inVars, driverVars
<1>9. QueueInv'
  <2>1. CASE Abandoned /\ UNCHANGED host
    <3>1. ~ServingHost
      BY <2>1 DEF ServingHost
    <3> QED  BY <2>1, <3>1, <1>6 DEF IInv, QueueInv
  <2>2. CASE ~Abandoned /\ host' = [script |-> host.script, pos |-> host.pos + 1,
                                   waits |-> FALSE, resets |-> host.resets]
    <3>1. ServingHost
      BY <1>2, <2>2 DEF ServingHost
    <3>2. /\ host'.script = host.script /\ host'.pos = host.pos + 1
          /\ ~host'.waits /\ host'.resets = host.resets
      BY <2>2
    <3>3. /\ Len(events) <= 1 + 2 * host.resets + 0 /\ host.resets <= MaxResets
          /\ host.pos <= Len(host.script)
      BY <3>1 DEF IInv, QueueInv
    <3>4. \A k \in DOMAIN events : events[k].type = "control" =>
            /\ events[k].bus <= host.resets /\ events[k].bus # host.resets
            /\ events[k].request \in ToSet(host.script)
      BY <3>1 DEF IInv, QueueInv
    <3>5. host'.pos \in 1 .. (Len(host'.script) + 1)
      BY <1>4, <3>2, <3>3
    <3> QED  BY <1>6, <3>2, <3>3, <3>4, <3>5 DEF QueueInv
  <2> QED  BY <2>1, <2>2, <1>7
<1>10. main = "sleep"
  BY <1>1, <1>3 DEF IInv, StartInv, ThreadTypes
<1>11. StartInv' /\ ReplyInv'
  BY <1>1, <1>5, <1>10 DEF StartInv, ReplyInv, Replied
<1>12. SetsConfiguration(r) => configured
  <2> SUFFICES ASSUME SetsConfiguration(r)
               PROVE  configured
    OBVIOUS
  <2>1. ep0_request(r).kind = "enable"
    BY <1>3, ReplyTypes
  <2>2. Cut(r).kind = "enable"
    BY <1>3, <2>1, CutTypes
  <2>3. ep0.pc # "stall"
    BY <1>2, <2>2 DEF IInv, ReplyInv
  <2> QED  BY <1>1, <2>3 DEF IInv, EnableInv
<1>13. HostPolls' => configured
  <2>1. CASE UNCHANGED host
    BY <2>1 DEF IInv, EnableInv, HostPolls
  <2>2. CASE ~Abandoned /\ host' = [script |-> host.script, pos |-> host.pos + 1,
                                   waits |-> FALSE, resets |-> host.resets]
    <3> SUFFICES ASSUME NEW k \in 1 .. (host'.pos - 1),
                        SetsConfiguration(host'.script[k])
                 PROVE  configured
      BY DEF HostPolls
    <3>1. k \in 1 .. host.pos /\ SetsConfiguration(host.script[k])
      BY <1>4, <2>2
    <3>2. CASE k = host.pos
      <4>1. r = host.script[host.pos]
        BY <1>2, <2>2 DEF IInv, QueueInv, ServingHost
      <4> QED  BY <3>1, <3>2, <4>1, <1>12
    <3>3. CASE k # host.pos
      <4>1. k \in 1 .. (host.pos - 1)
        BY <3>1, <3>3, <1>4
      <4>2. HostPolls
        BY <4>1, <3>1 DEF HostPolls
      <4> QED  BY <4>2 DEF IInv, EnableInv
    <3> QED  BY <3>2, <3>3
  <2> QED  BY <2>1, <2>2, <1>7
<1>14. EnableInv'
  <2>1. EnableInv /\ UNCHANGED <<ep_int_in, ep_int_out, enabled, configured>>
    BY <1>1 DEF IInv, ep0Vars, driverVars
  <2> QED  BY <1>1, <1>5, <1>13, <2>1 DEF EnableInv
<1> QED  BY <1>8, <1>9, <1>11, <1>14 DEF IInv

(* The threads of the interrupt endpoints touch nothing else; the button goes
   round. *)
LEMMA EndpointsKeep ==
  ASSUME IInv, InTest \/ InWrite \/ InWriteFails \/ OutTest \/ OutRead
  PROVE  IInv'
<1>1. /\ UNCHANGED <<ended, main, ep0, ep0Vars, driverVars, host>>
  BY DEF InTest, InWrite, InWriteFails, InBack, OutTest, OutRead
<1>2. ThreadTypes /\ Ep0Types /\ HandleTypes /\ HostTypes
  BY DEF IInv, HidTypes
<1>3. Width \in Nat /\ Width > 4
  BY HidAssumption
<1>4. ThreadTypes'
  <2>1. /\ ended' \in {"no", "start", "assert", "unknown", "enable", "ep0"}
        /\ main' \in {"open", "init", "run", "create", "sleep"}
    BY <1>1, <1>2 DEF ThreadTypes
  <2>2. button' \in Buttons
    <3>1. NextButton \in Buttons
      BY <1>2, <1>3 DEF ThreadTypes, NextButton, Buttons, LastBit
    <3> QED  BY <1>2, <3>1
          DEF ThreadTypes, InTest, InWrite, InWriteFails, InBack, OutTest, OutRead, inVars
  <2>3. epin' \in [pc : {"none", "test", "write"}, joy : Buttons \cup {NoButton}]
    BY <1>2 DEF ThreadTypes, InTest, InWrite, InWriteFails, InBack, OutTest, OutRead, inVars
  <2>4. epout' \in {"none", "test", "read"}
    BY <1>2 DEF ThreadTypes, InTest, InWrite, InWriteFails, InBack, OutTest, OutRead
  <2>5. pressed' \in Buttons \cup {NoButton}
    BY <1>2 DEF ThreadTypes, InTest, InWrite, InWriteFails, InBack, OutTest, OutRead, inVars
  <2> QED  BY <2>1, <2>2, <2>3, <2>4, <2>5 DEF ThreadTypes, Buttons, LastBit
<1>5. HidTypes'
  BY <1>1, <1>2, <1>4, Ep0Kept, HandlesKept, HostKept
    DEF HidTypes, ep0Vars, driverVars
<1>6. QueueInv' /\ ReplyInv' /\ EnableInv'
  BY <1>1, ControlUntouched DEF ep0Vars
<1>7. StartInv'
  BY <1>1 DEF IInv, StartInv, driverVars
<1> QED  BY <1>5, <1>6, <1>7 DEF IInv

LEMMA NextInv == IInv /\ [Next]_vars => IInv'
<1> SUFFICES ASSUME IInv, [Next]_vars
             PROVE  IInv'
  OBVIOUS
<1>1. CASE UNCHANGED vars
  <2>1. HidTypes'
    BY <1>1, ThreadsKept, Ep0Kept, HandlesKept, HostKept
      DEF IInv, HidTypes, vars, ep0Vars, inVars, driverVars
  <2>2. QueueInv' /\ ReplyInv' /\ EnableInv'
    BY <1>1, ControlUntouched DEF vars, ep0Vars
  <2>3. StartInv'
    BY <1>1 DEF IInv, StartInv, vars, driverVars
  <2> QED  BY <2>1, <2>2, <2>3 DEF IInv
<1>2. CASE Main
  BY <1>2, StartKeeps, CreateKeeps DEF Main
<1>3. CASE Ep0
  BY <1>3, FetchKeeps, ConnectKeeps, RequestKeeps, EnableInKeeps, EnableOutKeeps,
     EnableAudioKeeps, ConfigureKeeps, AnswerKeeps, ExitKeeps DEF Ep0, Ep0Fails
<1>4. CASE EpIn \/ EpOut \/ InWriteFails
  BY <1>4, EndpointsKeep DEF EpIn, EpOut
<1>5. CASE StartFails
  BY <1>5, ExitKeeps DEF StartFails
<1>6. CASE HostSends \/ HostResets
  BY <1>6, HostSendsKeeps, HostResetsKeeps
<1>7. CASE Exited
  BY <1>1, <1>7 DEF Exited
<1> QED  BY <1>1, <1>2, <1>3, <1>4, <1>5, <1>6, <1>7 DEF Next

(***************************************************************************)
(* What the threads of hid.c and its host can be in the middle of: there is *)
(* at most one request, the answer is that of this request, and the         *)
(* endpoints are enabled in order, once.                                    *)
(***************************************************************************)
THEOREM Invariance == Spec => []IInv
<1>1. Init => IInv
  BY InitInv
<1>2. IInv /\ [Next]_vars => IInv'
  BY NextInv
<1> QED  BY <1>1, <1>2, PTL DEF Spec

-----------------------------------------------------------------------------
(* The properties of the runs. *)

(***************************************************************************)
(* Every variable has its type: the queue of the driver is bounded by the   *)
(* resets, and the button stays within the word it is shifted in.           *)
(***************************************************************************)
THEOREM TypeCorrect == Spec => []TypeOK
<1>1. IInv => TypeOK
  <2> SUFFICES ASSUME IInv
               PROVE  TypeOK
    OBVIOUS
  <2>1. ThreadTypes /\ Ep0Types /\ HandleTypes /\ HostTypes
    BY DEF IInv, HidTypes
  <2>2. /\ ep0.pc \in {"none", "fetch", "connect", "request", "enableIn", "enableOut",
                       "enableAudioIn", "enableAudioOut", "configure", "stall", "answer"}
        /\ ep0.io.kind \in {"none", "data", "enable", "stall"}
    BY <2>1 DEF Ep0Types, Labels, Replied, Replies
  <2>3. /\ epin.pc \in {"none", "test", "write"}
        /\ epin.joy \in Buttons \cup {NoButton}
    BY <2>1 DEF ThreadTypes
  <2>4. Len(events) <= 2 + 2 * MaxResets /\ host.pos \in 1 .. (Len(host.script) + 1)
    <3>1. /\ Len(events) <=
               1 + 2 * host.resets + (IF host.waits /\ ~ServingHost THEN 1 ELSE 0)
          /\ host.resets <= MaxResets
          /\ host.pos \in 1 .. (Len(host.script) + 1)
      BY DEF IInv, QueueInv
    <3>2. Len(events) \in Nat /\ host.resets \in Nat /\ MaxResets \in Nat
      BY <2>1, HidAssumption DEF HostTypes
    <3> QED  BY <3>1, <3>2
  <2>5. Len(enabled) <= Len(Descriptors)
    BY <2>1 DEF HandleTypes, Descriptors
  <2> QED  BY <2>1, <2>2, <2>3, <2>4, <2>5 DEF TypeOK, ThreadTypes, HandleTypes
<1> QED  BY <1>1, Invariance, PTL

(***************************************************************************)
(* Whatever a host asks for, it never gets more than that, it gets all of   *)
(* it when the program has as many bytes, and no descriptor is longer than  *)
(* the program's table.                                                     *)
(***************************************************************************)
THEOREM AnswersFull == Spec => []AnswersInFull
<1>1. IInv => AnswersInFull
  <2> SUFFICES ASSUME IInv, ep0.pc = "answer"
               PROVE  /\ ep0.io.length <= ep0.event.request.length
                      /\ ep0.event.request.length <= ep0.io.written =>
                           ep0.io.length = ep0.event.request.length
                      /\ ep0.event.request.type # "class" =>
                           ep0.io.length <= ep0.io.written
    BY DEF AnswersInFull
  <2> DEFINE r == ep0.event.request
             a == ep0_request(r)
  <2>1. Serving /\ ep0.pc \in Replied
    BY DEF Serving, Replied
  <2>2. r \in Sent /\ r.length \in Nat
    BY <2>1, RequestOf, ScriptTypes
  <2>3. ep0.io = Cut(r) /\ Cut(r).kind \in {"data", "enable"}
    BY <2>1 DEF IInv, ReplyInv
  <2>4. /\ a \in [kind : {"data", "enable", "stall", "exit"}, length : Nat, written : Nat]
        /\ r.type # "class" => a.length <= a.written
        /\ r.length <= a.written => r.length <= a.length
    BY <2>2, ReplyTypes
  <2>5. a.kind = Cut(r).kind
    <3> HIDE DEF a
    <3>1. Cut(r) = IF r.length < a.length THEN [a EXCEPT !.length = r.length] ELSE a
      BY DEF Cut, a
    <3> QED  BY <2>4, <3>1
  <2>6. /\ Cut(r).written = a.written /\ Cut(r) \in Replies
        /\ Cut(r).length <= a.length /\ Cut(r).length <= r.length
        /\ r.length <= a.length => Cut(r).length = r.length
    <3>1. a.kind # "exit"
      BY <2>3, <2>5
    <3> QED  BY <2>2, <3>1, CutTypes
  <2>7. Cut(r).length \in Nat /\ a.length \in Nat /\ a.written \in Nat
    BY <2>4, <2>6 DEF Replies
  <2> HIDE DEF a, r
  <2>8. /\ Cut(r).length <= r.length
        /\ r.length <= Cut(r).written => Cut(r).length = r.length
        /\ r.type # "class" => Cut(r).length <= Cut(r).written
    BY <2>3, <2>4, <2>5, <2>6, <2>7
  <2> QED  BY <2>3, <2>8 DEF r
<1> QED  BY <1>1, Invariance, PTL

(***************************************************************************)
(* When a host sees SET_CONFIGURATION acknowledged, all endpoints are       *)
(* enabled, and the threads have the handles of their own.                  *)
(***************************************************************************)
THEOREM Ready == Spec => []ReadyWhenConfigured
<1>1. IInv => ReadyWhenConfigured
  <2> SUFFICES ASSUME IInv, HostPolls
               PROVE  /\ configured
                      /\ Len(enabled) = 4
                      /\ enabled[ep_int_in + 1] = 1
                      /\ enabled[ep_int_out + 1] = 2
                      /\ usb_endpoints = Descriptors
    BY DEF ReadyWhenConfigured
  <2>1. configured /\ ep_int_out = 1 /\ usb_endpoints = Descriptors
        /\ ep0.pc \notin {"enableAudioIn", "enableAudioOut"}
    BY DEF IInv, EnableInv, HidTypes, HandleTypes
  <2>2. ep_int_in = 0
    BY <2>1 DEF IInv, EnableInv
  <2>3. enabled = <<1, 2, 3, 4>>
    BY <2>1 DEF IInv, EnableInv
  <2> QED  BY <2>1, <2>2, <2>3
<1> QED  BY <1>1, Invariance, PTL

(* The descriptors before the k-th have other addresses. *)
LEMMA CanBeEnabled ==
  ASSUME usb_endpoints = Descriptors, NEW k \in 1 .. 4, Len(Hardware) >= 4,
         enabled \in Seq(1 .. 4), Len(enabled) < 4,
         \A h \in DOMAIN enabled : enabled[h] # k
  PROVE  CanEnable(k)
<1>1. Len(Hardware) \in Nat /\ Len(enabled) \in Nat
  BY HidAssumption
<1>2. \A i, j \in 1 .. 4 : i # j => Descriptors[i] # Descriptors[j]
  <2>1. \A i \in 1 .. 4 : Descriptors[i].num = 5 - i
    BY DEF Descriptors
  <2> QED  BY <2>1
<1>3. \A h \in DOMAIN enabled : enabled[h] \in 1 .. 4
  OBVIOUS
<1> QED  BY <1>1, <1>2, <1>3 DEF CanEnable

(***************************************************************************)
(* Whatever hosts there are, and however they reset the bus, also in the    *)
(* middle of a request: no endpoint is enabled twice, no assertion fails,   *)
(* and the exits of ep0_request need a request that is not known.  The      *)
(* hardware must have the four endpoints: with fewer, the first             *)
(* SET_CONFIGURATION is the end.                                            *)
(***************************************************************************)
THEOREM Alive ==
  ASSUME Len(Hardware) >= 4
  PROVE  Spec => []StaysAlive
<1>1. Init => StaysAlive
  BY DEF Init, StaysAlive
<1>2. IInv /\ StaysAlive /\ [Next]_vars => StaysAlive'
  <2> SUFFICES ASSUME IInv, StaysAlive, [Next]_vars
               PROVE  StaysAlive'
    OBVIOUS
  <2>1. CASE ~alive
    <3>1. UNCHANGED vars
      BY <2>1 DEF Next, Main, Ep0, EpIn, EpOut, Exited
    <3> QED  BY <3>1 DEF StaysAlive, vars
  <2>2. CASE alive /\ UNCHANGED ended
    BY <2>2 DEF StaysAlive, alive
  <2>3. CASE StartFails
    BY <2>3 DEF StartFails, Exit, StaysAlive
  <2>4. CASE alive /\ Connect
    BY <2>2, <2>4, Connected
  <2>5. CASE alive /\ Request
    <3>1. CASE ep0_request(ep0.event.request).kind = "exit"
      <4>1. Serving /\ Exit("unknown")
        BY <2>5, <3>1 DEF Request, Serving
      <4>2. \E k \in DOMAIN host.script : ep0.event.request = host.script[k]
        BY <4>1, RequestOf
      <4>3. ~Known(host.script)
        BY <4>2, <3>1 DEF Known
      <4> QED  BY <4>1, <4>3 DEF Exit, StaysAlive
    <3>2. CASE ep0_request(ep0.event.request).kind # "exit"
      BY <2>2, <2>5, <3>2 DEF Request
    <3> QED  BY <3>1, <3>2
  <2>6. ASSUME alive, NEW k \in 1 .. 4, NEW l, NEW in, NEW out,
               Enable(k, l, in, out), Len(enabled) < 4,
               \A h \in DOMAIN enabled : enabled[h] # k
        PROVE  StaysAlive'
    <3>1. CanEnable(k)
      BY <2>6, CanBeEnabled DEF IInv, HidTypes, HandleTypes
    <3>2. UNCHANGED ended
      BY <2>6, <3>1 DEF Enable
    <3> QED  BY <2>2, <2>6, <3>2
  <2>7. CASE alive /\ EnableIn
    <3>1. CASE ep_int_in < 0
      <4>1. enabled = <<>> /\ Enable(1, "enableOut", NextHandle, ep_int_out)
        BY <2>7, <3>1 DEF IInv, EnableInv, EnableIn
      <4>2. Len(enabled) < 4 /\ \A h \in DOMAIN enabled : enabled[h] # 1
        BY <4>1
      <4> QED  BY <2>6, <2>7, <4>1, <4>2
    <3>2. CASE ~(ep_int_in < 0)
      BY <2>2, <2>7, <3>2 DEF EnableIn, Skip
    <3> QED  BY <3>1, <3>2
  <2>8. CASE alive /\ EnableOut
    <3>1. CASE ep_int_out < 0
      <4>1. enabled = <<1>> /\ Enable(2, "enableAudioIn", ep_int_in, NextHandle)
        BY <2>8, <3>1 DEF IInv, EnableInv, EnableOut
      <4>2. Len(enabled) < 4 /\ \A h \in DOMAIN enabled : enabled[h] # 2
        BY <4>1
      <4> QED  BY <2>6, <2>8, <4>1, <4>2
    <3>2. CASE ~(ep_int_out < 0)
      BY <2>2, <2>8, <3>2 DEF EnableOut, Skip
    <3> QED  BY <3>1, <3>2
  <2>9. CASE alive /\ EnableAudio
    <3>1. ep_int_out = 1
      BY <2>9 DEF IInv, EnableInv, EnableAudio
    <3>2. CASE ep0.pc = "enableAudioIn"
      <4>1. enabled = <<1, 2>> /\ Enable(3, "enableAudioOut", ep_int_in, ep_int_out)
        BY <2>9, <3>1, <3>2 DEF IInv, EnableInv, EnableAudio
      <4>2. Len(enabled) < 4 /\ \A h \in DOMAIN enabled : enabled[h] # 3
        BY <4>1
      <4> QED  BY <2>6, <2>9, <4>1, <4>2
    <3>3. CASE ep0.pc = "enableAudioOut"
      <4>1. enabled = <<1, 2, 3>> /\ Enable(4, "configure", ep_int_in, ep_int_out)
        BY <2>9, <3>1, <3>3 DEF IInv, EnableInv, EnableAudio
      <4>2. Len(enabled) < 4 /\ \A h \in DOMAIN enabled : enabled[h] # 4
        BY <4>1
      <4> QED  BY <2>6, <2>9, <4>1, <4>2
    <3> QED  BY <2>9, <3>2, <3>3 DEF EnableAudio
  <2>10. CASE Ep0Fails
    <3>1. Serving /\ Abandoned /\ Exit("ep0")
      BY <2>10 DEF Ep0Fails, Serving, Replied
    <3>2. ep0.event.bus <= host.resets /\ ep0.event.bus \in Nat /\ host.resets \in Nat
      BY <3>1 DEF IInv, QueueInv, HidTypes, Ep0Types, Events, HostTypes
    <3>3. host.resets > 0
      BY <3>1, <3>2 DEF Abandoned
    <3> QED  BY <3>1, <3>3 DEF Exit, StaysAlive
  <2>11. CASE alive /\ (Fetch \/ Configure \/ Stall \/ Answer \/ Start \/ Create)
    BY <2>2, <2>11 DEF Fetch, Configure, Stall, Answer, Start, Create
  <2>12. CASE alive /\ (InTest \/ InWrite \/ InWriteFails \/ OutTest \/ OutRead
                        \/ HostSends \/ HostResets)
    BY <2>2, <2>12 DEF InTest, InWrite, InWriteFails, InBack, OutTest, OutRead,
                       HostSends, HostResets
  <2>13. CASE alive /\ UNCHANGED vars
    BY <2>2, <2>13 DEF vars
  <2>14. alive /\ Next =>
           \/ StartFails \/ Connect \/ Request \/ EnableIn \/ EnableOut \/ EnableAudio
           \/ Ep0Fails \/ Fetch \/ Configure \/ Stall \/ Answer \/ Start \/ Create
           \/ InTest \/ InWrite \/ InWriteFails \/ OutTest \/ OutRead
           \/ HostSends \/ HostResets
    BY DEF Next, Main, Ep0, EpIn, EpOut, Exited
  <2> QED  BY <2>1, <2>3, <2>4, <2>5, <2>7, <2>8, <2>9, <2>10, <2>11, <2>12, <2>13, <2>14
<1> QED  BY <1>1, <1>2, Invariance, PTL DEF Spec

=============================================================================
