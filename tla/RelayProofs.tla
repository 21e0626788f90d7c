----------------------------- MODULE RelayProofs -----------------------------
(***************************************************************************)
(* For any set of requests, any number of events of the host and any shape  *)
(* of the device: what ControlRelay and Startup promise about the order of  *)
(* answers and of forwarded requests, the gadget and the records.           *)
(*                                                                         *)
(* RelayInv is inductive for the threads, and for exit() at any point, as   *)
(* main may return while they run.                                          *)
(***************************************************************************)
EXTENDS Startup, SequenceTheorems, TLAPS

Ids == 0 .. (MaxEvents - 1)

HostEvents == [type : {"control"}, request : Requests, id : Ids]
              \cup [type : {"connect", "other"}]

Labels == {"none", "test", "fetch", "connect", "request", "join", "transfer",
           "write", "stall", "read", "forward", "ended"}

(* TypeOK, and the types it leaves open. *)
RelayTypes ==
  /\ TypeOK
  /\ events \in Seq(HostEvents)
  /\ answers \in Seq([id : Ids, what : {"data", "stall", "ack"}])
  /\ forwarded \in Seq(Ids)
  /\ ep0 \in [pc : Labels, event : HostEvents \cup {NoEvent}]

(* The thread of endpoint zero has a request and has not answered it. *)
Serving == ep0.pc \in {"request", "join", "transfer", "write", "stall", "read"}

(* It has told the device, but not the host. *)
Told == ep0.pc \in {"write", "stall"}

(* The one request the host waits for is in the queue, or being served. *)
QueueInv ==
  /\ \A k \in DOMAIN events :
       events[k].type = "control" => events[k].id = waiting /\ ~Serving
  /\ \A j, k \in DOMAIN events :
       events[j].type = "control" /\ events[k].type = "control" => j = k
  /\ Serving => ep0.event.id = waiting
  /\ waiting # -1 => Serving \/ \E k \in DOMAIN events : events[k].type = "control"

(* Ids rise: what was answered or forwarded came before what is waited for, and
   a request that is acknowledged but not yet forwarded came in between. *)
OrderInv ==
  /\ \A j, k \in DOMAIN answers : j < k => answers[j].id < answers[k].id
  /\ \A j, k \in DOMAIN forwarded : j < k => forwarded[j] < forwarded[k]
  /\ \A j \in DOMAIN answers :
       /\ answers[j].id < caused
       /\ waiting # -1 => answers[j].id < waiting
  /\ \A k \in DOMAIN forwarded :
       /\ forwarded[k] < caused
       /\ waiting # -1 => forwarded[k] < waiting \/ (Told /\ forwarded[k] = waiting)
       /\ ep0.pc = "forward" => forwarded[k] < ep0.event.id
  /\ waiting < caused
  /\ ep0.pc = "forward" => /\ ep0.event.id < caused
                           /\ waiting # -1 => ep0.event.id < waiting

(* Whoever was told is, or will be in this turn, answered, and the reverse. *)
AnswerInv ==
  /\ \A k \in DOMAIN forwarded :
       \/ \E j \in DOMAIN answers : answers[j].id = forwarded[k]
       \/ Told /\ forwarded[k] = ep0.event.id
  /\ \A j \in DOMAIN answers : answers[j].what # "ack" =>
       \E k \in DOMAIN forwarded : forwarded[k] = answers[j].id
  /\ Told => \E k \in DOMAIN forwarded : forwarded[k] = ep0.event.id
  /\ ep0.pc = "forward" =>
       \E j \in DOMAIN answers : answers[j].id = ep0.event.id

(* Where the event thread is tells what the gadget and the other thread are. *)
ThreadInv ==
  /\ ~stopped => keepRunning
  /\ evt \in {"init", "create"} => ep0.pc = "none"
  /\ fd = CASE evt = "init" -> "idle"
            [] evt = "ended" -> "closed"
            [] OTHER -> "running"
  /\ evt \in {"close", "ended"} => stopped

(* main starts the threads only after initialize() has returned, and what that
   returned tells whether all of its calls were made. *)
StartupInv ==
  /\ main \in {"initialize", "start", "wait", "return"}
  /\ IF main = "initialize" THEN result = -1 ELSE result \in {0, 1}
  /\ result = 0 => todo = <<>>
  /\ ~Started => evt = "init"
  /\ wild => result = 1

RelayInv == RelayTypes /\ QueueInv /\ OrderInv /\ AnswerInv /\ ThreadInv

-----------------------------------------------------------------------------
(* What Append does to an element and to the positions. *)
LEMMA Appended ==
  ASSUME NEW S, NEW s \in Seq(S), NEW x \in S
  PROVE  /\ Append(s, x) \in Seq(S)
         /\ DOMAIN s = 1 .. Len(s)
         /\ DOMAIN Append(s, x) = 1 .. (Len(s) + 1)
         /\ Append(s, x)[Len(s) + 1] = x
         /\ \A k \in DOMAIN s : Append(s, x)[k] = s[k]
         /\ Len(s) \in Nat
BY AppendProperties, LenProperties

(* What the tail of a queue has. *)
LEMMA Dequeued ==
  ASSUME NEW S, NEW s \in Seq(S), s # <<>>
  PROVE  /\ Head(s) \in S /\ Head(s) = s[1]
         /\ Tail(s) \in Seq(S)
         /\ DOMAIN s = 1 .. Len(s) /\ 1 \in DOMAIN s
         /\ Len(s) \in Nat
         /\ \A k \in DOMAIN Tail(s) : k + 1 \in DOMAIN s /\ Tail(s)[k] = s[k + 1] /\ k \in Nat /\ k > 0
         /\ \A k \in DOMAIN s : k # 1 => k - 1 \in DOMAIN Tail(s) /\ Tail(s)[k - 1] = s[k]
<1>1. Len(s) \in Nat /\ Len(s) > 0 /\ DOMAIN s = 1 .. Len(s)
  BY EmptySeq, LenProperties
<1>2. Len(Tail(s)) = Len(s) - 1 /\ Tail(s) \in Seq(S)
      /\ \A i \in 1 .. Len(Tail(s)) : Tail(s)[i] = s[i + 1]
  BY HeadTailProperties
<1>3. DOMAIN Tail(s) = 1 .. Len(Tail(s))
  BY <1>2, LenProperties
<1> QED  BY <1>1, <1>2, <1>3, HeadTailProperties

(* Nothing has happened, and no thread but main exists. *)
LEMMA InitEstablishes == Init => RelayInv
<1> SUFFICES ASSUME Init PROVE RelayInv
  OBVIOUS
<1> USE RelayAssumption DEF Init
<1>1. TypeOK
  <2>1. ep0.pc = "none" /\ ep0.event.type = "none"
    BY DEF NoEvent
  <2>2. waiting \in -1 .. (MaxEvents - 1) /\ caused \in 0 .. MaxEvents
    OBVIOUS
  <2> QED  BY <2>1, <2>2 DEF TypeOK
<1>2. /\ events \in Seq(HostEvents)
      /\ answers \in Seq([id : Ids, what : {"data", "stall", "ack"}])
      /\ forwarded \in Seq(Ids)
  BY EmptySeq
<1>3. ep0 \in [pc : Labels, event : HostEvents \cup {NoEvent}]
  BY DEF Labels
<1>4. DOMAIN events = {} /\ DOMAIN answers = {} /\ DOMAIN forwarded = {}
  OBVIOUS
<1>5. QueueInv /\ OrderInv /\ AnswerInv /\ ThreadInv
  BY <1>4 DEF QueueInv, OrderInv, AnswerInv, ThreadInv, Serving, Told
<1> QED  BY <1>1, <1>2, <1>3, <1>5 DEF RelayInv, RelayTypes


(* exit() changes nothing but alive; so does a stuttering step. *)
LEMMA KeepsExit ==
  ASSUME RelayInv, Exit \/ UNCHANGED vars
  PROVE  RelayInv'
<1>1. /\ UNCHANGED <<keepRunning, stopped, fd, events, caused, waiting, evt, ep0, worker, answers, forwarded>>
      /\ alive' \in BOOLEAN
  BY DEF Exit, vars, procVars, busVars, logVars, RelayInv, RelayTypes, TypeOK
<1>2. RelayTypes'
  BY <1>1 DEF RelayInv, RelayTypes, TypeOK
<1>3. QueueInv' /\ OrderInv' /\ AnswerInv' /\ ThreadInv'
  BY <1>1 DEF RelayInv, QueueInv, OrderInv, AnswerInv, ThreadInv, Serving, Told
<1> QED  BY <1>2, <1>3 DEF RelayInv

(* stop() clears keepRunning. *)
LEMMA KeepsStop ==
  ASSUME RelayInv, Stop
  PROVE  RelayInv'
<1>1. /\ UNCHANGED <<alive, fd, events, caused, waiting, evt, ep0, worker, answers, forwarded>>
      /\ stopped' = TRUE /\ keepRunning' = FALSE
  BY DEF Stop, busVars, logVars
<1>2. RelayTypes'
  BY <1>1 DEF RelayInv, RelayTypes, TypeOK
<1>3. QueueInv' /\ OrderInv' /\ AnswerInv' /\ ThreadInv'
  BY <1>1 DEF RelayInv, QueueInv, OrderInv, AnswerInv, ThreadInv, Serving, Told
<1> QED  BY <1>2, <1>3 DEF RelayInv

(* The gadget runs from here on. *)
LEMMA KeepsEvtInit ==
  ASSUME RelayInv, EvtInit
  PROVE  RelayInv'
<1> USE RelayAssumption DEF RelayInv, EvtInit, procVars, busVars, logVars
<1>1. RelayTypes'
  BY DEF RelayTypes, TypeOK, Labels, NoEvent, HostEvents, Ids
<1>2. QueueInv'
  BY DEF RelayTypes, QueueInv, Serving
<1>3. OrderInv'
  BY DEF RelayTypes, OrderInv, Told, Serving, Ids
<1>4. AnswerInv'
  BY DEF RelayTypes, AnswerInv, Told
<1>5. ThreadInv'
  BY DEF RelayTypes, TypeOK, ThreadInv
<1> QED  BY <1>1, <1>2, <1>3, <1>4, <1>5

(* The thread of endpoint zero exists from here on. *)
LEMMA KeepsEvtCreate ==
  ASSUME RelayInv, EvtCreate
  PROVE  RelayInv'
<1>1. /\ UNCHANGED <<alive, keepRunning, stopped, fd, events, caused, waiting, worker, answers, forwarded>>
      /\ evt = "create" /\ evt' = "loop"
      /\ ep0.pc = "none" /\ ep0'.pc = "test" /\ ep0'.event = ep0.event
      /\ ep0' \in [pc : Labels, event : HostEvents \cup {NoEvent}]
      /\ ep0.event.type = "none"
  BY DEF EvtCreate, procVars, busVars, logVars, RelayInv, RelayTypes, TypeOK, ThreadInv, Labels
<1>2. RelayTypes'
  BY <1>1 DEF RelayInv, RelayTypes, TypeOK
<1>3. QueueInv' /\ OrderInv' /\ AnswerInv'
  BY <1>1 DEF RelayInv, QueueInv, OrderInv, AnswerInv, Serving, Told
<1>4. ThreadInv'
  BY <1>1 DEF RelayInv, ThreadInv
<1> QED  BY <1>2, <1>3, <1>4 DEF RelayInv

(* The event thread leaves its loop only once it was stopped. *)
LEMMA KeepsEvtLoop ==
  ASSUME RelayInv, EvtLoop
  PROVE  RelayInv'
<1> USE RelayAssumption DEF RelayInv, EvtLoop, procVars, busVars, logVars
<1>1. RelayTypes'
  BY DEF RelayTypes, TypeOK, Labels, NoEvent, HostEvents, Ids
<1>2. QueueInv'
  BY DEF RelayTypes, QueueInv, Serving
<1>3. OrderInv'
  BY DEF RelayTypes, OrderInv, Told, Serving, Ids
<1>4. AnswerInv'
  BY DEF RelayTypes, AnswerInv, Told
<1>5. ThreadInv'
  BY DEF RelayTypes, TypeOK, ThreadInv
<1> QED  BY <1>1, <1>2, <1>3, <1>4, <1>5

(* The gadget is given back. *)
LEMMA KeepsEvtClose ==
  ASSUME RelayInv, EvtClose
  PROVE  RelayInv'
<1> USE RelayAssumption DEF RelayInv, EvtClose, procVars, busVars, logVars
<1>1. RelayTypes'
  BY DEF RelayTypes, TypeOK, Labels, NoEvent, HostEvents, Ids
<1>2. QueueInv'
  BY DEF RelayTypes, QueueInv, Serving
<1>3. OrderInv'
  BY DEF RelayTypes, OrderInv, Told, Serving, Ids
<1>4. AnswerInv'
  BY DEF RelayTypes, AnswerInv, Told
<1>5. ThreadInv'
  BY DEF RelayTypes, TypeOK, ThreadInv
<1> QED  BY <1>1, <1>2, <1>3, <1>4, <1>5

(* The loop of endpoint zero. *)
LEMMA KeepsEp0Test ==
  ASSUME RelayInv, Ep0Test
  PROVE  RelayInv'
<1> USE RelayAssumption DEF RelayInv, Ep0Test, Ep0Moves, procVars, busVars, logVars
<1>1. RelayTypes'
  BY DEF RelayTypes, TypeOK, Labels, NoEvent, HostEvents, Ids
<1>2. QueueInv'
  BY DEF RelayTypes, QueueInv, Serving
<1>3. OrderInv'
  BY DEF RelayTypes, OrderInv, Told, Serving, Ids
<1>4. AnswerInv'
  BY DEF RelayTypes, AnswerInv, Told
<1>5. ThreadInv'
  BY DEF RelayTypes, TypeOK, ThreadInv
<1> QED  BY <1>1, <1>2, <1>3, <1>4, <1>5

(* CONNECT is no request. *)
LEMMA KeepsEp0Connect ==
  ASSUME RelayInv, Ep0Connect
  PROVE  RelayInv'
<1> USE RelayAssumption DEF RelayInv, Ep0Connect, Ep0Ioctl, procVars, busVars, logVars
<1>1. RelayTypes'
  BY DEF RelayTypes, TypeOK, Labels, NoEvent, HostEvents, Ids
<1>2. QueueInv'
  BY DEF RelayTypes, QueueInv, Serving
<1>3. OrderInv'
  BY DEF RelayTypes, OrderInv, Told, Serving, Ids
<1>4. AnswerInv'
  BY DEF RelayTypes, AnswerInv, Told
<1>5. ThreadInv'
  BY DEF RelayTypes, TypeOK, ThreadInv
<1> QED  BY <1>1, <1>2, <1>3, <1>4, <1>5

(* A request is about to be answered, or forwarded first. *)
LEMMA KeepsEp0Request ==
  ASSUME RelayInv, Ep0Request
  PROVE  RelayInv'
<1> USE RelayAssumption DEF RelayInv, Ep0Request, Ep0Moves, NextOf, procVars, busVars, logVars
<1>1. RelayTypes'
  BY DEF RelayTypes, TypeOK, Labels, NoEvent, HostEvents, Ids
<1>2. QueueInv'
  BY DEF RelayTypes, QueueInv, Serving
<1>3. OrderInv'
  BY DEF RelayTypes, OrderInv, Told, Serving, Ids
<1>4. AnswerInv'
  BY DEF RelayTypes, AnswerInv, Told
<1>5. ThreadInv'
  BY DEF RelayTypes, TypeOK, ThreadInv
<1> QED  BY <1>1, <1>2, <1>3, <1>4, <1>5

(* The workers have ended. *)
LEMMA KeepsEp0Join ==
  ASSUME RelayInv, Ep0Join
  PROVE  RelayInv'
<1> USE RelayAssumption DEF RelayInv, Ep0Join, Ep0Moves, NextOf, procVars, busVars, logVars
<1>1. RelayTypes'
  BY DEF RelayTypes, TypeOK, Labels, NoEvent, HostEvents, Ids
<1>2. QueueInv'
  BY DEF RelayTypes, QueueInv, Serving
<1>3. OrderInv'
  BY DEF RelayTypes, OrderInv, Told, Serving, Ids
<1>4. AnswerInv'
  BY DEF RelayTypes, AnswerInv, Told
<1>5. ThreadInv'
  BY DEF RelayTypes, TypeOK, ThreadInv
<1> QED  BY <1>1, <1>2, <1>3, <1>4, <1>5

(* An event of type "control" is a request with its number. *)
LEMMA EventFields ==
  ASSUME NEW h \in HostEvents
  PROVE  /\ h.type \in {"control", "connect", "other"}
         /\ h.type = "control" => h.request \in Requests /\ h.id \in Ids
BY DEF HostEvents

(* The thread of endpoint zero has a request between taking and finishing it. *)
LEMMA RequestInHand ==
  ASSUME RelayInv, Serving \/ ep0.pc = "forward"
  PROVE  /\ ep0.event \in HostEvents /\ ep0.event.type = "control"
         /\ ep0.event.request \in Requests /\ ep0.event.id \in Ids
<1>1. ep0.event.type = "control" /\ ep0.event \in HostEvents \cup {NoEvent}
  BY DEF RelayInv, RelayTypes, TypeOK, Serving
<1>2. ep0.event \in HostEvents
  BY <1>1 DEF NoEvent
<1> QED  BY <1>1, <1>2, EventFields

(* What is in a sequence. *)
LEMMA Entries ==
  ASSUME NEW S, NEW s \in Seq(S)
  PROVE  \A k \in DOMAIN s : s[k] \in S
BY ElementOfSeq, LenProperties

(* The numbers in the two records of what happened. *)
LEMMA Logged ==
  ASSUME RelayInv
  PROVE  /\ \A j \in DOMAIN answers : answers[j].id \in Ids
         /\ \A k \in DOMAIN forwarded : forwarded[k] \in Ids
<1>1. /\ answers \in Seq([id : Ids, what : {"data", "stall", "ack"}])
      /\ forwarded \in Seq(Ids)
  BY DEF RelayInv, RelayTypes
<1>2. /\ \A j \in DOMAIN answers : answers[j] \in [id : Ids, what : {"data", "stall", "ack"}]
      /\ \A k \in DOMAIN forwarded : forwarded[k] \in Ids
  BY <1>1, Entries
<1> QED  BY <1>2

(* The host asks for something only when nothing is owed to it. *)
LEMMA KeepsHostEvent ==
  ASSUME RelayInv, NEW e \in HostEvents, HostEvent(e),
         e.type = "control" => e.id = caused
  PROVE  RelayInv'
<1> USE RelayAssumption
<1>1. /\ UNCHANGED <<alive, keepRunning, stopped, fd, evt, ep0, worker, answers, forwarded>>
      /\ caused \in Ids /\ caused' = caused + 1 /\ caused' \in 0 .. MaxEvents
      /\ events' = Append(events, e)
      /\ events \in Seq(HostEvents)
      /\ IF e.type = "control" THEN waiting = -1 /\ waiting' = caused
                               ELSE waiting' = waiting
      /\ waiting \in Ids \cup {-1}
  BY DEF HostEvent, procVars, logVars, RelayInv, RelayTypes, TypeOK, Ids
<1>2. /\ DOMAIN events' = 1 .. (Len(events) + 1)
      /\ events' \in Seq(HostEvents)
      /\ DOMAIN events = 1 .. Len(events)
      /\ Len(events) \in Nat
      /\ events'[Len(events) + 1] = e
      /\ \A k \in DOMAIN events : events'[k] = events[k] /\ events[k] \in HostEvents
  BY <1>1, Appended
<1>3. waiting' \in -1 .. (MaxEvents - 1)
  BY <1>1 DEF Ids
<1>4. RelayTypes'
  BY <1>1, <1>2, <1>3 DEF RelayInv, RelayTypes, TypeOK
<1>5. QueueInv'
  <2>1. CASE e.type = "control"
    <3>1. ~Serving
      BY <1>1, <2>1, RequestInHand DEF RelayInv, QueueInv, Ids
    <3>2. \A k \in DOMAIN events : events[k].type # "control"
      BY <1>1, <1>2, <2>1, EventFields DEF RelayInv, QueueInv, Ids
    <3> QED  BY <1>1, <1>2, <2>1, <3>1, <3>2 DEF QueueInv, Serving
  <2>2. CASE e.type # "control"
    BY <1>1, <1>2, <2>2 DEF RelayInv, QueueInv, Serving
  <2> QED  BY <2>1, <2>2
<1>6. OrderInv'
  <2>1. /\ \A j \in DOMAIN answers : answers[j].id \in Int
        /\ \A k \in DOMAIN forwarded : forwarded[k] \in Int
    BY Logged DEF Ids
  <2>2. ep0.pc = "forward" => ep0.event.id \in Int
    BY RequestInHand DEF Ids
  <2>3. caused \in Int /\ waiting \in Int
    BY <1>1 DEF Ids
  <2>4. CASE e.type = "control"
    BY <1>1, <2>1, <2>2, <2>3, <2>4 DEF RelayInv, OrderInv, Told
  <2>5. CASE e.type # "control"
    BY <1>1, <2>1, <2>2, <2>3, <2>5 DEF RelayInv, OrderInv, Told
  <2> QED  BY <2>4, <2>5
<1>7. AnswerInv' /\ ThreadInv'
  BY <1>1 DEF RelayInv, AnswerInv, ThreadInv, Told
<1> QED  BY <1>4, <1>5, <1>6, <1>7 DEF RelayInv

(* The host numbers its requests as it makes them. *)
LEMMA KeepsHost ==
  ASSUME RelayInv, Host
  PROVE  RelayInv'
<1>1. CASE \E r \in Requests :
             HostEvent([type |-> "control", request |-> r, id |-> caused])
  <2>1. PICK r \in Requests :
          HostEvent([type |-> "control", request |-> r, id |-> caused])
    BY <1>1
  <2>2. caused \in Ids
    BY <2>1, RelayAssumption DEF HostEvent, RelayInv, RelayTypes, TypeOK, Ids
  <2>3. [type |-> "control", request |-> r, id |-> caused] \in HostEvents
    BY <2>2 DEF HostEvents
  <2> QED  BY <2>1, <2>3, KeepsHostEvent
<1>2. CASE \E t \in {"connect", "other"} : HostEvent([type |-> t])
  <2>1. PICK t \in {"connect", "other"} : HostEvent([type |-> t])
    BY <1>2
  <2>2. [type |-> t] \in HostEvents /\ [type |-> t].type # "control"
    BY DEF HostEvents
  <2> QED  BY <2>1, <2>2, KeepsHostEvent
<1> QED  BY <1>1, <1>2 DEF Host

(* The one request in the queue becomes the one being served. *)
LEMMA KeepsEp0Fetch ==
  ASSUME RelayInv, Ep0Fetch
  PROVE  RelayInv'
<1> DEFINE h == Head(events)
<1>1. /\ UNCHANGED <<alive, keepRunning, stopped, fd, caused, waiting, evt, worker, answers, forwarded>>
      /\ events \in Seq(HostEvents) /\ events # <<>> /\ events' = Tail(events)
      /\ ep0.pc = "fetch"
  BY DEF Ep0Fetch, procVars, logVars, RelayInv, RelayTypes
<1>2. /\ h \in HostEvents /\ h = events[1] /\ 1 \in DOMAIN events
      /\ events' \in Seq(HostEvents)
      /\ \A k \in DOMAIN events' :
           k + 1 \in DOMAIN events /\ events'[k] = events[k + 1] /\ k \in Nat /\ k > 0
      /\ \A k \in DOMAIN events :
           k # 1 => k - 1 \in DOMAIN events' /\ events'[k - 1] = events[k]
  BY <1>1, Dequeued
<1> HIDE DEF h
<1>3. /\ ep0'.pc = CASE h.type = "connect" -> "connect"
                     [] h.type = "control" -> "request"
                     [] OTHER -> "test"
      /\ h.type \in {"connect", "control"} => ep0'.event = h
      /\ h.type = "other" => ep0'.event = NoEvent
      /\ ep0' \in [pc : Labels, event : HostEvents \cup {NoEvent}]
  BY <1>2, EventFields DEF Ep0Fetch, h, Labels
<1>4. h.type \in {"control", "connect", "other"}
  BY <1>2, EventFields
<1>5. ep0'.event.type = CASE ep0'.pc \in {"none", "test", "fetch", "ended"} -> "none"
                          [] ep0'.pc = "connect" -> "connect"
                          [] OTHER -> "control"
  BY <1>3, <1>4 DEF NoEvent
<1>6. RelayTypes'
  BY <1>1, <1>2, <1>3, <1>5 DEF RelayInv, RelayTypes, TypeOK, Labels
<1>7. QueueInv'
  <2>1. /\ \A k \in DOMAIN events' :
             events'[k].type = "control" => events'[k].id = waiting' /\ ~Serving'
        /\ \A j, k \in DOMAIN events' :
             events'[j].type = "control" /\ events'[k].type = "control" => j = k
        /\ Serving' => ep0'.event.id = waiting'
    BY <1>1, <1>2, <1>3, <1>4 DEF RelayInv, QueueInv, Serving
  <2>2. ASSUME waiting' # -1, ~Serving'
        PROVE  \E k \in DOMAIN events' : events'[k].type = "control"
    <3>1. PICK k \in DOMAIN events : events[k].type = "control"
      BY <1>1, <2>2 DEF RelayInv, QueueInv, Serving
    <3>2. k # 1
      BY <1>2, <1>3, <2>2, <3>1 DEF Serving
    <3> QED  BY <1>2, <3>1, <3>2
  <2> QED  BY <2>1, <2>2 DEF QueueInv
<1>8. OrderInv' /\ AnswerInv' /\ ThreadInv'
  BY <1>1, <1>3, <1>4 DEF RelayInv, OrderInv, AnswerInv, ThreadInv, Told
<1> QED  BY <1>6, <1>7, <1>8 DEF RelayInv

(* The device is asked before the host is answered. *)
LEMMA KeepsEp0Transfer ==
  ASSUME RelayInv, Ep0Transfer
  PROVE  RelayInv'
<1> DEFINE id == ep0.event.id
<1>1. /\ UNCHANGED <<alive, keepRunning, stopped, fd, events, caused, waiting, evt, worker, answers>>
      /\ forwarded' = Append(forwarded, id)
      /\ ep0.pc = "transfer" /\ ep0'.pc \in {"write", "stall"}
      /\ ep0'.event = ep0.event
      /\ ep0' \in [pc : Labels, event : HostEvents \cup {NoEvent}]
  BY DEF Ep0Transfer, Ep0Moves, procVars, busVars, RelayInv, RelayTypes, Labels
<1>2. /\ id \in Ids /\ id = waiting /\ id < caused
      /\ waiting # -1 /\ ep0.event.type = "control"
  BY <1>1, RequestInHand DEF RelayInv, QueueInv, OrderInv, Serving, Ids
<1>3. /\ forwarded' \in Seq(Ids)
      /\ DOMAIN forwarded' = 1 .. (Len(forwarded) + 1)
      /\ DOMAIN forwarded = 1 .. Len(forwarded)
      /\ Len(forwarded) \in Nat
      /\ forwarded'[Len(forwarded) + 1] = id
      /\ \A k \in DOMAIN forwarded : forwarded'[k] = forwarded[k]
  BY <1>1, <1>2, Appended DEF RelayInv, RelayTypes
<1> HIDE DEF id
<1>4. RelayTypes'
  BY <1>1, <1>2, <1>3 DEF RelayInv, RelayTypes, TypeOK
<1>5. QueueInv' /\ ThreadInv'
  BY <1>1 DEF RelayInv, QueueInv, ThreadInv, Serving
<1>6. OrderInv'
  <2>1. \A k \in DOMAIN forwarded : forwarded[k] < id /\ forwarded[k] \in Ids
    BY <1>1, <1>2, Logged DEF RelayInv, OrderInv, Told
  <2>2. \A j, k \in DOMAIN forwarded' : j < k => forwarded'[j] < forwarded'[k]
    BY <1>3, <2>1 DEF RelayInv, OrderInv
  <2>3. \A k \in DOMAIN forwarded' : forwarded'[k] < id \/ forwarded'[k] = id
    BY <1>3, <2>1
  <2>4. \A k \in DOMAIN forwarded' : forwarded'[k] < caused
    BY <1>2, <1>3, <2>1 DEF RelayInv, OrderInv
  <2> QED  BY <1>1, <1>2, <2>2, <2>3, <2>4 DEF RelayInv, OrderInv, Told
<1>7. AnswerInv'
  <2>1. \A k \in DOMAIN forwarded : \E j \in DOMAIN answers : answers[j].id = forwarded[k]
    BY <1>1 DEF RelayInv, AnswerInv, Told
  <2>2. \A j \in DOMAIN answers : answers[j].what # "ack" =>
          \E k \in DOMAIN forwarded' : forwarded'[k] = answers[j].id
    BY <1>3 DEF RelayInv, AnswerInv
  <2>3. \E k \in DOMAIN forwarded' : forwarded'[k] = id
    BY <1>3
  <2> QED  BY <1>1, <1>3, <2>1, <2>2, <2>3 DEF AnswerInv, Told, id
<1> QED  BY <1>4, <1>5, <1>6, <1>7 DEF RelayInv

(* What every answer does. *)
LEMMA Answered ==
  ASSUME RelayInv, NEW from \in {"write", "stall", "read"},
         NEW what \in {"data", "stall", "ack"}, NEW to \in {"test", "forward"},
         Answer(from, what, to)
  PROVE  /\ UNCHANGED <<alive, keepRunning, stopped, fd, events, caused, evt, worker, forwarded>>
         /\ ep0.pc = from /\ waiting' = -1
         /\ ep0'.pc = to
         /\ IF to = "test" THEN ep0'.event.type = "none"
                           ELSE ep0'.event = ep0.event
         /\ ep0' \in [pc : Labels, event : HostEvents \cup {NoEvent}]
         /\ ep0.event.id \in Ids /\ ep0.event.id = waiting /\ ep0.event.id < caused
         /\ waiting # -1 /\ ep0.event.type = "control"
         /\ answers' \in Seq([id : Ids, what : {"data", "stall", "ack"}])
         /\ DOMAIN answers' = 1 .. (Len(answers) + 1)
         /\ DOMAIN answers = 1 .. Len(answers)
         /\ Len(answers) \in Nat
         /\ answers'[Len(answers) + 1].id = ep0.event.id
         /\ answers'[Len(answers) + 1].what = what
         /\ \A j \in DOMAIN answers : answers'[j] = answers[j]
<1>1. /\ UNCHANGED <<alive, keepRunning, stopped, fd, events, caused, evt, worker, forwarded>>
      /\ ep0.pc = from /\ waiting' = -1
      /\ answers' = Append(answers, [id |-> ep0.event.id, what |-> what])
      /\ ep0'.pc = to
      /\ IF to = "test" THEN ep0'.event = NoEvent ELSE ep0'.event = ep0.event
      /\ ep0' \in [pc : Labels, event : HostEvents \cup {NoEvent}]
  BY DEF Answer, procVars, RelayInv, RelayTypes, Labels
<1>2. ep0.event.id \in Ids /\ ep0.event.type = "control"
  BY <1>1, RequestInHand DEF Serving
<1>3. ep0.event.id = waiting /\ waiting # -1 /\ ep0.event.id < caused
  BY <1>1, <1>2 DEF RelayInv, QueueInv, OrderInv, Serving, Ids
<1> DEFINE a == [id |-> ep0.event.id, what |-> what]
<1>4. a \in [id : Ids, what : {"data", "stall", "ack"}]
  BY <1>2
<1>5. a.id = ep0.event.id /\ a.what = what
  OBVIOUS
<1> HIDE DEF a
<1>6. answers \in Seq([id : Ids, what : {"data", "stall", "ack"}])
  BY DEF RelayInv, RelayTypes
<1>7. answers' = Append(answers, a)
  BY <1>1 DEF a
<1>8. /\ answers' \in Seq([id : Ids, what : {"data", "stall", "ack"}])
      /\ DOMAIN answers' = 1 .. (Len(answers) + 1)
      /\ DOMAIN answers = 1 .. Len(answers)
      /\ Len(answers) \in Nat
      /\ answers'[Len(answers) + 1] = a
      /\ \A j \in DOMAIN answers : answers'[j] = answers[j]
  BY <1>4, <1>6, <1>7, Appended
<1> QED  BY <1>1, <1>2, <1>3, <1>5, <1>8 DEF NoEvent

(* An answer comes after all others, and is owed. *)
LEMMA AnswersInOrder ==
  ASSUME RelayInv, NEW from \in {"write", "stall", "read"},
         NEW what \in {"data", "stall", "ack"}, NEW to \in {"test", "forward"},
         Answer(from, what, to)
  PROVE  /\ \A j, k \in DOMAIN answers' : j < k => answers'[j].id < answers'[k].id
         /\ \A j \in DOMAIN answers' : answers'[j].id < caused'
<1> DEFINE id == ep0.event.id
<1>1. \A j \in DOMAIN answers : answers[j].id < id /\ answers[j].id \in Ids
  BY Answered, Logged DEF RelayInv, OrderInv
<1>2. \A j, k \in DOMAIN answers : j < k => answers[j].id < answers[k].id
  BY DEF RelayInv, OrderInv
<1>3. /\ DOMAIN answers' = 1 .. (Len(answers) + 1)
      /\ DOMAIN answers = 1 .. Len(answers) /\ Len(answers) \in Nat
      /\ answers'[Len(answers) + 1].id = id
      /\ \A j \in DOMAIN answers : answers'[j] = answers[j]
      /\ id < caused /\ caused' = caused
  BY Answered
<1>4. \A j \in DOMAIN answers : answers[j].id < caused
  BY DEF RelayInv, OrderInv
<1> HIDE DEF id
<1> QED  BY <1>1, <1>2, <1>3, <1>4

(* The types of what an answer changes. *)
LEMMA AnswerTypes ==
  ASSUME RelayInv, NEW from \in {"write", "stall", "read"},
         NEW what \in {"data", "stall", "ack"}, NEW to \in {"test", "forward"},
         Answer(from, what, to)
  PROVE  RelayTypes'
<1>1. /\ ep0'.event.type = IF to = "test" THEN "none" ELSE "control"
      /\ -1 \in -1 .. (MaxEvents - 1)
  BY Answered, RelayAssumption
<1> QED  BY <1>1, Answered DEF RelayInv, RelayTypes, TypeOK

(* Data or a STALL: the device was told before. *)
LEMMA KeepsEp0Write ==
  ASSUME RelayInv, Ep0Write \/ Ep0Stall
  PROVE  RelayInv'
<1>1. PICK from \in {"write", "stall"}, what \in {"data", "stall"} :
        Answer(from, what, "test")
  BY DEF Ep0Write, Ep0Stall
<1> DEFINE id == ep0.event.id
<1>2. /\ UNCHANGED <<keepRunning, stopped, fd, events, caused, evt, forwarded>>
      /\ ep0.pc \in {"write", "stall"} /\ waiting' = -1 /\ ep0'.pc = "test"
      /\ id \in Ids /\ id = waiting /\ id < caused /\ waiting # -1
      /\ DOMAIN answers' = 1 .. (Len(answers) + 1)
      /\ DOMAIN answers = 1 .. Len(answers) /\ Len(answers) \in Nat
      /\ answers'[Len(answers) + 1].id = id
      /\ \A j \in DOMAIN answers : answers'[j] = answers[j]
  BY <1>1, Answered
<1>3. RelayTypes'
  BY <1>1, AnswerTypes
<1>4. QueueInv' /\ ThreadInv'
  <2>1. \A k \in DOMAIN events : events[k].type # "control"
    BY <1>2 DEF RelayInv, QueueInv, Serving
  <2> QED  BY <1>2, <2>1 DEF RelayInv, QueueInv, ThreadInv, Serving
<1>5. OrderInv'
  <2>1. waiting' < caused'
    BY <1>2, RelayAssumption DEF Ids, RelayInv, RelayTypes, TypeOK
  <2>2. /\ \A j, k \in DOMAIN answers' : j < k => answers'[j].id < answers'[k].id
        /\ \A j \in DOMAIN answers' : answers'[j].id < caused'
    BY <1>1, AnswersInOrder
  <2>3. \A j, k \in DOMAIN forwarded : j < k => forwarded[j] < forwarded[k]
    BY DEF RelayInv, OrderInv
  <2>4. \A k \in DOMAIN forwarded : forwarded[k] < caused
    BY DEF RelayInv, OrderInv
  <2> QED  BY <1>2, <2>1, <2>2, <2>3, <2>4 DEF OrderInv
<1>6. AnswerInv'
  <2>1. \E k \in DOMAIN forwarded : forwarded[k] = id
    BY <1>2 DEF RelayInv, AnswerInv, Told
  <2>2. \A k \in DOMAIN forwarded :
          forwarded[k] = id \/ \E j \in DOMAIN answers : answers[j].id = forwarded[k]
    BY DEF RelayInv, AnswerInv
  <2>3. \A k \in DOMAIN forwarded : \E j \in DOMAIN answers' : answers'[j].id = forwarded[k]
    BY <1>2, <2>2
  <2>4. \A j \in DOMAIN answers' : answers'[j].what # "ack" =>
          \E k \in DOMAIN forwarded : forwarded[k] = answers'[j].id
    BY <1>2, <2>1 DEF RelayInv, AnswerInv
  <2> QED  BY <1>2, <2>3, <2>4 DEF AnswerInv, Told
<1> QED  BY <1>3, <1>4, <1>5, <1>6 DEF RelayInv

(* The acknowledgement: the device has not been told yet. *)
LEMMA KeepsEp0Read ==
  ASSUME RelayInv, Ep0Read
  PROVE  RelayInv'
<1>1. Answer("read", "ack", "forward")
  BY DEF Ep0Read
<1> DEFINE id == ep0.event.id
<1>2. /\ UNCHANGED <<keepRunning, stopped, fd, events, caused, evt, forwarded>>
      /\ ep0.pc = "read" /\ waiting' = -1 /\ ep0'.pc = "forward" /\ ep0'.event = ep0.event
      /\ id \in Ids /\ id = waiting /\ id < caused /\ waiting # -1
      /\ DOMAIN answers' = 1 .. (Len(answers) + 1)
      /\ DOMAIN answers = 1 .. Len(answers) /\ Len(answers) \in Nat
      /\ answers'[Len(answers) + 1].id = id
      /\ answers'[Len(answers) + 1].what = "ack"
      /\ \A j \in DOMAIN answers : answers'[j] = answers[j]
  BY <1>1, Answered
<1>3. RelayTypes'
  BY <1>1, AnswerTypes
<1>4. QueueInv' /\ ThreadInv'
  <2>1. \A k \in DOMAIN events : events[k].type # "control"
    BY <1>2 DEF RelayInv, QueueInv, Serving
  <2> QED  BY <1>2, <2>1 DEF RelayInv, QueueInv, ThreadInv, Serving
<1>5. OrderInv'
  <2>1. waiting' < caused'
    BY <1>2, RelayAssumption DEF Ids, RelayInv, RelayTypes, TypeOK
  <2>2. \A k \in DOMAIN forwarded : forwarded[k] < id /\ forwarded[k] < caused
    BY <1>2 DEF RelayInv, OrderInv, Told
  <2>3. /\ \A j, k \in DOMAIN answers' : j < k => answers'[j].id < answers'[k].id
        /\ \A j \in DOMAIN answers' : answers'[j].id < caused'
    BY <1>1, AnswersInOrder
  <2>4. \A j, k \in DOMAIN forwarded : j < k => forwarded[j] < forwarded[k]
    BY DEF RelayInv, OrderInv
  <2> QED  BY <1>2, <2>1, <2>2, <2>3, <2>4 DEF OrderInv
<1>6. AnswerInv'
  <2>1. \A k \in DOMAIN forwarded : \E j \in DOMAIN answers : answers[j].id = forwarded[k]
    BY <1>2 DEF RelayInv, AnswerInv, Told
  <2>2. \A k \in DOMAIN forwarded : \E j \in DOMAIN answers' : answers'[j].id = forwarded[k]
    BY <1>2, <2>1
  <2>3. \A j \in DOMAIN answers' : answers'[j].what # "ack" =>
          \E k \in DOMAIN forwarded : forwarded[k] = answers'[j].id
    BY <1>2 DEF RelayInv, AnswerInv
  <2>4. \E j \in DOMAIN answers' : answers'[j].id = id
    BY <1>2
  <2> QED  BY <1>2, <2>2, <2>3, <2>4 DEF AnswerInv, Told
<1> QED  BY <1>3, <1>4, <1>5, <1>6 DEF RelayInv

(* The device is told what was acknowledged. *)
LEMMA KeepsEp0Forward ==
  ASSUME RelayInv, Ep0Forward
  PROVE  RelayInv'
<1> DEFINE id == ep0.event.id
<1>1. /\ UNCHANGED <<alive, keepRunning, stopped, fd, events, caused, waiting, evt, worker, answers>>
      /\ forwarded' = Append(forwarded, id)
      /\ ep0.pc = "forward" /\ ep0'.pc = "test" /\ ep0'.event.type = "none"
      /\ ep0' \in [pc : Labels, event : HostEvents \cup {NoEvent}]
  BY DEF Ep0Forward, procVars, busVars, RelayInv, RelayTypes, Labels, NoEvent
<1>2. /\ id \in Ids /\ id < caused /\ waiting # -1 => id < waiting
      /\ \A k \in DOMAIN forwarded : forwarded[k] < id /\ forwarded[k] < caused
      /\ \E j \in DOMAIN answers : answers[j].id = id
  BY <1>1, RequestInHand DEF RelayInv, OrderInv, AnswerInv
<1>3. /\ forwarded' \in Seq(Ids)
      /\ DOMAIN forwarded' = 1 .. (Len(forwarded) + 1)
      /\ DOMAIN forwarded = 1 .. Len(forwarded)
      /\ Len(forwarded) \in Nat
      /\ forwarded'[Len(forwarded) + 1] = id
      /\ \A k \in DOMAIN forwarded : forwarded'[k] = forwarded[k]
  BY <1>1, <1>2, Appended, RequestInHand DEF RelayInv, RelayTypes
<1> HIDE DEF id
<1>4. RelayTypes'
  BY <1>1, <1>3 DEF RelayInv, RelayTypes, TypeOK
<1>5. QueueInv' /\ ThreadInv'
  BY <1>1 DEF RelayInv, QueueInv, ThreadInv, Serving
<1>6. OrderInv'
  <2>1. \A k \in DOMAIN forwarded : forwarded[k] \in Ids /\ (waiting # -1 => forwarded[k] < waiting)
    BY <1>1, Logged DEF RelayInv, OrderInv, Told
  <2>2. id < caused /\ (waiting # -1 => id < waiting)
    BY <1>1 DEF RelayInv, OrderInv, id
  <2>3. \A j, k \in DOMAIN forwarded' : j < k => forwarded'[j] < forwarded'[k]
    BY <1>2, <1>3, <2>1 DEF RelayInv, OrderInv
  <2>4. \A k \in DOMAIN forwarded' :
          forwarded'[k] < caused /\ (waiting # -1 => forwarded'[k] < waiting)
    BY <1>2, <1>3, <2>1, <2>2
  <2> QED  BY <1>1, <2>3, <2>4 DEF RelayInv, OrderInv
<1>7. AnswerInv'
  <2>1. \A k \in DOMAIN forwarded : \E j \in DOMAIN answers : answers[j].id = forwarded[k]
    BY <1>1 DEF RelayInv, AnswerInv, Told
  <2>2. \A k \in DOMAIN forwarded' : \E j \in DOMAIN answers : answers[j].id = forwarded'[k]
    BY <1>2, <1>3, <2>1
  <2>3. \A j \in DOMAIN answers : answers[j].what # "ack" =>
          \E k \in DOMAIN forwarded' : forwarded'[k] = answers[j].id
    BY <1>3 DEF RelayInv, AnswerInv
  <2> QED  BY <1>1, <2>2, <2>3 DEF AnswerInv, Told
<1> QED  BY <1>4, <1>5, <1>6, <1>7 DEF RelayInv

(* Every step of the threads, the host and stop(). *)
LEMMA NextKeeps ==
  ASSUME RelayInv, Next \/ Exit \/ UNCHANGED vars
  PROVE  RelayInv'
<1>1. CASE Host \/ Stop
  BY <1>1, KeepsHost, KeepsStop
<1>2. CASE Event
  BY <1>2, KeepsEvtInit, KeepsEvtCreate, KeepsEvtLoop, KeepsEvtClose DEF Event
<1>3. CASE Ep0
  BY <1>3, KeepsEp0Test, KeepsEp0Fetch, KeepsEp0Connect, KeepsEp0Request,
     KeepsEp0Transfer, KeepsEp0Write, KeepsEp0Read, KeepsEp0Forward DEF Ep0
<1>4. CASE Ep0Join \/ Ep0Exit \/ WorkerExit \/ Exit \/ UNCHANGED vars
  BY <1>4, KeepsEp0Join, KeepsExit DEF Ep0Exit, WorkerExit
<1> QED  BY <1>1, <1>2, <1>3, <1>4 DEF Next

-----------------------------------------------------------------------------
(* main does nothing to the threads but start and stop them, and end them. *)
LEMMA StartupIsNext ==
  ASSUME [StartupNext]_startupVars
  PROVE  Next \/ Stop \/ Exit \/ UNCHANGED vars
<1>1. CASE UNCHANGED startupVars
  BY <1>1 DEF startupVars
<1>2. CASE Main
  BY <1>2 DEF Main, Initialize, InitializeReturns, InitializeFails, Returns,
              Start, Key, Return
<1>3. CASE Undefined
  BY <1>3 DEF Undefined, UsesUnfilled
<1>4. CASE Threads
  BY <1>4 DEF Threads, Ep0Filled, Next
<1> QED  BY <1>1, <1>2, <1>3, <1>4 DEF StartupNext

(* The threads' part of a step that main or a thread makes. *)
LEMMA StartupKeeps ==
  ASSUME RelayInv, [StartupNext]_startupVars
  PROVE  RelayInv'
BY StartupIsNext, NextKeeps, KeepsStop

(* Nothing but the event thread moves it, and it is main that creates it. *)
LEMMA EventThreadStarted ==
  ASSUME StartupInv, [StartupNext]_startupVars
  PROVE  Started \/ UNCHANGED evt
<1>1. CASE UNCHANGED startupVars
  BY <1>1 DEF startupVars, vars
<1>2. CASE Main
  BY <1>2 DEF Main, Initialize, InitializeReturns, InitializeFails, Returns,
              Start, Key, Return, Exit, Stop, vars
<1>3. CASE Undefined \/ Threads
  BY <1>3 DEF Undefined, Threads
<1> QED  BY <1>1, <1>2, <1>3 DEF StartupNext

(* main's own variables, step by step. *)
LEMMA MainKeeps ==
  ASSUME RelayInv, StartupInv, [StartupNext]_startupVars
  PROVE  StartupInv'
<1>1. CASE UNCHANGED startupVars
  BY <1>1 DEF startupVars, vars, mainVars, StartupInv, Started
<1>2. CASE Initialize
  BY <1>2 DEF Initialize, vars, StartupInv, Started
<1>3. CASE InitializeReturns
  BY <1>3 DEF InitializeReturns, Returns, vars, StartupInv, Started
<1>4. CASE InitializeFails
  BY <1>4 DEF InitializeFails, Returns, Exit, vars, mainVars, StartupInv, Started
<1>5. CASE Start \/ Key
  BY <1>5 DEF Start, Key, Stop, vars, StartupInv, Started
<1>6. CASE Return
  BY <1>6 DEF Return, Exit, mainVars, StartupInv, Started
<1>7. CASE Undefined
  <2>1. Started /\ todo # <<>> /\ wild' = TRUE
        /\ UNCHANGED <<main, todo, result, evt>>
    BY <1>7 DEF Undefined, UsesUnfilled, Ep0Lacks, EventLacks, Left, Exit
  <2> QED  BY <2>1 DEF StartupInv, Started
<1>8. CASE Threads
  BY <1>8 DEF Threads, mainVars, StartupInv, Started
<1> QED  BY <1>1, <1>2, <1>3, <1>4, <1>5, <1>6, <1>7, <1>8 DEF StartupNext, Main

(* Both invariants hold from the start of the program on. *)
THEOREM RelayInvariance == StartupSpec => [](RelayInv /\ StartupInv)
<1>1. StartupInit => RelayInv /\ StartupInv
  BY InitEstablishes DEF StartupInit, StartupInv, Init
<1>2. RelayInv /\ StartupInv /\ [StartupNext]_startupVars => (RelayInv /\ StartupInv)'
  BY StartupKeeps, MainKeeps
<1> QED  BY <1>1, <1>2, PTL DEF StartupSpec

(* For any number of requests: every variable has its type. *)
THEOREM RelayTypeCorrect == StartupSpec => []TypeOK
<1>1. RelayInv => TypeOK
  BY DEF RelayInv, RelayTypes
<1> QED  BY <1>1, RelayInvariance, PTL

(* For any number of requests of any kind: no return of ep0Loop leaves a
   request without an answer, and none gets two. *)
THEOREM AnsweredOnce == StartupSpec => []OneAnswerEach
<1>1. RelayInv => OneAnswerEach
  BY DEF RelayInv, QueueInv, OrderInv, AnswerInv, Serving, Told, OneAnswerEach
<1> QED  BY <1>1, RelayInvariance, PTL

(* For any number of requests of any kind: the device gets each once, in order,
   and before the host has data for it. *)
THEOREM DeviceGetsInOrder == StartupSpec => []DeviceInOrder
<1>1. RelayInv => DeviceInOrder
  BY DEF RelayInv, OrderInv, AnswerInv, DeviceInOrder
<1> QED  BY <1>1, RelayInvariance, PTL

(* Whenever stop() comes: endpoint zero was served by a running gadget. *)
THEOREM GadgetRuns == StartupSpec => []ServesRunningGadget
<1>1. RelayInv => ServesRunningGadget
  BY DEF RelayInv, ThreadInv, RelayTypes, TypeOK, ServesRunningGadget
<1> QED  BY <1>1, RelayInvariance, PTL

(* For a device of any shape: no thread uses a record that was never filled,
   unless initialize() has failed and main went on. *)
THEOREM NothingUnfilled == StartupSpec => []RecordsFilled
<1>1. RelayInv /\ StartupInv => RecordsFilled
  BY DEF RelayInv, ThreadInv, StartupInv, Started, RecordsFilled
<1> QED  BY <1>1, RelayInvariance, PTL

=============================================================================
