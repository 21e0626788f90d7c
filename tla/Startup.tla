------------------------------- MODULE Startup -------------------------------
(***************************************************************************)
(* main of passthrough.cpp, and initialize(), which fills the records that  *)
(* the threads of module ControlRelay read.  main looks neither at what     *)
(* initialize() returns nor at the threads when it ends.                    *)
(***************************************************************************)
EXTENDS ControlRelay, FiniteSets, SequencesExt

CONSTANT Alternates   \* how many alternates each configuration has, in all

ASSUME StartupAssumption == \A c \in DOMAIN Alternates : Alternates[c] \in Nat

VARIABLES
  main,     \* "initialize", "start", "wait", "return"
  todo,     \* the calls that initialize() still has to make
  result,   \* what initialize() has returned, -1 before
  wild      \* a thread has used a record that was never filled

mainVars == <<main, todo, result, wild>>

\* Three of the calls make initialize() return 1, the others end the process.
Fails(call) == IF call.do \in {"init", "list", "claim"} THEN "return" ELSE "exit"

Call(name) == [do |-> name]

\* The device, its descriptor, and for each configuration its descriptor and a
\* claim for every alternate.
Calls ==
  <<Call("usb_raw_open"), Call("init"), Call("list"), Call("find"),
    Call("open"), Call("detach"), Call("descriptor")>>
  \o FlattenSeq([c \in DOMAIN Alternates |->
       <<Call("config")>> \o [a \in 1 .. Alternates[c] |-> Call("claim")]])

StartupInit ==
  /\ Init
  /\ main = "initialize"
  /\ todo = Calls
  /\ result = -1
  /\ wild = FALSE

-----------------------------------------------------------------------------
(* main *)

Initialize ==
  /\ main = "initialize"
  /\ todo # <<>>
  /\ todo' = Tail(todo)
  /\ UNCHANGED <<vars, main, result, wild>>

Returns(value) ==
  /\ main' = "start"
  /\ result' = value
  /\ UNCHANGED <<vars, todo, wild>>

InitializeReturns == main = "initialize" /\ todo = <<>> /\ Returns(0)

\* Mistake: the error is printed and forgotten.
InitializeFailsReturnsZero ==
  /\ main = "initialize"
  /\ todo # <<>>
  /\ IF Fails(Head(todo)) = "return" THEN Returns(0)
                                    ELSE Exit /\ UNCHANGED mainVars

InitializeFails ==
  /\ main = "initialize"
  /\ todo # <<>>
  /\ IF Fails(Head(todo)) = "return" THEN Returns(1)
                                    ELSE Exit /\ UNCHANGED mainVars

\* start() creates the event thread: its steps come after this one.
Start ==
  /\ main = "start"
  /\ main' = "wait"
  /\ UNCHANGED <<vars, todo, result, wild>>

\* getc(stdin) returns.
Key ==
  /\ main = "wait"
  /\ Stop
  /\ main' = "return"
  /\ UNCHANGED <<todo, result, wild>>

\* return 0 ends the process, whatever the threads do.
Return ==
  /\ main = "return"
  /\ Exit
  /\ UNCHANGED mainVars

-----------------------------------------------------------------------------
(* What the threads need of initialize(). *)

Left(calls) == \E k \in DOMAIN todo : todo[k].do \in calls

\* mEndpointZeroInfo itself is filled after the device descriptor; CONNECT and
\* SET_CONFIGURATION walk the tree.
Ep0Lacks ==
  \/ ep0.pc = "fetch" /\ Left({"descriptor"})
  \/ /\ ep0.pc = "connect" \/ (ep0.pc = "request" /\ ep0.event.request.sets)
     /\ Left({"config", "claim"})

\* libusb_handle_events_timeout without libusb_init
EventLacks == evt = "loop" /\ keepRunning /\ Left({"init"})

\* Anything may follow, and the model stops here.
UsesUnfilled ==
  /\ Ep0Lacks \/ EventLacks
  /\ Exit
  /\ wild' = TRUE
  /\ UNCHANGED <<main, todo, result>>

Started == main \in {"wait", "return"}

Ep0Filled == Ep0 /\ ~Ep0Lacks

Threads ==
  /\ Started
  /\ \/ Event
     \/ Ep0Filled
     \/ alive /\ (Host \/ Ep0Join \/ Ep0Exit \/ WorkerExit)
  /\ UNCHANGED mainVars

Main ==
  Initialize \/ InitializeReturns \/ InitializeFails \/ Start \/ Key \/ Return

Undefined == alive /\ Started /\ UsesUnfilled

StartupNext == (alive /\ Main) \/ Undefined \/ Threads

startupVars == <<vars, mainVars>>

(***************************************************************************)
(* As for ControlRelay.  main is not hurried: the properties of stop() hold *)
(* for a program that goes on after it, too.                                *)
(***************************************************************************)
StartupSpec ==
  /\ StartupInit /\ [][StartupNext]_startupVars
  /\ WF_startupVars(Started /\ Event /\ UNCHANGED mainVars)
  /\ WF_startupVars((Started /\ Ep0Filled /\ UNCHANGED mainVars) \/ Undefined)

-----------------------------------------------------------------------------
(***************************************************************************)
(* The threads use only records that initialize() has filled, and the host  *)
(* sees a gadget only with the device opened and claimed behind it: unless  *)
(* initialize() has returned 1, which main does not look at.                *)
(***************************************************************************)
RecordsFilled ==
  /\ wild => result = 1
  /\ fd = "running" /\ result # 1 => todo = <<>>

=============================================================================
