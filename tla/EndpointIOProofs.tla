-------------------------- MODULE EndpointIOProofs --------------------------
(***************************************************************************)
(* For every set of endpoints, any number of handles and any choice of      *)
(* which endpoints are IN, isochronous, faulty or quiet: IInv of EndpointIO *)
(* is inductive, and the safety properties follow from it.                  *)
(*                                                                         *)
(* There is a lemma for each action, and in it a step for each conjunct of  *)
(* IInv; then come the theorems, and then, with a lemma for each action     *)
(* again, that EndpointIO implements EndpointContract.                      *)
(***************************************************************************)
EXTENDS EndpointIO, TLAPS

(* The records that initialize() leaves, before any thread exists. *)
LEMMA InitEstablishes == Init => IInv
<1> SUFFICES ASSUME Init PROVE IInv
  OBVIOUS
<1> USE DEF Init, LoopInit, Ep0Idle, EventIdle, EventAt
<1>1. TypeOK
  <2>1. ep0 \in [pc : {"idle", "clear", "join", "disable"},
                ep : Endpoints \cup {NoEndpoint}, temp : Handles \cup {-1}]
    OBVIOUS
  <2>2. event \in [pc : {"idle", "handle", "write", "load", "store"},
                  ep : Endpoints \cup {NoEndpoint},
                  io : Handles \cup {-1}, tmp : 0 .. 1]
    OBVIOUS
  <2> QED  BY <2>1, <2>2 DEF TypeOK, Handles, WorkerLabels
<1>2. BusyPacketsExact
  <2>1. ASSUME NEW e \in Endpoints
        PROVE  /\ event.ep # e /\ pc[e] = "none"
               /\ busyPackets[e] = 0 /\ inFlight[e] = 0
    BY LoopAssumption
  <2>2. ASSUME NEW e \in Endpoints
        PROVE  Outstanding(e) + (IF pc[e] = "submit" THEN 1 ELSE 0) = 0
    BY <2>1 DEF Outstanding
  <2>3. ASSUME NEW e \in Endpoints
        PROVE  /\ Outstanding(e) + (IF pc[e] = "submit" THEN 1 ELSE 0)
                    <= busyPackets[e]
               /\ Outstanding(e) + (IF pc[e] = "submit" THEN 1 ELSE 0)
                    = busyPackets[e]
    BY <2>1, <2>2
  <2> QED  BY <2>3 DEF BusyPacketsExact
<1>3. NoHandleLeak /\ WorkerInv /\ Ep0Inv /\ BusyInv /\ EventInv
  BY DEF NoHandleLeak, WorkerInv, Ep0Inv, BusyInv, EventInv
<1> QED  BY <1>1, <1>2, <1>3 DEF IInv

(* exit() changes nothing but alive, which only TypeOK mentions; nor does a
   stuttering step disturb the invariant. *)
LEMMA KeepsExit ==
  ASSUME IInv, LoopStep(Exit)
  PROVE  IInv'
<1> USE DEF IInv, LoopStep, Exit, ioVars
<1>1. TypeOK'
  BY DEF TypeOK
<1>2. BusyPacketsExact'
  BY DEF BusyPacketsExact, Outstanding
<1>3. NoHandleLeak' /\ WorkerInv' /\ Ep0Inv' /\ BusyInv' /\ EventInv'
  BY DEF NoHandleLeak, WorkerInv, Closing, Ep0Inv, BusyInv, EventInv
<1> QED  BY <1>1, <1>2, <1>3

(* A step that changes no variable.                                         *)
LEMMA KeepsStutter ==
  ASSUME IInv, UNCHANGED vars
  PROVE  IInv'
<1> USE DEF IInv, vars, loopVars, ioVars
<1>1. TypeOK'
  BY DEF TypeOK
<1>2. BusyPacketsExact'
  BY DEF BusyPacketsExact, Outstanding
<1>3. NoHandleLeak' /\ WorkerInv' /\ Ep0Inv' /\ BusyInv' /\ EventInv'
  BY DEF NoHandleLeak, WorkerInv, Closing, Ep0Inv, BusyInv, EventInv
<1> QED  BY <1>1, <1>2, <1>3

-----------------------------------------------------------------------------
(* setEndpoint opens an endpoint: the handle is fresh and the worker starts
   in its loop with both flags set to run. *)
LEMMA KeepsEnable ==
  ASSUME IInv, NEW e \in Endpoints, LoopStep(Enable(e))
  PROVE  IInv'
<1>1. TypeOK'
  BY DEF IInv, TypeOK, Handles, WorkerLabels, LoopStep, ioVars, Enable, Goto
<1>2. BusyPacketsExact'
  BY DEF IInv, TypeOK, BusyPacketsExact, Outstanding, LoopStep, ioVars, Enable,
         Goto
<1>3. NoHandleLeak'
  BY DEF IInv, TypeOK, NoHandleLeak, LoopStep, ioVars, Enable, Goto
<1>4. WorkerInv'
  BY LoopAssumption DEF IInv, TypeOK, WorkerInv, Closing, LoopStep, ioVars,
         Enable, Goto
<1>5. Ep0Inv'
  BY DEF IInv, TypeOK, Ep0Inv, LoopStep, ioVars, Enable, Goto
<1>6. BusyInv'
  BY DEF IInv, TypeOK, BusyInv, LoopStep, ioVars, Enable, Goto
<1>7. EventInv'
  BY DEF IInv, TypeOK, EventInv, BusyInv, BusyPacketsExact, Outstanding,
         LoopStep, ioVars, Enable, Goto
<1> QED  BY <1>1, <1>2, <1>3, <1>4, <1>5, <1>6, <1>7 DEF IInv

(* setEndpoint starts to close an endpoint, whose handle it remembers. *)
LEMMA KeepsDisableStop ==
  ASSUME IInv, NEW e \in Endpoints, LoopStep(DisableStop(e))
  PROVE  IInv'
<1>1. TypeOK'
  BY DEF IInv, TypeOK, Handles, WorkerLabels, WorkerInv, LoopStep, ioVars,
         DisableStop
<1>2. BusyPacketsExact'
  BY DEF IInv, TypeOK, BusyPacketsExact, Outstanding, LoopStep, ioVars,
         DisableStop
<1>3. NoHandleLeak'
  BY DEF IInv, TypeOK, NoHandleLeak, LoopStep, ioVars, DisableStop
<1>4. WorkerInv'
  BY DEF IInv, TypeOK, WorkerInv, Closing, LoopStep, ioVars, DisableStop
<1>5. Ep0Inv'
  BY LoopAssumption DEF IInv, TypeOK, Ep0Inv, WorkerInv, LoopStep, ioVars,
         DisableStop
<1>6. BusyInv'
  BY DEF IInv, TypeOK, BusyInv, LoopStep, ioVars, DisableStop
<1>7. EventInv'
  BY DEF IInv, TypeOK, EventInv, LoopStep, ioVars, DisableStop
<1> QED  BY <1>1, <1>2, <1>3, <1>4, <1>5, <1>6, <1>7 DEF IInv

(* keepRunning is cleared: the endpoint being closed has a worker still. *)
LEMMA KeepsDisableClear ==
  ASSUME IInv, LoopStep(DisableClear)
  PROVE  IInv'
<1>1. TypeOK'
  BY DEF IInv, TypeOK, Handles, WorkerLabels, LoopStep, ioVars, DisableClear
<1>2. BusyPacketsExact'
  BY DEF IInv, TypeOK, BusyPacketsExact, Outstanding, LoopStep, ioVars,
         DisableClear
<1>3. NoHandleLeak'
  BY DEF IInv, TypeOK, NoHandleLeak, LoopStep, ioVars, DisableClear
<1>4. WorkerInv'
  BY DEF IInv, TypeOK, WorkerInv, Closing, LoopStep, ioVars, DisableClear
<1>5. Ep0Inv'
  BY DEF IInv, TypeOK, Ep0Inv, LoopStep, ioVars, DisableClear
<1>6. BusyInv'
  BY DEF IInv, TypeOK, BusyInv, LoopStep, ioVars, DisableClear
<1>7. EventInv'
  BY DEF IInv, TypeOK, EventInv, LoopStep, ioVars, DisableClear
<1> QED  BY <1>1, <1>2, <1>3, <1>4, <1>5, <1>6, <1>7 DEF IInv

(* The join: a worker that is done has busyPackets = 0. *)
LEMMA KeepsDisableJoin ==
  ASSUME IInv, LoopStep(DisableJoin)
  PROVE  IInv'
<1>1. TypeOK'
  BY DEF IInv, TypeOK, Handles, WorkerLabels, LoopStep, ioVars, DisableJoin,
         Goto
<1>2. BusyPacketsExact'
  BY DEF IInv, TypeOK, BusyPacketsExact, Outstanding, LoopStep, ioVars,
         DisableJoin, Goto
<1>3. NoHandleLeak'
  BY DEF IInv, TypeOK, NoHandleLeak, LoopStep, ioVars, DisableJoin, Goto
<1>4. WorkerInv'
  BY DEF IInv, TypeOK, WorkerInv, Closing, LoopStep, ioVars, DisableJoin, Goto
<1>5. Ep0Inv'
  BY DEF IInv, TypeOK, Ep0Inv, LoopStep, ioVars, DisableJoin, Goto
<1>6. BusyInv'
  BY DEF IInv, TypeOK, BusyInv, LoopStep, ioVars, DisableJoin, Goto
<1>7. EventInv'
  BY DEF IInv, TypeOK, EventInv, LoopStep, ioVars, DisableJoin, Goto
<1> QED  BY <1>1, <1>2, <1>3, <1>4, <1>5, <1>6, <1>7 DEF IInv

(* The ioctl gives the handle back.  ep_int is overwritten, which no callback
   sees: none is running for an endpoint without a worker. *)
LEMMA KeepsDisableEp ==
  ASSUME IInv, LoopStep(DisableEp)
  PROVE  IInv'
<1>1. TypeOK'
  BY DEF IInv, TypeOK, Handles, WorkerLabels, Ep0Inv, WorkerInv, Closing,
         LoopStep, ioVars, DisableEp, Exit, Ep0Idle
<1>2. BusyPacketsExact'
  BY DEF IInv, TypeOK, BusyPacketsExact, Outstanding, LoopStep, ioVars,
         DisableEp, Exit, Ep0Idle
<1>3. NoHandleLeak'
  BY DEF IInv, TypeOK, NoHandleLeak, Ep0Inv, LoopStep, ioVars, DisableEp, Exit,
         Ep0Idle
<1>4. WorkerInv'
  BY DEF IInv, TypeOK, WorkerInv, Closing, Ep0Inv, LoopStep, ioVars, DisableEp,
         Exit, Ep0Idle
<1>5. Ep0Inv'
  BY DEF IInv, TypeOK, Ep0Inv, LoopStep, ioVars, DisableEp, Exit, Ep0Idle
<1>6. BusyInv'
  BY DEF IInv, TypeOK, BusyInv, LoopStep, ioVars, DisableEp, Exit, Ep0Idle
<1>7. EventInv'
  BY DEF IInv, TypeOK, EventInv, Ep0Inv, BusyInv, BusyPacketsExact, Outstanding,
         LoopStep, ioVars, DisableEp, Exit, Ep0Idle
<1> QED  BY <1>1, <1>2, <1>3, <1>4, <1>5, <1>6, <1>7 DEF IInv

-----------------------------------------------------------------------------
(* The test of the loop. *)
LEMMA KeepsLoopTest ==
  ASSUME IInv, NEW e \in Endpoints, LoopStep(LoopTest(e))
  PROVE  IInv'
<1>1. TypeOK'
  BY DEF IInv, TypeOK, Handles, WorkerLabels, LoopStep, ioVars, LoopTest, Moves,
         Goto
<1>2. BusyPacketsExact'
  BY DEF IInv, TypeOK, BusyPacketsExact, Outstanding, LoopStep, ioVars,
         LoopTest, Moves, Goto
<1>3. NoHandleLeak'
  BY DEF IInv, TypeOK, NoHandleLeak, LoopStep, ioVars, LoopTest, Moves, Goto
<1>4. WorkerInv'
  BY DEF IInv, TypeOK, WorkerInv, Closing, LoopStep, ioVars, LoopTest, Moves,
         Goto
<1>5. Ep0Inv'
  BY DEF IInv, TypeOK, Ep0Inv, LoopStep, ioVars, LoopTest, Moves, Goto
<1>6. BusyInv'
  BY DEF IInv, TypeOK, BusyInv, LoopStep, ioVars, LoopTest, Moves, Goto
<1>7. EventInv'
  BY DEF IInv, TypeOK, EventInv, LoopStep, ioVars, LoopTest, Moves, Goto
<1> QED  BY <1>1, <1>2, <1>3, <1>4, <1>5, <1>6, <1>7 DEF IInv

(* The test of ep_int and stop. *)
LEMMA KeepsGate ==
  ASSUME IInv, NEW e \in Endpoints, LoopStep(Gate(e))
  PROVE  IInv'
<1>1. TypeOK'
  BY DEF IInv, TypeOK, Handles, WorkerLabels, LoopStep, ioVars, Gate, Moves,
         Goto
<1>2. BusyPacketsExact'
  BY DEF IInv, TypeOK, BusyPacketsExact, Outstanding, LoopStep, ioVars, Gate,
         Moves, Goto
<1>3. NoHandleLeak'
  BY DEF IInv, TypeOK, NoHandleLeak, LoopStep, ioVars, Gate, Moves, Goto
<1>4. WorkerInv'
  BY DEF IInv, TypeOK, WorkerInv, Closing, LoopStep, ioVars, Gate, Moves, Goto
<1>5. Ep0Inv'
  BY DEF IInv, TypeOK, Ep0Inv, LoopStep, ioVars, Gate, Moves, Goto
<1>6. BusyInv'
  BY DEF IInv, TypeOK, BusyInv, LoopStep, ioVars, Gate, Moves, Goto
<1>7. EventInv'
  BY DEF IInv, TypeOK, EventInv, LoopStep, ioVars, Gate, Moves, Goto
<1> QED  BY <1>1, <1>2, <1>3, <1>4, <1>5, <1>6, <1>7 DEF IInv

(* The early return of the work functions. *)
LEMMA KeepsBusyReturn ==
  ASSUME IInv, NEW e \in Endpoints, BusyReturn(e)
  PROVE  IInv'
<1>1. TypeOK'
  BY DEF IInv, TypeOK, Handles, WorkerLabels, BusyReturn, LoopStep, ioVars,
         Moves, Goto
<1>2. BusyPacketsExact'
  BY DEF IInv, TypeOK, BusyPacketsExact, Outstanding, BusyReturn, LoopStep,
         ioVars, Moves, Goto
<1>3. NoHandleLeak'
  BY DEF IInv, TypeOK, NoHandleLeak, BusyReturn, LoopStep, ioVars, Moves, Goto
<1>4. WorkerInv'
  BY DEF IInv, TypeOK, WorkerInv, Closing, BusyReturn, LoopStep, ioVars, Moves,
         Goto
<1>5. Ep0Inv'
  BY DEF IInv, TypeOK, Ep0Inv, BusyReturn, LoopStep, ioVars, Moves, Goto
<1>6. BusyInv'
  BY DEF IInv, TypeOK, BusyInv, BusyReturn, LoopStep, ioVars, Moves, Goto
<1>7. EventInv'
  BY DEF IInv, TypeOK, EventInv, BusyReturn, LoopStep, ioVars, Moves, Goto
<1> QED  BY <1>1, <1>2, <1>3, <1>4, <1>5, <1>6, <1>7 DEF IInv

(* Past the early return busyPackets is 0, and nobody else increments it. *)
LEMMA KeepsBegin ==
  ASSUME IInv, NEW e \in Endpoints, Begin(e)
  PROVE  IInv'
<1>1. TypeOK'
  BY DEF IInv, TypeOK, Handles, WorkerLabels, WorkerInv, Begin, Moves, Goto
<1>2. BusyPacketsExact'
  BY DEF IInv, TypeOK, BusyPacketsExact, Outstanding, Begin, Moves, Goto
<1>3. NoHandleLeak'
  BY DEF IInv, TypeOK, NoHandleLeak, Begin, Moves, Goto
<1>4. WorkerInv'
  BY DEF IInv, TypeOK, WorkerInv, Closing, Begin, Moves, Goto
<1>5. Ep0Inv'
  BY DEF IInv, TypeOK, Ep0Inv, Begin, Moves, Goto
<1>6. BusyInv'
  BY DEF IInv, TypeOK, BusyInv, Begin, Moves, Goto
<1>7. EventInv'
  BY DEF IInv, TypeOK, EventInv, Begin, Moves, Goto
<1> QED  BY <1>1, <1>2, <1>3, <1>4, <1>5, <1>6, <1>7 DEF IInv

(* The OUT worker reads from the host. *)
LEMMA KeepsRead ==
  ASSUME IInv, NEW e \in Endpoints, Read(e)
  PROVE  IInv'
<1>1. TypeOK'
  BY DEF IInv, TypeOK, Handles, WorkerLabels, Read, LoopStep, ioVars, Moves,
         Goto
<1>2. BusyPacketsExact'
  BY DEF IInv, TypeOK, BusyPacketsExact, Outstanding, Read, LoopStep, ioVars,
         Moves, Goto
<1>3. NoHandleLeak'
  BY DEF IInv, TypeOK, NoHandleLeak, Read, LoopStep, ioVars, Moves, Goto
<1>4. WorkerInv'
  BY DEF IInv, TypeOK, WorkerInv, Closing, Read, LoopStep, ioVars, Moves, Goto
<1>5. Ep0Inv'
  BY DEF IInv, TypeOK, Ep0Inv, Read, LoopStep, ioVars, Moves, Goto
<1>6. BusyInv'
  BY DEF IInv, TypeOK, BusyInv, Read, LoopStep, ioVars, Moves, Goto
<1>7. EventInv'
  BY DEF IInv, TypeOK, EventInv, Read, LoopStep, ioVars, Moves, Goto
<1> QED  BY <1>1, <1>2, <1>3, <1>4, <1>5, <1>6, <1>7 DEF IInv

(* The load of busyPackets++ finds 0. *)
LEMMA KeepsBusyLoad ==
  ASSUME IInv, NEW e \in Endpoints, BusyLoad(e)
  PROVE  IInv'
<1>1. TypeOK'
  BY DEF IInv, TypeOK, Handles, WorkerLabels, BusyLoad, Moves, Goto
<1>2. BusyPacketsExact'
  BY DEF IInv, TypeOK, BusyPacketsExact, Outstanding, BusyLoad, Moves, Goto
<1>3. NoHandleLeak'
  BY DEF IInv, TypeOK, NoHandleLeak, BusyLoad, Moves, Goto
<1>4. WorkerInv'
  BY DEF IInv, TypeOK, WorkerInv, Closing, BusyLoad, Moves, Goto
<1>5. Ep0Inv'
  BY DEF IInv, TypeOK, Ep0Inv, BusyLoad, Moves, Goto
<1>6. BusyInv'
  BY DEF IInv, TypeOK, BusyInv, BusyLoad, Moves, Goto
<1>7. EventInv'
  BY DEF IInv, TypeOK, EventInv, BusyLoad, Moves, Goto
<1> QED  BY <1>1, <1>2, <1>3, <1>4, <1>5, <1>6, <1>7 DEF IInv

(* The store of busyPackets++ writes 1. *)
LEMMA KeepsBusyStore ==
  ASSUME IInv, NEW e \in Endpoints, BusyStore(e)
  PROVE  IInv'
<1>1. TypeOK'
  BY DEF IInv, TypeOK, Handles, WorkerLabels, BusyInv, BusyStore, Goto
<1>2. BusyPacketsExact'
  BY DEF IInv, TypeOK, BusyPacketsExact, Outstanding, BusyInv, BusyStore, Goto
<1>3. NoHandleLeak'
  BY DEF IInv, TypeOK, NoHandleLeak, BusyStore, Goto
<1>4. WorkerInv'
  BY DEF IInv, TypeOK, WorkerInv, Closing, BusyStore, Goto
<1>5. Ep0Inv'
  BY DEF IInv, TypeOK, Ep0Inv, BusyStore, Goto
<1>6. BusyInv'
  BY DEF IInv, TypeOK, BusyInv, BusyStore, Goto
<1>7. EventInv'
  BY DEF IInv, TypeOK, EventInv, BusyStore, Goto
<1> QED  BY <1>1, <1>2, <1>3, <1>4, <1>5, <1>6, <1>7 DEF IInv

(* libusb takes the transfer: with busyPackets = 1, there was none. *)
LEMMA KeepsSubmit ==
  ASSUME IInv, NEW e \in Endpoints, Submit(e)
  PROVE  IInv'
<1>1. TypeOK'
  BY DEF IInv, TypeOK, Handles, WorkerLabels, Ep0Inv, BusyPacketsExact,
         Outstanding, Submit, Moves, Goto
<1>2. BusyPacketsExact'
  BY DEF IInv, TypeOK, BusyPacketsExact, Outstanding, Submit, Moves, Goto
<1>3. NoHandleLeak'
  BY DEF IInv, TypeOK, NoHandleLeak, Submit, Moves, Goto
<1>4. WorkerInv'
  BY DEF IInv, TypeOK, WorkerInv, Closing, Submit, Moves, Goto
<1>5. Ep0Inv'
  BY DEF IInv, TypeOK, Ep0Inv, Submit, Moves, Goto
<1>6. BusyInv'
  BY DEF IInv, TypeOK, BusyInv, Submit, Moves, Goto
<1>7. EventInv'
  BY DEF IInv, TypeOK, EventInv, Submit, Moves, Goto
<1> QED  BY <1>1, <1>2, <1>3, <1>4, <1>5, <1>6, <1>7 DEF IInv

(* The submit fails: the isochronous worker goes on with busyPackets one too
   high, which is why a faulty IN endpoint is only counted from above. *)
LEMMA KeepsSubmitFails ==
  ASSUME IInv, NEW e \in Endpoints, SubmitFails(e)
  PROVE  IInv'
<1>1. TypeOK'
  BY DEF IInv, TypeOK, Handles, WorkerLabels, SubmitFails, LoopStep, ioVars,
         Moves, Goto, Exit
<1>2. BusyPacketsExact'
  BY IOAssumption DEF IInv, TypeOK, BusyPacketsExact, Outstanding, SubmitFails,
         LoopStep, ioVars, Moves, Goto, Exit
<1>3. NoHandleLeak'
  BY DEF IInv, TypeOK, NoHandleLeak, SubmitFails, LoopStep, ioVars, Moves, Goto,
         Exit
<1>4. WorkerInv'
  BY DEF IInv, TypeOK, WorkerInv, Closing, SubmitFails, LoopStep, ioVars, Moves,
         Goto, Exit
<1>5. Ep0Inv'
  BY DEF IInv, TypeOK, Ep0Inv, SubmitFails, LoopStep, ioVars, Moves, Goto, Exit
<1>6. BusyInv'
  BY DEF IInv, TypeOK, BusyInv, SubmitFails, LoopStep, ioVars, Moves, Goto, Exit
<1>7. EventInv'
  BY DEF IInv, TypeOK, EventInv, SubmitFails, LoopStep, ioVars, Moves, Goto,
         Exit
<1> QED  BY <1>1, <1>2, <1>3, <1>4, <1>5, <1>6, <1>7 DEF IInv

-----------------------------------------------------------------------------
(* A transfer that ended moves from libusb into the callback. *)
LEMMA KeepsCompleted ==
  ASSUME IInv, NEW e \in Endpoints, Completed(e)
  PROVE  IInv'
<1>1. TypeOK'
  BY DEF IInv, TypeOK, Handles, WorkerLabels, Completed, EventAt, loopVars
<1>2. BusyPacketsExact'
  BY LoopAssumption DEF IInv, TypeOK, BusyPacketsExact, Outstanding, EventInv,
         Completed, EventAt, loopVars
<1>3. NoHandleLeak'
  BY DEF IInv, TypeOK, NoHandleLeak, Completed, EventAt, loopVars
<1>4. WorkerInv'
  BY DEF IInv, TypeOK, WorkerInv, Closing, Completed, EventAt, loopVars
<1>5. Ep0Inv'
  BY DEF IInv, TypeOK, Ep0Inv, Completed, EventAt, loopVars
<1>6. BusyInv'
  BY DEF IInv, TypeOK, BusyInv, Completed, EventAt, loopVars
<1>7. EventInv'
  BY LoopAssumption DEF IInv, TypeOK, EventInv, Completed, EventAt, loopVars
<1> QED  BY <1>1, <1>2, <1>3, <1>4, <1>5, <1>6, <1>7 DEF IInv

(* A failed transfer of an OUT endpoint does the same, one of an IN endpoint
   disappears. *)
LEMMA KeepsFailed ==
  ASSUME IInv, NEW e \in Endpoints, Failed(e)
  PROVE  IInv'
<1>1. TypeOK'
  BY DEF IInv, TypeOK, Handles, WorkerLabels, Failed, EventIdle, EventAt,
         loopVars
<1>2. BusyPacketsExact'
  BY LoopAssumption DEF IInv, TypeOK, BusyPacketsExact, Outstanding, EventInv,
         Failed, EventIdle, EventAt, loopVars
<1>3. NoHandleLeak'
  BY DEF IInv, TypeOK, NoHandleLeak, Failed, EventIdle, EventAt, loopVars
<1>4. WorkerInv'
  BY DEF IInv, TypeOK, WorkerInv, Closing, Failed, EventIdle, EventAt, loopVars
<1>5. Ep0Inv'
  BY DEF IInv, TypeOK, Ep0Inv, Failed, EventIdle, EventAt, loopVars
<1>6. BusyInv'
  BY DEF IInv, TypeOK, BusyInv, Failed, EventIdle, EventAt, loopVars
<1>7. EventInv'
  BY LoopAssumption DEF IInv, TypeOK, EventInv, Failed, EventIdle, EventAt,
         loopVars
<1> QED  BY <1>1, <1>2, <1>3, <1>4, <1>5, <1>6, <1>7 DEF IInv

(* The callback takes the handle from ep_int. *)
LEMMA KeepsCbHandle ==
  ASSUME IInv, CbHandle
  PROVE  IInv'
<1>1. TypeOK'
  <2>1. event.ep \in Endpoints
    BY LoopAssumption DEF IInv, TypeOK, EventInv, CbHandle
  <2>2. ep_int[event.ep] \in Handles
    BY <2>1 DEF IInv, TypeOK, BusyPacketsExact, Outstanding, CbHandle, BusyInv,
                WorkerInv
  <2>3. event' \in [pc : {"idle", "handle", "write", "load", "store"},
                    ep : Endpoints \cup {NoEndpoint},
                    io : Handles \cup {-1}, tmp : 0 .. 1]
    BY <2>2 DEF IInv, TypeOK, CbHandle, EventAt
  <2> QED  BY <2>3 DEF IInv, TypeOK, CbHandle, loopVars
<1>2. BusyPacketsExact'
  BY DEF IInv, TypeOK, BusyPacketsExact, Outstanding, CbHandle, EventAt,
         loopVars
<1>3. NoHandleLeak'
  BY DEF IInv, TypeOK, NoHandleLeak, CbHandle, EventAt, loopVars
<1>4. WorkerInv'
  BY DEF IInv, TypeOK, WorkerInv, Closing, CbHandle, EventAt, loopVars
<1>5. Ep0Inv'
  BY DEF IInv, TypeOK, Ep0Inv, CbHandle, EventAt, loopVars
<1>6. BusyInv'
  BY DEF IInv, TypeOK, BusyInv, CbHandle, EventAt, loopVars
<1>7. EventInv'
  BY DEF IInv, TypeOK, EventInv, CbHandle, EventAt, loopVars
<1> QED  BY <1>1, <1>2, <1>3, <1>4, <1>5, <1>6, <1>7 DEF IInv

(* The callback writes to the host. *)
LEMMA KeepsCbWrite ==
  ASSUME IInv, CbWrite
  PROVE  IInv'
<1>1. TypeOK'
  BY DEF IInv, TypeOK, Handles, WorkerLabels, CbWrite, loopVars
<1>2. BusyPacketsExact'
  BY DEF IInv, TypeOK, BusyPacketsExact, Outstanding, CbWrite, loopVars
<1>3. NoHandleLeak'
  BY DEF IInv, TypeOK, NoHandleLeak, CbWrite, loopVars
<1>4. WorkerInv'
  BY DEF IInv, TypeOK, WorkerInv, Closing, CbWrite, loopVars
<1>5. Ep0Inv'
  BY DEF IInv, TypeOK, Ep0Inv, CbWrite, loopVars
<1>6. BusyInv'
  BY DEF IInv, TypeOK, BusyInv, CbWrite, loopVars
<1>7. EventInv'
  BY DEF IInv, TypeOK, EventInv, CbWrite, loopVars
<1> QED  BY <1>1, <1>2, <1>3, <1>4, <1>5, <1>6, <1>7 DEF IInv

(* The load of busyPackets-- finds 1: the callback's transfer is counted. *)
LEMMA KeepsCbLoad ==
  ASSUME IInv, CbLoad
  PROVE  IInv'
<1>1. TypeOK'
  BY LoopAssumption DEF IInv, TypeOK, Handles, WorkerLabels, EventInv, CbLoad,
         EventAt, loopVars
<1>2. BusyPacketsExact'
  BY DEF IInv, TypeOK, BusyPacketsExact, Outstanding, CbLoad, EventAt, loopVars
<1>3. NoHandleLeak'
  BY DEF IInv, TypeOK, NoHandleLeak, CbLoad, EventAt, loopVars
<1>4. WorkerInv'
  BY DEF IInv, TypeOK, WorkerInv, Closing, CbLoad, EventAt, loopVars
<1>5. Ep0Inv'
  BY DEF IInv, TypeOK, Ep0Inv, CbLoad, EventAt, loopVars
<1>6. BusyInv'
  BY DEF IInv, TypeOK, BusyInv, CbLoad, EventAt, loopVars
<1>7. EventInv'
  BY LoopAssumption DEF IInv, TypeOK, EventInv, BusyPacketsExact, Outstanding,
         CbLoad, EventAt, loopVars
<1> QED  BY <1>1, <1>2, <1>3, <1>4, <1>5, <1>6, <1>7 DEF IInv

(* The store of busyPackets-- writes 0: the worker has not touched it. *)
LEMMA KeepsCbStore ==
  ASSUME IInv, CbStore
  PROVE  IInv'
<1>1. TypeOK'
  BY DEF IInv, TypeOK, Handles, WorkerLabels, EventInv, CbStore, EventIdle,
         EventAt
<1>2. BusyPacketsExact'
  BY LoopAssumption DEF IInv, TypeOK, BusyPacketsExact, Outstanding, EventInv,
         CbStore, EventIdle, EventAt
<1>3. NoHandleLeak'
  BY DEF IInv, TypeOK, NoHandleLeak, CbStore, EventIdle, EventAt
<1>4. WorkerInv'
  BY DEF IInv, TypeOK, WorkerInv, Closing, CbStore, EventIdle, EventAt
<1>5. Ep0Inv'
  BY DEF IInv, TypeOK, Ep0Inv, CbStore, EventIdle, EventAt
<1>6. BusyInv'
  BY LoopAssumption DEF IInv, TypeOK, BusyInv, EventInv, BusyPacketsExact,
         Outstanding, CbStore, EventIdle, EventAt
<1>7. EventInv'
  BY DEF IInv, TypeOK, EventInv, CbStore, EventIdle, EventAt
<1> QED  BY <1>1, <1>2, <1>3, <1>4, <1>5, <1>6, <1>7 DEF IInv

-----------------------------------------------------------------------------
(* The steps of the thread of endpoint zero. *)
LEMMA KeepsEp0 ==
  ASSUME IInv, Ep0
  PROVE  IInv'
<1>1. ASSUME NEW e \in Endpoints, LoopStep(Enable(e)) PROVE IInv'
  BY <1>1, KeepsEnable
<1>2. ASSUME NEW e \in Endpoints, LoopStep(EnableFails(e)) PROVE IInv'
  <2>1. LoopStep(Exit)
    BY <1>2 DEF LoopStep, EnableFails
  <2> QED  BY <2>1, KeepsExit
<1>3. ASSUME NEW e \in Endpoints, LoopStep(DisableStop(e)) PROVE IInv'
  BY <1>3, KeepsDisableStop
<1>4. CASE LoopStep(DisableClear)  BY <1>4, KeepsDisableClear
<1>5. CASE LoopStep(DisableJoin)   BY <1>5, KeepsDisableJoin
<1>6. CASE LoopStep(DisableEp)     BY <1>6, KeepsDisableEp
<1>7. \/ \E e \in Endpoints : \/ LoopStep(Enable(e)) \/ LoopStep(EnableFails(e))
                              \/ LoopStep(DisableStop(e))
      \/ LoopStep(DisableClear) \/ LoopStep(DisableJoin) \/ LoopStep(DisableEp)
  BY DEF Ep0, Ep0Step, LoopStep
<1> QED  BY <1>1, <1>2, <1>3, <1>4, <1>5, <1>6, <1>7

(* The steps of a worker. *)
LEMMA KeepsWorker ==
  ASSUME IInv, NEW e \in Endpoints, Worker(e)
  PROVE  IInv'
<1>1. CASE LoopStep(LoopTest(e))  BY <1>1, KeepsLoopTest
<1>2. CASE LoopStep(Gate(e))      BY <1>2, KeepsGate
<1>3. CASE BusyReturn(e)          BY <1>3, KeepsBusyReturn
<1>4. CASE Begin(e)               BY <1>4, KeepsBegin
<1>5. CASE Read(e)                BY <1>5, KeepsRead
<1>6. CASE ReadFails(e)           BY <1>6, KeepsExit DEF ReadFails
<1>7. CASE BusyLoad(e)            BY <1>7, KeepsBusyLoad
<1>8. CASE BusyStore(e)           BY <1>8, KeepsBusyStore
<1>9. CASE Submit(e)              BY <1>9, KeepsSubmit
<1>10. CASE SubmitFails(e)        BY <1>10, KeepsSubmitFails
<1>11. LoopStep(LoopTest(e) \/ Gate(e)) =>
         LoopStep(LoopTest(e)) \/ LoopStep(Gate(e))
  BY DEF LoopStep
<1> QED
  BY <1>1, <1>2, <1>3, <1>4, <1>5, <1>6, <1>7, <1>8, <1>9, <1>10, <1>11
     DEF Worker

(* The steps of the event thread. *)
LEMMA KeepsCallback ==
  ASSUME IInv, Callback
  PROVE  IInv'
<1>1. CASE CbHandle      BY <1>1, KeepsCbHandle
<1>2. CASE CbWrite       BY <1>2, KeepsCbWrite
<1>3. CASE CbWriteFails  BY <1>3, KeepsExit DEF CbWriteFails
<1>4. CASE CbLoad        BY <1>4, KeepsCbLoad
<1>5. CASE CbStore       BY <1>5, KeepsCbStore
<1> QED  BY <1>1, <1>2, <1>3, <1>4, <1>5 DEF Callback

(* The case split over Next.                                                *)
LEMMA NextKeeps == IInv /\ [Next]_vars => IInv'
<1> SUFFICES ASSUME IInv, [Next]_vars PROVE IInv'
  OBVIOUS
<1>1. CASE Ep0  BY <1>1, KeepsEp0
<1>2. ASSUME NEW e \in Endpoints, Worker(e) PROVE IInv'
  BY <1>2, KeepsWorker
<1>3. ASSUME NEW e \in Endpoints, Completed(e) PROVE IInv'
  BY <1>3, KeepsCompleted
<1>4. ASSUME NEW e \in Endpoints, Failed(e) PROVE IInv'
  BY <1>4, KeepsFailed
<1>5. CASE Callback  BY <1>5, KeepsCallback
<1>6. CASE UNCHANGED vars  BY <1>6, KeepsStutter
<1> QED  BY <1>1, <1>2, <1>3, <1>4, <1>5, <1>6 DEF Next, Reap, Exited

-----------------------------------------------------------------------------
(* Every reachable state satisfies IInv. *)
THEOREM Invariance == Spec => []IInv
<1>1. Init => IInv  BY InitEstablishes
<1>2. IInv /\ [Next]_vars => IInv'  BY NextKeeps
<1> QED  BY <1>1, <1>2, PTL DEF Spec

(* Type correctness; that busyPackets, tmp and inFlight never leave 0 .. 1 is
   the limit of one outstanding transfer that the loop is meant to keep. *)
THEOREM TypeCorrect == Spec => []TypeOK
<1>1. IInv => TypeOK  BY DEF IInv
<1> QED  BY <1>1, Invariance, PTL

(* The two threads' ++ and -- of the plain int never lose an update. *)
THEOREM BusyPacketsIsExact == Spec => []BusyPacketsExact
<1>1. IInv => BusyPacketsExact  BY DEF IInv
<1> QED  BY <1>1, Invariance, PTL

(* No handle is in use that setEndpoint could not find again. *)
THEOREM NoHandleLeaks == Spec => []NoHandleLeak
<1>1. IInv => NoHandleLeak  BY DEF IInv
<1> QED  BY <1>1, Invariance, PTL

(* When usb_raw_ep_disable is called the worker is gone (Ep0Inv), so busyPackets
   is 0 (BusyInv), so no transfer is outstanding (BusyPacketsExact). *)
THEOREM DisableIsSafe == Spec => []SafeToDisable
<1>1. IInv => SafeToDisable
  <2> SUFFICES ASSUME IInv, ep0.pc = "disable"
               PROVE  pc[ep0.ep] = "none" /\ Outstanding(ep0.ep) = 0
    BY DEF SafeToDisable
  <2>1. ep0.ep \in Endpoints /\ pc[ep0.ep] = "none"
    BY LoopAssumption DEF IInv, TypeOK, Ep0Inv
  <2>2. busyPackets[ep0.ep] = 0
    BY <2>1 DEF IInv, BusyInv
  <2>3. Outstanding(ep0.ep) \in Nat /\ Outstanding(ep0.ep) <= 0
    BY <2>1, <2>2 DEF IInv, TypeOK, BusyPacketsExact, Outstanding
  <2> QED  BY <2>1, <2>3
<1> QED  BY <1>1, Invariance, PTL

(* ep_int is not stale when it is used: the worker that reads with it exists,
   and so does the worker of the endpoint whose callback writes with it, because the
   transfer in the callback is counted (BusyPacketsExact, BusyInv). *)
THEOREM HandlesAreOwned == Spec => []HandleOwned
<1>1. IInv => HandleOwned
  <2> SUFFICES ASSUME IInv PROVE HandleOwned
    OBVIOUS
  <2>1. ASSUME NEW e \in Endpoints, pc[e] # "none"
        PROVE  Enabled(ep_int[e]) /\ owner[ep_int[e]] = e
    BY <2>1, LoopAssumption DEF IInv, WorkerInv, Enabled
  <2>2. ASSUME NEW e \in Endpoints, pc[e] = "read"
        PROVE  Enabled(io[e]) /\ owner[io[e]] = e
    BY <2>1, <2>2 DEF IInv, WorkerInv
  <2>3. ASSUME event.pc = "write"
        PROVE  Enabled(event.io) /\ owner[event.io] = event.ep
    <3>1. event.ep \in Endpoints /\ event.io = ep_int[event.ep]
      BY <2>3, LoopAssumption DEF IInv, TypeOK, EventInv
    <3>2. pc[event.ep] # "none"
      BY <3>1 DEF IInv, TypeOK, BusyPacketsExact, Outstanding, BusyInv
    <3> QED  BY <2>1, <3>1, <3>2
  <2> QED  BY <2>2, <2>3 DEF HandleOwned
<1> QED  BY <1>1, Invariance, PTL

-----------------------------------------------------------------------------
(* EndpointIO implements EndpointContract.  Under IInv, each step of the      *)
(* threads is a step of the contract or leaves the endpoint as the contract   *)
(* sees it: a lemma for each action says which.                               *)


(* Before any thread exists every endpoint is closed, its slot free. *)
LEMMA InitMaps == Init => Contract!Init
<1> SUFFICES ASSUME Init PROVE Contract!Init
  OBVIOUS
<1>1. phaseBar = [e \in Endpoints |-> "closed"]
  BY LoopAssumption DEF phaseBar, Init, LoopInit, Ep0Idle
<1>2. slotBar = [e \in Endpoints |-> "free"]
  BY LoopAssumption DEF slotBar, Outstanding, Init, LoopInit, EventIdle, EventAt
<1>3. lateBar = [e \in Endpoints |-> FALSE]
  BY <1>1 DEF lateBar
<1> QED  BY <1>1, <1>2, <1>3 DEF Contract!Init

(* exit() changes nothing that the contract sees. *)
LEMMA MapsExit ==
  ASSUME LoopStep(Exit) \/ UNCHANGED vars
  PROVE  UNCHANGED Contract!cvars
<1>1. UNCHANGED <<busyPackets, pc, ep0, inFlight, event>>
  BY DEF LoopStep, Exit, vars, loopVars, ioVars
<1>2. UNCHANGED phaseBar  BY <1>1 DEF phaseBar
<1>3. UNCHANGED slotBar   BY <1>1 DEF slotBar, Outstanding
<1>4. UNCHANGED lateBar   BY <1>1, <1>2 DEF lateBar, PastGate
<1> QED  BY <1>2, <1>3, <1>4 DEF Contract!cvars

-----------------------------------------------------------------------------
(* Steps that change nothing the contract sees. *)

(* keepRunning is no concern of the contract. *)
LEMMA MapsDisableClear ==
  ASSUME IInv, LoopStep(DisableClear)
  PROVE  UNCHANGED Contract!cvars
<1>1. UNCHANGED phaseBar
  BY DEF IInv, TypeOK, phaseBar, DisableClear, LoopStep, ioVars
<1>2. UNCHANGED slotBar
  BY DEF IInv, TypeOK, slotBar, Outstanding, DisableClear, LoopStep, ioVars
<1>3. UNCHANGED lateBar
  BY <1>1 DEF IInv, TypeOK, lateBar, PastGate, DisableClear, LoopStep, ioVars
<1> QED  BY <1>1, <1>2, <1>3 DEF Contract!cvars

(* A worker that has ended is not past the gate; the endpoint is still closing. *)
LEMMA MapsDisableJoin ==
  ASSUME IInv, LoopStep(DisableJoin)
  PROVE  UNCHANGED Contract!cvars
<1>1. UNCHANGED phaseBar
  BY DEF IInv, TypeOK, phaseBar, DisableJoin, Goto, LoopStep, ioVars
<1>2. UNCHANGED slotBar
  BY DEF IInv, TypeOK, slotBar, Outstanding, DisableJoin, Goto, LoopStep, ioVars
<1>3. UNCHANGED lateBar
  BY <1>1 DEF IInv, TypeOK, lateBar, PastGate, DisableJoin, Goto, LoopStep, ioVars
<1> QED  BY <1>1, <1>2, <1>3 DEF Contract!cvars

(* The test of the loop. *)
LEMMA MapsLoopTest ==
  ASSUME IInv, NEW e \in Endpoints, LoopStep(LoopTest(e))
  PROVE  UNCHANGED Contract!cvars
<1>1. UNCHANGED phaseBar
  BY DEF IInv, TypeOK, phaseBar, LoopTest, Moves, Goto, LoopStep, ioVars
<1>2. UNCHANGED slotBar
  BY DEF IInv, TypeOK, slotBar, Outstanding, LoopTest, Moves, Goto, LoopStep, ioVars
<1>3. UNCHANGED lateBar
  BY <1>1 DEF IInv, TypeOK, lateBar, PastGate, LoopTest, Moves, Goto, LoopStep, ioVars
<1> QED  BY <1>1, <1>2, <1>3 DEF Contract!cvars

(* The gate lets no worker of a closing endpoint through: its stop flag is set. *)
LEMMA MapsGate ==
  ASSUME IInv, NEW e \in Endpoints, LoopStep(Gate(e))
  PROVE  UNCHANGED Contract!cvars
<1>1. UNCHANGED phaseBar
  BY DEF IInv, TypeOK, phaseBar, Gate, Moves, Goto, LoopStep, ioVars
<1>2. UNCHANGED slotBar
  BY DEF IInv, TypeOK, slotBar, Outstanding, Gate, Moves, Goto, LoopStep, ioVars
<1>3. UNCHANGED lateBar
  BY <1>1 DEF IInv, TypeOK, lateBar, PastGate, phaseBar, WorkerInv, Closing, Ep0Inv, Gate, Moves, Goto, LoopStep, ioVars
<1> QED  BY <1>1, <1>2, <1>3 DEF Contract!cvars

(* The worker stays past the gate. *)
LEMMA MapsBegin ==
  ASSUME IInv, NEW e \in Endpoints, Begin(e)
  PROVE  UNCHANGED Contract!cvars
<1>1. UNCHANGED phaseBar
  BY DEF IInv, TypeOK, phaseBar, Begin, Moves, Goto
<1>2. UNCHANGED slotBar
  BY DEF IInv, TypeOK, slotBar, Outstanding, Begin, Moves, Goto
<1>3. UNCHANGED lateBar
  BY <1>1 DEF IInv, TypeOK, lateBar, PastGate, Begin, Moves, Goto
<1> QED  BY <1>1, <1>2, <1>3 DEF Contract!cvars

(* So it does here ... *)
LEMMA MapsBusyLoad ==
  ASSUME IInv, NEW e \in Endpoints, BusyLoad(e)
  PROVE  UNCHANGED Contract!cvars
<1>1. UNCHANGED phaseBar
  BY DEF IInv, TypeOK, phaseBar, BusyLoad, Moves, Goto
<1>2. UNCHANGED slotBar
  BY DEF IInv, TypeOK, slotBar, Outstanding, BusyLoad, Moves, Goto
<1>3. UNCHANGED lateBar
  BY <1>1 DEF IInv, TypeOK, lateBar, PastGate, BusyLoad, Moves, Goto
<1> QED  BY <1>1, <1>2, <1>3 DEF Contract!cvars

(* ... and here: the transfer that is counted now is about to be submitted. *)
LEMMA MapsBusyStore ==
  ASSUME IInv, NEW e \in Endpoints, BusyStore(e)
  PROVE  UNCHANGED Contract!cvars
<1>1. UNCHANGED phaseBar
  BY DEF IInv, TypeOK, phaseBar, BusyStore, Goto
<1>2. UNCHANGED slotBar
  BY DEF IInv, TypeOK, slotBar, Outstanding, BusyPacketsExact, BusyInv, BusyStore, Goto
<1>3. UNCHANGED lateBar
  BY <1>1 DEF IInv, TypeOK, lateBar, PastGate, BusyStore, Goto
<1> QED  BY <1>1, <1>2, <1>3 DEF Contract!cvars

(* A transfer that ended is outstanding until its callback is through. *)
LEMMA MapsCompleted ==
  ASSUME IInv, NEW e \in Endpoints, Completed(e)
  PROVE  UNCHANGED Contract!cvars
<1>1. UNCHANGED phaseBar
  BY DEF phaseBar, Completed, loopVars
<1>2. UNCHANGED slotBar
  <2>1. ASSUME NEW f \in Endpoints PROVE Outstanding(f)' = Outstanding(f)
    BY LoopAssumption
       DEF IInv, TypeOK, EventInv, Outstanding, Completed, EventAt
  <2>2. UNCHANGED <<busyPackets, pc>>
    BY DEF Completed, loopVars
  <2> QED  BY <2>1, <2>2 DEF slotBar
<1>3. UNCHANGED lateBar
  BY <1>1 DEF lateBar, PastGate, Completed, loopVars
<1> QED  BY <1>1, <1>2, <1>3 DEF Contract!cvars

(* The callback's steps before the decrement. *)
LEMMA MapsCbHandle ==
  ASSUME IInv, CbHandle
  PROVE  UNCHANGED Contract!cvars
<1>1. UNCHANGED phaseBar
  BY DEF IInv, TypeOK, phaseBar, CbHandle, EventAt, loopVars
<1>2. UNCHANGED slotBar
  BY DEF IInv, TypeOK, slotBar, Outstanding, CbHandle, EventAt, loopVars
<1>3. UNCHANGED lateBar
  BY <1>1 DEF IInv, TypeOK, lateBar, PastGate, CbHandle, EventAt, loopVars
<1> QED  BY <1>1, <1>2, <1>3 DEF Contract!cvars

(* The same for its write ... *)
LEMMA MapsCbWrite ==
  ASSUME IInv, CbWrite
  PROVE  UNCHANGED Contract!cvars
<1>1. UNCHANGED phaseBar
  BY DEF IInv, TypeOK, phaseBar, CbWrite, loopVars
<1>2. UNCHANGED slotBar
  BY DEF IInv, TypeOK, slotBar, Outstanding, CbWrite, loopVars
<1>3. UNCHANGED lateBar
  BY <1>1 DEF IInv, TypeOK, lateBar, PastGate, CbWrite, loopVars
<1> QED  BY <1>1, <1>2, <1>3 DEF Contract!cvars

(* ... and for the load. *)
LEMMA MapsCbLoad ==
  ASSUME IInv, CbLoad
  PROVE  UNCHANGED Contract!cvars
<1>1. UNCHANGED phaseBar
  BY DEF IInv, TypeOK, phaseBar, CbLoad, EventAt, loopVars
<1>2. UNCHANGED slotBar
  BY DEF IInv, TypeOK, slotBar, Outstanding, CbLoad, EventAt, loopVars
<1>3. UNCHANGED lateBar
  BY <1>1 DEF IInv, TypeOK, lateBar, PastGate, CbLoad, EventAt, loopVars
<1> QED  BY <1>1, <1>2, <1>3 DEF Contract!cvars

-----------------------------------------------------------------------------
(* Steps of the contract. *)

(* setEndpoint opens an endpoint that is closed: it is not the one that is
   being disabled, as no disable is under way. *)
LEMMA MapsEnable ==
  ASSUME IInv, NEW e \in Endpoints, LoopStep(Enable(e))
  PROVE  Contract!Open(e)
<1> USE DEF IInv, TypeOK, LoopStep, ioVars, Enable, Goto
<1>1. phaseBar[e] = "closed"
  BY DEF phaseBar
<1>2. phaseBar' = [phaseBar EXCEPT ![e] = "open"]
  BY LoopAssumption DEF phaseBar, Ep0Inv
<1>3. UNCHANGED slotBar
  BY DEF slotBar, Outstanding
<1>4. UNCHANGED lateBar
  BY <1>1, <1>2 DEF lateBar, PastGate
<1> QED  BY <1>1, <1>2, <1>3, <1>4 DEF Contract!Open

(* The stop flag is set while the worker is anywhere in its loop: if it is past
   the gate, one more transfer may come. *)
LEMMA MapsDisableStop ==
  ASSUME IInv, NEW e \in Endpoints, LoopStep(DisableStop(e))
  PROVE  Contract!BeginClose(e)
<1> USE DEF IInv, TypeOK, LoopStep, ioVars, DisableStop
<1>1. phaseBar[e] = "open"
  BY DEF phaseBar
<1>2. phaseBar' = [phaseBar EXCEPT ![e] = "closing"]
  BY DEF phaseBar
<1>3. UNCHANGED slotBar
  BY DEF slotBar, Outstanding
<1>4. lateBar' = [lateBar EXCEPT ![e] = lateBar'[e]]
  <2>1. ASSUME NEW f \in Endpoints, f # e
        PROVE  lateBar'[f] = lateBar[f]
    BY <1>2, <2>1 DEF lateBar, phaseBar, PastGate
  <2>2. /\ lateBar \in [Endpoints -> BOOLEAN]
        /\ lateBar' \in [Endpoints -> BOOLEAN]
    BY DEF lateBar
  <2> QED  BY <2>1, <2>2
<1>5. lateBar'[e] \in BOOLEAN
  BY DEF lateBar
<1> QED  BY <1>1, <1>2, <1>3, <1>4, <1>5 DEF Contract!BeginClose

(* The ioctl closes the endpoint.  Its worker is gone, so busyPackets is 0: the
   slot is free, and nothing is late. *)
LEMMA MapsDisableEp ==
  ASSUME IInv, LoopStep(DisableEp)
  PROVE  Contract!Close(ep0.ep) /\ ep0.ep \in Endpoints
<1> USE DEF IInv, TypeOK, LoopStep, ioVars, DisableEp
<1>1. ep0.ep \in Endpoints /\ pc[ep0.ep] = "none"
  BY LoopAssumption DEF Ep0Inv
<1>2. owner[ep0.temp] # NoEndpoint /\ ep0.temp \in Handles
  BY <1>1, LoopAssumption DEF Ep0Inv
<1>3. ep0' = Ep0Idle /\ UNCHANGED <<busyPackets, pc, inFlight, event>>
  BY <1>2
<1>4. phaseBar[ep0.ep] = "closing"
  BY <1>1 DEF phaseBar
<1>5. phaseBar' = [phaseBar EXCEPT ![ep0.ep] = "closed"]
  BY <1>1, <1>3 DEF phaseBar, Ep0Idle
<1>6. slotBar[ep0.ep] = "free"
  BY <1>1 DEF slotBar, BusyInv, BusyPacketsExact, Outstanding
<1>7. UNCHANGED slotBar
  BY <1>3 DEF slotBar, Outstanding
<1>8. ~lateBar[ep0.ep]
  BY <1>1 DEF lateBar, PastGate
<1>9. UNCHANGED lateBar
  BY <1>1, <1>3, <1>4, <1>5 DEF lateBar, PastGate
<1> QED
  BY <1>1, <1>4, <1>5, <1>6, <1>7, <1>8, <1>9 DEF Contract!Close

(* A worker leaves the stretch between the gate and the submit without having
   submitted; if the endpoint is closing, this was its last chance. *)
LEMMA MapsGiveUp ==
  ASSUME IInv, NEW e \in Endpoints, pc[e] \in {"work", "read"},
         Moves(e, "loop"), UNCHANGED <<inFlight, event>>
  PROVE  Contract!GiveUp(e) \/ UNCHANGED Contract!cvars
<1> USE DEF IInv, TypeOK, Moves, Goto
<1>1. UNCHANGED phaseBar
  BY DEF phaseBar
<1>2. UNCHANGED slotBar
  BY DEF slotBar, Outstanding
<1>3. lateBar' = [lateBar EXCEPT ![e] = FALSE]
  BY <1>1 DEF lateBar, PastGate
<1>4. CASE lateBar[e]
  BY <1>1, <1>2, <1>3, <1>4 DEF Contract!GiveUp
<1>5. CASE ~lateBar[e]
  <2>1. UNCHANGED lateBar
    BY <1>3, <1>5 DEF lateBar
  <2> QED  BY <1>1, <1>2, <2>1 DEF Contract!cvars
<1> QED  BY <1>4, <1>5

(* A worker that finds its one transfer counted gives up its late start, if *)
(* any.                                                                     *)
LEMMA MapsBusyReturn ==
  ASSUME IInv, NEW e \in Endpoints, BusyReturn(e)
  PROVE  Contract!GiveUp(e) \/ UNCHANGED Contract!cvars
BY MapsGiveUp DEF BusyReturn, LoopStep, ioVars

(* A read without data gives up, one with data goes on. *)
LEMMA MapsRead ==
  ASSUME IInv, NEW e \in Endpoints, Read(e)
  PROVE  Contract!GiveUp(e) \/ UNCHANGED Contract!cvars
<1>1. CASE Moves(e, "loop")
  BY <1>1, MapsGiveUp DEF Read, LoopStep, ioVars
<1>2. CASE Moves(e, "load")
  <2> USE <1>2 DEF IInv, TypeOK, Read, LoopStep, ioVars, Moves, Goto
  <2>1. UNCHANGED phaseBar  BY DEF phaseBar
  <2>2. UNCHANGED slotBar   BY DEF slotBar, Outstanding
  <2>3. UNCHANGED lateBar   BY <2>1 DEF lateBar, PastGate
  <2> QED  BY <2>1, <2>2, <2>3 DEF Contract!cvars
<1> QED  BY <1>1, <1>2 DEF Read, LoopStep

(* slotBar is a function before and after every step. *)
LEMMA SlotsMapped ==
  /\ slotBar \in [Endpoints -> {"free", "used", "lost"}]
  /\ slotBar' \in [Endpoints -> {"free", "used", "lost"}]
BY DEF slotBar

(* What the steps from "submit" have in common: the endpoint is open or its
   worker late, and no transfer is outstanding, as the one counted is this one. *)
LEMMA AtSubmit ==
  ASSUME IInv, NEW e \in Endpoints, pc[e] = "submit"
  PROVE  /\ Contract!MayStart(e)
         /\ slotBar[e] = "free"
         /\ inFlight[e] = 0 /\ event.ep # e /\ busyPackets[e] = 1
<1>1. Contract!MayStart(e)
  BY DEF Contract!MayStart, phaseBar, lateBar, PastGate
<1>2. inFlight[e] = 0 /\ event.ep # e /\ busyPackets[e] = 1
  BY DEF IInv, TypeOK, BusyPacketsExact, Outstanding
<1>3. slotBar[e] = "free"
  BY <1>2 DEF slotBar, Outstanding
<1> QED  BY <1>1, <1>2, <1>3

(* libusb takes the transfer: it starts, in time or late.                   *)
LEMMA MapsSubmit ==
  ASSUME IInv, NEW e \in Endpoints, Submit(e)
  PROVE  Contract!Start(e)
<1> USE DEF Submit, Moves, Goto
<1>1. Contract!MayStart(e) /\ slotBar[e] = "free"
  BY AtSubmit
<1>2. UNCHANGED phaseBar
  BY DEF IInv, TypeOK, phaseBar
<1>3. slotBar' = [slotBar EXCEPT ![e] = "used"]
  <2>1. slotBar'[e] = "used"
    BY AtSubmit DEF IInv, TypeOK, slotBar, Outstanding
  <2>2. ASSUME NEW f \in Endpoints, f # e
        PROVE  slotBar'[f] = slotBar[f]
    BY <2>2 DEF IInv, TypeOK, slotBar, Outstanding
  <2> QED  BY <2>1, <2>2, SlotsMapped
<1>4. lateBar' = [lateBar EXCEPT ![e] = FALSE]
  BY <1>2 DEF IInv, TypeOK, lateBar, PastGate
<1> QED  BY <1>1, <1>2, <1>3, <1>4 DEF Contract!Start

(* The isochronous worker does not notice that its submit failed: busyPackets
   stays 1 and the slot is lost. *)
LEMMA MapsSubmitFails ==
  ASSUME IInv, NEW e \in Endpoints, SubmitFails(e)
  PROVE  Contract!Start(e) \/ UNCHANGED Contract!cvars
<1>1. CASE e \notin IsoEndpoints
  BY <1>1, MapsExit DEF SubmitFails, LoopStep
<1>2. CASE e \in IsoEndpoints
  <2> USE <1>2 DEF SubmitFails, LoopStep, ioVars, Moves, Goto
  <2>1. Contract!MayStart(e) /\ slotBar[e] = "free"
    BY AtSubmit
  <2>2. UNCHANGED phaseBar
    BY DEF IInv, TypeOK, phaseBar
  <2>3. slotBar' = [slotBar EXCEPT ![e] = "lost"]
    <3>1. slotBar'[e] = "lost"
      BY AtSubmit DEF IInv, TypeOK, slotBar, Outstanding
    <3>2. ASSUME NEW f \in Endpoints, f # e
          PROVE  slotBar'[f] = slotBar[f]
      BY <3>2 DEF IInv, TypeOK, slotBar, Outstanding
    <3> QED  BY <3>1, <3>2, SlotsMapped
  <2>4. lateBar' = [lateBar EXCEPT ![e] = FALSE]
    BY <2>2 DEF IInv, TypeOK, lateBar, PastGate
  <2>5. e \in InEndpoints \cap Faulty
    BY IOAssumption
  <2> QED  BY <2>1, <2>2, <2>3, <2>4, <2>5 DEF Contract!Start
<1> QED  BY <1>1, <1>2

(* A failed transfer of an IN endpoint is lost, one of an OUT endpoint is
   decremented like any other. *)
LEMMA MapsFailed ==
  ASSUME IInv, NEW e \in Endpoints, Failed(e)
  PROVE  Contract!Lose(e) \/ UNCHANGED Contract!cvars
<1> USE DEF Failed, loopVars
<1>1. UNCHANGED phaseBar
  BY DEF phaseBar
<1>2. UNCHANGED lateBar
  BY <1>1 DEF lateBar, PastGate
<1>3. event.ep = NoEndpoint
  BY DEF IInv, EventInv
<1>4. ASSUME NEW f \in Endpoints, f # e \/ e \notin InEndpoints
      PROVE  Outstanding(f)' = Outstanding(f)
  BY <1>3, <1>4, LoopAssumption
     DEF IInv, TypeOK, Outstanding, EventIdle, EventAt
<1>5. CASE e \notin InEndpoints
  <2>1. UNCHANGED slotBar
    BY <1>4, <1>5 DEF slotBar
  <2> QED  BY <1>1, <1>2, <2>1 DEF Contract!cvars
<1>6. CASE e \in InEndpoints
  <2>1. inFlight[e] = 1 /\ busyPackets[e] = 1 /\ pc[e] # "submit"
    BY <1>3, LoopAssumption DEF IInv, TypeOK, BusyPacketsExact, Outstanding
  <2>2. slotBar[e] = "used"
    BY <1>3, <2>1, LoopAssumption DEF slotBar, Outstanding
  <2>3. slotBar'[e] = "lost"
    BY <1>6, <2>1, LoopAssumption
       DEF IInv, TypeOK, slotBar, Outstanding, EventIdle, EventAt
  <2>4. ASSUME NEW f \in Endpoints, f # e
        PROVE  slotBar'[f] = slotBar[f]
    BY <1>3, <2>4, LoopAssumption
       DEF IInv, TypeOK, slotBar, Outstanding, EventIdle, EventAt
  <2>5. slotBar' = [slotBar EXCEPT ![e] = "lost"]
    BY <2>3, <2>4, SlotsMapped
  <2> QED  BY <1>1, <1>2, <1>6, <2>2, <2>5 DEF Contract!Lose
<1> QED  BY <1>5, <1>6

(* The decrement ends the transfer: busyPackets was 1 for it alone, so nothing is
   left that would make the slot look lost. *)
LEMMA MapsCbStore ==
  ASSUME IInv, CbStore
  PROVE  Contract!Complete(event.ep) /\ event.ep \in Endpoints
<1> USE DEF CbStore
<1>1. event.ep \in Endpoints /\ event.tmp = 1
  BY LoopAssumption DEF IInv, TypeOK, EventInv
<1>2. inFlight[event.ep] = 0
  BY <1>1 DEF IInv, TypeOK, BusyPacketsExact, Outstanding
<1>3. UNCHANGED phaseBar
  BY DEF phaseBar
<1>4. UNCHANGED lateBar
  BY <1>3 DEF lateBar, PastGate
<1>5. slotBar[event.ep] = "used"
  BY <1>1, <1>2 DEF slotBar, Outstanding
<1>6. slotBar' = [slotBar EXCEPT ![event.ep] = "free"]
  <2>1. slotBar'[event.ep] = "free"
    BY <1>1, <1>2, LoopAssumption
       DEF IInv, TypeOK, slotBar, Outstanding, EventIdle, EventAt
  <2>2. ASSUME NEW f \in Endpoints, f # event.ep
        PROVE  slotBar'[f] = slotBar[f]
    BY <2>2, LoopAssumption
       DEF IInv, TypeOK, slotBar, Outstanding, EventIdle, EventAt
  <2> QED  BY <1>1, <2>1, <2>2, SlotsMapped
<1> QED  BY <1>1, <1>3, <1>4, <1>5, <1>6 DEF Contract!Complete

-----------------------------------------------------------------------------

(* The thread of endpoint zero opens, begins to close, or closes.           *)
LEMMA MapsEp0 ==
  ASSUME IInv, Ep0
  PROVE  [Contract!Next]_(Contract!cvars)
<1>1. ASSUME NEW e \in Endpoints, LoopStep(Enable(e))
      PROVE  Contract!Next
  BY <1>1, MapsEnable DEF Contract!Next
<1>2. ASSUME NEW e \in Endpoints, LoopStep(EnableFails(e))
      PROVE  UNCHANGED Contract!cvars
  BY <1>2, MapsExit DEF LoopStep, EnableFails
<1>3. ASSUME NEW e \in Endpoints, LoopStep(DisableStop(e))
      PROVE  Contract!Next
  BY <1>3, MapsDisableStop DEF Contract!Next
<1>4. CASE LoopStep(DisableClear)  BY <1>4, MapsDisableClear
<1>5. CASE LoopStep(DisableJoin)   BY <1>5, MapsDisableJoin
<1>6. CASE LoopStep(DisableEp)     BY <1>6, MapsDisableEp DEF Contract!Next
<1>7. \/ \E e \in Endpoints : \/ LoopStep(Enable(e)) \/ LoopStep(EnableFails(e))
                              \/ LoopStep(DisableStop(e))
      \/ LoopStep(DisableClear) \/ LoopStep(DisableJoin) \/ LoopStep(DisableEp)
  BY DEF Ep0, Ep0Step, LoopStep
<1> QED  BY <1>1, <1>2, <1>3, <1>4, <1>5, <1>6, <1>7

(* A worker starts, loses or gives up, or does nothing the contract sees.   *)
LEMMA MapsWorker ==
  ASSUME IInv, NEW e \in Endpoints, Worker(e)
  PROVE  [Contract!Next]_(Contract!cvars)
<1>1. CASE LoopStep(LoopTest(e))  BY <1>1, MapsLoopTest
<1>2. CASE LoopStep(Gate(e))      BY <1>2, MapsGate
<1>3. CASE BusyReturn(e)          BY <1>3, MapsBusyReturn DEF Contract!Next
<1>4. CASE Begin(e)               BY <1>4, MapsBegin
<1>5. CASE Read(e)                BY <1>5, MapsRead DEF Contract!Next
<1>6. CASE ReadFails(e)           BY <1>6, MapsExit DEF ReadFails
<1>7. CASE BusyLoad(e)            BY <1>7, MapsBusyLoad
<1>8. CASE BusyStore(e)           BY <1>8, MapsBusyStore
<1>9. CASE Submit(e)              BY <1>9, MapsSubmit DEF Contract!Next
<1>10. CASE SubmitFails(e)        BY <1>10, MapsSubmitFails DEF Contract!Next
<1>11. LoopStep(LoopTest(e) \/ Gate(e)) =>
         LoopStep(LoopTest(e)) \/ LoopStep(Gate(e))
  BY DEF LoopStep
<1> QED
  BY <1>1, <1>2, <1>3, <1>4, <1>5, <1>6, <1>7, <1>8, <1>9, <1>10, <1>11
     DEF Worker

(* A callback completes its transfer at the last of its steps.              *)
LEMMA MapsCallback ==
  ASSUME IInv, Callback
  PROVE  [Contract!Next]_(Contract!cvars)
<1>1. CASE CbHandle      BY <1>1, MapsCbHandle
<1>2. CASE CbWrite       BY <1>2, MapsCbWrite
<1>3. CASE CbWriteFails  BY <1>3, MapsExit DEF CbWriteFails
<1>4. CASE CbLoad        BY <1>4, MapsCbLoad
<1>5. CASE CbStore       BY <1>5, MapsCbStore DEF Contract!Next
<1> QED  BY <1>1, <1>2, <1>3, <1>4, <1>5 DEF Callback

(* Every step is one of the contract, or leaves its variables alone.        *)
LEMMA NextMaps == IInv /\ [Next]_vars => [Contract!Next]_(Contract!cvars)
<1> SUFFICES ASSUME IInv, [Next]_vars
             PROVE  [Contract!Next]_(Contract!cvars)
  OBVIOUS
<1>1. CASE Ep0  BY <1>1, MapsEp0
<1>2. ASSUME NEW e \in Endpoints, Worker(e)
      PROVE  [Contract!Next]_(Contract!cvars)
  BY <1>2, MapsWorker
<1>3. ASSUME NEW e \in Endpoints, Completed(e)
      PROVE  UNCHANGED Contract!cvars
  BY <1>3, MapsCompleted
<1>4. ASSUME NEW e \in Endpoints, Failed(e)
      PROVE  [Contract!Next]_(Contract!cvars)
  BY <1>4, MapsFailed DEF Contract!Next
<1>5. CASE Callback  BY <1>5, MapsCallback
<1>6. CASE UNCHANGED vars  BY <1>6, MapsExit
<1> QED  BY <1>1, <1>2, <1>3, <1>4, <1>5, <1>6 DEF Next, Reap, Exited

(* The threads, with their plain counter, keep the contract: at most one transfer
   outstanding, at most one started after the stop flag is set, and no endpoint
   closed while its transfer is outstanding or lost. *)
THEOREM ImplementsContract == Spec => KeepsContract
<1>1. Init => Contract!Init
  BY InitMaps
<1>2. IInv /\ [Next]_vars => [Contract!Next]_(Contract!cvars)
  BY NextMaps
<1> QED
  BY <1>1, <1>2, Invariance, PTL DEF Spec, KeepsContract, Contract!Spec

=============================================================================
