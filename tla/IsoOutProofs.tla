---------------------------- MODULE IsoOutProofs ----------------------------
(***************************************************************************)
(* For any isochronous OUT endpoints, any limit and however often transfers *)
(* and ioctls fail: the counter stays below the limit, though the worker    *)
(* and the callback overwrite each other's updates, and a worker reads from *)
(* a handle of its own, whatever the workers do to each other's transfers   *)
(* through the static pointer they share.                                   *)
(***************************************************************************)
EXTENDS IsoOut, TLAPS

Labels == {"none", "loop", "gate", "work", "load", "store", "handle", "read",
           "undo", "unstore", "alloc", "fill", "submit", "done"}

TransferStates == {"free", "empty", "filled", "in flight", "ended"}

(* TypeOK, and the types it leaves open. *)
IsoTypes ==
  /\ TypeOK
  /\ pc \in [Endpoints -> Labels]
  /\ owner \in [Handles -> Endpoints \cup {NoEndpoint}]
  /\ io \in [Endpoints -> Handles \cup {-1, 0}]
  /\ tmp \in [Endpoints -> Int]
  /\ transfer \in [Transfers -> [state : TransferStates,
                                 ep : Endpoints \cup {NoEndpoint}]]
  /\ event \in [pc : {"idle", "load", "store", "free"},
                xfr : Transfers \cup {NoTransfer}, ok : BOOLEAN, tmp : Int]
  /\ ep0 \in [pc : {"idle", "clear", "join", "disable"},
              ep : Endpoints \cup {NoEndpoint}, temp : Handles \cup {-1, 0}]

(* Both writers of busyPackets store what they loaded, plus or minus one: the
   worker loads less than Limit before it adds one, and whatever the callback
   loaded, it takes one away. *)
CounterInv ==
  /\ \A e \in Endpoints :
       /\ pc[e] = "load" => busyPackets[e] < Limit
       /\ pc[e] = "store" => tmp[e] < Limit /\ tmp[e] >= -Floor - 1
       /\ pc[e] = "unstore" => tmp[e] <= Limit /\ tmp[e] > -Floor
  /\ event.pc = "store" => event.tmp <= Limit /\ event.tmp > -Floor

(* A transfer that was submitted has an endpoint, and it stays as it ended
   while the callback is at it. *)
TransferInv ==
  /\ \A t \in Transfers :
       transfer[t].state \in {"filled", "in flight", "ended"} =>
         transfer[t].ep \in Endpoints
  /\ event.pc # "idle" =>
       event.xfr \in Transfers /\ transfer[event.xfr].state = "ended"
  /\ \A e \in Endpoints : pc[e] \in {"fill", "submit"} => xfr \in Transfers

(* The handle of an endpoint with a worker, or with one just joined. *)
HandleInv ==
  /\ \A e \in Endpoints :
       /\ pc[e] # "none" => ep_int[e] \in Handles /\ owner[ep_int[e]] = e
       /\ pc[e] = "read" => io[e] = ep_int[e]
  /\ ep0.pc # "idle" =>
       /\ ep0.ep \in Endpoints /\ ep0.temp \in Handles
       /\ ep0.temp = ep_int[ep0.ep] /\ owner[ep0.temp] = ep0.ep
       /\ pc[ep0.ep] = "none" <=> ep0.pc = "disable"

IsoInv == IsoTypes /\ CounterInv /\ TransferInv /\ HandleInv

-----------------------------------------------------------------------------

(* No thread but the one of endpoint zero exists, and no transfer. *)
LEMMA InitEstablishes == Init => IsoInv
<1> SUFFICES ASSUME Init PROVE IsoInv
  OBVIOUS
<1> USE IsoAssumption, LoopAssumption
      DEF Init, LoopInit, Ep0Idle, EventIdle, Unused
<1>1. ep0 \in [pc : {"idle", "clear", "join", "disable"},
               ep : Endpoints \cup {NoEndpoint}, temp : Handles \cup {-1, 0}]
  OBVIOUS
<1>2. event \in [pc : {"idle", "load", "store", "free"},
                 xfr : Transfers \cup {NoTransfer}, ok : BOOLEAN, tmp : Int]
  OBVIOUS
<1>3. \A t \in Transfers : transfer[t].state = "free" /\ transfer[t].ep = NoEndpoint
  OBVIOUS
<1>4. TypeOK
  <2>1. 0 \in (-Floor - 1) .. Limit
    OBVIOUS
  <2>2. busyPackets \in [Endpoints -> (-Floor - 1) .. Limit]
    BY <2>1
  <2>3. ep_int \in [Endpoints -> Handles \cup {-1, 0}]
    OBVIOUS
  <2> QED  BY <1>3, <2>2, <2>3 DEF TypeOK
<1>5. IsoTypes
  BY <1>1, <1>2, <1>4 DEF IsoTypes, Labels, TransferStates
<1>6. CounterInv /\ TransferInv /\ HandleInv
  BY <1>3 DEF CounterInv, TransferInv, HandleInv
<1> QED  BY <1>5, <1>6 DEF IsoInv

(* exit() changes nothing but alive; nor does a stuttering step. *)
LEMMA KeepsExit ==
  ASSUME IsoInv, LoopStep(Exit) \/ UNCHANGED vars
  PROVE  IsoInv'
<1>1. /\ UNCHANGED <<ep_int, stop, keepRunning, busyPackets, pc, ep0, owner,
                     io, tmp, xfr, transfer, event>>
      /\ alive' \in BOOLEAN
  BY DEF LoopStep, Exit, vars, loopVars, isoVars, IsoInv, IsoTypes, TypeOK
<1>2. IsoTypes'
  <2>1. TypeOK'
    BY <1>1 DEF IsoInv, IsoTypes, TypeOK
  <2> QED  BY <1>1, <2>1 DEF IsoInv, IsoTypes
<1>3. CounterInv' /\ TransferInv' /\ HandleInv'
  BY <1>1 DEF IsoInv, CounterInv, TransferInv, HandleInv
<1> QED  BY <1>2, <1>3 DEF IsoInv

(* What Goto does: the worker of e is elsewhere, the others where they were. *)
LEMMA Went ==
  ASSUME IsoInv, NEW e \in Endpoints, NEW label \in Labels, Goto(e, label)
  PROVE  /\ pc' \in [Endpoints -> Labels]
         /\ pc'[e] = label
         /\ \A f \in Endpoints : f # e => pc'[f] = pc[f]
BY DEF Goto, IsoInv, IsoTypes

(* A worker that goes on with its own handle. *)
LEMMA HandlesKept ==
  ASSUME IsoInv, NEW e \in Endpoints, UNCHANGED <<ep_int, ep0, owner>>,
         pc[e] # "none", pc'[e] # "none",
         \A f \in Endpoints : f # e => pc'[f] = pc[f] /\ io'[f] = io[f],
         pc'[e] = "read" => io'[e] = ep_int[e]
  PROVE  HandleInv'
BY DEF IsoInv, HandleInv

(* What a change of a transfer's state does. *)
LEMMA StateSet ==
  ASSUME IsoInv, NEW t \in Transfers, NEW s \in TransferStates,
         transfer' = [transfer EXCEPT ![t].state = s]
  PROVE  /\ transfer' \in [Transfers -> [state : TransferStates,
                                         ep : Endpoints \cup {NoEndpoint}]]
         /\ transfer'[t].state = s /\ transfer'[t].ep = transfer[t].ep
         /\ \A u \in Transfers : u # t => transfer'[u] = transfer[u]
<1>1. transfer \in [Transfers -> [state : TransferStates,
                                  ep : Endpoints \cup {NoEndpoint}]]
  BY DEF IsoInv, IsoTypes
<1>2. transfer[t] \in [state : TransferStates, ep : Endpoints \cup {NoEndpoint}]
  BY <1>1
<1>3. transfer' = [transfer EXCEPT ![t] = [transfer[t] EXCEPT !.state = s]]
  OBVIOUS
<1>4. [transfer[t] EXCEPT !.state = s] \in [state : TransferStates, ep : Endpoints \cup {NoEndpoint}]
  BY <1>2
<1>5. [transfer[t] EXCEPT !.state = s].state = s /\ [transfer[t] EXCEPT !.state = s].ep = transfer[t].ep
  BY <1>2
<1>6. transfer'[t] = [transfer[t] EXCEPT !.state = s]
  BY <1>1, <1>3
<1> QED  BY <1>1, <1>3, <1>4, <1>5, <1>6

(* A function of the endpoints, changed for one. *)
LEMMA SetFor ==
  ASSUME NEW S, NEW f \in [Endpoints -> S], NEW e \in Endpoints, NEW v \in S
  PROVE  /\ [f EXCEPT ![e] = v] \in [Endpoints -> S]
         /\ [f EXCEPT ![e] = v][e] = v
         /\ \A g \in Endpoints : g # e => [f EXCEPT ![e] = v][g] = f[g]
OBVIOUS

(* The fields that TypeOK says nothing new of. *)
LEMMA TransfersTyped ==
  ASSUME transfer \in [Transfers -> [state : TransferStates,
                                     ep : Endpoints \cup {NoEndpoint}]]
  PROVE  \A t \in Transfers :
           /\ transfer[t].state \in {"free", "empty", "filled", "in flight", "ended"}
           /\ transfer[t].ep \in Endpoints \cup {NoEndpoint}
BY DEF TransferStates

-----------------------------------------------------------------------------
(* An endpoint gets a handle that nobody has. *)
LEMMA KeepsEnable ==
  ASSUME IsoInv, NEW e \in Endpoints, LoopStep(Enable(e))
  PROVE  IsoInv'
<1>1. PICK h \in Handles :
        /\ owner[h] = NoEndpoint
        /\ owner' = [owner EXCEPT ![h] = e]
        /\ ep_int' = [ep_int EXCEPT ![e] = h]
  BY DEF LoopStep, Enable
<1>2. /\ UNCHANGED <<alive, busyPackets, ep0, io, tmp, xfr, transfer, event>>
      /\ pc[e] = "none" /\ ep0.pc = "idle" /\ Goto(e, "loop")
  BY DEF LoopStep, isoVars, Enable
<1>3. /\ pc' \in [Endpoints -> Labels]
      /\ pc'[e] = "loop"
      /\ \A f \in Endpoints : f # e => pc'[f] = pc[f]
  BY <1>2, Went DEF Labels
<1>4. /\ owner' \in [Handles -> Endpoints \cup {NoEndpoint}]
      /\ owner'[h] = e
      /\ \A i \in Handles : i # h => owner'[i] = owner[i]
  BY <1>1 DEF IsoInv, IsoTypes
<1>5. /\ ep_int' \in [Endpoints -> Handles \cup {-1, 0}]
      /\ ep_int'[e] = h
      /\ \A f \in Endpoints : f # e => ep_int'[f] = ep_int[f]
  BY <1>1 DEF IsoInv, IsoTypes, TypeOK
<1>6. IsoTypes'
  <2>1. TypeOK'
    BY <1>2, <1>3, <1>4, <1>5 DEF IsoInv, IsoTypes, TypeOK
  <2> QED  BY <1>2, <1>3, <1>4, <1>5, <2>1 DEF IsoInv, IsoTypes
<1>7. CounterInv' /\ TransferInv'
  BY <1>2, <1>3 DEF IsoInv, CounterInv, TransferInv
<1>8. HandleInv'
  <2>1. \A f \in Endpoints : f # e /\ pc[f] # "none" => ep_int[f] # h
    BY <1>1, LoopAssumption DEF IsoInv, HandleInv
  <2> QED  BY <1>2, <1>3, <1>4, <1>5, <2>1 DEF IsoInv, HandleInv
<1> QED  BY <1>6, <1>7, <1>8 DEF IsoInv

(* setEndpoint remembers the handle. *)
LEMMA KeepsDisableStop ==
  ASSUME IsoInv, NEW e \in Endpoints, LoopStep(DisableStop(e))
  PROVE  IsoInv'
<1>1. /\ UNCHANGED <<alive, ep_int, busyPackets, pc, owner, io, tmp, xfr, transfer, event>>
      /\ pc[e] # "none"
      /\ ep0' = [pc |-> "clear", ep |-> e, temp |-> ep_int[e]]
      /\ ep_int[e] \in Handles /\ owner[ep_int[e]] = e
  BY DEF LoopStep, isoVars, DisableStop, IsoInv, HandleInv
<1>2. IsoTypes'
  <2>1. TypeOK'
    BY <1>1 DEF IsoInv, IsoTypes, TypeOK
  <2> QED  BY <1>1, <2>1 DEF IsoInv, IsoTypes
<1>3. CounterInv' /\ TransferInv'
  BY <1>1 DEF IsoInv, CounterInv, TransferInv
<1>4. HandleInv'
  BY <1>1 DEF IsoInv, HandleInv
<1> QED  BY <1>2, <1>3, <1>4 DEF IsoInv

(* keepRunning is cleared, and the join is next. *)
LEMMA KeepsDisableClear ==
  ASSUME IsoInv, LoopStep(DisableClear)
  PROVE  IsoInv'
<1>1. /\ UNCHANGED <<alive, ep_int, busyPackets, pc, owner, io, tmp, xfr, transfer, event>>
      /\ ep0.pc = "clear" /\ ep0' = [ep0 EXCEPT !.pc = "join"]
  BY DEF LoopStep, isoVars, DisableClear
<1>2. /\ ep0'.pc = "join" /\ ep0'.ep = ep0.ep /\ ep0'.temp = ep0.temp
      /\ ep0' \in [pc : {"idle", "clear", "join", "disable"},
                   ep : Endpoints \cup {NoEndpoint}, temp : Handles \cup {-1, 0}]
  BY <1>1 DEF IsoInv, IsoTypes
<1>3. IsoTypes'
  <2>1. TypeOK'
    BY <1>1, <1>2 DEF IsoInv, IsoTypes, TypeOK
  <2> QED  BY <1>1, <1>2, <2>1 DEF IsoInv, IsoTypes
<1>4. CounterInv' /\ TransferInv'
  BY <1>1 DEF IsoInv, CounterInv, TransferInv
<1>5. HandleInv'
  BY <1>1, <1>2 DEF IsoInv, HandleInv
<1> QED  BY <1>3, <1>4, <1>5 DEF IsoInv

(* The worker is gone, its handle is not. *)
LEMMA KeepsDisableJoin ==
  ASSUME IsoInv, LoopStep(DisableJoin)
  PROVE  IsoInv'
<1> DEFINE e == ep0.ep
<1>1. /\ UNCHANGED <<alive, ep_int, busyPackets, owner, io, tmp, xfr, transfer, event>>
      /\ ep0.pc = "join" /\ ep0' = [ep0 EXCEPT !.pc = "disable"]
      /\ pc[e] = "done" /\ Goto(e, "none")
  BY DEF LoopStep, isoVars, DisableJoin
<1>2. /\ ep0'.pc = "disable" /\ ep0'.ep = e /\ ep0'.temp = ep0.temp
      /\ ep0' \in [pc : {"idle", "clear", "join", "disable"},
                   ep : Endpoints \cup {NoEndpoint}, temp : Handles \cup {-1, 0}]
  BY <1>1 DEF IsoInv, IsoTypes
<1>3. e \in Endpoints
  BY <1>1 DEF IsoInv, HandleInv
<1>4. /\ pc' \in [Endpoints -> Labels]
      /\ pc'[e] = "none"
      /\ \A f \in Endpoints : f # e => pc'[f] = pc[f]
  BY <1>1, <1>3, Went DEF Labels
<1> HIDE DEF e
<1>5. IsoTypes'
  <2>1. TypeOK'
    BY <1>1, <1>2, <1>4 DEF IsoInv, IsoTypes, TypeOK
  <2> QED  BY <1>1, <1>2, <1>4, <2>1 DEF IsoInv, IsoTypes
<1>6. CounterInv' /\ TransferInv'
  BY <1>1, <1>4 DEF IsoInv, CounterInv, TransferInv
<1>7. HandleInv'
  BY <1>1, <1>2, <1>3, <1>4 DEF IsoInv, HandleInv, e
<1> QED  BY <1>5, <1>6, <1>7 DEF IsoInv

(* The handle is given back; no worker has it. *)
LEMMA KeepsDisableEp ==
  ASSUME IsoInv, LoopStep(DisableEp)
  PROVE  IsoInv'
<1>1. CASE LoopStep(Exit)
  BY <1>1, KeepsExit
<1>2. CASE ~Exit
  <2> DEFINE h == ep0.temp
             e == ep0.ep
  <2>1. /\ UNCHANGED <<alive, pc, busyPackets, io, tmp, xfr, transfer, event>>
        /\ ep0.pc = "disable" /\ ep0' = Ep0Idle
        /\ owner' = [owner EXCEPT ![h] = NoEndpoint]
        /\ ep_int' = [ep_int EXCEPT ![e] = 0]
    BY <1>2 DEF LoopStep, isoVars, DisableEp
  <2>2. /\ e \in Endpoints /\ h \in Handles /\ h = ep_int[e]
        /\ owner[h] = e /\ pc[e] = "none"
    BY <2>1 DEF IsoInv, HandleInv
  <2>3. /\ owner' \in [Handles -> Endpoints \cup {NoEndpoint}]
        /\ \A i \in Handles : i # h => owner'[i] = owner[i]
    BY <2>1, <2>2 DEF IsoInv, IsoTypes
  <2>4. /\ ep_int' \in [Endpoints -> Handles \cup {-1, 0}]
        /\ \A f \in Endpoints : f # e => ep_int'[f] = ep_int[f]
    BY <2>1, <2>2 DEF IsoInv, IsoTypes, TypeOK
  <2>5. /\ ep0'.pc = "idle"
        /\ ep0' \in [pc : {"idle", "clear", "join", "disable"},
                     ep : Endpoints \cup {NoEndpoint}, temp : Handles \cup {-1, 0}]
    BY <2>1 DEF Ep0Idle
  <2> HIDE DEF h, e
  <2>6. IsoTypes'
    <3>1. TypeOK'
      BY <2>1, <2>3, <2>4, <2>5 DEF IsoInv, IsoTypes, TypeOK
    <3> QED  BY <2>1, <2>3, <2>4, <2>5, <3>1 DEF IsoInv, IsoTypes
  <2>7. CounterInv' /\ TransferInv'
    BY <2>1 DEF IsoInv, CounterInv, TransferInv
  <2>8. HandleInv'
    BY <2>1, <2>2, <2>3, <2>4, <2>5 DEF IsoInv, HandleInv
  <2> QED  BY <2>6, <2>7, <2>8 DEF IsoInv
<1> QED  BY <1>1, <1>2 DEF LoopStep

-----------------------------------------------------------------------------
(* A step of the worker that changes where it is, and nothing else. *)
LEMMA KeepsMoves ==
  ASSUME IsoInv, NEW e \in Endpoints, NEW label \in Labels,
         LoopStep(Moves(e, label)),
         pc[e] # "none", label \notin {"none", "read", "store", "unstore", "fill", "submit"},
         label = "load" => busyPackets[e] < Limit
  PROVE  IsoInv'
<1>1. /\ UNCHANGED <<alive, ep_int, busyPackets, ep0, owner, io, tmp, xfr, transfer, event>>
      /\ pc' \in [Endpoints -> Labels]
      /\ pc'[e] = label
      /\ \A f \in Endpoints : f # e => pc'[f] = pc[f]
  BY Went DEF LoopStep, isoVars, Moves
<1>2. IsoTypes'
  <2>1. TypeOK'
    BY <1>1 DEF IsoInv, IsoTypes, TypeOK
  <2> QED  BY <1>1, <2>1 DEF IsoInv, IsoTypes
<1>3. CounterInv' /\ TransferInv'
  BY <1>1 DEF IsoInv, CounterInv, TransferInv
<1>4. HandleInv'
  BY <1>1, HandlesKept
<1> QED  BY <1>2, <1>3, <1>4 DEF IsoInv

(* The loop, the gate, the early return, and a packet or none. *)
LEMMA KeepsWorkerMoves ==
  ASSUME IsoInv, NEW e \in Endpoints,
         \/ LoopStep(LoopTest(e) \/ Gate(e))
         \/ BusyReturn(e) \/ Begin(e)
  PROVE  IsoInv'
<1>1. \E label \in {"gate", "done", "work", "loop", "load"} :
        /\ LoopStep(Moves(e, label))
        /\ pc[e] # "none"
        /\ label = "load" => busyPackets[e] < Limit
  <2>1. CASE LoopStep(LoopTest(e))
    BY <2>1 DEF LoopStep, LoopTest
  <2>2. CASE LoopStep(Gate(e))
    BY <2>2 DEF LoopStep, Gate
  <2>3. CASE BusyReturn(e)
    BY <2>3 DEF BusyReturn
  <2>4. CASE Begin(e)
    BY <2>4 DEF Begin
  <2> QED  BY <2>1, <2>2, <2>3, <2>4 DEF LoopStep
<1>2. {"gate", "done", "work", "loop", "load"} \subseteq Labels
  BY DEF Labels
<1> QED  BY <1>1, <1>2, KeepsMoves

(* busyPackets is loaded, by the worker. *)
LEMMA KeepsLoad ==
  ASSUME IsoInv, NEW e \in Endpoints,
         \/ Load(e, "load", "store")
         \/ busyPackets[e] > -Floor /\ Load(e, "undo", "unstore")
  PROVE  IsoInv'
<1>1. PICK to \in {"store", "unstore"} :
        /\ pc[e] = IF to = "store" THEN "load" ELSE "undo"
        /\ to = "unstore" => busyPackets[e] > -Floor
        /\ tmp' = [tmp EXCEPT ![e] = busyPackets[e]]
        /\ Moves(e, to)
        /\ UNCHANGED <<io, xfr, transfer, event>>
  BY DEF Load
<1>2. /\ UNCHANGED <<alive, ep_int, busyPackets, ep0, owner>>
      /\ pc' \in [Endpoints -> Labels]
      /\ pc'[e] = to
      /\ \A f \in Endpoints : f # e => pc'[f] = pc[f]
  BY <1>1, Went DEF Moves, Labels
<1>3. busyPackets[e] \in (-Floor - 1) .. Limit
  BY DEF IsoInv, IsoTypes, TypeOK
<1>4. busyPackets[e] \in Int /\ tmp \in [Endpoints -> Int]
  BY <1>3, IsoAssumption DEF IsoInv, IsoTypes
<1>5. /\ tmp' \in [Endpoints -> Int]
      /\ tmp'[e] = busyPackets[e]
      /\ \A f \in Endpoints : f # e => tmp'[f] = tmp[f]
  BY <1>1, <1>4
<1>6. IsoTypes'
  <2>1. TypeOK'
    BY <1>1, <1>2, <1>5 DEF IsoInv, IsoTypes, TypeOK
  <2> QED  BY <1>1, <1>2, <1>5, <2>1 DEF IsoInv, IsoTypes
<1>7. CounterInv'
  BY <1>1, <1>2, <1>3, <1>5, IsoAssumption DEF IsoInv, CounterInv
<1>8. TransferInv'
  BY <1>1, <1>2 DEF IsoInv, TransferInv
<1>9. HandleInv'
  BY <1>1, <1>2, HandlesKept
<1> QED  BY <1>6, <1>7, <1>8, <1>9 DEF IsoInv

(* What the worker stores is within the bounds, as what it loaded was. *)
LEMMA KeepsStore ==
  ASSUME IsoInv, NEW e \in Endpoints,
         Store(e, "store", 1, "handle") \/ Store(e, "unstore", -1, "loop")
  PROVE  IsoInv'
<1>1. PICK n \in {1, -1} :
        /\ pc[e] = IF n = 1 THEN "store" ELSE "unstore"
        /\ busyPackets' = [busyPackets EXCEPT ![e] = tmp[e] + n]
        /\ Goto(e, IF n = 1 THEN "handle" ELSE "loop")
        /\ tmp' = [tmp EXCEPT ![e] = 0]
        /\ UNCHANGED <<alive, ep_int, ep0, owner, io, xfr, transfer, event>>
  BY DEF Store
<1>2. /\ pc' \in [Endpoints -> Labels]
      /\ pc'[e] \in {"handle", "loop"}
      /\ \A f \in Endpoints : f # e => pc'[f] = pc[f]
  BY <1>1, Went DEF Labels
<1>3. tmp[e] + n \in (-Floor - 1) .. Limit
  <2>1. tmp[e] \in Int
    BY DEF IsoInv, IsoTypes
  <2> QED  BY <1>1, <2>1, IsoAssumption DEF IsoInv, CounterInv
<1>4. busyPackets \in [Endpoints -> (-Floor - 1) .. Limit]
  BY DEF IsoInv, IsoTypes, TypeOK
<1>5. /\ busyPackets' \in [Endpoints -> (-Floor - 1) .. Limit]
      /\ \A f \in Endpoints : f # e => busyPackets'[f] = busyPackets[f]
  BY <1>1, <1>3, <1>4
<1>6. /\ tmp' \in [Endpoints -> Int]
      /\ \A f \in Endpoints : f # e => tmp'[f] = tmp[f]
  BY <1>1 DEF IsoInv, IsoTypes
<1>7. IsoTypes'
  <2>1. TypeOK'
    BY <1>1, <1>2, <1>5 DEF IsoInv, IsoTypes, TypeOK
  <2> QED  BY <1>1, <1>2, <1>5, <1>6, <2>1 DEF IsoInv, IsoTypes
<1>8. CounterInv'
  BY <1>1, <1>2, <1>5, <1>6 DEF IsoInv, CounterInv
<1>9. TransferInv'
  BY <1>1, <1>2 DEF IsoInv, TransferInv
<1>10. HandleInv'
  BY <1>1, <1>2, HandlesKept
<1> QED  BY <1>7, <1>8, <1>9, <1>10 DEF IsoInv

(* The handle is looked up again for every packet. *)
LEMMA KeepsHandle ==
  ASSUME IsoInv, NEW e \in Endpoints, Handle(e)
  PROVE  IsoInv'
<1>1. /\ UNCHANGED <<alive, ep_int, busyPackets, ep0, owner, tmp, xfr, transfer, event>>
      /\ pc[e] = "handle" /\ pc'[e] = "read"
      /\ pc' \in [Endpoints -> Labels]
      /\ \A f \in Endpoints : f # e => pc'[f] = pc[f]
  BY Went DEF Handle, Moves, Labels
<1>2. /\ io' \in [Endpoints -> Handles \cup {-1, 0}]
      /\ io'[e] = ep_int[e]
      /\ \A f \in Endpoints : f # e => io'[f] = io[f]
  BY DEF Handle, IsoInv, IsoTypes, TypeOK
<1>3. IsoTypes'
  <2>1. TypeOK'
    BY <1>1, <1>2 DEF IsoInv, IsoTypes, TypeOK
  <2> QED  BY <1>1, <1>2, <2>1 DEF IsoInv, IsoTypes
<1>4. CounterInv' /\ TransferInv'
  BY <1>1 DEF IsoInv, CounterInv, TransferInv
<1>5. HandleInv'
  BY <1>1, <1>2, HandlesKept
<1> QED  BY <1>3, <1>4, <1>5 DEF IsoInv

(* The read returns: the handle is not used any more. *)
LEMMA KeepsRead ==
  ASSUME IsoInv, NEW e \in Endpoints, Read(e)
  PROVE  IsoInv'
<1>1. /\ UNCHANGED <<alive, ep_int, busyPackets, ep0, owner, tmp, xfr, transfer, event>>
      /\ pc[e] = "read" /\ pc'[e] \in {"alloc", "undo"}
      /\ pc' \in [Endpoints -> Labels]
      /\ \A f \in Endpoints : f # e => pc'[f] = pc[f]
  BY Went DEF Read, Moves, Labels
<1>2. /\ io' \in [Endpoints -> Handles \cup {-1, 0}]
      /\ \A f \in Endpoints : f # e => io'[f] = io[f]
  BY DEF Read, IsoInv, IsoTypes, TypeOK
<1>3. IsoTypes'
  <2>1. TypeOK'
    BY <1>1, <1>2 DEF IsoInv, IsoTypes, TypeOK
  <2> QED  BY <1>1, <1>2, <2>1 DEF IsoInv, IsoTypes
<1>4. CounterInv' /\ TransferInv'
  BY <1>1 DEF IsoInv, CounterInv, TransferInv
<1>5. HandleInv'
  BY <1>1, <1>2, HandlesKept
<1> QED  BY <1>3, <1>4, <1>5 DEF IsoInv

(* The static pointer is moved to a new transfer. *)
LEMMA KeepsAlloc ==
  ASSUME IsoInv, NEW e \in Endpoints, Alloc(e)
  PROVE  IsoInv'
<1>1. PICK t \in Transfers :
        /\ transfer[t].state = "free"
        /\ transfer' = [transfer EXCEPT ![t].state = "empty"]
        /\ xfr' = t
  BY DEF Alloc
<1>2. /\ UNCHANGED <<alive, ep_int, busyPackets, ep0, owner, io, tmp, event>>
      /\ pc[e] = "alloc" /\ pc'[e] = "fill"
      /\ pc' \in [Endpoints -> Labels]
      /\ \A f \in Endpoints : f # e => pc'[f] = pc[f]
  BY Went DEF Alloc, Moves, Labels
<1>3. /\ transfer' \in [Transfers -> [state : TransferStates,
                                      ep : Endpoints \cup {NoEndpoint}]]
      /\ transfer'[t].state = "empty"
      /\ \A u \in Transfers : u # t => transfer'[u] = transfer[u]
  BY <1>1, StateSet DEF TransferStates
<1>4. IsoTypes'
  <2>1. TypeOK'
    BY <1>1, <1>2, <1>3, TransfersTyped DEF IsoInv, IsoTypes, TypeOK, TransferStates
  <2> QED  BY <1>1, <1>2, <1>3, <2>1 DEF IsoInv, IsoTypes, TransferStates
<1>5. TransferInv'
  BY <1>1, <1>2, <1>3 DEF IsoInv, TransferInv
<1>6. CounterInv'
  BY <1>2 DEF IsoInv, CounterInv
<1>7. HandleInv'
  BY <1>2, HandlesKept
<1> QED  BY <1>4, <1>5, <1>6, <1>7 DEF IsoInv

(* Whatever the pointer points to is filled. *)
LEMMA KeepsFill ==
  ASSUME IsoInv, NEW e \in Endpoints, Fill(e)
  PROVE  IsoInv'
<1> DEFINE new == IF transfer[xfr].state = "empty" THEN "filled"
                                                   ELSE transfer[xfr].state
<1>1. /\ UNCHANGED <<alive, ep_int, busyPackets, ep0, owner, io, tmp, xfr, event>>
      /\ pc[e] = "fill" /\ pc'[e] = "submit"
      /\ pc' \in [Endpoints -> Labels]
      /\ \A f \in Endpoints : f # e => pc'[f] = pc[f]
  BY Went DEF Fill, Moves, Labels
<1>2. xfr \in Transfers
  BY <1>1 DEF IsoInv, TransferInv
<1>3. transfer' = [transfer EXCEPT ![xfr] = [state |-> new, ep |-> e]]
  BY DEF Fill
<1>4. transfer \in [Transfers -> [state : TransferStates,
                                  ep : Endpoints \cup {NoEndpoint}]]
  BY DEF IsoInv, IsoTypes
<1>5. new \in TransferStates
  BY <1>2, <1>4 DEF TransferStates
<1>6. new = "ended" => transfer[xfr].state = "ended"
  OBVIOUS
<1>7. transfer[xfr].state = "ended" => new = "ended"
  OBVIOUS
<1> HIDE DEF new
<1>8. [state |-> new, ep |-> e] \in [state : TransferStates,
                                     ep : Endpoints \cup {NoEndpoint}]
  BY <1>5
<1>9. /\ transfer' \in [Transfers -> [state : TransferStates,
                                      ep : Endpoints \cup {NoEndpoint}]]
      /\ transfer'[xfr] = [state |-> new, ep |-> e]
      /\ \A u \in Transfers : u # xfr => transfer'[u] = transfer[u]
  BY <1>2, <1>3, <1>4, <1>8
<1>10. IsoTypes'
  <2>1. TypeOK'
    BY <1>1, <1>9, TransfersTyped DEF IsoInv, IsoTypes, TypeOK, TransferStates
  <2> QED  BY <1>1, <1>9, <2>1 DEF IsoInv, IsoTypes, TransferStates
<1>11. TransferInv'
  <2>1. transfer'[xfr].state = new /\ transfer'[xfr].ep = e
    BY <1>9
  <2>2. \A t \in Transfers :
          transfer'[t].state \in {"filled", "in flight", "ended"} =>
            transfer'[t].ep \in Endpoints
    BY <1>9, <2>1 DEF IsoInv, TransferInv
  <2>3. event.pc # "idle" => event.xfr \in Transfers /\ transfer'[event.xfr].state = "ended"
    BY <1>7, <1>9, <2>1 DEF IsoInv, TransferInv
  <2> QED  BY <1>1, <1>2, <2>2, <2>3 DEF TransferInv
<1>12. CounterInv'
  BY <1>1 DEF IsoInv, CounterInv
<1>13. HandleInv'
  BY <1>1, HandlesKept
<1> QED  BY <1>10, <1>11, <1>12, <1>13 DEF IsoInv

(* libusb takes the transfer, if it was filled. *)
LEMMA KeepsSubmit ==
  ASSUME IsoInv, NEW e \in Endpoints, Submit(e)
  PROVE  IsoInv'
<1>1. /\ UNCHANGED <<alive, ep_int, busyPackets, ep0, owner, io, tmp, xfr, event>>
      /\ pc[e] = "submit" /\ pc'[e] = "loop"
      /\ pc' \in [Endpoints -> Labels]
      /\ \A f \in Endpoints : f # e => pc'[f] = pc[f]
  BY Went DEF Submit, Moves, Labels
<1>2. xfr \in Transfers
  BY <1>1 DEF IsoInv, TransferInv
<1>3. /\ transfer' \in [Transfers -> [state : TransferStates,
                                      ep : Endpoints \cup {NoEndpoint}]]
      /\ \A u \in Transfers :
           \/ transfer'[u] = transfer[u]
           \/ /\ transfer[u].state = "filled" /\ transfer'[u].state = "in flight"
              /\ transfer'[u].ep = transfer[u].ep
  <2>1. CASE /\ transfer[xfr].state = "filled"
             /\ transfer' = [transfer EXCEPT ![xfr].state = "in flight"]
    <3>1. "in flight" \in TransferStates
      BY DEF TransferStates
    <3> QED  BY <1>2, <2>1, <3>1, StateSet
  <2>2. CASE UNCHANGED transfer
    BY <2>2 DEF IsoInv, IsoTypes
  <2> QED  BY <2>1, <2>2 DEF Submit
<1>4. IsoTypes'
  <2>1. TypeOK'
    BY <1>1, <1>3, TransfersTyped DEF IsoInv, IsoTypes, TypeOK, TransferStates
  <2> QED  BY <1>1, <1>3, <2>1 DEF IsoInv, IsoTypes, TransferStates
<1>5. TransferInv'
  BY <1>1, <1>3 DEF IsoInv, TransferInv
<1>6. CounterInv'
  BY <1>1 DEF IsoInv, CounterInv
<1>7. HandleInv'
  BY <1>1, HandlesKept
<1> QED  BY <1>4, <1>5, <1>6, <1>7 DEF IsoInv

-----------------------------------------------------------------------------
(* A transfer ends, and the callback is called. *)
LEMMA KeepsEnded ==
  ASSUME IsoInv, NEW t \in Transfers, Ended(t)
  PROVE  IsoInv'
<1>1. /\ UNCHANGED <<alive, ep_int, busyPackets, pc, ep0, owner, io, tmp, xfr>>
      /\ transfer[t].state = "in flight" /\ event.pc = "idle"
      /\ transfer' = [transfer EXCEPT ![t].state = "ended"]
  BY DEF Ended, loopVars
<1>2. /\ transfer' \in [Transfers -> [state : TransferStates,
                                      ep : Endpoints \cup {NoEndpoint}]]
      /\ transfer'[t].state = "ended" /\ transfer'[t].ep = transfer[t].ep
      /\ \A u \in Transfers : u # t => transfer'[u] = transfer[u]
  BY <1>1, StateSet DEF TransferStates
<1>3. PICK ok \in BOOLEAN :
        event' = [event EXCEPT !.pc = "load", !.xfr = t, !.ok = ok]
  <2>1. PICK ok \in {TRUE} \cup (IF transfer[t].ep \in Faulty THEN {FALSE} ELSE {}) :
          event' = [event EXCEPT !.pc = "load", !.xfr = t, !.ok = ok]
    BY DEF Ended
  <2>2. ok \in BOOLEAN
    OBVIOUS
  <2> QED  BY <2>1, <2>2
<1>4. /\ event'.pc = "load" /\ event'.xfr = t
      /\ event' \in [pc : {"idle", "load", "store", "free"},
                     xfr : Transfers \cup {NoTransfer}, ok : BOOLEAN, tmp : Int]
  BY <1>3 DEF IsoInv, IsoTypes
<1>5. IsoTypes'
  <2>1. TypeOK'
    BY <1>1, <1>2, <1>4, TransfersTyped DEF IsoInv, IsoTypes, TypeOK, TransferStates
  <2> QED  BY <1>1, <1>2, <1>4, <2>1 DEF IsoInv, IsoTypes, TransferStates
<1>6. TransferInv'
  BY <1>1, <1>2, <1>4 DEF IsoInv, TransferInv
<1>7. CounterInv'
  BY <1>1, <1>4 DEF IsoInv, CounterInv
<1>8. HandleInv'
  BY <1>1 DEF IsoInv, HandleInv
<1> QED  BY <1>5, <1>6, <1>7, <1>8 DEF IsoInv

(* busyPackets is loaded, by the callback. *)
LEMMA KeepsCbLoad ==
  ASSUME IsoInv, CbLoad
  PROVE  IsoInv'
<1> DEFINE e == transfer[event.xfr].ep
<1>1. /\ UNCHANGED <<alive, ep_int, busyPackets, pc, ep0, owner, io, tmp, xfr, transfer>>
      /\ event.pc = "load" /\ busyPackets[e] > -Floor
      /\ event' = [event EXCEPT !.pc = "store", !.tmp = busyPackets[e]]
  BY DEF CbLoad, loopVars
<1>2. e \in Endpoints
  BY <1>1 DEF IsoInv, TransferInv
<1>3. busyPackets[e] \in (-Floor - 1) .. Limit
  BY <1>2 DEF IsoInv, IsoTypes, TypeOK
<1>4. busyPackets[e] \in Int /\ busyPackets[e] <= Limit
  BY <1>3, IsoAssumption
<1> HIDE DEF e
<1>5. /\ event'.pc = "store" /\ event'.xfr = event.xfr /\ event'.tmp = busyPackets[e]
      /\ event' \in [pc : {"idle", "load", "store", "free"},
                     xfr : Transfers \cup {NoTransfer}, ok : BOOLEAN, tmp : Int]
  BY <1>1, <1>4 DEF IsoInv, IsoTypes
<1>6. IsoTypes'
  <2>1. TypeOK'
    BY <1>1, <1>5 DEF IsoInv, IsoTypes, TypeOK
  <2> QED  BY <1>1, <1>5, <2>1 DEF IsoInv, IsoTypes
<1>7. TransferInv'
  BY <1>1, <1>5 DEF IsoInv, TransferInv
<1>8. CounterInv'
  BY <1>1, <1>4, <1>5 DEF IsoInv, CounterInv
<1>9. HandleInv'
  BY <1>1 DEF IsoInv, HandleInv
<1> QED  BY <1>6, <1>7, <1>8, <1>9 DEF IsoInv

(* What the callback stores is below the limit, whatever came in between. *)
LEMMA KeepsCbStore ==
  ASSUME IsoInv, CbStore
  PROVE  IsoInv'
<1> DEFINE e == transfer[event.xfr].ep
<1>1. /\ UNCHANGED <<alive, ep_int, pc, ep0, owner, io, tmp, xfr, transfer>>
      /\ event.pc = "store"
      /\ busyPackets' = [busyPackets EXCEPT ![e] = event.tmp - 1]
      /\ event' = [event EXCEPT !.pc = "free"]
  BY DEF CbStore
<1>2. event.tmp \in Int
  BY DEF IsoInv, IsoTypes
<1>3. /\ event.tmp - 1 \in (-Floor - 1) .. Limit
      /\ event.tmp - 1 < Limit
  BY <1>1, <1>2, IsoAssumption DEF IsoInv, CounterInv
<1> HIDE DEF e
<1>4. busyPackets \in [Endpoints -> (-Floor - 1) .. Limit]
  BY DEF IsoInv, IsoTypes, TypeOK
<1>5. /\ busyPackets' \in [Endpoints -> (-Floor - 1) .. Limit]
      /\ \A f \in Endpoints : busyPackets'[f] = busyPackets[f] \/ busyPackets'[f] < Limit
  BY <1>1, <1>3, <1>4
<1>6. /\ event'.pc = "free" /\ event'.xfr = event.xfr
      /\ event' \in [pc : {"idle", "load", "store", "free"},
                     xfr : Transfers \cup {NoTransfer}, ok : BOOLEAN, tmp : Int]
  BY <1>1 DEF IsoInv, IsoTypes
<1>7. IsoTypes'
  <2>1. TypeOK'
    BY <1>1, <1>5, <1>6 DEF IsoInv, IsoTypes, TypeOK
  <2> QED  BY <1>1, <1>5, <1>6, <2>1 DEF IsoInv, IsoTypes
<1>8. TransferInv'
  BY <1>1, <1>6 DEF IsoInv, TransferInv
<1>9. CounterInv'
  BY <1>1, <1>5, <1>6 DEF IsoInv, CounterInv
<1>10. HandleInv'
  BY <1>1 DEF IsoInv, HandleInv
<1> QED  BY <1>7, <1>8, <1>9, <1>10 DEF IsoInv

(* The transfer is freed, if it did not fail. *)
LEMMA KeepsCbFree ==
  ASSUME IsoInv, CbFree
  PROVE  IsoInv'
<1>1. /\ UNCHANGED <<alive, ep_int, busyPackets, pc, ep0, owner, io, tmp, xfr>>
      /\ event.pc = "free" /\ event' = EventIdle
      /\ transfer' = IF event.ok THEN [transfer EXCEPT ![event.xfr] = Unused]
                     ELSE transfer
  BY DEF CbFree, loopVars
<1>2. Unused \in [state : TransferStates, ep : Endpoints \cup {NoEndpoint}]
      /\ Unused.state = "free"
  BY DEF Unused, TransferStates
<1>3. /\ transfer' \in [Transfers -> [state : TransferStates,
                                      ep : Endpoints \cup {NoEndpoint}]]
      /\ \A u \in Transfers : transfer'[u] = transfer[u] \/ transfer'[u] = Unused
  BY <1>1, <1>2 DEF IsoInv, IsoTypes
<1>4. /\ event'.pc = "idle"
      /\ event' \in [pc : {"idle", "load", "store", "free"},
                     xfr : Transfers \cup {NoTransfer}, ok : BOOLEAN, tmp : Int]
  BY <1>1 DEF EventIdle
<1>5. IsoTypes'
  <2>1. TypeOK'
    BY <1>1, <1>3, <1>4, TransfersTyped DEF IsoInv, IsoTypes, TypeOK, TransferStates
  <2> QED  BY <1>1, <1>3, <1>4, <2>1 DEF IsoInv, IsoTypes, TransferStates
<1>6. TransferInv'
  BY <1>1, <1>2, <1>3, <1>4 DEF IsoInv, TransferInv
<1>7. CounterInv'
  BY <1>1, <1>4 DEF IsoInv, CounterInv
<1>8. HandleInv'
  BY <1>1 DEF IsoInv, HandleInv
<1> QED  BY <1>5, <1>6, <1>7, <1>8 DEF IsoInv

-----------------------------------------------------------------------------
(* Every step keeps the invariant. *)
LEMMA NextKeeps ==
  ASSUME IsoInv, [Next]_vars
  PROVE  IsoInv'
<1>1. CASE LoopStep(Ep0Step)
  <2>1. CASE \E e \in Endpoints : LoopStep(Enable(e) \/ EnableFails(e) \/ DisableStop(e))
    BY <2>1, KeepsEnable, KeepsExit, KeepsDisableStop DEF LoopStep, EnableFails
  <2>2. CASE LoopStep(DisableClear \/ DisableJoin \/ DisableEp)
    BY <2>2, KeepsDisableClear, KeepsDisableJoin, KeepsDisableEp DEF LoopStep
  <2> QED  BY <1>1, <2>1, <2>2 DEF LoopStep, Ep0Step
<1>2. CASE EventThread
  BY <1>2, KeepsEnded, KeepsCbLoad, KeepsCbStore, KeepsCbFree DEF EventThread
<1>3. ASSUME NEW e \in Endpoints, Worker(e)
      PROVE  IsoInv'
  <2>1. CASE LoopStep(LoopTest(e) \/ Gate(e)) \/ BusyReturn(e) \/ Begin(e)
    BY <2>1, KeepsWorkerMoves
  <2>2. CASE Count(e) \/ Uncount(e)
    BY <2>2, KeepsLoad, KeepsStore DEF Count, Uncount
  <2>3. CASE ReadFails(e) \/ SubmitCrashes(e)
    BY <2>3, KeepsExit DEF ReadFails, SubmitCrashes, LoopStep
  <2>4. CASE Handle(e) \/ Read(e) \/ Alloc(e) \/ Fill(e) \/ Submit(e)
    BY <2>4, KeepsHandle, KeepsRead, KeepsAlloc, KeepsFill, KeepsSubmit
  <2> QED  BY <1>3, <2>1, <2>2, <2>3, <2>4 DEF Worker
<1>4. CASE UNCHANGED vars
  BY <1>4, KeepsExit
<1> QED  BY <1>1, <1>2, <1>3, <1>4 DEF Next, Exited

-----------------------------------------------------------------------------
(* However worker and callback interleave, and whatever fails. *)
THEOREM IsoInvariance == Spec => []IsoInv
<1>1. Init => IsoInv
  BY InitEstablishes
<1>2. IsoInv /\ [Next]_vars => IsoInv'
  BY NextKeeps
<1> QED  BY <1>1, <1>2, PTL DEF Spec

(* For any endpoints: the counter never exceeds the limit the worker tests,
   although its updates are lost. *)
THEOREM IsoTypeCorrect == Spec => []TypeOK
<1>1. IsoInv => TypeOK
  BY DEF IsoInv, IsoTypes
<1> QED  BY <1>1, IsoInvariance, PTL

(* For any endpoints: a worker reads from the handle of its own endpoint, and
   not from one that was given back. *)
THEOREM ReadsOwnHandle == Spec => []HandleOwned
<1>1. IsoInv => HandleOwned
  BY LoopAssumption DEF IsoInv, HandleInv, HandleOwned, Enabled
<1> QED  BY <1>1, IsoInvariance, PTL

=============================================================================
