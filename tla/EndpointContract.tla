-------------------------- MODULE EndpointContract --------------------------
(***************************************************************************)
(* What the endpoint threads promise to the rest of the proxy, without      *)
(* threads, handles or counters: an endpoint is closed, open or closing and *)
(* has room for one transfer.  Once it is closing it starts at most one     *)
(* more transfer, and it closes only when its transfer has come back.  A    *)
(* transfer that is lost takes the room for ever.                           *)
(***************************************************************************)
CONSTANTS
  Endpoints,
  CanLose     \* the endpoints whose transfers can get lost

VARIABLES
  phase,  \* "closed", "open" or "closing"
  slot,   \* "free", "used" by an outstanding transfer, or "lost"
  late    \* a closing endpoint may still start one transfer

cvars == <<phase, slot, late>>

Init ==
  /\ phase = [e \in Endpoints |-> "closed"]
  /\ slot = [e \in Endpoints |-> "free"]
  /\ late = [e \in Endpoints |-> FALSE]

Open(e) ==
  /\ phase[e] = "closed"
  /\ phase' = [phase EXCEPT ![e] = "open"]
  /\ UNCHANGED <<slot, late>>

\* The worker may be past the point where it looks at the stop flag.
BeginClose(e) ==
  /\ phase[e] = "open"
  /\ phase' = [phase EXCEPT ![e] = "closing"]
  /\ \E b \in BOOLEAN : late' = [late EXCEPT ![e] = b]
  /\ UNCHANGED slot

MayStart(e) == phase[e] = "open" \/ (phase[e] = "closing" /\ late[e])

Start(e) ==
  /\ MayStart(e)
  /\ slot[e] = "free"
  /\ \E to \in {"used"} \cup (IF e \in CanLose THEN {"lost"} ELSE {}) :
       slot' = [slot EXCEPT ![e] = to]
  /\ late' = [late EXCEPT ![e] = FALSE]
  /\ UNCHANGED phase

GiveUp(e) ==
  /\ late[e]
  /\ late' = [late EXCEPT ![e] = FALSE]
  /\ UNCHANGED <<phase, slot>>

Complete(e) ==
  /\ slot[e] = "used"
  /\ slot' = [slot EXCEPT ![e] = "free"]
  /\ UNCHANGED <<phase, late>>

Lose(e) ==
  /\ e \in CanLose
  /\ slot[e] = "used"
  /\ slot' = [slot EXCEPT ![e] = "lost"]
  /\ UNCHANGED <<phase, late>>

Close(e) ==
  /\ phase[e] = "closing"
  /\ slot[e] = "free"
  /\ ~late[e]
  /\ phase' = [phase EXCEPT ![e] = "closed"]
  /\ UNCHANGED <<slot, late>>

Next == \E e \in Endpoints : \/ Open(e) \/ BeginClose(e) \/ Close(e)
                             \/ Start(e) \/ GiveUp(e) \/ Complete(e) \/ Lose(e)

Spec == Init /\ [][Next]_cvars

=============================================================================
