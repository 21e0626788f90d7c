------------------------------ MODULE EpAssign ------------------------------
(***************************************************************************)
(* How the addresses of endpoint descriptors are matched with the hardware  *)
(* endpoints that USB_RAW_IOCTL_EPS_INFO lists, on every CONNECT event.     *)
(* Operators only: the modules of the programs call them from their         *)
(* handlers of CONNECT.                                                     *)
(*                                                                         *)
(* A hardware endpoint is [addr, in, out, types]; a descriptor has a number *)
(* (0 if it has none yet), a direction and a type.                          *)
(***************************************************************************)
EXTENDS Integers, Sequences, SequencesExt

AnyAddress == 255   \* USB_RAW_EP_ADDR_ANY

\* The capabilities of the hardware endpoint admit the descriptor.
Admits(info, ep) ==
  /\ IF ep.in THEN info.in ELSE info.out
  /\ ep.type \in info.types

\* Mistake: a descriptor that has a number is given another.
assign_ep_addressAgain(info, s) ==
  IF ~Admits(info, s.ep) THEN s
  ELSE IF info.addr = AnyAddress
    THEN [ep |-> [s.ep EXCEPT !.num = s.addr], addr |-> s.addr + 1]
    ELSE [s EXCEPT !.ep.num = info.addr]

\* s: the descriptor, and the static counter addr.
assign_ep_address(info, s) ==
  IF s.ep.num # 0 \/ ~Admits(info, s.ep) THEN s
  ELSE IF info.addr = AnyAddress
    THEN [ep |-> [s.ep EXCEPT !.num = s.addr], addr |-> s.addr + 1]
    ELSE [s EXCEPT !.ep.num = info.addr]

\* Every descriptor takes the first hardware endpoint that admits it.
process_eps_info(infos, eps, addr) ==
  FoldLeft(LAMBDA acc, ep :
             LET s == FoldLeft(LAMBDA t, info : assign_ep_address(info, t),
                               [ep |-> ep, addr |-> acc.addr], infos)
             IN  [eps |-> Append(acc.eps, s.ep), addr |-> s.addr],
           [eps |-> <<>>, addr |-> addr], eps)

\* assert(int_in_addr != 0)
AllNumbered(eps) == \A k \in DOMAIN eps : eps[k].num # 0

=============================================================================
