------------------------ MODULE ConfigurationProofs ------------------------
(***************************************************************************)
(* Theorems about Configuration for every tree and every set of requests.   *)
(*                                                                         *)
(* At each moment of a request, what is done and what is left to do give    *)
(* the state in which the request will end: that state is what the          *)
(* invariant speaks of, and no step changes it.                             *)
(***************************************************************************)
EXTENDS Configuration, SequenceLemmas, FiniteSetTheorems

-----------------------------------------------------------------------------
(* The steps of requests. *)

EpStep(do, e) == [do |-> do, ep |-> e]
Alt(c, i, a) == [do |-> "alternate", c |-> c, i |-> i, a |-> a]
Sel(c, i, a) == [do |-> "select", c |-> c, i |-> i, a |-> a]
Ifc(c, i) == [do |-> "interface", c |-> c, i |-> i]
Cfg(c) == [do |-> "configuration", c |-> c]
Configure == [do |-> "configure"]
Fwd(r) == [do |-> "forward", request |-> r]

AnyStep ==
  [do : {"enable", "disable"}, ep : AllEndpoints]
    \cup [do : {"alternate", "select"}, c : Int, i : Int, a : Int]
    \cup [do : {"interface"}, c : Int, i : Int]
    \cup [do : {"configuration"}, c : Int]
    \cup [do : {"configure"}]
    \cup [do : {"forward"}, request : Requests]

\* s names what there is in the tree.
Fits(s) ==
  /\ s.do \in {"alternate", "select", "interface"} =>
       s.c \in DOMAIN Tree /\ s.i \in DOMAIN Tree[s.c]
  /\ s.do = "alternate" => s.a \in DOMAIN Tree[s.c][s.i] \cup {-1}
  /\ s.do = "select" => s.a \in DOMAIN Tree[s.c][s.i]
  /\ s.do = "configuration" => s.c \in DOMAIN Tree
  /\ s.do = "forward" /\ s.request.kind = "configuration" =>
       s.request.value - 1 \in DOMAIN Tree

Steps == {s \in AnyStep : Fits(s)}

AltsOf(c, i) == DOMAIN Tree[c][i] \cup {-1}

(* The indices of the tree are natural numbers.                              *)
LEMMA Indices ==
  ASSUME NEW c \in DOMAIN Tree
  PROVE  /\ c \in Nat
         /\ Cardinality(DOMAIN Tree[c]) \in Nat
         /\ DOMAIN Tree[c] = 0 .. (Cardinality(DOMAIN Tree[c]) - 1)
         /\ \A i \in DOMAIN Tree[c] :
              /\ i \in Nat /\ DOMAIN Tree[c][i] \subseteq Nat
              /\ AltsOf(c, i) \subseteq Int /\ 0 \in DOMAIN Tree[c][i]
              /\ -1 \notin DOMAIN Tree[c][i]
<1>1. Cardinality(DOMAIN Tree[c]) \in Nat
  BY TreeAssumption, FS_CardinalityType
<1> QED  BY <1>1, TreeAssumption DEF AltsOf

(* An alternate that there is, or none, has these endpoints.                 *)
LEMMA Endpoints ==
  ASSUME NEW c \in DOMAIN Tree, NEW i \in DOMAIN Tree[c]
  PROVE  /\ EndpointsOf(c, i, -1) = {}
         /\ \A a \in DOMAIN Tree[c][i] :
              /\ EndpointsOf(c, i, a) = ToSet(Tree[c][i][a])
              /\ Tree[c][i][a] \in Seq(EndpointsOf(c, i, a))
         /\ \A a \in AltsOf(c, i) : EndpointsOf(c, i, a) \subseteq AllEndpoints
<1>1. \A a \in DOMAIN Tree[c][i] : EndpointsOf(c, i, a) = ToSet(Tree[c][i][a])
  BY Indices DEF EndpointsOf
<1>2. EndpointsOf(c, i, -1) = {}
  BY DEF EndpointsOf
<1>3. \A a \in DOMAIN Tree[c][i] : EndpointsOf(c, i, a) \subseteq AllEndpoints
  BY DEF AllEndpoints
<1> QED  BY <1>1, <1>2, <1>3, TreeAssumption DEF AltsOf

(* Each endpoint is that of one alternate.                                   *)
LEMMA Distinguished ==
  ASSUME NEW c \in DOMAIN Tree, NEW i \in DOMAIN Tree[c], NEW a \in AltsOf(c, i),
         NEW d \in DOMAIN Tree, NEW j \in DOMAIN Tree[d], NEW b \in AltsOf(d, j),
         NEW e, e \in EndpointsOf(c, i, a), e \in EndpointsOf(d, j, b)
  PROVE  c = d /\ i = j /\ a = b /\ a # -1
<1>1. a # -1 /\ b # -1
  BY Endpoints
<1>2. a \in DOMAIN Tree[c][i] /\ b \in DOMAIN Tree[d][j]
  BY <1>1 DEF AltsOf
<1>3. ToSet(Tree[c][i][a]) \cap ToSet(Tree[d][j][b]) # {}
  BY <1>2, Endpoints
<1> QED  BY <1>1, <1>2, <1>3, TreeAssumption

(* Every endpoint is that of an alternate.                                   *)
LEMMA Placed ==
  ASSUME NEW e \in AllEndpoints
  PROVE  \E c \in DOMAIN Tree : \E i \in DOMAIN Tree[c] :
           \E a \in DOMAIN Tree[c][i] : e \in EndpointsOf(c, i, a)
BY DEF AllEndpoints

(* The steps that the functions make, as members of Steps.                   *)
LEMMA StepIn ==
  /\ \A do \in {"enable", "disable"} : \A e \in AllEndpoints : EpStep(do, e) \in Steps
  /\ Configure \in Steps
  /\ \A r \in Requests :
       (r.kind = "configuration" => r.value - 1 \in DOMAIN Tree) => Fwd(r) \in Steps
  /\ \A c \in DOMAIN Tree :
       /\ Cfg(c) \in Steps
       /\ \A i \in DOMAIN Tree[c] :
            /\ Ifc(c, i) \in Steps
            /\ \A a \in DOMAIN Tree[c][i] : Sel(c, i, a) \in Steps
            /\ \A a \in AltsOf(c, i) : Alt(c, i, a) \in Steps
<1>1. /\ \A do \in {"enable", "disable"} : \A e \in AllEndpoints : EpStep(do, e) \in Steps
      /\ Configure \in Steps
  BY DEF EpStep, Configure, Steps, AnyStep, Fits
<1>2. ASSUME NEW r \in Requests, r.kind = "configuration" => r.value - 1 \in DOMAIN Tree
      PROVE  Fwd(r) \in Steps
  BY <1>2 DEF Fwd, Steps, AnyStep, Fits
<1>3. ASSUME NEW c \in DOMAIN Tree
      PROVE  Cfg(c) \in Steps
  BY Indices DEF Cfg, Steps, AnyStep, Fits
<1>4. ASSUME NEW c \in DOMAIN Tree, NEW i \in DOMAIN Tree[c]
      PROVE  /\ Ifc(c, i) \in Steps
             /\ \A a \in DOMAIN Tree[c][i] : Sel(c, i, a) \in Steps
             /\ \A a \in AltsOf(c, i) : Alt(c, i, a) \in Steps
  <2>1. c \in Int /\ i \in Int /\ DOMAIN Tree[c][i] \subseteq Int
        /\ AltsOf(c, i) \subseteq Int
    BY Indices
  <2>2. Ifc(c, i) \in Steps
    BY <2>1 DEF Ifc, Steps, AnyStep, Fits
  <2>3. ASSUME NEW a \in DOMAIN Tree[c][i]
        PROVE  Sel(c, i, a) \in Steps
    BY <2>1 DEF Sel, Steps, AnyStep, Fits
  <2>4. ASSUME NEW a \in AltsOf(c, i)
        PROVE  Alt(c, i, a) \in Steps
    BY <2>1 DEF Alt, Steps, AnyStep, Fits, AltsOf
  <2> QED  BY <2>2, <2>3, <2>4
<1> QED  BY <1>1, <1>2, <1>3, <1>4

(* What a member of Steps with a given name looks like.                      *)
LEMMA StepShape ==
  ASSUME NEW s \in Steps
  PROVE  /\ s.do \in {"enable", "disable"} =>
              s.ep \in AllEndpoints /\ s = EpStep(s.do, s.ep)
         /\ s.do = "alternate" => s = Alt(s.c, s.i, s.a)
         /\ s.do = "select" => s = Sel(s.c, s.i, s.a)
         /\ s.do = "interface" => s = Ifc(s.c, s.i)
         /\ s.do = "configuration" => s = Cfg(s.c)
         /\ s.do = "configure" => s = Configure
         /\ s.do = "forward" => s = Fwd(s.request) /\ s.request \in Requests
         /\ s.do \in {"enable", "disable", "alternate", "select", "interface",
                      "configuration", "configure", "forward"}
         /\ Fits(s)
BY DEF Steps, AnyStep, EpStep, Alt, Sel, Ifc, Cfg, Configure, Fwd

(* Where the steps of a sequence are.                                        *)
LEMMA At ==
  ASSUME NEW s \in Seq(Steps)
  PROVE  /\ Len(s) \in Nat
         /\ \A k \in 1 .. Len(s) : s[k] \in Steps /\ s[k] \in Range(s)
         /\ \A t \in Range(s) : t \in Steps /\ \E k \in 1 .. Len(s) : s[k] = t
BY LenProperties, ElementOfSeq DEF Range

(* Where the steps of two sequences in a row are.                             *)
LEMMA ConcatAt ==
  ASSUME NEW s \in Seq(Steps), NEW t \in Seq(Steps)
  PROVE  /\ s \o t \in Seq(Steps)
         /\ Len(s) \in Nat /\ Len(t) \in Nat
         /\ Len(s \o t) = Len(s) + Len(t)
         /\ Range(s \o t) = Range(s) \cup Range(t)
         /\ \A k \in 1 .. Len(s) : k \in 1 .. Len(s \o t) /\ (s \o t)[k] = s[k]
         /\ \A k \in 1 .. Len(t) : (s \o t)[Len(s) + k] = t[k]
         /\ \A k \in 1 .. Len(s \o t) :
              \/ k \in 1 .. Len(s) /\ (s \o t)[k] = s[k]
              \/ k - Len(s) \in 1 .. Len(t) /\ (s \o t)[k] = t[k - Len(s)]
BY ConcatProperties, LenProperties, RangeConcatenation

-----------------------------------------------------------------------------
(* The order of steps. *)

\* All endpoints of an interface, of whatever alternate.
EndpointsOfInterface(c, i) ==
  UNION {EndpointsOf(c, i, a) : a \in DOMAIN Tree[c][i]}

\* USB has the endpoints that are open together differ in address: those of
\* one alternate, and those of different interfaces of a configuration.
DistinctAddresses ==
  \A c \in DOMAIN Tree : \A i \in DOMAIN Tree[c] : \A a \in DOMAIN Tree[c][i] :
    /\ \A p, k \in DOMAIN Tree[c][i][a] :
         Address[Tree[c][i][a][p]] = Address[Tree[c][i][a][k]] => p = k
    /\ \A j \in DOMAIN Tree[c] : \A b \in DOMAIN Tree[c][j] :
         i # j => \A e \in EndpointsOf(c, i, a), f \in EndpointsOf(c, j, b) :
                    Address[e] # Address[f]

\* Both steps are about an endpoint with the same address.
SameAddress(x, y) ==
  /\ x.do \in {"enable", "disable"} /\ y.do \in {"enable", "disable"}
  /\ Address[x.ep] = Address[y.ep]

\* y may be done some time after x: the request goes to the device last of
\* all, an interface is selected after its endpoints are closed, and of an
\* address nothing is done but to close an endpoint and then open another.
MayFollow(x, y) ==
  /\ x.do # "forward"
  /\ x.do = "select" /\ y.do = "disable" => y.ep \notin EndpointsOfInterface(x.c, x.i)
  /\ DistinctAddresses /\ SameAddress(x, y) => x.do = "disable" /\ y.do = "enable"

InOrder(s) == \A p, k \in 1 .. Len(s) : p < k => MayFollow(s[p], s[k])

(* Two sequences that are in order, and in which every step of the second    *)
(* may follow every step of the first, are in order as one.                  *)
LEMMA ConcatInOrder ==
  ASSUME NEW s \in Seq(Steps), NEW t \in Seq(Steps), InOrder(s), InOrder(t),
         \A x \in Range(s) : \A y \in Range(t) : MayFollow(x, y)
  PROVE  /\ s \o t \in Seq(Steps)
         /\ Range(s \o t) = Range(s) \cup Range(t)
         /\ InOrder(s \o t)
<1>1. ASSUME NEW p \in 1 .. Len(s \o t), NEW k \in 1 .. Len(s \o t), p < k
      PROVE  MayFollow((s \o t)[p], (s \o t)[k])
  <2> DEFINE st == s \o t
  <2>1. Len(s) \in Nat /\ Len(t) \in Nat /\ Len(st) = Len(s) + Len(t)
    BY ConcatAt
  <2>2. /\ \/ p \in 1 .. Len(s) /\ st[p] = s[p]
           \/ p - Len(s) \in 1 .. Len(t) /\ st[p] = t[p - Len(s)]
        /\ \/ k \in 1 .. Len(s) /\ st[k] = s[k]
           \/ k - Len(s) \in 1 .. Len(t) /\ st[k] = t[k - Len(s)]
    BY ConcatAt
  <2> HIDE DEF st
  <2>3. CASE k \in 1 .. Len(s) /\ st[k] = s[k]
    <3>1. p \in 1 .. Len(s) /\ st[p] = s[p]
      BY <2>1, <2>2, <2>3, <1>1
    <3> QED  BY <3>1, <2>3, <1>1 DEF InOrder, st
  <2>4. CASE p - Len(s) \in 1 .. Len(t) /\ st[p] = t[p - Len(s)]
    <3>1. k - Len(s) \in 1 .. Len(t) /\ st[k] = t[k - Len(s)]
      BY <2>1, <2>2, <2>4, <1>1
    <3>2. p - Len(s) < k - Len(s)
      BY <2>1, <1>1
    <3> QED  BY <3>1, <3>2, <2>4 DEF InOrder, st
  <2>5. CASE /\ p \in 1 .. Len(s) /\ st[p] = s[p]
             /\ k - Len(s) \in 1 .. Len(t) /\ st[k] = t[k - Len(s)]
    <3>1. s[p] \in Range(s) /\ t[k - Len(s)] \in Range(t)
      BY <2>5, At
    <3> QED  BY <3>1, <2>5 DEF st
  <2> QED  BY <2>2, <2>3, <2>4, <2>5
<1> QED  BY <1>1, ConcatAt DEF InOrder

(* A sequence of at most one step is in order.                               *)
LEMMA ShortInOrder ==
  /\ <<>> \in Seq(Steps) /\ Range(<<>>) = {} /\ InOrder(<<>>)
  /\ \A x \in Steps : <<x>> \in Seq(Steps) /\ Range(<<x>>) = {x} /\ InOrder(<<x>>)
<1>1. <<>> \in Seq(Steps) /\ Range(<<>>) = {} /\ InOrder(<<>>)
  BY EmptySeq DEF Range, InOrder
<1>2. ASSUME NEW x \in Steps
      PROVE  <<x>> \in Seq(Steps) /\ Range(<<x>>) = {x} /\ InOrder(<<x>>)
  <2>1. <<x>> \in Seq(Steps) /\ Len(<<x>>) = 1 /\ <<x>>[1] = x /\ DOMAIN <<x>> = {1}
    OBVIOUS
  <2> QED  BY <2>1 DEF Range, InOrder
<1> QED  BY <1>1, <1>2

(* What is left after the first step is in order and may follow that.        *)
LEMMA TailInOrder ==
  ASSUME NEW s \in Seq(Steps), s # <<>>, InOrder(s)
  PROVE  /\ Head(s) \in Steps /\ Tail(s) \in Seq(Steps)
         /\ Range(s) = {Head(s)} \cup Range(Tail(s))
         /\ InOrder(Tail(s))
         /\ \A y \in Range(Tail(s)) : MayFollow(Head(s), y)
<1>1. /\ Len(s) \in Nat /\ Len(s) > 0
      /\ Head(s) = s[1] /\ Head(s) \in Steps
      /\ Tail(s) \in Seq(Steps) /\ Len(Tail(s)) = Len(s) - 1
      /\ \A k \in 1 .. (Len(s) - 1) : Tail(s)[k] = s[k + 1]
  BY LenProperties, EmptySeq, HeadTailProperties
<1>2. \A y \in Range(Tail(s)) :
        \E k \in 2 .. Len(s) : y = s[k]
  <2> TAKE y \in Range(Tail(s))
  <2>1. PICK k \in 1 .. Len(Tail(s)) : Tail(s)[k] = y
    BY <1>1, At
  <2>2. k + 1 \in 2 .. Len(s) /\ y = s[k + 1]
    BY <2>1, <1>1
  <2> QED  BY <2>2
<1>3. \A k \in 2 .. Len(s) : s[k] \in Range(Tail(s))
  <2> TAKE k \in 2 .. Len(s)
  <2>1. k - 1 \in 1 .. Len(Tail(s)) /\ (k - 1) + 1 = k
    BY <1>1
  <2>2. Tail(s)[k - 1] = s[k]
    BY <2>1, <1>1
  <2> QED  BY <2>1, <2>2, <1>1, At
<1>4. Range(s) = {Head(s)} \cup Range(Tail(s))
  <2>1. 1 \in 1 .. Len(s) /\ 2 .. Len(s) \subseteq 1 .. Len(s)
        /\ \A k \in 1 .. Len(s) : k = 1 \/ k \in 2 .. Len(s)
    BY <1>1
  <2>2. \A y \in Range(s) : \E k \in 1 .. Len(s) : s[k] = y
    BY At
  <2>3. \A k \in 1 .. Len(s) : s[k] \in Range(s)
    BY At
  <2> QED  BY <1>1, <1>2, <1>3, <2>1, <2>2, <2>3
<1>5. InOrder(Tail(s))
  <2> SUFFICES ASSUME NEW p \in 1 .. Len(Tail(s)), NEW k \in 1 .. Len(Tail(s)), p < k
               PROVE  MayFollow(Tail(s)[p], Tail(s)[k])
    BY DEF InOrder
  <2>1. p + 1 \in 1 .. Len(s) /\ k + 1 \in 1 .. Len(s) /\ p + 1 < k + 1
    BY <1>1
  <2>2. MayFollow(s[p + 1], s[k + 1])
    BY <2>1 DEF InOrder
  <2> QED  BY <2>2, <1>1
<1>6. \A y \in Range(Tail(s)) : MayFollow(Head(s), y)
  <2> TAKE y \in Range(Tail(s))
  <2>1. PICK k \in 2 .. Len(s) : y = s[k]
    BY <1>2
  <2>2. 1 \in 1 .. Len(s) /\ k \in 1 .. Len(s) /\ 1 < k
    BY <1>1
  <2> QED  BY <2>1, <2>2, <1>1 DEF InOrder
<1> QED  BY <1>1, <1>4, <1>5, <1>6

(* So are sequences joined by FlattenSeq whose steps may follow each other.  *)
LEMMA FlattenInOrder ==
  ASSUME NEW n \in Nat, NEW ss \in [1 .. n -> Seq(Steps)],
         \A k \in 1 .. n : InOrder(ss[k]),
         \A p, k \in 1 .. n : p < k =>
           \A x \in Range(ss[p]) : \A y \in Range(ss[k]) : MayFollow(x, y)
  PROVE  /\ FlattenSeq(ss) \in Seq(Steps)
         /\ Range(FlattenSeq(ss)) = UNION {Range(ss[k]) : k \in 1 .. n}
         /\ InOrder(FlattenSeq(ss))
<1> DEFINE Upto(m) == UNION {Range(ss[k]) : k \in 1 .. m}
           W == [m \in 0 .. n |-> {s \in Seq(Steps) :
                                     Range(s) \subseteq Upto(m) /\ InOrder(s)}]
<1>1. <<>> \in W[0]
  BY ShortInOrder
<1>2. ASSUME NEW k \in 1 .. n, NEW s \in Seq(Steps), s \in W[k - 1]
      PROVE  s \o ss[k] \in W[k]
  <2>1. k - 1 \in 0 .. n /\ k \in 0 .. n
    OBVIOUS
  <2>2. Range(s) \subseteq Upto(k - 1) /\ InOrder(s)
    BY <1>2, <2>1
  <2>3. \A x \in Range(s) : \A y \in Range(ss[k]) : MayFollow(x, y)
    <3> TAKE x \in Range(s)
    <3>1. PICK p \in 1 .. (k - 1) : x \in Range(ss[p])
      BY <2>2
    <3>2. p \in 1 .. n /\ p < k
      OBVIOUS
    <3> QED  BY <3>1, <3>2
  <2>4. /\ s \o ss[k] \in Seq(Steps) /\ InOrder(s \o ss[k])
        /\ Range(s \o ss[k]) = Range(s) \cup Range(ss[k])
    BY <2>2, <2>3, ConcatInOrder
  <2>5. Upto(k - 1) \cup Range(ss[k]) \subseteq Upto(k)
    <3>1. \A j \in 1 .. (k - 1) : j \in 1 .. k
      OBVIOUS
    <3>2. k \in 1 .. k
      OBVIOUS
    <3> QED  BY <3>1, <3>2
  <2> HIDE DEF Upto
  <2> QED  BY <2>1, <2>2, <2>4, <2>5
<1>3. n \in 0 .. n
  OBVIOUS
<1>4. FlattenSeq(ss) \in W[n]
  <2> HIDE DEF W
  <2> QED  BY <1>1, <1>2, FlattenGrows
<1>5. Upto(n) \subseteq Range(FlattenSeq(ss))
  BY FlattenContains
<1> QED  BY <1>3, <1>4, <1>5

-----------------------------------------------------------------------------
(* The steps of an interface. *)

\* What setAlternate closes.
Leaving(c, i, a) ==
  IF activeAlternate[c][i] = a THEN {} ELSE EndpointsOf(c, i, activeAlternate[c][i])

StepsOf(c, i, a) ==
  {EpStep("disable", e) : e \in Leaving(c, i, a)}
    \cup {EpStep("enable", e) : e \in EndpointsOf(c, i, a)}
    \cup {Alt(c, i, a), Ifc(c, i)}
    \cup (IF a = -1 THEN {} ELSE {Sel(c, i, a)})

\* The alternates recorded are those of the tree.
AlternatesTyped ==
  \A c \in DOMAIN Tree : \A i \in DOMAIN Tree[c] :
    activeAlternate[c][i] \in AltsOf(c, i)

(* Nothing but the endpoints of an interface is closed or opened with it.    *)
LEMMA StepsOfInterface ==
  ASSUME AlternatesTyped,
         NEW c \in DOMAIN Tree, NEW i \in DOMAIN Tree[c], NEW a \in AltsOf(c, i)
  PROVE  /\ EndpointsOf(c, i, a) \subseteq EndpointsOfInterface(c, i)
         /\ Leaving(c, i, a) \subseteq EndpointsOfInterface(c, i)
         /\ EndpointsOfInterface(c, i) \subseteq AllEndpoints
         /\ StepsOf(c, i, a) \subseteq Steps
<1>1. \A b \in AltsOf(c, i) : EndpointsOf(c, i, b) \subseteq EndpointsOfInterface(c, i)
  BY Endpoints DEF AltsOf, EndpointsOfInterface
<1>2. EndpointsOfInterface(c, i) \subseteq AllEndpoints
  BY Endpoints DEF AltsOf, EndpointsOfInterface
<1>3. Leaving(c, i, a) \subseteq EndpointsOfInterface(c, i)
  BY <1>1 DEF Leaving, AlternatesTyped
<1>4. StepsOf(c, i, a) \subseteq Steps
  <2>1. /\ \A e \in Leaving(c, i, a) : EpStep("disable", e) \in Steps
        /\ \A e \in EndpointsOf(c, i, a) : EpStep("enable", e) \in Steps
    BY <1>1, <1>2, <1>3, StepIn
  <2>2. Alt(c, i, a) \in Steps /\ Ifc(c, i) \in Steps
    BY StepIn
  <2>3. a # -1 => Sel(c, i, a) \in Steps
    BY StepIn DEF AltsOf
  <2> QED  BY <2>1, <2>2, <2>3 DEF StepsOf
<1> QED  BY <1>1, <1>2, <1>3, <1>4

(* EachEndpoint does the same to each endpoint of an alternate.              *)
LEMMA EachInOrder ==
  ASSUME NEW do \in {"enable", "disable"},
         NEW c \in DOMAIN Tree, NEW i \in DOMAIN Tree[c], NEW a \in DOMAIN Tree[c][i]
  PROVE  /\ EachEndpoint(do, c, i, a) \in Seq(Steps)
         /\ Range(EachEndpoint(do, c, i, a)) =
              {EpStep(do, e) : e \in EndpointsOf(c, i, a)}
         /\ InOrder(EachEndpoint(do, c, i, a))
<1> DEFINE t == Tree[c][i][a]
           s == EachEndpoint(do, c, i, a)
           n == Len(t)
<1>1. t \in Seq(EndpointsOf(c, i, a)) /\ EndpointsOf(c, i, a) = Range(t)
      /\ EndpointsOf(c, i, a) \subseteq AllEndpoints
  BY Endpoints DEF AltsOf, Range, ToSet
<1>2. n \in Nat /\ DOMAIN t = 1 .. n /\ \A k \in 1 .. n : t[k] \in EndpointsOf(c, i, a)
  BY <1>1, LenProperties
<1>3. s = [k \in 1 .. n |-> EpStep(do, t[k])]
  BY <1>2 DEF EachEndpoint, EpStep
<1> HIDE DEF t, s, n
<1>4. \A k \in 1 .. n : EpStep(do, t[k]) \in Steps
  BY <1>1, <1>2, StepIn
<1>5. s \in Seq(Steps) /\ Len(s) = n
  BY <1>2, <1>3, <1>4
<1>6. Range(s) = {EpStep(do, e) : e \in EndpointsOf(c, i, a)}
  <2>1. \A k \in 1 .. n : s[k] = EpStep(do, t[k])
    BY <1>3
  <2>2. DOMAIN s = 1 .. n
    BY <1>3
  <2>3. Range(s) = {EpStep(do, t[k]) : k \in 1 .. n}
    BY <2>1, <2>2 DEF Range
  <2>4. EndpointsOf(c, i, a) = {t[k] : k \in 1 .. n}
    BY <1>1, <1>2 DEF Range
  <2> QED  BY <2>3, <2>4
<1>7. InOrder(s)
  <2> SUFFICES ASSUME NEW p \in 1 .. n, NEW k \in 1 .. n, p < k
               PROVE  MayFollow(s[p], s[k])
    BY <1>5 DEF InOrder
  <2>1. s[p] = EpStep(do, t[p]) /\ s[k] = EpStep(do, t[k]) /\ p # k
    BY <1>2, <1>3
  <2>2. DistinctAddresses => Address[t[p]] # Address[t[k]]
    BY <1>2, <2>1 DEF DistinctAddresses, t
  <2> QED  BY <2>1, <2>2 DEF MayFollow, SameAddress, EpStep
<1> QED  BY <1>5, <1>6, <1>7 DEF s

(* What may follow what among the steps of one interface.                    *)
LEMMA FollowWithin ==
  /\ \A e, f : MayFollow(EpStep("disable", e), EpStep("enable", f))
  /\ \A x, y : x.do # "forward" /\ y.do \notin {"enable", "disable"} => MayFollow(x, y)
BY DEF MayFollow, SameAddress, EpStep

(* setAlternate closes, opens and records, in that order.                    *)
LEMMA SetAlternateSteps ==
  ASSUME AlternatesTyped,
         NEW c \in DOMAIN Tree, NEW i \in DOMAIN Tree[c], NEW a \in AltsOf(c, i),
         a = -1 => activeAlternate[c][i] # -1
  PROVE  /\ setAlternate(c, i, a) \in Seq(Steps)
         /\ Range(setAlternate(c, i, a)) =
              {EpStep("disable", e) : e \in Leaving(c, i, a)}
                \cup {EpStep("enable", e) : e \in EndpointsOf(c, i, a)}
                \cup {Alt(c, i, a)}
         /\ InOrder(setAlternate(c, i, a))
<1> DEFINE active == activeAlternate[c][i]
           D == IF active # a /\ active # -1 THEN EachEndpoint("disable", c, i, active)
                                             ELSE <<>>
           E == IF a # -1 THEN EachEndpoint("enable", c, i, a) ELSE <<>>
<1>1. /\ active \in AltsOf(c, i)
      /\ \A b \in AltsOf(c, i) : (b >= 0 <=> b # -1) /\ (b # -1 => b \in DOMAIN Tree[c][i])
  BY Indices DEF AlternatesTyped, AltsOf
<1>2. /\ D \in Seq(Steps) /\ InOrder(D)
      /\ Range(D) = {EpStep("disable", e) : e \in Leaving(c, i, a)}
  <2>1. CASE active # a /\ active # -1
    BY <2>1, <1>1, EachInOrder DEF Leaving
  <2>2. CASE active = a \/ active = -1
    <3>1. D = <<>> /\ Leaving(c, i, a) = {}
      BY <2>2, Endpoints DEF Leaving
    <3> QED  BY <3>1, ShortInOrder
  <2> QED  BY <2>1, <2>2
<1>3. /\ E \in Seq(Steps) /\ InOrder(E)
      /\ Range(E) = {EpStep("enable", e) : e \in EndpointsOf(c, i, a)}
  <2>1. CASE a # -1
    BY <2>1, <1>1, EachInOrder
  <2>2. CASE a = -1
    <3>1. E = <<>> /\ EndpointsOf(c, i, a) = {}
      BY <2>2, Endpoints
    <3> QED  BY <3>1, ShortInOrder
  <2> QED  BY <2>1, <2>2
<1>4. setAlternate(c, i, a) = (D \o E) \o <<Alt(c, i, a)>>
  <2>1. CASE a # -1
    <3>1. a >= 0 /\ (active >= 0 <=> active # -1)
      BY <2>1, <1>1
    <3> QED  BY <2>1, <3>1 DEF setAlternate, Alt
  <2>2. CASE a = -1
    <3>1. ~(a >= 0) /\ active # a /\ active # -1 /\ active \in DOMAIN Tree[c][i]
      BY <2>2, <1>1
    <3>2. EachEndpoint("disable", c, i, active) \in Seq(Steps)
      BY <3>1, EachInOrder
    <3>3. /\ <<>> \o EachEndpoint("disable", c, i, active) =
               EachEndpoint("disable", c, i, active)
          /\ EachEndpoint("disable", c, i, active) \o <<>> =
               EachEndpoint("disable", c, i, active)
      BY <3>2, ConcatEmptySeq
    <3>4. D \o E = EachEndpoint("disable", c, i, active)
      BY <2>2, <3>1, <3>3
    <3>5. setAlternate(c, i, a) =
            (<<>> \o EachEndpoint("disable", c, i, active)) \o <<Alt(c, i, a)>>
      BY <3>1 DEF setAlternate, Alt
    <3> QED  BY <3>3, <3>4, <3>5
  <2> QED  BY <2>1, <2>2
<1>5. Alt(c, i, a) \in Steps /\ Alt(c, i, a).do = "alternate"
  BY StepIn DEF Alt
<1> HIDE DEF D, E, active
<1>6. /\ D \o E \in Seq(Steps) /\ InOrder(D \o E)
      /\ Range(D \o E) = Range(D) \cup Range(E)
  <2>1. \A x \in Range(D) : \A y \in Range(E) : MayFollow(x, y)
    BY <1>2, <1>3, FollowWithin
  <2> QED  BY <1>2, <1>3, <2>1, ConcatInOrder
<1>7. \A x \in Range(D \o E) : \A y \in Range(<<Alt(c, i, a)>>) : MayFollow(x, y)
  <2>1. \A x \in Range(D \o E) : x.do # "forward"
    BY <1>2, <1>3, <1>6 DEF EpStep
  <2> QED  BY <2>1, <1>5, ShortInOrder, FollowWithin
<1>8. /\ <<Alt(c, i, a)>> \in Seq(Steps) /\ InOrder(<<Alt(c, i, a)>>)
      /\ Range(<<Alt(c, i, a)>>) = {Alt(c, i, a)}
  BY <1>5, ShortInOrder
<1>9. /\ (D \o E) \o <<Alt(c, i, a)>> \in Seq(Steps)
      /\ InOrder((D \o E) \o <<Alt(c, i, a)>>)
      /\ Range((D \o E) \o <<Alt(c, i, a)>>) = Range(D \o E) \cup {Alt(c, i, a)}
  BY <1>6, <1>7, <1>8, ConcatInOrder
<1> QED  BY <1>2, <1>3, <1>4, <1>6, <1>9

(* setInterface ends with the interface and what the device is told.         *)
LEMMA SetInterfaceSteps ==
  ASSUME AlternatesTyped,
         NEW c \in DOMAIN Tree, NEW i \in DOMAIN Tree[c], NEW a \in AltsOf(c, i),
         a = -1 => activeAlternate[c][i] # -1
  PROVE  /\ setInterface(c, i, a) \in Seq(Steps)
         /\ Range(setInterface(c, i, a)) = StepsOf(c, i, a)
         /\ InOrder(setInterface(c, i, a))
<1> DEFINE A == setAlternate(c, i, a)
           I == <<Ifc(c, i)>>
           S == IF a # -1 THEN <<Sel(c, i, a)>> ELSE <<>>
<1>1. /\ A \in Seq(Steps) /\ InOrder(A)
      /\ Range(A) = {EpStep("disable", e) : e \in Leaving(c, i, a)}
                      \cup {EpStep("enable", e) : e \in EndpointsOf(c, i, a)}
                      \cup {Alt(c, i, a)}
  BY SetAlternateSteps
<1>2. I \in Seq(Steps) /\ InOrder(I) /\ Range(I) = {Ifc(c, i)}
  BY StepIn, ShortInOrder
<1>3. /\ S \in Seq(Steps) /\ InOrder(S)
      /\ Range(S) = IF a = -1 THEN {} ELSE {Sel(c, i, a)}
  BY StepIn, ShortInOrder DEF AltsOf
<1>4. a >= 0 <=> a # -1
  BY Indices DEF AltsOf
<1>5. setInterface(c, i, a) = (A \o I) \o S
  BY <1>4 DEF setInterface, Ifc, Sel
<1>6. \A x \in Range(A) : x.do \in {"enable", "disable", "alternate"}
  BY <1>1 DEF EpStep, Alt
<1>7. \A y \in Range(I) \cup Range(S) : y.do \in {"interface", "select"}
  BY <1>2, <1>3 DEF Ifc, Sel
<1> HIDE DEF A, I, S
<1>8. /\ A \o I \in Seq(Steps) /\ InOrder(A \o I)
      /\ Range(A \o I) = Range(A) \cup Range(I)
  <2>1. \A x \in Range(A) : \A y \in Range(I) : MayFollow(x, y)
    BY <1>6, <1>7, FollowWithin
  <2> QED  BY <2>1, <1>1, <1>2, ConcatInOrder
<1>9. /\ (A \o I) \o S \in Seq(Steps) /\ InOrder((A \o I) \o S)
      /\ Range((A \o I) \o S) = Range(A \o I) \cup Range(S)
  <2>1. \A x \in Range(A \o I) : \A y \in Range(S) : MayFollow(x, y)
    BY <1>6, <1>7, <1>8, FollowWithin
  <2> QED  BY <2>1, <1>3, <1>8, ConcatInOrder
<1> QED  BY <1>1, <1>2, <1>3, <1>5, <1>8, <1>9 DEF StepsOf

(* The steps of one interface may follow those of another.                   *)
LEMMA FollowAcross ==
  ASSUME AlternatesTyped, NEW c \in DOMAIN Tree,
         NEW i \in DOMAIN Tree[c], NEW a \in AltsOf(c, i),
         NEW j \in DOMAIN Tree[c], NEW b \in AltsOf(c, j), i # j,
         NEW x \in StepsOf(c, i, a), NEW y \in StepsOf(c, j, b)
  PROVE  MayFollow(x, y)
<1>1. x.do # "forward"
  BY DEF StepsOf, EpStep, Alt, Ifc, Sel
<1>2. x.do \in {"enable", "disable"} => x.ep \in EndpointsOfInterface(c, i)
  BY StepsOfInterface DEF StepsOf, EpStep, Alt, Ifc, Sel
<1>3. y.do \in {"enable", "disable"} => y.ep \in EndpointsOfInterface(c, j)
  BY StepsOfInterface DEF StepsOf, EpStep, Alt, Ifc, Sel
<1>4. x.do = "select" => x.c = c /\ x.i = i
  BY DEF StepsOf, EpStep, Alt, Ifc, Sel
<1>5. \A e \in EndpointsOfInterface(c, i) : e \notin EndpointsOfInterface(c, j)
  BY Distinguished DEF EndpointsOfInterface, AltsOf
<1>6. DistinctAddresses =>
        \A e \in EndpointsOfInterface(c, i) : \A f \in EndpointsOfInterface(c, j) :
          Address[e] # Address[f]
  BY DEF DistinctAddresses, EndpointsOfInterface
<1> QED  BY <1>1, <1>2, <1>3, <1>4, <1>5, <1>6 DEF MayFollow, SameAddress

(* The steps of all interfaces of a configuration.                           *)
LEMMA AllInterfacesSteps ==
  ASSUME AlternatesTyped, NEW c \in DOMAIN Tree, NEW a \in {-1, 0},
         a = -1 => \A i \in DOMAIN Tree[c] : activeAlternate[c][i] # -1
  PROVE  /\ AllInterfaces(c, a) \in Seq(Steps)
         /\ Range(AllInterfaces(c, a)) =
              UNION {StepsOf(c, i, a) : i \in DOMAIN Tree[c]}
         /\ InOrder(AllInterfaces(c, a))
<1> DEFINE n == Cardinality(DOMAIN Tree[c])
           ss == [k \in 1 .. n |-> setInterface(c, k - 1, a)]
<1>1. /\ n \in Nat /\ DOMAIN Tree[c] = 0 .. (n - 1)
      /\ \A i \in DOMAIN Tree[c] : a \in AltsOf(c, i)
  BY Indices DEF AltsOf
<1>2. AllInterfaces(c, a) = FlattenSeq(ss)
  BY DEF AllInterfaces
<1> HIDE DEF n
<1>3. \A k \in 1 .. n : k - 1 \in DOMAIN Tree[c]
  BY <1>1
<1>4. \A k \in 1 .. n : /\ ss[k] \in Seq(Steps) /\ InOrder(ss[k])
                        /\ Range(ss[k]) = StepsOf(c, k - 1, a)
  BY <1>1, <1>3, SetInterfaceSteps
<1>5. ss \in [1 .. n -> Seq(Steps)]
  BY <1>4
<1> HIDE DEF ss
<1>6. ASSUME NEW p \in 1 .. n, NEW k \in 1 .. n, p < k,
             NEW x \in Range(ss[p]), NEW y \in Range(ss[k])
      PROVE  MayFollow(x, y)
  <2>1. p - 1 # k - 1
    BY <1>6
  <2>2. x \in StepsOf(c, p - 1, a) /\ y \in StepsOf(c, k - 1, a)
    BY <1>4
  <2> QED  BY <2>1, <2>2, <1>1, <1>3, FollowAcross
<1>7. /\ FlattenSeq(ss) \in Seq(Steps) /\ InOrder(FlattenSeq(ss))
      /\ Range(FlattenSeq(ss)) = UNION {Range(ss[k]) : k \in 1 .. n}
  BY <1>1, <1>4, <1>5, <1>6, FlattenInOrder
<1>8. UNION {Range(ss[k]) : k \in 1 .. n} =
        UNION {StepsOf(c, i, a) : i \in DOMAIN Tree[c]}
  <2>1. \A i \in DOMAIN Tree[c] : i + 1 \in 1 .. n /\ (i + 1) - 1 = i
    BY <1>1
  <2>2. \A i \in DOMAIN Tree[c] : Range(ss[i + 1]) = StepsOf(c, i, a)
    BY <2>1, <1>4
  <2>3. \A k \in 1 .. n : Range(ss[k]) = StepsOf(c, k - 1, a)
    BY <1>4
  <2> QED  BY <1>3, <2>1, <2>2, <2>3
<1> QED  BY <1>2, <1>7, <1>8

-----------------------------------------------------------------------------
(* The steps of a request. *)

ConfigurationTyped == activeConfiguration \in DOMAIN Tree \cup {-1}

\* Only the active configuration has active alternates, and one for each
\* interface: so it is between requests.
Settled ==
  \A c \in DOMAIN Tree : \A i \in DOMAIN Tree[c] :
    activeAlternate[c][i] = -1 <=> c # activeConfiguration

\* The interfaces that r moves, each with the alternate it moves them to.
Targets(r) ==
  IF r.kind = "configuration"
    THEN {<<r.value - 1, i, 0>> : i \in DOMAIN Tree[r.value - 1]}
           \cup (IF activeConfiguration \in {r.value - 1, -1} THEN {}
                 ELSE {<<activeConfiguration, i, -1>> :
                         i \in DOMAIN Tree[activeConfiguration]})
    ELSE {<<activeConfiguration, r.index, r.value>>}

StepsOfTargets(r) == UNION {StepsOf(t[1], t[2], t[3]) : t \in Targets(r)}

OtherSteps(r) ==
  {Fwd(r)} \cup (IF r.kind = "configuration"
                   THEN {Cfg(r.value - 1), Configure} ELSE {})

(* What a request does, and that it does it in order.                        *)
LEMMA RequestSteps ==
  ASSUME AlternatesTyped, ConfigurationTyped, Settled,
         NEW r \in Requests, IndicesInRange(r)
  PROVE  /\ ep0Request(r) \in Seq(Steps)
         /\ Range(ep0Request(r)) = StepsOfTargets(r) \cup OtherSteps(r)
         /\ InOrder(ep0Request(r))
<1> DEFINE v == r.value - 1
           ac == activeConfiguration
<1>1. r.kind = "configuration" => v \in DOMAIN Tree
  BY DEF IndicesInRange
<1>2. Fwd(r) \in Steps
  BY <1>1, StepIn
<1>3. /\ <<Fwd(r)>> \in Seq(Steps) /\ InOrder(<<Fwd(r)>>)
      /\ Range(<<Fwd(r)>>) = {Fwd(r)}
  BY <1>2, ShortInOrder
<1>4. ASSUME NEW s \in Seq(Steps), InOrder(s), \A x \in Range(s) : x.do # "forward"
      PROVE  /\ s \o <<Fwd(r)>> \in Seq(Steps) /\ InOrder(s \o <<Fwd(r)>>)
             /\ Range(s \o <<Fwd(r)>>) = Range(s) \cup {Fwd(r)}
  <2>1. \A x \in Range(s) : \A y \in Range(<<Fwd(r)>>) : MayFollow(x, y)
    BY <1>3, <1>4, FollowWithin DEF Fwd
  <2> QED  BY <1>3, <1>4, <2>1, ConcatInOrder
<1>5. \A c \in DOMAIN Tree : \A i \in DOMAIN Tree[c] : \A a \in AltsOf(c, i) :
        \A x \in StepsOf(c, i, a) : x.do # "forward"
  BY DEF StepsOf, EpStep, Alt, Ifc, Sel
<1>6. CASE r.kind = "configuration"
  <2> DEFINE A == IF ac # v /\ ac # -1 THEN AllInterfaces(ac, -1) ELSE <<>>
             B == AllInterfaces(v, 0)
             O == UNION {StepsOf(ac, i, -1) : i \in DOMAIN Tree[ac]}
             N == UNION {StepsOf(v, i, 0) : i \in DOMAIN Tree[v]}
  <2>1. v \in DOMAIN Tree /\ (ac >= 0 <=> ac # -1) /\ v >= 0
        /\ (ac # -1 => ac \in DOMAIN Tree)
    BY <1>1, <1>6, Indices DEF ConfigurationTyped
  <2>2. ep0Request(r) = (((A \o B) \o <<Cfg(v)>>) \o <<Configure>>) \o <<Fwd(r)>>
    BY <2>1, <1>6 DEF ep0Request, setConfiguration, Cfg, Configure, Fwd
  <2>3. /\ A \in Seq(Steps) /\ InOrder(A)
        /\ Range(A) = IF ac # v /\ ac # -1 THEN O ELSE {}
    <3>1. CASE ac # v /\ ac # -1
      <4>1. \A i \in DOMAIN Tree[ac] : activeAlternate[ac][i] # -1
        BY <2>1, <3>1 DEF Settled
      <4> QED  BY <3>1, <4>1, <2>1, AllInterfacesSteps
    <3>2. CASE ac = v \/ ac = -1
      BY <3>2, ShortInOrder
    <3> QED  BY <3>1, <3>2
  <2>4. B \in Seq(Steps) /\ InOrder(B) /\ Range(B) = N
    BY <2>1, AllInterfacesSteps
  <2>5. \A x \in N : x.do \in {"enable", "disable", "alternate", "interface", "select"}
    BY DEF StepsOf, EpStep, Alt, Ifc, Sel
  <2>6. \A x \in Range(A) : x.do \in {"disable", "alternate", "interface"}
    <3> SUFFICES ASSUME ac # v, ac # -1, NEW i \in DOMAIN Tree[ac],
                        NEW x \in StepsOf(ac, i, -1)
                 PROVE  x.do \in {"disable", "alternate", "interface"}
      BY <2>3
    <3>1. EndpointsOf(ac, i, -1) = {}
      BY <2>1, Endpoints
    <3> QED  BY <3>1 DEF StepsOf, EpStep, Alt, Ifc
  <2>7. ac # v => \A x \in N : x.do # "disable"
    <3> SUFFICES ASSUME ac # v, NEW i \in DOMAIN Tree[v], NEW x \in StepsOf(v, i, 0)
                 PROVE  x.do # "disable"
      OBVIOUS
    <3>1. activeAlternate[v][i] = -1
      BY <2>1 DEF Settled
    <3>2. Leaving(v, i, 0) = {}
      BY <3>1, <2>1, Endpoints DEF Leaving
    <3> QED  BY <3>2 DEF StepsOf, EpStep, Alt, Ifc, Sel
  <2> HIDE DEF A, B, O, N, v, ac
  <2>8. /\ A \o B \in Seq(Steps) /\ InOrder(A \o B)
        /\ Range(A \o B) = Range(A) \cup N
    <3>1. \A x \in Range(A) : \A y \in N : MayFollow(x, y)
      <4> SUFFICES ASSUME NEW x \in Range(A), NEW y \in N
                   PROVE  MayFollow(x, y)
        OBVIOUS
      <4>1. x.do \in {"disable", "alternate", "interface"} /\ y.do # "disable"
        BY <2>3, <2>6, <2>7
      <4> QED  BY <4>1 DEF MayFollow, SameAddress
    <3> QED  BY <3>1, <2>3, <2>4, ConcatInOrder
  <2>9. /\ Cfg(v) \in Steps /\ Configure \in Steps
        /\ Cfg(v).do = "configuration" /\ Configure.do = "configure"
    BY <2>1, StepIn DEF Cfg, Configure
  <2>10. /\ <<Cfg(v)>> \in Seq(Steps) /\ InOrder(<<Cfg(v)>>)
         /\ Range(<<Cfg(v)>>) = {Cfg(v)}
         /\ <<Configure>> \in Seq(Steps) /\ InOrder(<<Configure>>)
         /\ Range(<<Configure>>) = {Configure}
    BY <2>9, ShortInOrder
  <2>11. \A x \in Range(A \o B) : x.do # "forward"
    BY <2>5, <2>6, <2>8
  <2> DEFINE AB == A \o B
             ABC == AB \o <<Cfg(v)>>
             ABCD == ABC \o <<Configure>>
  <2> HIDE DEF AB
  <2>12. /\ ABC \in Seq(Steps) /\ InOrder(ABC)
         /\ Range(ABC) = Range(AB) \cup {Cfg(v)}
    <3>1. \A x \in Range(AB) : \A y \in Range(<<Cfg(v)>>) : MayFollow(x, y)
      BY <2>9, <2>10, <2>11, FollowWithin DEF AB
    <3> QED  BY <3>1, <2>8, <2>10, ConcatInOrder DEF AB
  <2> HIDE DEF ABC
  <2>13. /\ ABCD \in Seq(Steps) /\ InOrder(ABCD)
         /\ Range(ABCD) = Range(ABC) \cup {Configure}
    <3>1. \A x \in Range(ABC) : \A y \in Range(<<Configure>>) : MayFollow(x, y)
      BY <2>9, <2>10, <2>11, <2>12, FollowWithin DEF AB
    <3>2. /\ ABC \o <<Configure>> \in Seq(Steps) /\ InOrder(ABC \o <<Configure>>)
          /\ Range(ABC \o <<Configure>>) = Range(ABC) \cup Range(<<Configure>>)
      BY <3>1, <2>12, <2>10, ConcatInOrder
    <3> QED  BY <3>2, <2>10
  <2> HIDE DEF ABCD
  <2>14. /\ ABCD \o <<Fwd(r)>> \in Seq(Steps) /\ InOrder(ABCD \o <<Fwd(r)>>)
         /\ Range(ABCD \o <<Fwd(r)>>) = Range(ABCD) \cup {Fwd(r)}
    <3>1. \A x \in Range(ABCD) : x.do # "forward"
      BY <2>9, <2>11, <2>12, <2>13 DEF AB
    <3> QED  BY <3>1, <2>13, <1>4
  <2>15. ep0Request(r) = ABCD \o <<Fwd(r)>>
    BY <2>2 DEF ABCD, ABC, AB
  <2>16. StepsOfTargets(r) = Range(A) \cup N
    <3>1. \A t \in Targets(r) :
            \/ t[1] = v /\ t[2] \in DOMAIN Tree[v] /\ t[3] = 0
            \/ /\ ac # v /\ ac # -1
               /\ t[1] = ac /\ t[2] \in DOMAIN Tree[ac] /\ t[3] = -1
      BY <1>6 DEF Targets, v, ac
    <3>2. \A i \in DOMAIN Tree[v] : <<v, i, 0>> \in Targets(r)
      BY <1>6 DEF Targets, v, ac
    <3>3. ac # v /\ ac # -1 => \A i \in DOMAIN Tree[ac] : <<ac, i, -1>> \in Targets(r)
      BY <1>6 DEF Targets, v, ac
    <3>4. StepsOfTargets(r) \subseteq Range(A) \cup N
      BY <3>1, <2>3 DEF StepsOfTargets, N, O
    <3>5. N \subseteq StepsOfTargets(r)
      <4> SUFFICES ASSUME NEW i \in DOMAIN Tree[v], NEW x \in StepsOf(v, i, 0)
                   PROVE  x \in StepsOfTargets(r)
        BY DEF N
      <4> DEFINE t == <<v, i, 0>>
      <4>1. t \in Targets(r) /\ x \in StepsOf(t[1], t[2], t[3])
        BY <3>2
      <4> QED  BY <4>1 DEF StepsOfTargets
    <3>6. Range(A) \subseteq StepsOfTargets(r)
      <4> SUFFICES ASSUME ac # v, ac # -1, NEW i \in DOMAIN Tree[ac],
                          NEW x \in StepsOf(ac, i, -1)
                   PROVE  x \in StepsOfTargets(r)
        BY <2>3 DEF O
      <4> DEFINE t == <<ac, i, -1>>
      <4>1. t \in Targets(r) /\ x \in StepsOf(t[1], t[2], t[3])
        BY <3>3
      <4> QED  BY <4>1 DEF StepsOfTargets
    <3> QED  BY <3>4, <3>5, <3>6
  <2>17. OtherSteps(r) = {Cfg(v), Configure, Fwd(r)}
    BY <1>6 DEF OtherSteps, v
  <2>18. Range(ABCD \o <<Fwd(r)>>) = StepsOfTargets(r) \cup OtherSteps(r)
    BY <2>8, <2>12, <2>13, <2>14, <2>16, <2>17 DEF AB
  <2> QED  BY <2>14, <2>15, <2>18
<1>7. CASE r.kind # "configuration"
  <2> DEFINE s == setInterface(ac, r.index, r.value)
  <2>1. ac \in DOMAIN Tree /\ r.index \in DOMAIN Tree[ac]
        /\ r.value \in AltsOf(ac, r.index) /\ r.value # -1
    BY <1>7, Indices DEF IndicesInRange, AltsOf
  <2>2. ep0Request(r) = s \o <<Fwd(r)>>
    BY <1>7 DEF ep0Request, Fwd
  <2>3. s \in Seq(Steps) /\ InOrder(s) /\ Range(s) = StepsOf(ac, r.index, r.value)
    BY <2>1, SetInterfaceSteps
  <2>4. Range(s) = StepsOfTargets(r) /\ OtherSteps(r) = {Fwd(r)}
    BY <1>7, <2>3 DEF StepsOfTargets, Targets, OtherSteps
  <2>5. \A x \in Range(s) : x.do # "forward"
    BY <2>1, <2>3, <1>5
  <2> HIDE DEF s
  <2> QED  BY <2>2, <2>3, <2>4, <2>5, <1>4
<1> QED  BY <1>6, <1>7

(* The same, a kind of step at a time.                                       *)
LEMMA RequestHas ==
  ASSUME AlternatesTyped, ConfigurationTyped, Settled,
         NEW r \in Requests, IndicesInRange(r), NEW R, R = Range(ep0Request(r))
  PROVE  /\ \A e : EpStep("disable", e) \in R <=>
                     \E t \in Targets(r) : e \in Leaving(t[1], t[2], t[3])
         /\ \A e : EpStep("enable", e) \in R <=>
                     \E t \in Targets(r) : e \in EndpointsOf(t[1], t[2], t[3])
         /\ \A c, i, a : Alt(c, i, a) \in R <=> <<c, i, a>> \in Targets(r)
         /\ \A c, i, a : Sel(c, i, a) \in R <=> <<c, i, a>> \in Targets(r) /\ a # -1
         /\ \A c : Cfg(c) \in R <=> r.kind = "configuration" /\ c = r.value - 1
         /\ Configure \in R <=> r.kind = "configuration"
         /\ \A q : Fwd(q) \in R <=> q = r
<1>1. R = StepsOfTargets(r) \cup OtherSteps(r)
  BY RequestSteps
<1>2. \A x \in OtherSteps(r) :
        /\ x.do \in {"forward", "configuration", "configure"}
        /\ x.do = "forward" => x = Fwd(r)
        /\ x.do = "configuration" => r.kind = "configuration" /\ x = Cfg(r.value - 1)
        /\ x.do = "configure" => r.kind = "configuration"
  BY DEF OtherSteps, Cfg, Configure, Fwd
<1>3. /\ Fwd(r) \in OtherSteps(r)
      /\ r.kind = "configuration" => /\ Cfg(r.value - 1) \in OtherSteps(r)
                                     /\ Configure \in OtherSteps(r)
  BY DEF OtherSteps
<1>4. \A t \in Targets(r) : t = <<t[1], t[2], t[3]>>
  BY DEF Targets
<1>5. \A t \in Targets(r) : \A x \in StepsOf(t[1], t[2], t[3]) :
        /\ x.do \in {"enable", "disable", "alternate", "interface", "select"}
        /\ x.do = "disable" => x.ep \in Leaving(t[1], t[2], t[3])
        /\ x.do = "enable" => x.ep \in EndpointsOf(t[1], t[2], t[3])
        /\ x.do = "alternate" => t = <<x.c, x.i, x.a>>
        /\ x.do = "select" => t = <<x.c, x.i, x.a>> /\ x.a # -1
  BY <1>4 DEF StepsOf, EpStep, Alt, Ifc, Sel
<1>6. \A t \in Targets(r) :
        /\ \A e \in Leaving(t[1], t[2], t[3]) : EpStep("disable", e) \in StepsOfTargets(r)
        /\ \A e \in EndpointsOf(t[1], t[2], t[3]) :
             EpStep("enable", e) \in StepsOfTargets(r)
        /\ Alt(t[1], t[2], t[3]) \in StepsOfTargets(r)
        /\ t[3] # -1 => Sel(t[1], t[2], t[3]) \in StepsOfTargets(r)
  BY DEF StepsOfTargets, StepsOf
<1>7. \A x \in StepsOfTargets(r) : \E t \in Targets(r) : x \in StepsOf(t[1], t[2], t[3])
  BY DEF StepsOfTargets
<1>8. \A e : EpStep("disable", e) \in R <=>
               \E t \in Targets(r) : e \in Leaving(t[1], t[2], t[3])
  BY <1>1, <1>2, <1>5, <1>6, <1>7 DEF EpStep
<1>9. \A e : EpStep("enable", e) \in R <=>
               \E t \in Targets(r) : e \in EndpointsOf(t[1], t[2], t[3])
  BY <1>1, <1>2, <1>5, <1>6, <1>7 DEF EpStep
<1>10. ASSUME NEW c, NEW i, NEW a
       PROVE  /\ Alt(c, i, a) \in R <=> <<c, i, a>> \in Targets(r)
              /\ Sel(c, i, a) \in R <=> <<c, i, a>> \in Targets(r) /\ a # -1
  <2>1. <<c, i, a>>[1] = c /\ <<c, i, a>>[2] = i /\ <<c, i, a>>[3] = a
    OBVIOUS
  <2>2. /\ Alt(c, i, a).do = "alternate" /\ Sel(c, i, a).do = "select"
        /\ Alt(c, i, a).c = c /\ Alt(c, i, a).i = i /\ Alt(c, i, a).a = a
        /\ Sel(c, i, a).c = c /\ Sel(c, i, a).i = i /\ Sel(c, i, a).a = a
    BY DEF Alt, Sel
  <2>3. Alt(c, i, a) \in R => <<c, i, a>> \in Targets(r)
    BY <2>2, <1>1, <1>2, <1>5, <1>7
  <2>4. Sel(c, i, a) \in R => <<c, i, a>> \in Targets(r) /\ a # -1
    BY <2>2, <1>1, <1>2, <1>5, <1>7
  <2>5. <<c, i, a>> \in Targets(r) => Alt(c, i, a) \in R /\ (a # -1 => Sel(c, i, a) \in R)
    BY <2>1, <1>1, <1>6
  <2> QED  BY <2>3, <2>4, <2>5
<1>11. \A c : Cfg(c) \in R <=> r.kind = "configuration" /\ c = r.value - 1
  BY <1>1, <1>2, <1>3, <1>5, <1>7 DEF Cfg
<1>12. Configure \in R <=> r.kind = "configuration"
  BY <1>1, <1>2, <1>3, <1>5, <1>7 DEF Configure
<1>13. \A q : Fwd(q) \in R <=> q = r
  BY <1>1, <1>2, <1>3, <1>5, <1>7 DEF Fwd
<1> QED  BY <1>8, <1>9, <1>10, <1>11, <1>12, <1>13

-----------------------------------------------------------------------------
(* The invariant. *)

ToDo == Range(steps)

\* What holds when the request in progress, if there is one, is done.
FinalOpen(e) ==
  \/ EpStep("enable", e) \in ToDo
  \/ e \in open /\ EpStep("disable", e) \notin ToDo

FinalAlternate(c, i, a) ==
  \/ Alt(c, i, a) \in ToDo
  \/ /\ activeAlternate[c][i] = a
     /\ \A b \in AltsOf(c, i) : Alt(c, i, b) \notin ToDo

FinalConfiguration(c) ==
  \/ Cfg(c) \in ToDo
  \/ activeConfiguration = c /\ \A d \in DOMAIN Tree : Cfg(d) \notin ToDo

Typed ==
  /\ {alive, wild, configured, refused} \subseteq BOOLEAN
  /\ ConfigurationTyped
  /\ DOMAIN activeInterface = DOMAIN Tree
  /\ \A c \in DOMAIN Tree : activeInterface[c] \in DOMAIN Tree[c] \cup {-1}
  /\ DOMAIN activeAlternate = DOMAIN Tree
  /\ \A c \in DOMAIN Tree : activeAlternate[c] \in [DOMAIN Tree[c] -> Int]
  /\ AlternatesTyped
  /\ open \subseteq AllEndpoints
  /\ device = [config |-> device.config, alt |-> device.alt]
  /\ device.config \in DOMAIN Tree
  /\ device.alt \in [DOMAIN Tree[device.config] -> Int]
  /\ \A i \in DOMAIN Tree[device.config] :
       device.alt[i] \in DOMAIN Tree[device.config][i]
  /\ steps \in Seq(Steps)

\* No two steps to do contradict each other.
OneTarget ==
  /\ \A c \in DOMAIN Tree : \A i \in DOMAIN Tree[c] : \A a, b \in AltsOf(c, i) :
       Alt(c, i, a) \in ToDo /\ Alt(c, i, b) \in ToDo => a = b
  /\ \A c, d \in DOMAIN Tree : Cfg(c) \in ToDo /\ Cfg(d) \in ToDo => c = d
  /\ \A e \in AllEndpoints :
       ~(EpStep("enable", e) \in ToDo /\ EpStep("disable", e) \in ToDo)

\* In the end the endpoints of the active alternates are open, ...
OpenInv ==
  \A c \in DOMAIN Tree : \A i \in DOMAIN Tree[c] : \A a \in DOMAIN Tree[c][i] :
    \A e \in EndpointsOf(c, i, a) :
      /\ FinalOpen(e) => FinalAlternate(c, i, a)
      /\ alive /\ FinalAlternate(c, i, a) => FinalOpen(e)

\* ... which are those of the active configuration, ...
SettledInv ==
  \A c \in DOMAIN Tree : \A i \in DOMAIN Tree[c] :
    FinalAlternate(c, i, -1) <=> ~FinalConfiguration(c)

\* ... which the driver has been told of.
ConfiguredInv ==
  configured \/ Configure \in ToDo <=> \E c \in DOMAIN Tree : FinalConfiguration(c)

\* What the device is told is what will be recorded.
SelectInv ==
  \A c \in DOMAIN Tree : \A i \in DOMAIN Tree[c] : \A a \in DOMAIN Tree[c][i] :
    Sel(c, i, a) \in ToDo => FinalAlternate(c, i, a)

ForwardInv ==
  \A r \in Requests : Fwd(r) \in ToDo =>
    IF r.kind = "configuration"
      THEN /\ FinalConfiguration(r.value - 1)
           /\ \A i \in DOMAIN Tree[r.value - 1] : FinalAlternate(r.value - 1, i, 0)
      ELSE \E c \in DOMAIN Tree :
             /\ FinalConfiguration(c)
             /\ r.index \in DOMAIN Tree[c] /\ r.value \in DOMAIN Tree[c][r.index]
             /\ FinalAlternate(c, r.index, r.value)

\* The device has what will be recorded, or the request is still to be
\* forwarded to it.
DeviceInv ==
  ~refused => \A c \in DOMAIN Tree : FinalConfiguration(c) =>
    \/ \E r \in Requests : Fwd(r) \in ToDo /\ r.kind = "configuration"
    \/ /\ device.config = c
       /\ \A i \in DOMAIN Tree[c] : \A a \in DOMAIN Tree[c][i] :
            \/ device.alt[i] # a
            \/ FinalAlternate(c, i, a)
            \/ \E r \in Requests :
                 Fwd(r) \in ToDo /\ r.kind # "configuration" /\ r.index = i

\* An endpoint that is to be closed is open, and so is one to be closed that
\* has the address of one to be opened.
AddressInv ==
  ~Reselect /\ DistinctAddresses =>
    /\ alive
    /\ \A e \in AllEndpoints : EpStep("disable", e) \in ToDo => e \in open
    /\ \A e \in AllEndpoints : EpStep("enable", e) \in ToDo =>
         \A f \in open : Address[e] = Address[f] => EpStep("disable", f) \in ToDo

IInv ==
  /\ Typed /\ InOrder(steps)
  /\ OneTarget /\ OpenInv /\ SettledInv /\ ConfiguredInv
  /\ SelectInv /\ ForwardInv /\ DeviceInv /\ AddressInv

-----------------------------------------------------------------------------
(* What a request in progress will lead to is not changed by its steps. *)

Kept ==
  /\ \A c \in DOMAIN Tree :
       /\ FinalConfiguration(c)' <=> FinalConfiguration(c)
       /\ \A i \in DOMAIN Tree[c] : \A a \in AltsOf(c, i) :
            FinalAlternate(c, i, a)' <=> FinalAlternate(c, i, a)
  /\ \A e \in AllEndpoints :
       /\ FinalOpen(e)' => FinalOpen(e)
       /\ alive' /\ FinalOpen(e) => FinalOpen(e)'

(* The step that is taken is the first of those to do.                       *)
LEMMA FirstStep ==
  ASSUME IInv, NEW what, Doing(what)
  PROVE  /\ Head(steps) \in Steps /\ Head(steps).do = what
         /\ Head(steps) \in ToDo /\ ToDo = {Head(steps)} \cup ToDo'
         /\ ToDo \subseteq Steps
         /\ steps' \in Seq(Steps) /\ InOrder(steps)'
         /\ \A y \in ToDo' : MayFollow(Head(steps), y)
<1>1. steps \in Seq(Steps) /\ steps # <<>> /\ InOrder(steps) /\ steps' = Tail(steps)
      /\ Head(steps).do = what
  BY DEF IInv, Typed, Doing
<1>2. InOrder(steps)' = InOrder(steps') /\ ToDo' = Range(steps') /\ ToDo = Range(steps)
  BY DEF InOrder, ToDo
<1>3. \A y \in ToDo : y \in Steps
  BY <1>1, <1>2, At
<1>4. /\ Head(steps) \in Steps /\ Tail(steps) \in Seq(Steps)
      /\ Range(steps) = {Head(steps)} \cup Range(Tail(steps))
      /\ InOrder(Tail(steps))
      /\ \A y \in Range(Tail(steps)) : MayFollow(Head(steps), y)
  BY <1>1, TailInOrder
<1> QED  BY <1>1, <1>2, <1>3, <1>4

(* The steps of the other kinds are still to be done.                        *)
LEMMA OthersLeft ==
  ASSUME IInv, NEW what, Doing(what)
  PROVE  /\ what # "enable" =>
              \A e : EpStep("enable", e) \in ToDo' <=> EpStep("enable", e) \in ToDo
         /\ what # "disable" =>
              \A e : EpStep("disable", e) \in ToDo' <=> EpStep("disable", e) \in ToDo
         /\ what # "alternate" =>
              \A c, i, a : Alt(c, i, a) \in ToDo' <=> Alt(c, i, a) \in ToDo
         /\ what # "select" =>
              \A c, i, a : Sel(c, i, a) \in ToDo' <=> Sel(c, i, a) \in ToDo
         /\ what # "configuration" =>
              \A c : Cfg(c) \in ToDo' <=> Cfg(c) \in ToDo
         /\ what # "configure" => (Configure \in ToDo' <=> Configure \in ToDo)
         /\ what # "forward" => \A r : Fwd(r) \in ToDo' <=> Fwd(r) \in ToDo
<1>1. Head(steps).do = what /\ ToDo = {Head(steps)} \cup ToDo'
  BY FirstStep
<1>2. \A x : x.do # what => (x \in ToDo' <=> x \in ToDo)
  BY <1>1
<1>3. /\ \A e : EpStep("enable", e).do = "enable" /\ EpStep("disable", e).do = "disable"
      /\ \A c, i, a : Alt(c, i, a).do = "alternate" /\ Sel(c, i, a).do = "select"
      /\ \A c : Cfg(c).do = "configuration"
      /\ Configure.do = "configure"
      /\ \A r : Fwd(r).do = "forward"
  BY DEF EpStep, Alt, Sel, Cfg, Configure, Fwd
<1> QED  BY <1>2, <1>3

(* What speaks of the end of the request only goes on to hold.               *)
LEMMA Carried ==
  ASSUME IInv, Kept, ToDo' \subseteq ToDo, ToDo \subseteq Steps, alive' => alive
  PROVE  OneTarget' /\ OpenInv' /\ SettledInv' /\ SelectInv' /\ ForwardInv'
<1>1. OneTarget'
  BY DEF IInv, OneTarget
<1>2. OpenInv'
  <2> SUFFICES ASSUME NEW c \in DOMAIN Tree, NEW i \in DOMAIN Tree[c],
                      NEW a \in DOMAIN Tree[c][i], NEW e \in EndpointsOf(c, i, a)
               PROVE  /\ FinalOpen(e)' => FinalAlternate(c, i, a)'
                      /\ alive' /\ FinalAlternate(c, i, a)' => FinalOpen(e)'
    BY DEF OpenInv
  <2>1. a \in AltsOf(c, i) /\ e \in AllEndpoints
    BY Endpoints DEF AltsOf
  <2> QED  BY <2>1 DEF IInv, OpenInv, Kept
<1>3. SettledInv'
  BY DEF IInv, SettledInv, Kept, AltsOf
<1>4. SelectInv'
  BY DEF IInv, SelectInv, Kept, AltsOf
<1>5. ForwardInv'
  <2> SUFFICES ASSUME NEW r \in Requests, Fwd(r) \in ToDo'
               PROVE  IF r.kind = "configuration"
                        THEN /\ FinalConfiguration(r.value - 1)'
                             /\ \A i \in DOMAIN Tree[r.value - 1] :
                                  FinalAlternate(r.value - 1, i, 0)'
                        ELSE \E c \in DOMAIN Tree :
                               /\ FinalConfiguration(c)'
                               /\ r.index \in DOMAIN Tree[c]
                               /\ r.value \in DOMAIN Tree[c][r.index]
                               /\ FinalAlternate(c, r.index, r.value)'
    BY DEF ForwardInv
  <2>1. Fwd(r) \in Steps /\ Fwd(r) \in ToDo /\ Fwd(r).do = "forward" /\ Fwd(r).request = r
    BY DEF Fwd
  <2>2. r.kind = "configuration" => r.value - 1 \in DOMAIN Tree
    BY <2>1, StepShape DEF Fits
  <2>3. \A c \in DOMAIN Tree : \A i \in DOMAIN Tree[c] :
          0 \in AltsOf(c, i) /\ DOMAIN Tree[c][i] \subseteq AltsOf(c, i)
    BY Indices DEF AltsOf
  <2> QED  BY <2>1, <2>2, <2>3 DEF IInv, ForwardInv, Kept
<1> QED  BY <1>1, <1>2, <1>3, <1>4, <1>5

(* So do the parts a step leaves alone: what the invariant says of the device, *)
LEMMA DeviceCarried ==
  ASSUME IInv, Kept, UNCHANGED <<device, refused>>,
         \A r : Fwd(r) \in ToDo' <=> Fwd(r) \in ToDo
  PROVE  DeviceInv'
BY DEF IInv, DeviceInv, Kept, AltsOf

(* ... of what the driver was told, ...                                      *)
LEMMA ConfiguredCarried ==
  ASSUME IInv, Kept, UNCHANGED configured, Configure \in ToDo' <=> Configure \in ToDo
  PROVE  ConfiguredInv'
BY DEF IInv, ConfiguredInv, Kept

(* ... and of the addresses.                                                 *)
LEMMA AddressCarried ==
  ASSUME IInv, UNCHANGED <<alive, open>>,
         \A e : EpStep("enable", e) \in ToDo' <=> EpStep("enable", e) \in ToDo,
         \A e : EpStep("disable", e) \in ToDo' <=> EpStep("disable", e) \in ToDo
  PROVE  AddressInv'
BY DEF IInv, AddressInv

(* No step changes what the records will be, unless it is one of theirs.     *)
LEMMA RecordsKept ==
  ASSUME UNCHANGED infoVars,
         \A c, i, a : Alt(c, i, a) \in ToDo' <=> Alt(c, i, a) \in ToDo,
         \A c : Cfg(c) \in ToDo' <=> Cfg(c) \in ToDo
  PROVE  \A c \in DOMAIN Tree :
           /\ FinalConfiguration(c)' <=> FinalConfiguration(c)
           /\ \A i \in DOMAIN Tree[c] : \A a \in AltsOf(c, i) :
                FinalAlternate(c, i, a)' <=> FinalAlternate(c, i, a)
BY DEF infoVars, FinalConfiguration, FinalAlternate

(* The same of the endpoints.                                                *)
LEMMA OpenKept ==
  ASSUME UNCHANGED open,
         \A e : EpStep("enable", e) \in ToDo' <=> EpStep("enable", e) \in ToDo,
         \A e : EpStep("disable", e) \in ToDo' <=> EpStep("disable", e) \in ToDo
  PROVE  \A e \in AllEndpoints : FinalOpen(e)' <=> FinalOpen(e)
BY DEF FinalOpen

-----------------------------------------------------------------------------
(* Each step keeps the invariant. *)

(* EnableStep: the endpoint is open from now on, or the process ends.         *)
LEMMA EnableKeeps ==
  ASSUME IInv, EnableStep, alive
  PROVE  IInv'
<1> DEFINE e == Head(steps).ep
           clash == \E f \in open : Address[f] = Address[e]
<1>1. /\ Doing("enable")
      /\ IF clash THEN alive' = FALSE /\ open' = open
                  ELSE alive' = alive /\ open' = open \cup {e}
      /\ UNCHANGED <<wild, activeConfiguration, activeInterface, activeAlternate,
                     configured, device, refused>>
  BY DEF EnableStep, infoVars
<1>2. /\ Head(steps) \in ToDo /\ ToDo = {Head(steps)} \cup ToDo'
      /\ ToDo' \subseteq ToDo /\ ToDo \subseteq Steps
      /\ steps' \in Seq(Steps) /\ InOrder(steps)'
      /\ \A y \in ToDo' : MayFollow(Head(steps), y)
  BY <1>1, FirstStep
<1>3. e \in AllEndpoints /\ Head(steps) = EpStep("enable", e)
  BY <1>1, FirstStep, StepShape
<1>4. /\ \A f : EpStep("disable", f) \in ToDo' <=> EpStep("disable", f) \in ToDo
      /\ \A c, i, a : Alt(c, i, a) \in ToDo' <=> Alt(c, i, a) \in ToDo
      /\ \A c : Cfg(c) \in ToDo' <=> Cfg(c) \in ToDo
      /\ Configure \in ToDo' <=> Configure \in ToDo
      /\ \A r : Fwd(r) \in ToDo' <=> Fwd(r) \in ToDo
  BY <1>1, OthersLeft
<1>5. \A f : f # e => (EpStep("enable", f) \in ToDo' <=> EpStep("enable", f) \in ToDo)
  BY <1>2, <1>3 DEF EpStep
<1> HIDE DEF e
<1>6. EpStep("enable", e) \in ToDo /\ EpStep("disable", e) \notin ToDo
  BY <1>2, <1>3 DEF IInv, OneTarget
<1>7. \A f \in AllEndpoints : /\ FinalOpen(f)' => FinalOpen(f)
                              /\ alive' /\ FinalOpen(f) => FinalOpen(f)'
  <2> SUFFICES ASSUME NEW f \in AllEndpoints
               PROVE  /\ FinalOpen(f)' => FinalOpen(f)
                      /\ alive' /\ FinalOpen(f) => FinalOpen(f)'
    OBVIOUS
  <2>1. CASE f = e
    BY <2>1, <1>1, <1>4, <1>6 DEF FinalOpen
  <2>2. CASE f # e
    BY <2>2, <1>1, <1>4, <1>5 DEF FinalOpen
  <2> QED  BY <2>1, <2>2
<1>8. Kept
  BY <1>1, <1>4, <1>7, RecordsKept DEF Kept, infoVars
<1>9. Typed'
  BY <1>1, <1>2, <1>3 DEF IInv, Typed, ConfigurationTyped, AlternatesTyped
<1>10. OneTarget' /\ OpenInv' /\ SettledInv' /\ SelectInv' /\ ForwardInv'
  BY <1>1, <1>2, <1>8, Carried
<1>11. ConfiguredInv' /\ DeviceInv'
  BY <1>1, <1>4, <1>8, ConfiguredCarried, DeviceCarried
<1>12. AddressInv'
  <2> SUFFICES ASSUME ~Reselect, DistinctAddresses
               PROVE  AddressInv'
    BY DEF AddressInv
  <2>1. /\ \A f \in AllEndpoints : EpStep("disable", f) \in ToDo => f \in open
        /\ \A g \in AllEndpoints : EpStep("enable", g) \in ToDo =>
             \A f \in open : Address[g] = Address[f] => EpStep("disable", f) \in ToDo
    BY DEF IInv, AddressInv
  <2>2. \A f : Address[f] = Address[e] =>
                 EpStep("enable", f) \notin ToDo' /\ EpStep("disable", f) \notin ToDo'
    BY <1>2, <1>3 DEF MayFollow, SameAddress, EpStep
  <2>3. ~clash
    BY <1>3, <1>4, <1>6, <2>1, <2>2
  <2>4. alive' /\ open' = open \cup {e}
    BY <1>1, <2>3
  <2>5. \A f \in AllEndpoints : EpStep("disable", f) \in ToDo' => f \in open'
    BY <1>2, <2>1, <2>4
  <2>6. ASSUME NEW g \in AllEndpoints, EpStep("enable", g) \in ToDo',
               NEW f \in open', Address[g] = Address[f]
        PROVE  EpStep("disable", f) \in ToDo'
    BY <1>2, <1>4, <2>1, <2>2, <2>4, <2>6
  <2> QED  BY <2>4, <2>5, <2>6 DEF AddressInv
<1> QED  BY <1>2, <1>9, <1>10, <1>11, <1>12 DEF IInv

(* DisableStep: what was to be closed is closed.                              *)
LEMMA DisableKeeps ==
  ASSUME IInv, DisableStep
  PROVE  IInv'
<1> DEFINE e == Head(steps).ep
<1>1. /\ Doing("disable")
      /\ open' = open \ {e}
      /\ UNCHANGED <<alive, wild, activeConfiguration, activeInterface,
                     activeAlternate, configured, device, refused>>
  BY DEF DisableStep, infoVars
<1>2. /\ Head(steps) \in ToDo /\ ToDo = {Head(steps)} \cup ToDo'
      /\ ToDo' \subseteq ToDo /\ ToDo \subseteq Steps
      /\ steps' \in Seq(Steps) /\ InOrder(steps)'
      /\ \A y \in ToDo' : MayFollow(Head(steps), y)
  BY <1>1, FirstStep
<1>3. e \in AllEndpoints /\ Head(steps) = EpStep("disable", e)
  BY <1>1, FirstStep, StepShape
<1>4. /\ \A f : EpStep("enable", f) \in ToDo' <=> EpStep("enable", f) \in ToDo
      /\ \A c, i, a : Alt(c, i, a) \in ToDo' <=> Alt(c, i, a) \in ToDo
      /\ \A c : Cfg(c) \in ToDo' <=> Cfg(c) \in ToDo
      /\ Configure \in ToDo' <=> Configure \in ToDo
      /\ \A r : Fwd(r) \in ToDo' <=> Fwd(r) \in ToDo
  BY <1>1, OthersLeft
<1>5. \A f : f # e => (EpStep("disable", f) \in ToDo' <=> EpStep("disable", f) \in ToDo)
  BY <1>2, <1>3 DEF EpStep
<1> HIDE DEF e
<1>6. EpStep("disable", e) \in ToDo
  BY <1>2, <1>3
<1>7. \A f \in AllEndpoints : FinalOpen(f)' <=> FinalOpen(f)
  <2> SUFFICES ASSUME NEW f \in AllEndpoints
               PROVE  FinalOpen(f)' <=> FinalOpen(f)
    OBVIOUS
  <2>1. CASE f = e
    BY <2>1, <1>1, <1>4, <1>6 DEF FinalOpen
  <2>2. CASE f # e
    BY <2>2, <1>1, <1>4, <1>5 DEF FinalOpen
  <2> QED  BY <2>1, <2>2
<1>8. Kept
  BY <1>1, <1>4, <1>7, RecordsKept DEF Kept, infoVars
<1>9. Typed'
  BY <1>1, <1>2 DEF IInv, Typed, ConfigurationTyped, AlternatesTyped
<1>10. OneTarget' /\ OpenInv' /\ SettledInv' /\ SelectInv' /\ ForwardInv'
  BY <1>1, <1>2, <1>8, Carried
<1>11. ConfiguredInv' /\ DeviceInv'
  BY <1>1, <1>4, <1>8, ConfiguredCarried, DeviceCarried
<1>12. AddressInv'
  <2> SUFFICES ASSUME ~Reselect, DistinctAddresses
               PROVE  AddressInv'
    BY DEF AddressInv
  <2>1. /\ alive
        /\ \A f \in AllEndpoints : EpStep("disable", f) \in ToDo => f \in open
        /\ \A g \in AllEndpoints : EpStep("enable", g) \in ToDo =>
             \A f \in open : Address[g] = Address[f] => EpStep("disable", f) \in ToDo
    BY DEF IInv, AddressInv
  <2>2. EpStep("disable", e) \notin ToDo'
    BY <1>2, <1>3 DEF MayFollow, SameAddress, EpStep
  <2>3. \A f \in AllEndpoints : EpStep("disable", f) \in ToDo' => f \in open'
    BY <1>1, <1>2, <2>1, <2>2
  <2>4. ASSUME NEW g \in AllEndpoints, EpStep("enable", g) \in ToDo',
               NEW f \in open', Address[g] = Address[f]
        PROVE  EpStep("disable", f) \in ToDo'
    BY <1>1, <1>4, <1>5, <2>1, <2>4
  <2> QED  BY <1>1, <2>1, <2>3, <2>4 DEF AddressInv
<1> QED  BY <1>2, <1>9, <1>10, <1>11, <1>12 DEF IInv

(* AlternateStep: what was to be recorded is recorded.                        *)
LEMMA AlternateKeeps ==
  ASSUME IInv, AlternateStep
  PROVE  IInv'
<1> DEFINE c == Head(steps).c
           i == Head(steps).i
           a == Head(steps).a
<1>1. /\ Doing("alternate")
      /\ activeAlternate' = [activeAlternate EXCEPT ![c][i] = a]
      /\ UNCHANGED <<alive, wild, activeConfiguration, activeInterface, open,
                     configured, device, refused>>
  BY DEF AlternateStep
<1>2. /\ Head(steps) \in ToDo /\ ToDo = {Head(steps)} \cup ToDo'
      /\ ToDo' \subseteq ToDo /\ ToDo \subseteq Steps
      /\ steps' \in Seq(Steps) /\ InOrder(steps)'
  BY <1>1, FirstStep
<1>3. /\ c \in DOMAIN Tree /\ i \in DOMAIN Tree[c] /\ a \in AltsOf(c, i)
      /\ Head(steps) = Alt(c, i, a)
  BY <1>1, FirstStep, StepShape DEF Fits, AltsOf
<1>4. /\ \A f : EpStep("enable", f) \in ToDo' <=> EpStep("enable", f) \in ToDo
      /\ \A f : EpStep("disable", f) \in ToDo' <=> EpStep("disable", f) \in ToDo
      /\ \A d : Cfg(d) \in ToDo' <=> Cfg(d) \in ToDo
      /\ Configure \in ToDo' <=> Configure \in ToDo
      /\ \A r : Fwd(r) \in ToDo' <=> Fwd(r) \in ToDo
  BY <1>1, OthersLeft
<1>5. \A d, j, b : (d # c \/ j # i \/ b # a) =>
                     (Alt(d, j, b) \in ToDo' <=> Alt(d, j, b) \in ToDo)
  BY <1>2, <1>3 DEF Alt
<1> HIDE DEF c, i, a
<1>6. /\ DOMAIN activeAlternate' = DOMAIN Tree
      /\ \A d \in DOMAIN Tree : activeAlternate'[d] \in [DOMAIN Tree[d] -> Int]
      /\ \A d \in DOMAIN Tree : \A j \in DOMAIN Tree[d] :
           activeAlternate'[d][j] = IF d = c /\ j = i THEN a ELSE activeAlternate[d][j]
  <2>1. /\ DOMAIN activeAlternate = DOMAIN Tree
        /\ \A d \in DOMAIN Tree : activeAlternate[d] \in [DOMAIN Tree[d] -> Int]
        /\ a \in Int
    BY <1>3, Indices DEF IInv, Typed
  <2> QED  BY <1>1, <1>3, <2>1
<1>7. ASSUME NEW d \in DOMAIN Tree, NEW j \in DOMAIN Tree[d], NEW b \in AltsOf(d, j)
      PROVE  FinalAlternate(d, j, b)' <=> FinalAlternate(d, j, b)
  <2>1. CASE d = c /\ j = i
    <3>1. Alt(c, i, a) \in ToDo /\ activeAlternate'[c][i] = a
      BY <1>2, <1>3, <1>6
    <3>2. \A n \in AltsOf(c, i) : Alt(c, i, n) \in ToDo => n = a
      BY <1>3, <3>1 DEF IInv, OneTarget
    <3>3. FinalAlternate(d, j, b) <=> b = a
      BY <2>1, <1>3, <3>1, <3>2 DEF FinalAlternate
    <3>4. FinalAlternate(d, j, b)' <=> b = a
      <4>1. /\ activeAlternate'[d][j] = a
            /\ \A n \in AltsOf(d, j) : Alt(d, j, n) \in ToDo' => n = a
        BY <2>1, <1>2, <3>1, <3>2
      <4> QED  BY <4>1 DEF FinalAlternate
    <3> QED  BY <3>3, <3>4
  <2>2. CASE ~(d = c /\ j = i)
    BY <2>2, <1>5, <1>6 DEF FinalAlternate
  <2> QED  BY <2>1, <2>2
<1>8. Kept
  BY <1>1, <1>4, <1>7, OpenKept DEF Kept, FinalConfiguration
<1>9. Typed'
  BY <1>1, <1>2, <1>3, <1>6 DEF IInv, Typed, ConfigurationTyped, AlternatesTyped
<1>10. OneTarget' /\ OpenInv' /\ SettledInv' /\ SelectInv' /\ ForwardInv'
  BY <1>1, <1>2, <1>8, Carried
<1>11. ConfiguredInv' /\ DeviceInv' /\ AddressInv'
  BY <1>1, <1>4, <1>8, ConfiguredCarried, DeviceCarried, AddressCarried
<1> QED  BY <1>2, <1>9, <1>10, <1>11 DEF IInv

(* InterfaceStep: activeInterface is read by nothing else.                    *)
LEMMA InterfaceKeeps ==
  ASSUME IInv, InterfaceStep
  PROVE  IInv'
<1>1. /\ Doing("interface")
      /\ activeInterface' =
           [activeInterface EXCEPT ![Head(steps).c] = Head(steps).i]
      /\ UNCHANGED <<alive, wild, activeConfiguration, activeAlternate, open,
                     configured, device, refused>>
  BY DEF InterfaceStep
<1>2. /\ ToDo' \subseteq ToDo /\ ToDo \subseteq Steps
      /\ steps' \in Seq(Steps) /\ InOrder(steps)'
      /\ Head(steps).c \in DOMAIN Tree /\ Head(steps).i \in DOMAIN Tree[Head(steps).c]
  BY <1>1, FirstStep, StepShape DEF Fits
<1>3. /\ \A f : EpStep("enable", f) \in ToDo' <=> EpStep("enable", f) \in ToDo
      /\ \A f : EpStep("disable", f) \in ToDo' <=> EpStep("disable", f) \in ToDo
      /\ \A c, i, a : Alt(c, i, a) \in ToDo' <=> Alt(c, i, a) \in ToDo
      /\ \A d : Cfg(d) \in ToDo' <=> Cfg(d) \in ToDo
      /\ Configure \in ToDo' <=> Configure \in ToDo
      /\ \A r : Fwd(r) \in ToDo' <=> Fwd(r) \in ToDo
  BY <1>1, OthersLeft
<1>4. Kept
  BY <1>1, <1>3, OpenKept DEF Kept, FinalConfiguration, FinalAlternate
<1>5. /\ DOMAIN activeInterface' = DOMAIN Tree
      /\ \A c \in DOMAIN Tree : activeInterface'[c] \in DOMAIN Tree[c] \cup {-1}
  BY <1>1, <1>2 DEF IInv, Typed
<1>6. Typed'
  BY <1>1, <1>2, <1>5 DEF IInv, Typed, ConfigurationTyped, AlternatesTyped
<1>7. OneTarget' /\ OpenInv' /\ SettledInv' /\ SelectInv' /\ ForwardInv'
  BY <1>1, <1>2, <1>4, Carried
<1>8. ConfiguredInv' /\ DeviceInv' /\ AddressInv'
  BY <1>1, <1>3, <1>4, ConfiguredCarried, DeviceCarried, AddressCarried
<1> QED  BY <1>2, <1>6, <1>7, <1>8 DEF IInv

(* SelectStep: the device has what will be recorded, or refuses in silence.    *)
LEMMA SelectKeeps ==
  ASSUME IInv, SelectStep
  PROVE  IInv'
<1> DEFINE c == Head(steps).c
           i == Head(steps).i
           a == Head(steps).a
<1>1. /\ Doing("select")
      /\ \/ device.config = c /\ device' = [device EXCEPT !.alt[i] = a]
         \/ device' = device
      /\ UNCHANGED <<alive, wild, activeConfiguration, activeInterface,
                     activeAlternate, open, configured, refused>>
  BY DEF SelectStep, infoVars
<1>2. /\ Head(steps) \in ToDo /\ ToDo' \subseteq ToDo /\ ToDo \subseteq Steps
      /\ steps' \in Seq(Steps) /\ InOrder(steps)'
  BY <1>1, FirstStep
<1>3. /\ c \in DOMAIN Tree /\ i \in DOMAIN Tree[c] /\ a \in DOMAIN Tree[c][i]
      /\ Head(steps) = Sel(c, i, a)
  BY <1>1, FirstStep, StepShape DEF Fits
<1>4. /\ \A f : EpStep("enable", f) \in ToDo' <=> EpStep("enable", f) \in ToDo
      /\ \A f : EpStep("disable", f) \in ToDo' <=> EpStep("disable", f) \in ToDo
      /\ \A d, j, b : Alt(d, j, b) \in ToDo' <=> Alt(d, j, b) \in ToDo
      /\ \A d : Cfg(d) \in ToDo' <=> Cfg(d) \in ToDo
      /\ Configure \in ToDo' <=> Configure \in ToDo
      /\ \A r : Fwd(r) \in ToDo' <=> Fwd(r) \in ToDo
  BY <1>1, OthersLeft
<1>5. Kept
  BY <1>1, <1>4, OpenKept DEF Kept, FinalConfiguration, FinalAlternate
<1>6. \A b : b = a => (b \in DOMAIN Tree[c][i] /\ FinalAlternate(c, i, b))
  BY <1>2, <1>3 DEF IInv, SelectInv
<1> HIDE DEF c, i, a
<1>7. /\ device' = [config |-> device'.config, alt |-> device'.alt]
      /\ device'.config = device.config
      /\ device'.alt \in [DOMAIN Tree[device.config] -> Int]
      /\ \A j \in DOMAIN Tree[device.config] :
           \/ device'.alt[j] = device.alt[j]
           \/ device.config = c /\ j = i /\ device'.alt[j] = a
  <2>1. /\ device = [config |-> device.config, alt |-> device.alt]
        /\ device.alt \in [DOMAIN Tree[device.config] -> Int]
    BY DEF IInv, Typed
  <2>2. CASE device' = device
    BY <2>1, <2>2
  <2>3. CASE device.config = c /\ device' = [device EXCEPT !.alt[i] = a]
    <3>1. a \in Int
      BY <1>3, Indices
    <3>2. device' = [config |-> device.config, alt |-> [device.alt EXCEPT ![i] = a]]
      BY <2>1, <2>3
    <3>3. device'.config = device.config /\ device'.alt = [device.alt EXCEPT ![i] = a]
      BY <3>2
    <3> QED  BY <2>1, <2>3, <3>1, <3>2, <3>3
  <2> QED  BY <1>1, <2>2, <2>3
<1>8. Typed'
  <2>1. device'.config \in DOMAIN Tree
        /\ device'.alt \in [DOMAIN Tree[device'.config] -> Int]
    BY <1>7 DEF IInv, Typed
  <2>2. \A j \in DOMAIN Tree[device'.config] :
          device'.alt[j] \in DOMAIN Tree[device'.config][j]
    BY <1>3, <1>7 DEF IInv, Typed
  <2> QED  BY <1>1, <1>2, <1>7, <2>1, <2>2
           DEF IInv, Typed, ConfigurationTyped, AlternatesTyped
<1>9. DeviceInv'
  <2> SUFFICES ASSUME ~refused', NEW d \in DOMAIN Tree, FinalConfiguration(d)',
                      ~\E r \in Requests : Fwd(r) \in ToDo' /\ r.kind = "configuration"
               PROVE  /\ device'.config = d
                      /\ \A j \in DOMAIN Tree[d] : \A b \in DOMAIN Tree[d][j] :
                           \/ device'.alt[j] # b
                           \/ FinalAlternate(d, j, b)'
                           \/ \E r \in Requests :
                                /\ Fwd(r) \in ToDo' /\ r.kind # "configuration"
                                /\ r.index = j
    BY DEF DeviceInv
  <2>1. FinalConfiguration(d)
    BY <1>5 DEF Kept
  <2>2. /\ device.config = d
        /\ \A j \in DOMAIN Tree[d] : \A b \in DOMAIN Tree[d][j] :
             \/ device.alt[j] # b
             \/ FinalAlternate(d, j, b)
             \/ \E r \in Requests :
                  Fwd(r) \in ToDo' /\ r.kind # "configuration" /\ r.index = j
    BY <1>1, <1>4, <2>1 DEF IInv, DeviceInv
  <2>3. \A j \in DOMAIN Tree[d] : \A b \in DOMAIN Tree[d][j] :
          device'.alt[j] = b => device.alt[j] = b \/ FinalAlternate(d, j, b)
    BY <1>6, <1>7, <2>2
  <2> QED  BY <1>5, <1>7, <2>2, <2>3 DEF Kept, AltsOf
<1>10. OneTarget' /\ OpenInv' /\ SettledInv' /\ SelectInv' /\ ForwardInv'
  BY <1>1, <1>2, <1>5, Carried
<1>11. ConfiguredInv' /\ AddressInv'
  BY <1>1, <1>4, <1>5, ConfiguredCarried, AddressCarried
<1> QED  BY <1>2, <1>8, <1>9, <1>10, <1>11 DEF IInv

(* ConfigurationStep: what was to be recorded is recorded.                    *)
LEMMA ConfigurationKeeps ==
  ASSUME IInv, ConfigurationStep
  PROVE  IInv'
<1> DEFINE c == Head(steps).c
<1>1. /\ Doing("configuration")
      /\ activeConfiguration' = c
      /\ UNCHANGED <<alive, wild, activeInterface, activeAlternate, open,
                     configured, device, refused>>
  BY DEF ConfigurationStep
<1>2. /\ Head(steps) \in ToDo /\ ToDo = {Head(steps)} \cup ToDo'
      /\ ToDo' \subseteq ToDo /\ ToDo \subseteq Steps
      /\ steps' \in Seq(Steps) /\ InOrder(steps)'
  BY <1>1, FirstStep
<1>3. c \in DOMAIN Tree /\ Head(steps) = Cfg(c)
  BY <1>1, FirstStep, StepShape DEF Fits
<1>4. /\ \A f : EpStep("enable", f) \in ToDo' <=> EpStep("enable", f) \in ToDo
      /\ \A f : EpStep("disable", f) \in ToDo' <=> EpStep("disable", f) \in ToDo
      /\ \A d, j, b : Alt(d, j, b) \in ToDo' <=> Alt(d, j, b) \in ToDo
      /\ Configure \in ToDo' <=> Configure \in ToDo
      /\ \A r : Fwd(r) \in ToDo' <=> Fwd(r) \in ToDo
  BY <1>1, OthersLeft
<1> HIDE DEF c
<1>5. ASSUME NEW d \in DOMAIN Tree
      PROVE  FinalConfiguration(d)' <=> FinalConfiguration(d)
  <2>1. \A n \in DOMAIN Tree : Cfg(n) \in ToDo => n = c
    BY <1>2, <1>3 DEF IInv, OneTarget
  <2>2. FinalConfiguration(d) <=> d = c
    BY <1>2, <1>3, <2>1 DEF FinalConfiguration
  <2>3. /\ activeConfiguration' = c
        /\ \A n \in DOMAIN Tree : Cfg(n) \in ToDo' => n = c
    BY <1>1, <1>2, <2>1
  <2>4. FinalConfiguration(d)' <=> d = c
    BY <2>3 DEF FinalConfiguration
  <2> QED  BY <2>2, <2>4
<1>6. Kept
  BY <1>1, <1>4, <1>5, OpenKept DEF Kept, FinalAlternate
<1>7. Typed'
  BY <1>1, <1>2, <1>3 DEF IInv, Typed, ConfigurationTyped, AlternatesTyped
<1>8. OneTarget' /\ OpenInv' /\ SettledInv' /\ SelectInv' /\ ForwardInv'
  BY <1>1, <1>2, <1>6, Carried
<1>9. ConfiguredInv' /\ DeviceInv' /\ AddressInv'
  BY <1>1, <1>4, <1>6, ConfiguredCarried, DeviceCarried, AddressCarried
<1> QED  BY <1>2, <1>7, <1>8, <1>9 DEF IInv

(* ConfigureStep: the driver is told, as it was to be.                        *)
LEMMA ConfigureKeeps ==
  ASSUME IInv, ConfigureStep
  PROVE  IInv'
<1>1. /\ Doing("configure")
      /\ configured' = TRUE
      /\ UNCHANGED <<alive, wild, activeConfiguration, activeInterface,
                     activeAlternate, open, device, refused>>
  BY DEF ConfigureStep, infoVars
<1>2. /\ Head(steps) \in ToDo /\ ToDo' \subseteq ToDo /\ ToDo \subseteq Steps
      /\ steps' \in Seq(Steps) /\ InOrder(steps)' /\ Head(steps) = Configure
  BY <1>1, FirstStep, StepShape
<1>3. /\ \A f : EpStep("enable", f) \in ToDo' <=> EpStep("enable", f) \in ToDo
      /\ \A f : EpStep("disable", f) \in ToDo' <=> EpStep("disable", f) \in ToDo
      /\ \A d, j, b : Alt(d, j, b) \in ToDo' <=> Alt(d, j, b) \in ToDo
      /\ \A d : Cfg(d) \in ToDo' <=> Cfg(d) \in ToDo
      /\ \A r : Fwd(r) \in ToDo' <=> Fwd(r) \in ToDo
  BY <1>1, OthersLeft
<1>4. Kept
  BY <1>1, <1>3, OpenKept DEF Kept, FinalConfiguration, FinalAlternate
<1>5. Typed'
  BY <1>1, <1>2 DEF IInv, Typed, ConfigurationTyped, AlternatesTyped
<1>6. OneTarget' /\ OpenInv' /\ SettledInv' /\ SelectInv' /\ ForwardInv'
  BY <1>1, <1>2, <1>4, Carried
<1>7. ConfiguredInv'
  BY <1>1, <1>2, <1>4 DEF IInv, ConfiguredInv, Kept
<1>8. DeviceInv' /\ AddressInv'
  BY <1>1, <1>3, <1>4, DeviceCarried, AddressCarried
<1> QED  BY <1>2, <1>5, <1>6, <1>7, <1>8 DEF IInv

(* ForwardStep: the last step, after which the device agrees or has refused.  *)
LEMMA ForwardKeeps ==
  ASSUME IInv, ForwardStep
  PROVE  IInv'
<1> DEFINE r == Head(steps).request
<1>1. /\ Doing("forward")
      /\ \/ /\ r.kind = "configuration"
            /\ device' = InConfiguration(r.value - 1)
            /\ refused' = refused
         \/ /\ r.kind = "interface" /\ Understands(r)
            /\ device' = [device EXCEPT !.alt[r.index] = r.value]
            /\ refused' = refused
         \/ refused' = TRUE /\ device' = device
      /\ UNCHANGED <<alive, wild, activeConfiguration, activeInterface,
                     activeAlternate, open, configured>>
  BY DEF ForwardStep, infoVars
<1>2. /\ Head(steps) \in ToDo /\ ToDo = {Head(steps)} \cup ToDo'
      /\ ToDo' \subseteq ToDo /\ ToDo \subseteq Steps
      /\ steps' \in Seq(Steps) /\ InOrder(steps)'
      /\ \A y \in ToDo' : MayFollow(Head(steps), y)
  BY <1>1, FirstStep
<1>3. /\ r \in Requests /\ Head(steps) = Fwd(r) /\ Head(steps).do = "forward"
      /\ r.kind = "configuration" => r.value - 1 \in DOMAIN Tree
  BY <1>1, FirstStep, StepShape DEF Fits
<1>4. /\ \A f : EpStep("enable", f) \in ToDo' <=> EpStep("enable", f) \in ToDo
      /\ \A f : EpStep("disable", f) \in ToDo' <=> EpStep("disable", f) \in ToDo
      /\ \A d, j, b : Alt(d, j, b) \in ToDo' <=> Alt(d, j, b) \in ToDo
      /\ \A d : Cfg(d) \in ToDo' <=> Cfg(d) \in ToDo
      /\ Configure \in ToDo' <=> Configure \in ToDo
  BY <1>1, OthersLeft
<1>5. ToDo' = {} /\ ToDo = {Fwd(r)}
  BY <1>2, <1>3 DEF MayFollow
<1> HIDE DEF r
<1>6. Kept
  BY <1>1, <1>4, OpenKept DEF Kept, FinalConfiguration, FinalAlternate
<1>7. \A c, d \in DOMAIN Tree : FinalConfiguration(c) /\ FinalConfiguration(d) => c = d
  <2>1. \A c : Cfg(c) \notin ToDo
    BY <1>5 DEF Fwd, Cfg
  <2> QED  BY <2>1 DEF FinalConfiguration
<1>8. CASE refused' = TRUE /\ device' = device
  <2>1. Typed'
    BY <1>1, <1>2, <1>8 DEF IInv, Typed, ConfigurationTyped, AlternatesTyped
  <2>2. DeviceInv'
    BY <1>8 DEF DeviceInv
  <2>3. OneTarget' /\ OpenInv' /\ SettledInv' /\ SelectInv' /\ ForwardInv'
    BY <1>1, <1>2, <1>6, Carried
  <2>4. ConfiguredInv' /\ AddressInv'
    BY <1>1, <1>4, <1>6, ConfiguredCarried, AddressCarried
  <2> QED  BY <1>2, <2>1, <2>2, <2>3, <2>4 DEF IInv
<1>9. CASE /\ r.kind = "configuration" /\ device' = InConfiguration(r.value - 1)
           /\ refused' = refused
  <2> DEFINE v == r.value - 1
  <2>1. v \in DOMAIN Tree /\ FinalConfiguration(v)
        /\ \A i \in DOMAIN Tree[v] : FinalAlternate(v, i, 0)
    <3>1. \A w : w = v => /\ w \in DOMAIN Tree /\ FinalConfiguration(w)
                          /\ \A i \in DOMAIN Tree[w] : FinalAlternate(w, i, 0)
      BY <1>2, <1>3, <1>9 DEF IInv, ForwardInv
    <3> QED  BY <3>1
  <2>2. /\ device' = [config |-> device'.config, alt |-> device'.alt]
        /\ device'.config = v
        /\ device'.alt \in [DOMAIN Tree[v] -> Int]
        /\ \A i \in DOMAIN Tree[v] : device'.alt[i] = 0 /\ 0 \in DOMAIN Tree[v][i]
    BY <1>9, <2>1, Indices DEF InConfiguration, AltsZero
  <2> HIDE DEF v
  <2>3. Typed'
    BY <1>1, <1>2, <1>9, <2>1, <2>2
       DEF IInv, Typed, ConfigurationTyped, AlternatesTyped
  <2>4. \A c \in DOMAIN Tree : FinalConfiguration(c) => c = v
    BY <1>7, <2>1
  <2>5. \A c \in DOMAIN Tree : FinalConfiguration(c)' =>
          /\ device'.config = c
          /\ \A i \in DOMAIN Tree[c] : \A a \in DOMAIN Tree[c][i] :
               device'.alt[i] # a \/ FinalAlternate(c, i, a)'
    <3> SUFFICES ASSUME NEW c \in DOMAIN Tree, FinalConfiguration(c)',
                        NEW i \in DOMAIN Tree[c], NEW a \in DOMAIN Tree[c][i],
                        device'.alt[i] = a
                 PROVE  FinalAlternate(c, i, a)'
      BY <1>6, <2>2, <2>4 DEF Kept
    <3>1. c = v
      BY <1>6, <2>4 DEF Kept
    <3>2. a = 0
      BY <2>2, <3>1
    <3>3. \A w, b : w = v /\ b = 0 /\ i \in DOMAIN Tree[w] => FinalAlternate(w, i, b)
      BY <2>1
    <3>4. FinalAlternate(c, i, a)
      BY <3>1, <3>2, <3>3
    <3> QED  BY <1>6, <3>4 DEF Kept, AltsOf
  <2>6. DeviceInv'
    BY <2>5 DEF DeviceInv
  <2>7. OneTarget' /\ OpenInv' /\ SettledInv' /\ SelectInv' /\ ForwardInv'
    BY <1>1, <1>2, <1>6, Carried
  <2>8. ConfiguredInv' /\ AddressInv'
    BY <1>1, <1>4, <1>6, ConfiguredCarried, AddressCarried
  <2> QED  BY <1>2, <2>3, <2>6, <2>7, <2>8 DEF IInv
<1>10. CASE /\ r.kind = "interface" /\ Understands(r) /\ refused' = refused
            /\ device' = [device EXCEPT !.alt[r.index] = r.value]
  <2>1. PICK c \in DOMAIN Tree :
               /\ FinalConfiguration(c)
               /\ r.index \in DOMAIN Tree[c] /\ r.value \in DOMAIN Tree[c][r.index]
               /\ \A i, a : i = r.index /\ a = r.value => FinalAlternate(c, i, a)
    <3>1. Fwd(r) \in ToDo /\ r \in Requests /\ r.kind # "configuration"
      BY <1>2, <1>3, <1>10
    <3>2. \A q \in Requests : Fwd(q) \in ToDo /\ q.kind # "configuration" =>
            \E c \in DOMAIN Tree :
              /\ FinalConfiguration(c)
              /\ q.index \in DOMAIN Tree[c] /\ q.value \in DOMAIN Tree[c][q.index]
              /\ FinalAlternate(c, q.index, q.value)
      BY DEF IInv, ForwardInv
    <3> QED  BY <3>1, <3>2
  <2>2. /\ r.index \in DOMAIN Tree[device.config]
        /\ r.value \in DOMAIN Tree[device.config][r.index]
    BY <1>10 DEF Understands, IInv, Typed
  <2>3. /\ device' = [config |-> device'.config, alt |-> device'.alt]
        /\ device'.config = device.config
        /\ device'.alt \in [DOMAIN Tree[device.config] -> Int]
        /\ \A i \in DOMAIN Tree[device.config] :
             device'.alt[i] = IF i = r.index THEN r.value ELSE device.alt[i]
    <3>1. /\ device = [config |-> device.config, alt |-> device.alt]
          /\ device.alt \in [DOMAIN Tree[device.config] -> Int]
          /\ r.value \in Int
      BY <2>2, Indices DEF IInv, Typed
    <3>2. device' = [config |-> device.config,
                     alt |-> [device.alt EXCEPT ![r.index] = r.value]]
      BY <1>10, <3>1
    <3>3. /\ device'.config = device.config
          /\ device'.alt = [device.alt EXCEPT ![r.index] = r.value]
      BY <3>2
    <3> QED  BY <3>1, <3>2, <3>3
  <2>4. Typed'
    <3>1. device'.config \in DOMAIN Tree
          /\ device'.alt \in [DOMAIN Tree[device'.config] -> Int]
      BY <2>3 DEF IInv, Typed
    <3>2. \A j \in DOMAIN Tree[device'.config] :
            device'.alt[j] \in DOMAIN Tree[device'.config][j]
      BY <2>2, <2>3 DEF IInv, Typed
    <3> QED  BY <1>1, <1>2, <1>10, <2>3, <3>1, <3>2
             DEF IInv, Typed, ConfigurationTyped, AlternatesTyped
  <2>5. ~\E q \in Requests : Fwd(q) \in ToDo /\ q.kind = "configuration"
    BY <1>5, <1>10 DEF Fwd
  <2>6. \A i, q : Fwd(q) \in ToDo /\ q.index = i => i = r.index
    BY <1>5 DEF Fwd
  <2>7. ASSUME ~refused', NEW d \in DOMAIN Tree, FinalConfiguration(d)'
        PROVE  /\ device'.config = d
               /\ \A i \in DOMAIN Tree[d] : \A a \in DOMAIN Tree[d][i] :
                    device'.alt[i] # a \/ FinalAlternate(d, i, a)'
    <3>1. FinalConfiguration(d) /\ d = c
      BY <1>6, <1>7, <2>1, <2>7 DEF Kept
    <3>2. device.config = d
      BY <1>10, <2>5, <2>7, <3>1 DEF IInv, DeviceInv
    <3>3. ASSUME NEW i \in DOMAIN Tree[d], NEW a \in DOMAIN Tree[d][i],
                 device'.alt[i] = a
          PROVE  FinalAlternate(d, i, a)'
      <4>1. FinalAlternate(d, i, a)
        <5>1. CASE i = r.index
          BY <2>1, <2>3, <3>1, <3>2, <3>3, <5>1
        <5>2. CASE i # r.index
          <6>1. device.alt[i] = a
            BY <2>3, <3>2, <3>3, <5>2
          <6> QED  BY <1>10, <2>5, <2>6, <2>7, <3>1, <5>2, <6>1 DEF IInv, DeviceInv
        <5> QED  BY <5>1, <5>2
      <4> QED  BY <1>6, <4>1 DEF Kept, AltsOf
    <3> QED  BY <2>3, <3>2, <3>3
  <2>8. DeviceInv'
    BY <2>7 DEF DeviceInv
  <2>9. OneTarget' /\ OpenInv' /\ SettledInv' /\ SelectInv' /\ ForwardInv'
    BY <1>1, <1>2, <1>6, Carried
  <2>10. ConfiguredInv' /\ AddressInv'
    BY <1>1, <1>4, <1>6, ConfiguredCarried, AddressCarried
  <2> QED  BY <1>2, <2>4, <2>8, <2>9, <2>10 DEF IInv
<1> QED  BY <1>1, <1>8, <1>9, <1>10

-----------------------------------------------------------------------------
(* Between requests the records say what is open. *)
LEMMA AtRest ==
  ASSUME IInv, steps = <<>>
  PROVE  /\ ToDo = {}
         /\ AlternatesTyped /\ ConfigurationTyped /\ Settled
         /\ \A c \in DOMAIN Tree : FinalConfiguration(c) <=> c = activeConfiguration
         /\ \A c \in DOMAIN Tree : \A i \in DOMAIN Tree[c] :
              \A a \in DOMAIN Tree[c][i] : \A e \in EndpointsOf(c, i, a) :
                /\ e \in open => activeAlternate[c][i] = a
                /\ alive /\ activeAlternate[c][i] = a => e \in open
<1>1. ToDo = {}
  BY ShortInOrder DEF ToDo
<1>2. /\ \A c : FinalConfiguration(c) <=> c = activeConfiguration
      /\ \A c, i, a : FinalAlternate(c, i, a) <=> activeAlternate[c][i] = a
      /\ \A e : FinalOpen(e) <=> e \in open
  BY <1>1 DEF FinalConfiguration, FinalAlternate, FinalOpen
<1>3. AlternatesTyped /\ ConfigurationTyped
  BY DEF IInv, Typed
<1>4. Settled
  BY <1>2 DEF IInv, SettledInv, Settled
<1>5. ASSUME NEW c \in DOMAIN Tree, NEW i \in DOMAIN Tree[c],
             NEW a \in DOMAIN Tree[c][i], NEW e \in EndpointsOf(c, i, a)
      PROVE  /\ e \in open => activeAlternate[c][i] = a
             /\ alive /\ activeAlternate[c][i] = a => e \in open
  BY <1>2 DEF IInv, OpenInv
<1> QED  BY <1>1, <1>2, <1>3, <1>4, <1>5

(* A request moves interfaces of at most two configurations, each to one
   alternate: to none in the configuration that is left.                     *)
LEMMA TargetsShape ==
  ASSUME AlternatesTyped, ConfigurationTyped, Settled,
         NEW r \in Requests, IndicesInRange(r)
  PROVE  \E v \in DOMAIN Tree :
           /\ v = IF r.kind = "configuration" THEN r.value - 1 ELSE activeConfiguration
           /\ \A t \in Targets(r) :
                /\ t = <<t[1], t[2], t[3]>>
                /\ t[1] \in DOMAIN Tree /\ t[2] \in DOMAIN Tree[t[1]]
                /\ t[3] \in AltsOf(t[1], t[2])
                /\ t[1] = v => t[3] # -1 /\ t[3] \in DOMAIN Tree[t[1]][t[2]]
                /\ t[1] # v => /\ t[3] = -1 /\ t[1] = activeConfiguration
                               /\ r.kind = "configuration"
                /\ \A u \in Targets(r) : t[1] = u[1] /\ t[2] = u[2] => t[3] = u[3]
           /\ r.kind = "configuration" =>
                \A i \in DOMAIN Tree[v] : <<v, i, 0>> \in Targets(r)
           /\ r.kind = "configuration" /\ activeConfiguration \in DOMAIN Tree \ {v} =>
                \A i \in DOMAIN Tree[activeConfiguration] :
                  <<activeConfiguration, i, -1>> \in Targets(r)
           /\ r.kind # "configuration" =>
                \A t \in Targets(r) : t = <<v, r.index, r.value>>
           /\ r.kind # "configuration" =>
                /\ r.index \in DOMAIN Tree[v] /\ r.value \in DOMAIN Tree[v][r.index]
                /\ <<v, r.index, r.value>> \in Targets(r)
<1> DEFINE v == IF r.kind = "configuration" THEN r.value - 1 ELSE activeConfiguration
<1>1. v \in DOMAIN Tree
      /\ (r.kind # "configuration" =>
            r.index \in DOMAIN Tree[v] /\ r.value \in DOMAIN Tree[v][r.index])
  BY DEF IndicesInRange
<1>2. \A c \in DOMAIN Tree : c # -1
  BY Indices
<1>3. CASE r.kind = "configuration"
  <2>1. \A t \in Targets(r) :
          \/ \E i \in DOMAIN Tree[v] : t = <<v, i, 0>>
          \/ /\ activeConfiguration \in DOMAIN Tree /\ activeConfiguration # v
             /\ \E i \in DOMAIN Tree[activeConfiguration] :
                  t = <<activeConfiguration, i, -1>>
    BY <1>3 DEF Targets, ConfigurationTyped
  <2>2. /\ \A i \in DOMAIN Tree[v] : <<v, i, 0>> \in Targets(r)
        /\ activeConfiguration \in DOMAIN Tree \ {v} =>
             \A i \in DOMAIN Tree[activeConfiguration] :
               <<activeConfiguration, i, -1>> \in Targets(r)
    BY <1>2, <1>3 DEF Targets
  <2>3. \A c \in DOMAIN Tree : \A i \in DOMAIN Tree[c] :
          0 \in DOMAIN Tree[c][i] /\ 0 \in AltsOf(c, i) /\ -1 \in AltsOf(c, i)
    BY Indices DEF AltsOf
  <2>4. v = r.value - 1
    BY <1>3
  <2> HIDE DEF v
  <2>5. ASSUME NEW t \in Targets(r)
        PROVE  /\ t = <<t[1], t[2], t[3]>>
               /\ t[1] \in DOMAIN Tree /\ t[2] \in DOMAIN Tree[t[1]]
               /\ t[3] \in AltsOf(t[1], t[2])
               /\ t[1] = v => t[3] = 0 /\ t[3] \in DOMAIN Tree[t[1]][t[2]]
               /\ t[1] # v => t[3] = -1 /\ t[1] = activeConfiguration
    BY <1>1, <2>1, <2>3
  <2> QED  BY <1>1, <1>3, <2>2, <2>4, <2>5
<1>4. CASE r.kind # "configuration"
  <2>1. Targets(r) = {<<v, r.index, r.value>>}
    BY <1>4 DEF Targets
  <2>2. r.value \in AltsOf(v, r.index) /\ r.value # -1
    BY <1>1, <1>4, Indices DEF AltsOf
  <2> QED  BY <1>1, <1>4, <2>1, <2>2
<1> QED  BY <1>3, <1>4

(* Request: its steps lead from one state in which the records, the open
   endpoints and the device agree to another.                                *)
LEMMA RequestKeeps ==
  ASSUME IInv, NEW r \in Requests, Request(r), alive, IndicesInRange(r)
  PROVE  IInv'
<1>1. /\ steps = <<>> /\ steps' = ep0Request(r)
      /\ Reselect \/ ~SelectsActive(r)
      /\ UNCHANGED <<alive, wild, activeConfiguration, activeInterface,
                     activeAlternate, open, configured, device, refused>>
  BY DEF Request, infoVars
<1>2. /\ ToDo = {}
      /\ AlternatesTyped /\ ConfigurationTyped /\ Settled
      /\ \A c \in DOMAIN Tree : FinalConfiguration(c) <=> c = activeConfiguration
      /\ \A c \in DOMAIN Tree : \A i \in DOMAIN Tree[c] :
           \A a \in DOMAIN Tree[c][i] : \A e \in EndpointsOf(c, i, a) :
             e \in open <=> activeAlternate[c][i] = a
  BY <1>1, AtRest
<1>3. PICK v \in DOMAIN Tree :
           /\ v = IF r.kind = "configuration" THEN r.value - 1 ELSE activeConfiguration
           /\ \A t \in Targets(r) :
                /\ t = <<t[1], t[2], t[3]>>
                /\ t[1] \in DOMAIN Tree /\ t[2] \in DOMAIN Tree[t[1]]
                /\ t[3] \in AltsOf(t[1], t[2])
                /\ t[1] = v => t[3] # -1 /\ t[3] \in DOMAIN Tree[t[1]][t[2]]
                /\ t[1] # v => /\ t[3] = -1 /\ t[1] = activeConfiguration
                               /\ r.kind = "configuration"
                /\ \A u \in Targets(r) : t[1] = u[1] /\ t[2] = u[2] => t[3] = u[3]
           /\ r.kind = "configuration" =>
                \A i \in DOMAIN Tree[v] : <<v, i, 0>> \in Targets(r)
           /\ r.kind = "configuration" /\ activeConfiguration \in DOMAIN Tree \ {v} =>
                \A i \in DOMAIN Tree[activeConfiguration] :
                  <<activeConfiguration, i, -1>> \in Targets(r)
           /\ r.kind # "configuration" =>
                \A t \in Targets(r) : t = <<v, r.index, r.value>>
           /\ r.kind # "configuration" =>
                /\ r.index \in DOMAIN Tree[v] /\ r.value \in DOMAIN Tree[v][r.index]
                /\ <<v, r.index, r.value>> \in Targets(r)
  BY <1>2, TargetsShape
<1>4. steps' \in Seq(Steps) /\ InOrder(steps)'
  <2>1. InOrder(steps)' = InOrder(steps')
    BY DEF InOrder
  <2> QED  BY <1>1, <1>2, <2>1, RequestSteps
<1>5. /\ \A e : EpStep("disable", e) \in ToDo' <=>
                  \E t \in Targets(r) : e \in Leaving(t[1], t[2], t[3])
      /\ \A e : EpStep("enable", e) \in ToDo' <=>
                  \E t \in Targets(r) : e \in EndpointsOf(t[1], t[2], t[3])
      /\ \A c, i, a : Alt(c, i, a) \in ToDo' <=> <<c, i, a>> \in Targets(r)
      /\ \A c, i, a : Sel(c, i, a) \in ToDo' <=> <<c, i, a>> \in Targets(r) /\ a # -1
      /\ \A c : Cfg(c) \in ToDo' <=> r.kind = "configuration" /\ c = r.value - 1
      /\ Configure \in ToDo' <=> r.kind = "configuration"
      /\ \A q : Fwd(q) \in ToDo' <=> q = r
  <2>1. ToDo' = Range(ep0Request(r))
    BY <1>1 DEF ToDo
  <2> QED  BY <1>2, <2>1, RequestHas
<1>6. \A c \in DOMAIN Tree : FinalConfiguration(c)' <=> c = v
  BY <1>1, <1>3, <1>5 DEF FinalConfiguration
<1>7. \A c, i, a : FinalAlternate(c, i, a)' <=>
        \/ <<c, i, a>> \in Targets(r)
        \/ /\ activeAlternate[c][i] = a
           /\ \A b \in AltsOf(c, i) : <<c, i, b>> \notin Targets(r)
  BY <1>1, <1>5 DEF FinalAlternate
<1>8. \A e : FinalOpen(e)' <=>
        \/ \E t \in Targets(r) : e \in EndpointsOf(t[1], t[2], t[3])
        \/ e \in open /\ ~\E t \in Targets(r) : e \in Leaving(t[1], t[2], t[3])
  BY <1>1, <1>5 DEF FinalOpen
<1>9. \A c, i, a : <<c, i, a>>[1] = c /\ <<c, i, a>>[2] = i /\ <<c, i, a>>[3] = a
  OBVIOUS
<1>10. \A t \in Targets(r) : \A e \in Leaving(t[1], t[2], t[3]) :
         /\ activeAlternate[t[1]][t[2]] # t[3]
         /\ activeAlternate[t[1]][t[2]] \in DOMAIN Tree[t[1]][t[2]]
         /\ e \in EndpointsOf(t[1], t[2], activeAlternate[t[1]][t[2]])
  <2> TAKE t \in Targets(r)
  <2> TAKE e \in Leaving(t[1], t[2], t[3])
  <2>1. /\ activeAlternate[t[1]][t[2]] # t[3]
        /\ e \in EndpointsOf(t[1], t[2], activeAlternate[t[1]][t[2]])
    BY DEF Leaving
  <2>2. activeAlternate[t[1]][t[2]] # -1
    BY <1>3, <2>1, Endpoints
  <2> QED  BY <1>2, <1>3, <2>1, <2>2 DEF AlternatesTyped, AltsOf
\* No endpoint belongs to two alternates.
<1>11. \A c \in DOMAIN Tree : \A i \in DOMAIN Tree[c] : \A a \in DOMAIN Tree[c][i] :
         \A e \in EndpointsOf(c, i, a) : \A t \in Targets(r) :
           /\ e \in EndpointsOf(t[1], t[2], t[3]) => t = <<c, i, a>>
           /\ e \in Leaving(t[1], t[2], t[3]) =>
                t[1] = c /\ t[2] = i /\ activeAlternate[c][i] = a /\ t[3] # a
  <2> TAKE c \in DOMAIN Tree
  <2> TAKE i \in DOMAIN Tree[c]
  <2> TAKE a \in DOMAIN Tree[c][i]
  <2> TAKE e \in EndpointsOf(c, i, a)
  <2> TAKE t \in Targets(r)
  <2>1. a \in AltsOf(c, i)
    BY DEF AltsOf
  <2>2. e \in EndpointsOf(t[1], t[2], t[3]) => t = <<c, i, a>>
    BY <1>3, <2>1, Distinguished
  <2>3. ASSUME e \in Leaving(t[1], t[2], t[3])
        PROVE  t[1] = c /\ t[2] = i /\ activeAlternate[c][i] = a /\ t[3] # a
    <3>1. /\ activeAlternate[t[1]][t[2]] # t[3]
          /\ activeAlternate[t[1]][t[2]] \in AltsOf(t[1], t[2])
          /\ e \in EndpointsOf(t[1], t[2], activeAlternate[t[1]][t[2]])
      BY <1>10, <2>3 DEF AltsOf
    <3>2. t[1] = c /\ t[2] = i /\ activeAlternate[t[1]][t[2]] = a
      BY <1>3, <2>1, <3>1, Distinguished
    <3> QED  BY <3>1, <3>2
  <2> QED  BY <2>2, <2>3
<1>12. Typed'
  BY <1>1, <1>4 DEF IInv, Typed, ConfigurationTyped, AlternatesTyped
<1>13. OneTarget'
  <2>1. \A c \in DOMAIN Tree : \A i \in DOMAIN Tree[c] : \A a, b \in AltsOf(c, i) :
          Alt(c, i, a) \in ToDo' /\ Alt(c, i, b) \in ToDo' => a = b
    <3>1. \A t, u \in Targets(r) : t[1] = u[1] /\ t[2] = u[2] => t[3] = u[3]
      BY <1>3
    <3> SUFFICES ASSUME NEW c, NEW i, NEW a, NEW b,
                        <<c, i, a>> \in Targets(r), <<c, i, b>> \in Targets(r)
                 PROVE  a = b
      BY <1>5
    <3>2. <<c, i, a>>[3] = <<c, i, b>>[3]
      BY <1>9, <3>1
    <3> QED  BY <1>9, <3>2
  <2>2. \A c, d \in DOMAIN Tree : Cfg(c) \in ToDo' /\ Cfg(d) \in ToDo' => c = d
    BY <1>5
  <2>3. ASSUME NEW e \in AllEndpoints, EpStep("enable", e) \in ToDo',
               EpStep("disable", e) \in ToDo'
        PROVE  FALSE
    <3>1. PICK c \in DOMAIN Tree : \E i \in DOMAIN Tree[c] :
                 \E a \in DOMAIN Tree[c][i] : e \in EndpointsOf(c, i, a)
      BY Placed
    <3>2. PICK i \in DOMAIN Tree[c] : \E a \in DOMAIN Tree[c][i] :
                 e \in EndpointsOf(c, i, a)
      BY <3>1
    <3>3. PICK a \in DOMAIN Tree[c][i] : e \in EndpointsOf(c, i, a)
      BY <3>2
    <3>4. PICK t \in Targets(r) : e \in EndpointsOf(t[1], t[2], t[3])
      BY <1>5, <2>3
    <3>5. PICK u \in Targets(r) : e \in Leaving(u[1], u[2], u[3])
      BY <1>5, <2>3
    <3>6. t[1] = c /\ t[2] = i /\ t[3] = a
      BY <1>9, <1>11, <3>3, <3>4
    <3>7. u[1] = c /\ u[2] = i /\ u[3] # a
      BY <1>11, <3>3, <3>5
    <3> QED  BY <1>3, <3>6, <3>7
  <2> QED  BY <2>1, <2>2, <2>3 DEF OneTarget
<1>14. OpenInv'
  <2> SUFFICES ASSUME NEW c \in DOMAIN Tree, NEW i \in DOMAIN Tree[c],
                      NEW a \in DOMAIN Tree[c][i], NEW e \in EndpointsOf(c, i, a)
               PROVE  FinalOpen(e)' <=> FinalAlternate(c, i, a)'
    BY DEF OpenInv
  <2>1. e \in open <=> activeAlternate[c][i] = a
    BY <1>2
  <2>2. \A b \in AltsOf(c, i) : <<c, i, b>> \in Targets(r) /\ b # a =>
          (activeAlternate[c][i] = a => e \in Leaving(c, i, b))
    BY DEF Leaving
  <2>3. FinalOpen(e)' => FinalAlternate(c, i, a)'
    <3>1. CASE \E t \in Targets(r) : e \in EndpointsOf(t[1], t[2], t[3])
      BY <3>1, <1>7, <1>11
    <3>2. CASE e \in open /\ ~\E t \in Targets(r) : e \in Leaving(t[1], t[2], t[3])
      <4>1. \A b \in AltsOf(c, i) : <<c, i, b>> \in Targets(r) => b = a
        BY <1>9, <2>1, <2>2, <3>2
      <4> QED  BY <1>7, <2>1, <3>2, <4>1
    <3> QED  BY <1>8, <3>1, <3>2
  <2>4. FinalAlternate(c, i, a)' => FinalOpen(e)'
    <3>1. CASE <<c, i, a>> \in Targets(r)
      <4>1. e \in EndpointsOf(<<c, i, a>>[1], <<c, i, a>>[2], <<c, i, a>>[3])
        BY <1>9
      <4> QED  BY <1>8, <3>1, <4>1
    <3>2. CASE /\ activeAlternate[c][i] = a
               /\ \A b \in AltsOf(c, i) : <<c, i, b>> \notin Targets(r)
      <4>1. ASSUME NEW t \in Targets(r), e \in Leaving(t[1], t[2], t[3])
            PROVE  FALSE
        <5>1. t = <<c, i, t[3]>> /\ t[3] \in AltsOf(c, i)
          BY <1>3, <1>11, <4>1
        <5> QED  BY <3>2, <5>1
      <4> QED  BY <1>8, <2>1, <3>2, <4>1
    <3> QED  BY <1>7, <3>1, <3>2
  <2> QED  BY <2>3, <2>4
<1>15. SettledInv'
  <2> SUFFICES ASSUME NEW c \in DOMAIN Tree, NEW i \in DOMAIN Tree[c]
               PROVE  FinalAlternate(c, i, -1)' <=> c # v
    BY <1>6 DEF SettledInv
  <2>1. CASE c = v
    <3>1. <<c, i, -1>> \notin Targets(r)
      BY <1>3, <1>9, <2>1
    <3>2. activeAlternate[c][i] = -1 =>
            \E b \in AltsOf(c, i) : <<c, i, b>> \in Targets(r)
      <4> HAVE activeAlternate[c][i] = -1
      <4>1. c # activeConfiguration
        BY <1>2 DEF Settled
      <4>2. r.kind = "configuration" /\ <<c, i, 0>> \in Targets(r)
        BY <1>3, <2>1, <4>1
      <4> QED  BY <4>2, Indices DEF AltsOf
    <3> QED  BY <1>7, <2>1, <3>1, <3>2
  <2>2. CASE c # v
    <3>1. CASE c = activeConfiguration
      <4>1. <<c, i, -1>> \in Targets(r)
        BY <1>3, <2>2, <3>1
      <4> QED  BY <1>7, <2>2, <4>1
    <3>2. CASE c # activeConfiguration
      <4>1. activeAlternate[c][i] = -1
        BY <1>2, <3>2 DEF Settled
      <4>2. \A b \in AltsOf(c, i) : <<c, i, b>> \notin Targets(r)
        BY <1>3, <1>9, <2>2, <3>2
      <4> QED  BY <1>7, <2>2, <4>1, <4>2
    <3> QED  BY <3>1, <3>2
  <2> QED  BY <2>1, <2>2
<1>16. ConfiguredInv'
  <2>1. CASE r.kind = "configuration"
    BY <1>5, <1>6, <2>1 DEF ConfiguredInv
  <2>2. CASE r.kind # "configuration"
    <3>1. v = activeConfiguration
      BY <1>3, <2>2
    <3>2. configured
      BY <1>2, <3>1 DEF IInv, ConfiguredInv
    <3> QED  BY <1>1, <1>6, <3>2 DEF ConfiguredInv
  <2> QED  BY <2>1, <2>2
<1>17. SelectInv'
  BY <1>5, <1>7 DEF SelectInv
<1>18. ForwardInv'
  <2>1. CASE r.kind = "configuration"
    <3>1. \A w : w = v => /\ FinalConfiguration(w)'
                          /\ \A i \in DOMAIN Tree[w] : FinalAlternate(w, i, 0)'
      BY <1>3, <1>6, <1>7, <2>1
    <3>2. r.value - 1 = v
      BY <1>3, <2>1
    <3>3. FinalConfiguration(r.value - 1)'
          /\ \A i \in DOMAIN Tree[r.value - 1] : FinalAlternate(r.value - 1, i, 0)'
      BY <3>1, <3>2
    <3> QED  BY <1>5, <2>1, <3>3 DEF ForwardInv
  <2>2. CASE r.kind # "configuration"
    <3>1. /\ FinalConfiguration(v)'
          /\ r.index \in DOMAIN Tree[v] /\ r.value \in DOMAIN Tree[v][r.index]
          /\ FinalAlternate(v, r.index, r.value)'
      BY <1>3, <1>6, <1>7, <2>2
    <3> QED  BY <1>5, <2>2, <3>1 DEF ForwardInv
  <2> QED  BY <2>1, <2>2
<1>19. DeviceInv'
  <2>1. CASE r.kind = "configuration"
    BY <1>5, <2>1 DEF DeviceInv
  <2>2. CASE r.kind # "configuration"
    <3>1. v = activeConfiguration /\ FinalConfiguration(v)
      BY <1>2, <1>3, <2>2
    <3>2. \A q : Fwd(q) \notin ToDo
      BY <1>2
    <3>3. \A c, i, a : FinalAlternate(c, i, a) <=> activeAlternate[c][i] = a
      BY <1>2 DEF FinalAlternate
    <3>4. ~refused =>
            /\ device.config = v
            /\ \A i \in DOMAIN Tree[v] : \A a \in DOMAIN Tree[v][i] :
                 device.alt[i] = a => activeAlternate[v][i] = a
      BY <3>1, <3>2, <3>3 DEF IInv, DeviceInv
    <3>5. ASSUME ~refused, NEW i \in DOMAIN Tree[v], NEW a \in DOMAIN Tree[v][i],
                 device.alt[i] = a, i # r.index
          PROVE  FinalAlternate(v, i, a)'
      <4>1. activeAlternate[v][i] = a
        BY <3>4, <3>5
      <4>2. \A b \in AltsOf(v, i) : <<v, i, b>> \notin Targets(r)
        BY <1>3, <1>9, <2>2, <3>5
      <4> QED  BY <1>7, <4>1, <4>2
    <3>6. Fwd(r) \in ToDo'
      BY <1>5
    <3> QED  BY <1>1, <1>6, <2>2, <3>4, <3>5, <3>6 DEF DeviceInv
  <2> QED  BY <2>1, <2>2
<1>20. AddressInv'
  <2> SUFFICES ASSUME ~Reselect, DistinctAddresses
               PROVE  AddressInv'
    BY DEF AddressInv
  <2>1. alive'
    BY <1>1 DEF IInv, AddressInv
  <2>2. ASSUME NEW e \in AllEndpoints, EpStep("disable", e) \in ToDo'
        PROVE  e \in open'
    <3>1. PICK t \in Targets(r) : e \in Leaving(t[1], t[2], t[3])
      BY <1>5, <2>2
    <3> QED  BY <1>1, <1>2, <1>3, <1>10, <3>1
  <2>3. ASSUME NEW e \in AllEndpoints, EpStep("enable", e) \in ToDo',
               NEW f \in open, Address[e] = Address[f]
        PROVE  EpStep("disable", f) \in ToDo'
    <3>1. PICK t \in Targets(r) : e \in EndpointsOf(t[1], t[2], t[3])
      BY <1>5, <2>3
    <3>2. /\ t[1] = v /\ t[1] \in DOMAIN Tree /\ t[2] \in DOMAIN Tree[t[1]]
          /\ t[3] \in DOMAIN Tree[t[1]][t[2]] /\ t = <<v, t[2], t[3]>>
      BY <1>3, <3>1, Endpoints
    <3>3. f \in AllEndpoints
      BY DEF IInv, Typed
    <3>4. PICK c \in DOMAIN Tree : \E i \in DOMAIN Tree[c] :
                 \E a \in DOMAIN Tree[c][i] : f \in EndpointsOf(c, i, a)
      BY <3>3, Placed
    <3>5. PICK i \in DOMAIN Tree[c] : \E a \in DOMAIN Tree[c][i] :
                 f \in EndpointsOf(c, i, a)
      BY <3>4
    <3>6. PICK a \in DOMAIN Tree[c][i] : f \in EndpointsOf(c, i, a)
      BY <3>5
    <3>7. activeAlternate[c][i] = a /\ a # -1
      BY <1>2, <3>6, Indices
    <3>8. c = activeConfiguration
      BY <1>2, <3>7 DEF Settled
    <3>9. CASE r.kind = "configuration"
      <4>1. c # v
        BY <1>1, <1>3, <3>8, <3>9 DEF SelectsActive
      <4>2. <<c, i, -1>> \in Targets(r)
        BY <1>3, <3>8, <3>9, <4>1
      <4>3. f \in Leaving(c, i, -1)
        BY <3>6, <3>7 DEF Leaving
      <4> QED  BY <1>5, <1>9, <4>2, <4>3
    <3>10. CASE r.kind # "configuration"
      <4>1. c = v /\ t = <<c, r.index, r.value>>
            /\ r.index \in DOMAIN Tree[c] /\ r.value \in DOMAIN Tree[c][r.index]
        BY <1>3, <3>8, <3>10
      <4>2. e \in EndpointsOf(c, r.index, r.value)
        BY <1>9, <3>1, <4>1
      <4>3. i = r.index
        BY <2>3, <3>6, <4>1, <4>2 DEF DistinctAddresses
      <4>4. Tree[c][r.index][r.value] # <<>>
        <5>1. EndpointsOf(c, r.index, r.value) = Range(Tree[c][r.index][r.value])
          BY <4>1, Endpoints DEF Range, ToSet
        <5> QED  BY <4>2, <5>1, ShortInOrder
      <4>5. activeAlternate[c][i] # r.value
        BY <1>1, <3>8, <3>10, <4>3, <4>4 DEF SelectsActive
      <4>6. f \in Leaving(c, i, r.value)
        BY <3>6, <3>7, <4>5 DEF Leaving
      <4>7. <<c, i, r.value>> \in Targets(r)
        BY <3>1, <4>1, <4>3
      <4> QED  BY <1>5, <1>9, <4>6, <4>7
    <3> QED  BY <3>9, <3>10
  <2> QED  BY <1>1, <2>1, <2>2, <2>3 DEF AddressInv
<1> QED  BY <1>4, <1>12, <1>13, <1>14, <1>15, <1>16, <1>17, <1>18, <1>19, <1>20
         DEF IInv

-----------------------------------------------------------------------------
(* The theorems. *)

(* The program starts with nothing to do and nothing open.                   *)
LEMMA Initially == Init => IInv
<1> SUFFICES ASSUME Init
             PROVE  IInv
  OBVIOUS
<1>1. /\ alive = TRUE /\ wild = FALSE /\ activeConfiguration = -1
      /\ activeInterface = [c \in DOMAIN Tree |-> -1]
      /\ activeAlternate = [c \in DOMAIN Tree |-> [i \in DOMAIN Tree[c] |-> -1]]
      /\ open = {} /\ configured = FALSE /\ steps = <<>>
      /\ device = [config |-> 0, alt |-> AltsZero(0)] /\ refused = FALSE
  BY DEF Init
<1>2. ToDo = {} /\ steps \in Seq(Steps) /\ InOrder(steps)
  BY <1>1, ShortInOrder DEF ToDo
<1>3. 0 \in DOMAIN Tree /\ \A c \in DOMAIN Tree : c # -1
  BY TreeAssumption, Indices
<1>4. /\ \A c \in DOMAIN Tree : ~FinalConfiguration(c)
      /\ \A c \in DOMAIN Tree : \A i \in DOMAIN Tree[c] :
           \A a : FinalAlternate(c, i, a) <=> a = -1
      /\ \A e : ~FinalOpen(e)
  BY <1>1, <1>2, <1>3 DEF FinalConfiguration, FinalAlternate, FinalOpen
<1>5. /\ device = [config |-> device.config, alt |-> device.alt]
      /\ device.config = 0
      /\ device.alt \in [DOMAIN Tree[0] -> Int]
      /\ \A i \in DOMAIN Tree[0] : device.alt[i] \in DOMAIN Tree[0][i]
  BY <1>1, <1>3, Indices DEF AltsZero
<1>6. Typed
  <2>1. AlternatesTyped /\ ConfigurationTyped
    BY <1>1 DEF AlternatesTyped, AltsOf, ConfigurationTyped
  <2>2. /\ DOMAIN activeInterface = DOMAIN Tree
        /\ \A c \in DOMAIN Tree : activeInterface[c] \in DOMAIN Tree[c] \cup {-1}
        /\ DOMAIN activeAlternate = DOMAIN Tree
        /\ \A c \in DOMAIN Tree : activeAlternate[c] \in [DOMAIN Tree[c] -> Int]
    BY <1>1
  <2>3. /\ device.config \in DOMAIN Tree
        /\ device.alt \in [DOMAIN Tree[device.config] -> Int]
        /\ \A i \in DOMAIN Tree[device.config] :
             device.alt[i] \in DOMAIN Tree[device.config][i]
    BY <1>3, <1>5
  <2>4. {alive, wild, configured, refused} \subseteq BOOLEAN /\ open \subseteq AllEndpoints
    BY <1>1
  <2> QED  BY <1>2, <1>5, <2>1, <2>2, <2>3, <2>4 DEF Typed
<1>7. OpenInv
  <2> SUFFICES ASSUME NEW c \in DOMAIN Tree, NEW i \in DOMAIN Tree[c],
                      NEW a \in DOMAIN Tree[c][i]
               PROVE  ~FinalAlternate(c, i, a)
    BY <1>4 DEF OpenInv
  <2> QED  BY <1>4, Indices
<1> QED  BY <1>1, <1>2, <1>4, <1>6, <1>7
         DEF IInv, OneTarget, SettledInv, ConfiguredInv, SelectInv, ForwardInv,
             DeviceInv, AddressInv

\* Neither an index that is not in the tree nor stopping changes what the
\* invariant speaks of.
LEMMA Preserved == IInv /\ [Next]_vars => IInv'
<1> SUFFICES ASSUME IInv, [Next]_vars
             PROVE  IInv'
  OBVIOUS
<1>1. ASSUME UNCHANGED <<alive, activeConfiguration, activeInterface,
                         activeAlternate, open, configured, steps, device,
                         refused>>,
             wild' \in BOOLEAN
      PROVE  IInv'
  <2>1. Typed'
    BY <1>1 DEF IInv, Typed, ConfigurationTyped, AlternatesTyped
  <2>2. ToDo' = ToDo /\ (InOrder(steps)' <=> InOrder(steps))
    BY <1>1 DEF ToDo, InOrder
  <2>3. Kept
    BY <1>1, <2>2 DEF Kept, FinalConfiguration, FinalAlternate, FinalOpen
  <2>4. ToDo \subseteq Steps
    BY At DEF IInv, Typed, ToDo
  <2>5. OneTarget' /\ OpenInv' /\ SettledInv' /\ SelectInv' /\ ForwardInv'
    BY <1>1, <2>2, <2>3, <2>4, Carried
  <2>6. ConfiguredInv' /\ DeviceInv' /\ AddressInv'
    BY <1>1, <2>2, <2>3, ConfiguredCarried, DeviceCarried, AddressCarried
  <2> QED  BY <2>1, <2>2, <2>5, <2>6 DEF IInv
<1>2. CASE alive /\ Step
  BY <1>2, EnableKeeps, DisableKeeps, AlternateKeeps, InterfaceKeeps, SelectKeeps,
     ConfigurationKeeps, ConfigureKeeps, ForwardKeeps DEF Step
<1>3. CASE alive /\ \E r \in Requests : Request(r)
  <2>1. PICK r \in Requests : Request(r)
    BY <1>3
  <2>2. CASE IndicesInRange(r)
    BY <1>3, <2>1, <2>2, RequestKeeps
  <2>3. CASE ~IndicesInRange(r)
    BY <1>1, <2>1, <2>3 DEF Request, infoVars
  <2> QED  BY <2>2, <2>3
<1>4. CASE UNCHANGED vars
  BY <1>1, <1>4 DEF vars, infoVars, IInv, Typed
<1> QED  BY <1>2, <1>3, <1>4 DEF Next, Stopped

(* The invariant holds in every state the program reaches.                   *)
THEOREM Invariance == Spec => []IInv
BY Initially, Preserved, PTL DEF Spec

(* The records, the open endpoints and what the device has are always of the
   tree: no request leaves an index behind that the next one would fail on.  *)
THEOREM TypeCorrect == Spec => []TypeOK
<1>1. IInv => TypeOK
  BY DEF IInv, Typed, ConfigurationTyped, AlternatesTyped, AltsOf, TypeOK
<1> QED  BY <1>1, Invariance, PTL

\* Steps to do move an interface to one alternate, and end in one
\* configuration.
LEMMA FinalUnique ==
  ASSUME IInv
  PROVE  /\ \A c, d \in DOMAIN Tree :
              FinalConfiguration(c) /\ FinalConfiguration(d) => c = d
         /\ \A c \in DOMAIN Tree : \A i \in DOMAIN Tree[c] : \A a, b \in AltsOf(c, i) :
              FinalAlternate(c, i, a) /\ FinalAlternate(c, i, b) => a = b
BY DEF IInv, OneTarget, FinalConfiguration, FinalAlternate

(* Between requests, whatever requests came before, the endpoints with a
   worker thread are those of the active alternates, and the gadget driver
   was told to configure exactly when there is an active configuration.      *)
THEOREM OpenIsActive == Spec => []OpenMatchesActive
<1>1. ASSUME IInv, alive, steps = <<>>
      PROVE  open = ActiveEndpoints /\ (configured <=> activeConfiguration >= 0)
  <2> DEFINE ac == activeConfiguration
  <2>1. /\ ToDo = {}
        /\ ConfigurationTyped /\ Settled /\ AlternatesTyped
        /\ \A c \in DOMAIN Tree : FinalConfiguration(c) <=> c = ac
        /\ \A c \in DOMAIN Tree : \A i \in DOMAIN Tree[c] :
             \A a \in DOMAIN Tree[c][i] : \A e \in EndpointsOf(c, i, a) :
               e \in open <=> activeAlternate[c][i] = a
    BY <1>1, AtRest
  <2>2. ac = -1 \/ (ac \in DOMAIN Tree /\ ac >= 0)
    BY <2>1, Indices DEF ConfigurationTyped
  <2>3. configured <=> ac >= 0
    BY <1>1, <2>1, <2>2, Indices DEF IInv, ConfiguredInv
  <2>4. ASSUME NEW e \in open
        PROVE  e \in ActiveEndpoints
    <3>1. e \in AllEndpoints
      BY <1>1 DEF IInv, Typed
    <3>2. PICK c \in DOMAIN Tree : \E i \in DOMAIN Tree[c] :
                 \E a \in DOMAIN Tree[c][i] : e \in EndpointsOf(c, i, a)
      BY <3>1, Placed
    <3>3. PICK i \in DOMAIN Tree[c] : \E a \in DOMAIN Tree[c][i] :
                 e \in EndpointsOf(c, i, a)
      BY <3>2
    <3>4. PICK a \in DOMAIN Tree[c][i] : e \in EndpointsOf(c, i, a)
      BY <3>3
    <3>5. activeAlternate[c][i] = a /\ a # -1
      BY <2>1, <3>4, Indices
    <3>6. c = ac /\ ac \in Nat
      <4>1. c = ac
        BY <2>1, <3>5 DEF Settled
      <4>2. c \in Nat
        BY Indices
      <4> QED  BY <4>1, <4>2
    <3>7. i \in DOMAIN activeAlternate[ac]
      BY <1>1, <3>6 DEF IInv, Typed
    <3>8. e \in EndpointsOf(ac, i, activeAlternate[ac][i])
      BY <3>4, <3>5, <3>6
    <3>9. ~(ac < 0)
      BY <3>6
    <3> QED  BY <3>7, <3>8, <3>9 DEF ActiveEndpoints
  <2>5. ASSUME NEW e \in ActiveEndpoints
        PROVE  e \in open
    <3>1. ac \in DOMAIN Tree
      BY <2>2 DEF ActiveEndpoints
    <3>2. PICK i \in DOMAIN Tree[ac] : e \in EndpointsOf(ac, i, activeAlternate[ac][i])
      BY <1>1, <3>1 DEF ActiveEndpoints, IInv, Typed
    <3>3. activeAlternate[ac][i] \in DOMAIN Tree[ac][i]
      BY <2>1, <3>1 DEF Settled, AlternatesTyped, AltsOf
    <3> QED  BY <2>1, <3>1, <3>2, <3>3
  <2> QED  BY <2>3, <2>4, <2>5
<1>2. IInv => OpenMatchesActive
  BY <1>1 DEF OpenMatchesActive
<1> QED  BY <1>2, Invariance, PTL

(* What setEndpoint relies on: where the host does not select what is active
   and the addresses of a configuration differ, no endpoint is opened while
   its address is in use, and none is closed that is not open.               *)
THEOREM Disciplined ==
  ASSUME ~Reselect, DistinctAddresses
  PROVE  Spec => []Discipline
<1>1. ASSUME IInv, steps # <<>>
      PROVE  /\ Head(steps).do = "enable" =>
                  \A e \in open : Address[e] # Address[Head(steps).ep]
             /\ Head(steps).do = "disable" => Head(steps).ep \in open
  <2>1. /\ Head(steps) \in Steps
        /\ ToDo = {Head(steps)} \cup Range(Tail(steps))
        /\ \A y \in Range(Tail(steps)) : MayFollow(Head(steps), y)
    BY <1>1, TailInOrder DEF IInv, Typed, ToDo
  <2>2. /\ \A e \in AllEndpoints : EpStep("disable", e) \in ToDo => e \in open
        /\ \A e \in AllEndpoints : EpStep("enable", e) \in ToDo =>
             \A f \in open : Address[e] = Address[f] => EpStep("disable", f) \in ToDo
    BY <1>1 DEF IInv, AddressInv
  <2>3. Head(steps).do \in {"enable", "disable"} =>
          Head(steps).ep \in AllEndpoints
          /\ Head(steps) = EpStep(Head(steps).do, Head(steps).ep)
    BY <2>1, StepShape
  <2>4. ASSUME Head(steps).do = "enable", NEW f \in open,
               Address[f] = Address[Head(steps).ep]
        PROVE  FALSE
    <3>1. EpStep("disable", f) \in ToDo
      BY <2>1, <2>2, <2>3, <2>4
    <3>2. EpStep("disable", f) \in Range(Tail(steps))
      BY <2>1, <2>4, <3>1 DEF EpStep
    <3> QED  BY <2>1, <2>4, <3>2 DEF MayFollow, SameAddress, EpStep
  <2>5. Head(steps).do = "disable" => Head(steps).ep \in open
    BY <2>1, <2>2, <2>3
  <2> QED  BY <2>4, <2>5
<1>2. IInv => Discipline
  BY <1>1 DEF Discipline
<1> QED  BY <1>2, Invariance, PTL

(* Between requests a device that has refused none of those forwarded to it
   has the configuration and the alternates that are recorded as active.     *)
THEOREM DeviceAgrees == Spec => []DeviceFollows
<1>1. ASSUME IInv, alive, ~refused, steps = <<>>, activeConfiguration >= 0
      PROVE  /\ device.config = activeConfiguration
             /\ device.alt = activeAlternate[activeConfiguration]
  <2> DEFINE ac == activeConfiguration
  <2>1. ToDo = {} /\ ac \in DOMAIN Tree /\ FinalConfiguration(ac)
    <3>1. ConfigurationTyped /\ ToDo = {}
          /\ \A c \in DOMAIN Tree : FinalConfiguration(c) <=> c = ac
      BY <1>1, AtRest
    <3>2. ac \in DOMAIN Tree
      BY <1>1, <3>1 DEF ConfigurationTyped
    <3>3. \A c \in DOMAIN Tree : c = ac => FinalConfiguration(c)
      BY <3>1
    <3> QED  BY <3>1, <3>2, <3>3
  <2>2. device.config = ac
    BY <1>1, <2>1 DEF IInv, DeviceInv
  <2>3. /\ device.alt \in [DOMAIN Tree[ac] -> Int]
        /\ activeAlternate[ac] \in [DOMAIN Tree[ac] -> Int]
        /\ \A i \in DOMAIN Tree[ac] : device.alt[i] \in DOMAIN Tree[ac][i]
    BY <1>1, <2>1, <2>2 DEF IInv, Typed
  <2>4. ASSUME NEW i \in DOMAIN Tree[ac]
        PROVE  device.alt[i] = activeAlternate[ac][i]
    <3>1. \A a \in DOMAIN Tree[ac][i] : device.alt[i] = a => FinalAlternate(ac, i, a)
      BY <1>1, <2>1 DEF IInv, DeviceInv
    <3>2. \A a : FinalAlternate(ac, i, a) <=> activeAlternate[ac][i] = a
      BY <2>1 DEF FinalAlternate
    <3> QED  BY <2>3, <3>1, <3>2
  <2> QED  BY <2>2, <2>3, <2>4
<1>2. IInv => DeviceFollows
  BY <1>1 DEF DeviceFollows
<1> QED  BY <1>2, Invariance, PTL

(* No endpoint of an alternate is open any more when the device is told to
   leave that alternate or its configuration.                                *)
THEOREM ClosedFirst == Spec => []ClosedBeforeSelect
<1>1. ASSUME IInv, steps # <<>>,
             NEW i \in DOMAIN device.alt,
             \/ /\ Head(steps).do = "select" /\ Head(steps).c = device.config
                /\ Head(steps).i = i /\ Head(steps).a # device.alt[i]
             \/ /\ Head(steps).do = "forward"
                /\ Head(steps).request.kind = "configuration"
                /\ Head(steps).request.value - 1 # device.config,
             NEW e \in EndpointsOf(device.config, i, device.alt[i]), e \in open
      PROVE  FALSE
  <2> DEFINE c == device.config
             b == device.alt[i]
             h == Head(steps)
  <2>1. /\ h \in Steps /\ h \in ToDo
        /\ ToDo = {h} \cup Range(Tail(steps))
        /\ \A y \in Range(Tail(steps)) : MayFollow(h, y)
    BY <1>1, TailInOrder DEF IInv, Typed, ToDo
  <2>2. c \in DOMAIN Tree /\ i \in DOMAIN Tree[c] /\ b \in DOMAIN Tree[c][i]
    BY <1>1 DEF IInv, Typed
  <2>3. b \in AltsOf(c, i) /\ -1 \in AltsOf(c, i) /\ b # -1
    BY <2>2, Indices DEF AltsOf
  <2> HIDE DEF c, b, h
  <2>4. e \in EndpointsOf(c, i, b)
    BY DEF c, b
  <2>5. FinalOpen(e) => FinalAlternate(c, i, b)
    BY <1>1, <2>2, <2>4 DEF IInv, OpenInv
  <2>6. ~FinalOpen(e) => EpStep("disable", e) \in ToDo
    BY <1>1 DEF FinalOpen
  <2>7. CASE h.do = "select" /\ h.c = c /\ h.i = i /\ h.a # b
    <3>1. h = Sel(c, i, h.a) /\ h.a \in DOMAIN Tree[c][i]
      BY <2>1, <2>7, StepShape DEF Fits
    <3>2. FinalAlternate(c, i, h.a) /\ h.a \in AltsOf(c, i)
      BY <1>1, <2>1, <2>2, <3>1 DEF IInv, SelectInv, AltsOf
    <3>3. ~FinalAlternate(c, i, b)
      BY <1>1, <2>2, <2>3, <2>7, <3>2, FinalUnique
    <3>4. EpStep("disable", e) \in Range(Tail(steps))
      BY <2>1, <2>5, <2>6, <2>7, <3>3 DEF EpStep
    <3>5. e \notin EndpointsOfInterface(c, i)
      BY <2>1, <2>7, <3>4 DEF MayFollow, EpStep
    <3> QED  BY <2>2, <2>4, <3>5 DEF EndpointsOfInterface
  <2>8. CASE /\ h.do = "forward" /\ h.request.kind = "configuration"
             /\ h.request.value - 1 # c
    <3> DEFINE v == h.request.value - 1
    <3>1. ToDo = {h}
      BY <2>1, <2>8 DEF MayFollow
    <3>2. h = Fwd(h.request) /\ h.request \in Requests /\ v \in DOMAIN Tree
      BY <2>1, <2>8, StepShape DEF Fits
    <3>3. FinalConfiguration(v)
      BY <1>1, <2>1, <2>8, <3>2 DEF IInv, ForwardInv
    <3>4. EpStep("disable", e) \notin ToDo /\ \A a : Alt(c, i, a) \notin ToDo
      BY <2>8, <3>1 DEF EpStep, Alt
    <3>5. FinalAlternate(c, i, b)
      BY <2>5, <2>6, <3>4
    <3>6. ~FinalAlternate(c, i, -1)
      BY <1>1, <2>2, <2>3, <3>5, FinalUnique
    <3>7. FinalConfiguration(c)
      BY <1>1, <2>2, <3>6 DEF IInv, SettledInv
    <3> HIDE DEF v
    <3>8. v = c
      BY <1>1, <2>2, <3>2, <3>3, <3>7, FinalUnique
    <3> QED  BY <2>8, <3>8 DEF v
  <2> QED  BY <1>1, <2>7, <2>8 DEF c, b, h
<1>2. IInv => ClosedBeforeSelect
  BY <1>1 DEF ClosedBeforeSelect
<1> QED  BY <1>2, Invariance, PTL
=============================================================================
