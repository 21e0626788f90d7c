------------------------- MODULE PassthroughCProofs -------------------------
(***************************************************************************)
(* Theorems about PassthroughC for every tree of configurations, every set  *)
(* of requests, any number of handles and any choice of faulty endpoints;   *)
(* that it implements Configuration, for enough handles.                    *)
(***************************************************************************)
EXTENDS PassthroughC, SequenceLemmas, FiniteSetTheorems

-----------------------------------------------------------------------------
(* The steps of requests. *)

EpStep(what, e) == [do |-> what, ep |-> e]
Alt(c, i, a) == [do |-> "alternate", c |-> c, i |-> i, a |-> a]
Sel(c, i, a) == [do |-> "select", c |-> c, i |-> i, a |-> a]
Ifc(c, i) == [do |-> "interface", c |-> c, i |-> i]
Cfg(c) == [do |-> "configuration", c |-> c]

EpSteps == {"enable", "stop", "join", "disable"}

AnyStep ==
  [do : EpSteps, ep : Endpoints]
    \cup [do : {"alternate", "select"}, c : Int, i : Int, a : Int]
    \cup [do : {"interface"}, c : Int, i : Int]
    \cup [do : {"configuration"}, c : Int]
    \cup [do : {"configure", "transfer", "answer", "acknowledge"}]
    \cup [do : {"pass", "forward"}, request : Requests]

\* s names what there is in the tree.
Fits(s) ==
  /\ s.do \in {"alternate", "select", "interface"} =>
       s.c \in DOMAIN Tree /\ s.i \in DOMAIN Tree[s.c]
  /\ s.do = "alternate" => s.a \in DOMAIN Tree[s.c][s.i] \cup {-1}
  /\ s.do = "select" => s.a \in DOMAIN Tree[s.c][s.i]
  /\ s.do = "configuration" => s.c \in DOMAIN Tree
  /\ s.do = "forward" /\ s.request.kind = "configuration" =>
       s.request.value - 1 \in DOMAIN Tree

Steps == {s \in AnyStep : Fits(s)}

(* An endpoint is one that some alternate lists.                            *)
LEMMA EndpointsInTree ==
  /\ \A c \in DOMAIN Tree : \A i \in DOMAIN Tree[c] :
       \A a \in DOMAIN Tree[c][i] : EndpointsOf(c, i, a) \subseteq Endpoints
  /\ \A e \in Endpoints : \E c \in DOMAIN Tree : \E i \in DOMAIN Tree[c] :
       \E a \in DOMAIN Tree[c][i] : e \in EndpointsOf(c, i, a)
BY DEF Endpoints

(* An endpoint is that of one alternate only.                               *)
LEMMA DistinctEndpoints ==
  ASSUME NEW c \in DOMAIN Tree, NEW i \in DOMAIN Tree[c], NEW a \in DOMAIN Tree[c][i],
         NEW d \in DOMAIN Tree, NEW j \in DOMAIN Tree[d], NEW b \in DOMAIN Tree[d][j],
         NEW e, e \in EndpointsOf(c, i, a), e \in EndpointsOf(d, j, b)
  PROVE  c = d /\ i = j /\ a = b
<1>1. EndpointsOf(c, i, a) \cap EndpointsOf(d, j, b) # {}
  OBVIOUS
<1> QED  BY <1>1, TreeAssumption

(* Configurations, interfaces and alternates are counted.                   *)
LEMMA IndicesAreNumbers ==
  /\ DOMAIN Tree \subseteq Int
  /\ \A c \in DOMAIN Tree :
       /\ DOMAIN Tree[c] \subseteq Int
       /\ \A i \in DOMAIN Tree[c] : DOMAIN Tree[c][i] \subseteq Int
<1>1. \A c \in DOMAIN Tree : Cardinality(DOMAIN Tree[c]) \in Nat
  BY TreeAssumption, FS_CardinalityType
<1> QED  BY <1>1, TreeAssumption

(* The steps that the functions make, as members of Steps.                   *)
LEMMA EpStepIn ==
  \A what \in EpSteps : \A e \in Endpoints : EpStep(what, e) \in Steps
BY DEF EpStep, Steps, AnyStep, Fits, EpSteps

(* ... and those that record and select.                                    *)
LEMMA TreeStepIn ==
  ASSUME NEW c \in DOMAIN Tree
  PROVE  /\ Cfg(c) \in Steps
         /\ \A i \in DOMAIN Tree[c] :
              /\ Ifc(c, i) \in Steps
              /\ \A a \in DOMAIN Tree[c][i] : Sel(c, i, a) \in Steps
              /\ \A a \in DOMAIN Tree[c][i] \cup {-1} : Alt(c, i, a) \in Steps
<1>1. c \in Int
  BY IndicesAreNumbers
<1>2. Cfg(c) \in Steps
  BY <1>1 DEF Cfg, Steps, AnyStep, Fits
<1> SUFFICES ASSUME NEW i \in DOMAIN Tree[c]
             PROVE  /\ Ifc(c, i) \in Steps
                    /\ \A a \in DOMAIN Tree[c][i] : Sel(c, i, a) \in Steps
                    /\ \A a \in DOMAIN Tree[c][i] \cup {-1} :
                         Alt(c, i, a) \in Steps
  BY <1>2
<1>3. i \in Int /\ DOMAIN Tree[c][i] \subseteq Int
  BY IndicesAreNumbers
<1>4. Ifc(c, i) \in Steps
  BY <1>1, <1>3 DEF Ifc, Steps, AnyStep, Fits
<1>5. ASSUME NEW a \in DOMAIN Tree[c][i]
      PROVE  Sel(c, i, a) \in Steps
  BY <1>1, <1>3 DEF Sel, Steps, AnyStep, Fits
<1>6. ASSUME NEW a \in DOMAIN Tree[c][i] \cup {-1}
      PROVE  Alt(c, i, a) \in Steps
  BY <1>1, <1>3 DEF Alt, Steps, AnyStep, Fits
<1> QED  BY <1>4, <1>5, <1>6

(* What a member of Steps with a given name looks like.                      *)
LEMMA StepShape ==
  ASSUME NEW s \in Steps
  PROVE  /\ s.do \in EpSteps => s.ep \in Endpoints /\ s = EpStep(s.do, s.ep)
         /\ s.do = "alternate" => s = Alt(s.c, s.i, s.a)
         /\ s.do = "select" => s = Sel(s.c, s.i, s.a)
         /\ s.do = "interface" => s = Ifc(s.c, s.i)
         /\ s.do = "configuration" => s = Cfg(s.c)
BY DEF Steps, AnyStep, EpSteps, EpStep, Alt, Sel, Ifc, Cfg

-----------------------------------------------------------------------------
(* The order of the steps of a request. *)

(* What is where in a sequence made of two.                                 *)
LEMMA ConcatAt ==
  ASSUME NEW T, NEW s \in Seq(T), NEW t \in Seq(T)
  PROVE  /\ s \o t \in Seq(T)
         /\ Len(s) \in Nat /\ Len(t) \in Nat
         /\ Len(s \o t) = Len(s) + Len(t)
         /\ \A k \in 1 .. Len(s) : (s \o t)[k] = s[k]
         /\ \A k \in 1 .. Len(t) : (s \o t)[Len(s) + k] = t[k]
         /\ \A k \in 1 .. Len(s \o t) :
              \/ k \in 1 .. Len(s) /\ (s \o t)[k] = s[k]
              \/ k - Len(s) \in 1 .. Len(t) /\ (s \o t)[k] = t[k - Len(s)]
BY ConcatProperties, LenProperties

(* Two sequences of steps make one.                                         *)
LEMMA StepsJoin ==
  ASSUME NEW s \in Seq(Steps), NEW t \in Seq(Steps)
  PROVE  s \o t \in Seq(Steps) /\ Range(s \o t) = Range(s) \cup Range(t)
BY ConcatProperties, RangeConcatenation

\* An endpoint is disabled right after its worker was joined.
Orderly ==
  {s \in Seq(Steps) : \A k \in 1 .. Len(s) :
     s[k].do = "disable" => k > 1 /\ s[k - 1] = EpStep("join", s[k].ep)}

(* Orderly sequences, one after the other, are orderly.                     *)
LEMMA OrderlyJoins ==
  /\ <<>> \in Orderly
  /\ \A s, t \in Orderly : s \o t \in Orderly
<1>1. <<>> \in Orderly
  BY EmptySeq DEF Orderly
<1> SUFFICES ASSUME NEW s \in Orderly, NEW t \in Orderly
             PROVE  s \o t \in Orderly
  BY <1>1
<1>2. s \in Seq(Steps) /\ t \in Seq(Steps)
  BY DEF Orderly
<1> SUFFICES ASSUME NEW k \in 1 .. Len(s \o t), (s \o t)[k].do = "disable"
             PROVE  k > 1 /\ (s \o t)[k - 1] = EpStep("join", (s \o t)[k].ep)
  BY <1>2, ConcatAt DEF Orderly
<1>3. CASE k \in 1 .. Len(s) /\ (s \o t)[k] = s[k]
  <2>1. k > 1 /\ s[k - 1] = EpStep("join", s[k].ep)
    BY <1>3 DEF Orderly
  <2>2. k - 1 \in 1 .. Len(s)
    BY <1>2, <1>3, <2>1, ConcatAt
  <2> QED  BY <1>2, <1>3, <2>1, <2>2, ConcatAt
<1>4. CASE k - Len(s) \in 1 .. Len(t) /\ (s \o t)[k] = t[k - Len(s)]
  <2> DEFINE j == k - Len(s)
  <2>1. Len(s) \in Nat /\ Len(t) \in Nat
    BY <1>2, ConcatAt
  <2>2. j > 1 /\ t[j - 1] = EpStep("join", t[j].ep)
    BY <1>4 DEF Orderly
  <2>3. j - 1 \in 1 .. Len(t) /\ Len(s) + (j - 1) = k - 1
    BY <1>4, <2>1, <2>2
  <2>4. (s \o t)[Len(s) + (j - 1)] = t[j - 1]
    BY <1>2, <2>3, ConcatAt
  <2> QED  BY <1>4, <2>1, <2>2, <2>3, <2>4
<1> QED  BY <1>2, <1>3, <1>4, ConcatAt

\* What t tells the device to give up, when the tree is as it is.
Leaving(c, i, a) ==
  {e \in Endpoints : \E b \in DOMAIN Tree[c][i] \ {a} :
     activeAlternate[c][i] = b /\ e \in EndpointsOf(c, i, b)}

\* The device is told of an alternate after the endpoints it gives up are
\* disabled.
Announced ==
  {s \in Seq(Steps) : \A k \in 1 .. Len(s) :
     s[k].do = "select" => \A e \in Leaving(s[k].c, s[k].i, s[k].a) :
       \E p \in 1 .. (k - 1) : s[p] = EpStep("disable", e)}

(* So are those that select after they disable.                             *)
LEMMA AnnouncedJoins ==
  /\ <<>> \in Announced
  /\ \A s, t \in Announced : s \o t \in Announced
<1>1. <<>> \in Announced
  BY EmptySeq DEF Announced
<1> SUFFICES ASSUME NEW s \in Announced, NEW t \in Announced
             PROVE  s \o t \in Announced
  BY <1>1
<1>2. s \in Seq(Steps) /\ t \in Seq(Steps)
  BY DEF Announced
<1> DEFINE x == s \o t
<1> SUFFICES ASSUME NEW k \in 1 .. Len(x), x[k].do = "select",
                    NEW e \in Leaving(x[k].c, x[k].i, x[k].a)
             PROVE  \E p \in 1 .. (k - 1) : x[p] = EpStep("disable", e)
  BY <1>2, ConcatAt DEF Announced
<1>3. CASE k \in 1 .. Len(s) /\ x[k] = s[k]
  <2>1. PICK p \in 1 .. (k - 1) : s[p] = EpStep("disable", e)
    BY <1>3 DEF Announced
  <2>2. p \in 1 .. Len(s)
    BY <1>2, <1>3, <2>1, ConcatAt
  <2>3. x[p] = s[p]
    BY <1>2, <2>2, ConcatAt
  <2> QED  BY <2>1, <2>3
<1>4. CASE k - Len(s) \in 1 .. Len(t) /\ x[k] = t[k - Len(s)]
  <2>1. Len(s) \in Nat /\ Len(t) \in Nat
    BY <1>2, ConcatAt
  <2>2. PICK p \in 1 .. (k - Len(s) - 1) : t[p] = EpStep("disable", e)
    BY <1>4 DEF Announced
  <2>3. p \in 1 .. Len(t) /\ Len(s) + p \in 1 .. (k - 1)
    BY <1>4, <2>1, <2>2
  <2>4. x[Len(s) + p] = t[p]
    BY <1>2, <2>3, ConcatAt
  <2> QED  BY <2>2, <2>3, <2>4
<1> QED  BY <1>2, <1>3, <1>4, ConcatAt

\* The steps that move the interfaces I of configuration c to alternate a.
Moves(c, I, a) ==
  {t \in Steps :
     /\ t.do \in EpSteps \cup {"alternate", "interface", "select"}
     /\ t.do = "enable" => \E i \in I : /\ a \in DOMAIN Tree[c][i]
                                        /\ t.ep \in EndpointsOf(c, i, a)
     /\ t.do \in {"alternate", "select"} => t.c = c /\ t.i \in I /\ t.a = a}

\* Sequences of such steps, in a good order.
Walk(c, I, a) == {s \in Seq(Moves(c, I, a)) : s \in Orderly /\ s \in Announced}

\* Every interface is recorded, and what is left is disabled.
Covers(s, c, I, a) ==
  \A i \in I : /\ Alt(c, i, a) \in Range(s)
               /\ \A e \in Leaving(c, i, a) : EpStep("disable", e) \in Range(s)

(* Walks over the same interfaces, one after the other, are one walk.       *)
LEMMA WalkJoins ==
  ASSUME NEW c, NEW I, NEW a
  PROVE  /\ <<>> \in Walk(c, I, a)
         /\ \A s, t \in Walk(c, I, a) : s \o t \in Walk(c, I, a)
<1>1. <<>> \in Seq(Moves(c, I, a))
  BY EmptySeq
<1>2. \A s, t \in Seq(Moves(c, I, a)) : s \o t \in Seq(Moves(c, I, a))
  BY ConcatProperties
<1> QED  BY <1>1, <1>2, OrderlyJoins, AnnouncedJoins DEF Walk

(* A walk is a sequence of steps.                                           *)
LEMMA WalkTyped ==
  ASSUME NEW c, NEW I, NEW a, NEW s \in Walk(c, I, a)
  PROVE  s \in Seq(Steps) /\ s \in Seq(Moves(c, I, a))
BY DEF Walk, Orderly

(* A walk over some interfaces is one over more of them.                    *)
LEMMA WalkGrows ==
  ASSUME NEW c, NEW I, NEW J, J \subseteq I, NEW a
  PROVE  Walk(c, J, a) \subseteq Walk(c, I, a)
<1>1. Moves(c, J, a) \subseteq Moves(c, I, a)
  BY DEF Moves
<1> QED  BY <1>1, SeqMonotonic DEF Walk

(* setEndpoint, of an endpoint that is to be enabled or of any.              *)
LEMMA setEndpointWalks ==
  ASSUME NEW c, NEW I, NEW a, NEW e \in Endpoints, NEW enable \in BOOLEAN,
         enable => \E i \in I : a \in DOMAIN Tree[c][i] /\ e \in EndpointsOf(c, i, a)
  PROVE  /\ setEndpoint(e, enable) \in Walk(c, I, a)
         /\ ~enable => EpStep("disable", e) \in Range(setEndpoint(e, enable))
<1>1. \A what \in EpSteps : what # "enable" => EpStep(what, e) \in Moves(c, I, a)
  <2> TAKE what \in EpSteps
  <2>1. EpStep(what, e) \in Steps
    BY EpStepIn
  <2> QED  BY <2>1 DEF Moves, EpStep, EpSteps
<1>2. CASE enable
  <2>1. EpStep("enable", e) \in Moves(c, I, a)
    <3>1. EpStep("enable", e) \in Steps
      BY EpStepIn DEF EpSteps
    <3> QED  BY <3>1, <1>2 DEF Moves, EpStep, EpSteps
  <2> DEFINE s == <<EpStep("enable", e)>>
  <2>2. setEndpoint(e, enable) = s
    BY <1>2 DEF setEndpoint, EpStep
  <2>3. s \in Seq(Moves(c, I, a)) /\ s \in Seq(Steps)
    BY <2>1 DEF Moves
  <2>4. \A k \in 1 .. Len(s) : s[k].do = "enable"
    BY DEF EpStep
  <2> HIDE DEF s
  <2> QED  BY <1>2, <2>2, <2>3, <2>4 DEF Walk, Orderly, Announced
<1>3. CASE ~enable
  <2>1. /\ EpStep("stop", e) \in Moves(c, I, a)
        /\ EpStep("join", e) \in Moves(c, I, a)
        /\ EpStep("disable", e) \in Moves(c, I, a)
    BY <1>1 DEF EpSteps
  <2> DEFINE s == <<EpStep("stop", e), EpStep("join", e), EpStep("disable", e)>>
  <2>2. setEndpoint(e, enable) = s
    BY <1>3 DEF setEndpoint, EpStep
  <2>3. s \in Seq(Moves(c, I, a)) /\ s \in Seq(Steps) /\ Len(s) = 3
    BY <2>1 DEF Moves
  <2>4. /\ s[1] = EpStep("stop", e)
        /\ s[2] = EpStep("join", e)
        /\ s[3] = EpStep("disable", e)
    OBVIOUS
  <2> HIDE DEF s
  <2>5. \A k \in 1 .. Len(s) :
          /\ s[k].do # "select"
          /\ s[k].do = "disable" => k > 1 /\ s[k - 1] = EpStep("join", s[k].ep)
    <3> TAKE k \in 1 .. Len(s)
    <3>1. k = 1 \/ k = 2 \/ k = 3
      BY <2>3
    <3> QED  BY <3>1, <2>4 DEF EpStep
  <2>6. s \in Orderly
    BY <2>3, <2>5 DEF Orderly
  <2>7. s \in Announced
    BY <2>3, <2>5 DEF Announced
  <2>8. s[3] \in Range(s)
    BY <2>3 DEF Range
  <2> QED  BY <2>2, <2>3, <2>4, <2>6, <2>7, <2>8 DEF Walk
<1> QED  BY <1>2, <1>3

(* setEndpoint, for each endpoint of an alternate.                          *)
LEMMA SetEachWalks ==
  ASSUME NEW c, NEW I, NEW a,
         NEW d \in DOMAIN Tree, NEW i \in DOMAIN Tree[d], NEW b \in DOMAIN Tree[d][i],
         NEW enable \in BOOLEAN,
         enable => c = d /\ i \in I /\ a = b
  PROVE  /\ SetEach(d, i, b, enable) \in Walk(c, I, a)
         /\ ~enable => \A e \in EndpointsOf(d, i, b) :
                         EpStep("disable", e) \in Range(SetEach(d, i, b, enable))
<1> DEFINE eps == Tree[d][i][b]
           n == Len(eps)
           ss == [k \in DOMAIN eps |-> setEndpoint(eps[k], enable)]
<1>1. eps \in Seq(EndpointsOf(d, i, b)) /\ EndpointsOf(d, i, b) \subseteq Endpoints
  BY TreeAssumption, EndpointsInTree
<1>2. n \in Nat /\ DOMAIN eps = 1 .. n
  BY <1>1, LenProperties
<1>3. \A k \in 1 .. n : eps[k] \in EndpointsOf(d, i, b)
  BY <1>1, ElementOfSeq
<1> HIDE DEF n
<1>4. \A k \in 1 .. n :
        /\ setEndpoint(eps[k], enable) \in Walk(c, I, a)
        /\ ~enable => EpStep("disable", eps[k]) \in Range(setEndpoint(eps[k], enable))
  BY <1>1, <1>3, setEndpointWalks
<1>5. ss \in [1 .. n -> Walk(c, I, a)]
  BY <1>2, <1>4
<1>6. FlattenSeq(ss) \in Walk(c, I, a)
  BY <1>2, <1>5, WalkJoins, FlattenIn
<1>7. SetEach(d, i, b, enable) = FlattenSeq(ss)
  BY DEF SetEach
<1>8. ASSUME ~enable, NEW e \in EndpointsOf(d, i, b)
      PROVE  EpStep("disable", e) \in Range(FlattenSeq(ss))
  <2>1. PICK k \in 1 .. n : e = eps[k]
    BY <1>2 DEF EndpointsOf, ToSet
  <2>2. ss \in [1 .. n -> Seq(Steps)]
    BY <1>5, WalkTyped
  <2>3. ss[k] = setEndpoint(e, enable)
    BY <1>2, <2>1
  <2>4. Range(ss[k]) \subseteq Range(FlattenSeq(ss))
    <3> HIDE DEF ss
    <3> QED  BY <1>2, <2>2, FlattenContains
  <2> QED  BY <1>8, <1>4, <2>1, <2>3, <2>4
<1> QED  BY <1>6, <1>7, <1>8

(* Recording an alternate is a walk of one step.                            *)
LEMMA RecordWalks ==
  ASSUME NEW c, NEW I, NEW a, NEW t \in Moves(c, I, a),
         t.do \in {"alternate", "interface"}
  PROVE  <<t>> \in Walk(c, I, a) /\ Range(<<t>>) = {t}
<1> DEFINE s == <<t>>
<1>1. s \in Seq(Moves(c, I, a)) /\ s \in Seq(Steps)
  BY DEF Moves
<1>2. Len(s) = 1 /\ s[1] = t
  OBVIOUS
<1> HIDE DEF s
<1>3. Range(s) = {t}
  BY <1>1, <1>2 DEF Range
<1>4. \A k \in 1 .. Len(s) : s[k].do \notin {"disable", "select"}
  BY <1>2
<1>5. s \in Orderly /\ s \in Announced
  BY <1>1, <1>4 DEF Orderly, Announced
<1> QED  BY <1>1, <1>3, <1>5 DEF Walk, s

(* The steps of a sequence made of two are those of both.                   *)
LEMMA RangeOfJoined ==
  ASSUME NEW c, NEW I, NEW a, NEW s \in Walk(c, I, a), NEW t \in Walk(c, I, a)
  PROVE  Range(s \o t) = Range(s) \cup Range(t)
BY WalkTyped, RangeConcatenation

(* The alternates that a request moves between. *)
AltsOf(c, i) == DOMAIN Tree[c][i] \cup {-1}

(* setAlternate closes what is open and opens the new alternate.            *)
LEMMA setAlternateWalks ==
  ASSUME NEW c \in DOMAIN Tree, NEW i \in DOMAIN Tree[c], NEW a \in AltsOf(c, i),
         activeAlternate[c][i] \in AltsOf(c, i),
         a = -1 => activeAlternate[c][i] # -1
  PROVE  /\ setAlternate(c, i, a) \in Walk(c, {i}, a)
         /\ Covers(setAlternate(c, i, a), c, {i}, a)
<1> DEFINE active == activeAlternate[c][i]
           P == IF active \notin {a, -1} /\ a >= 0 THEN SetEach(c, i, active, FALSE)
                                                   ELSE <<>>
           Q == SetEach(c, i, IF a >= 0 THEN a ELSE active, a >= 0)
           R == <<Alt(c, i, a)>>
           W == Walk(c, {i}, a)
<1>1. DOMAIN Tree[c][i] \subseteq Nat
  BY TreeAssumption
<1>2. /\ P \in W
      /\ active \notin {a, -1} /\ a >= 0 =>
           \A e \in EndpointsOf(c, i, active) : EpStep("disable", e) \in Range(P)
  <2>1. CASE active \notin {a, -1} /\ a >= 0
    <3>1. active \in DOMAIN Tree[c][i]
      BY <2>1 DEF AltsOf
    <3>2. /\ SetEach(c, i, active, FALSE) \in W
          /\ \A e \in EndpointsOf(c, i, active) :
               EpStep("disable", e) \in Range(SetEach(c, i, active, FALSE))
      BY <3>1, SetEachWalks
    <3> QED  BY <2>1, <3>2
  <2>2. CASE ~(active \notin {a, -1} /\ a >= 0)
    BY <2>2, WalkJoins
  <2> QED  BY <2>1, <2>2
<1>3. /\ Q \in W
      /\ a = -1 => \A e \in EndpointsOf(c, i, active) : EpStep("disable", e) \in Range(Q)
  <2>1. CASE a >= 0
    <3>1. a \in DOMAIN Tree[c][i] /\ a # -1
      BY <2>1 DEF AltsOf
    <3> QED  BY <2>1, <3>1, SetEachWalks
  <2>2. CASE ~(a >= 0)
    <3>1. a = -1 /\ active \in DOMAIN Tree[c][i]
      BY <2>2, <1>1 DEF AltsOf
    <3>2. Q = SetEach(c, i, active, FALSE)
      <4>1. (a >= 0) = FALSE
        BY <2>2
      <4> QED  BY <2>2, <4>1
    <3>3. /\ SetEach(c, i, active, FALSE) \in W
          /\ \A e \in EndpointsOf(c, i, active) :
               EpStep("disable", e) \in Range(SetEach(c, i, active, FALSE))
      BY <3>1, SetEachWalks
    <3> QED  BY <3>2, <3>3
  <2> QED  BY <2>1, <2>2
<1>4. R \in W /\ Range(R) = {Alt(c, i, a)}
  <2>1. Alt(c, i, a) \in Moves(c, {i}, a)
    <3>1. Alt(c, i, a) \in Steps
      BY TreeStepIn DEF AltsOf
    <3> QED  BY <3>1 DEF Moves, Alt, EpSteps
  <2>2. Alt(c, i, a).do \in {"alternate", "interface"}
    BY DEF Alt
  <2> QED  BY <2>1, <2>2, RecordWalks
<1>5. setAlternate(c, i, a) = (P \o Q) \o R
  BY DEF setAlternate, Alt
<1> HIDE DEF P, Q, R, W
<1>6. P \o Q \in W /\ (P \o Q) \o R \in W
  BY <1>2, <1>3, <1>4, WalkJoins DEF W
<1>7. Range((P \o Q) \o R) = Range(P) \cup Range(Q) \cup Range(R)
  BY <1>2, <1>3, <1>4, <1>6, RangeOfJoined DEF W
<1>8. ASSUME NEW e \in Leaving(c, i, a)
      PROVE  EpStep("disable", e) \in Range((P \o Q) \o R)
  <2>1. active \in DOMAIN Tree[c][i] /\ active # a /\ e \in EndpointsOf(c, i, active)
    BY DEF Leaving
  <2>2. active # -1 /\ (a >= 0 \/ a = -1)
    BY <2>1, <1>1 DEF AltsOf
  <2> QED  BY <1>2, <1>3, <1>7, <2>1, <2>2
<1> QED  BY <1>4, <1>5, <1>6, <1>7, <1>8 DEF Covers, W

(* Select comes last, when what is left has been disabled.                   *)
LEMMA SelectWalks ==
  ASSUME NEW c \in DOMAIN Tree, NEW i \in DOMAIN Tree[c], NEW a \in DOMAIN Tree[c][i],
         NEW s \in Walk(c, {i}, a), Covers(s, c, {i}, a)
  PROVE  s \o <<Sel(c, i, a)>> \in Walk(c, {i}, a)
<1> DEFINE t == <<Sel(c, i, a)>>
           x == s \o t
<1>1. Sel(c, i, a) \in Moves(c, {i}, a)
  <2>1. Sel(c, i, a) \in Steps
    BY TreeStepIn
  <2> QED  BY <2>1 DEF Moves, Sel, EpSteps
<1>2. t \in Seq(Moves(c, {i}, a)) /\ t \in Seq(Steps) /\ Len(t) = 1 /\ t[1] = Sel(c, i, a)
  BY <1>1 DEF Moves
<1>3. s \in Seq(Steps) /\ s \in Seq(Moves(c, {i}, a)) /\ Len(s) \in Nat
  BY WalkTyped, LenProperties
<1> HIDE DEF t
<1>4. x \in Seq(Moves(c, {i}, a)) /\ x \in Seq(Steps)
  BY <1>2, <1>3, ConcatProperties
<1>5. x \in Orderly
  <2>1. \A k \in 1 .. Len(t) : t[k].do = "select"
    BY <1>2 DEF Sel
  <2>2. t \in Orderly
    BY <1>2, <2>1 DEF Orderly
  <2> QED  BY <2>2, OrderlyJoins DEF Walk
<1>6. x \in Announced
  <2> SUFFICES ASSUME NEW k \in 1 .. Len(x), x[k].do = "select",
                      NEW e \in Leaving(x[k].c, x[k].i, x[k].a)
               PROVE  \E p \in 1 .. (k - 1) : x[p] = EpStep("disable", e)
    BY <1>4 DEF Announced
  <2>1. CASE k \in 1 .. Len(s) /\ x[k] = s[k]
    <3>1. PICK p \in 1 .. (k - 1) : s[p] = EpStep("disable", e)
      BY <2>1 DEF Walk, Announced
    <3>2. p \in 1 .. Len(s)
      BY <1>3, <2>1, <3>1
    <3>3. x[p] = s[p]
      BY <1>2, <1>3, <3>2, ConcatAt
    <3> QED  BY <3>1, <3>3
  <2>2. CASE k - Len(s) \in 1 .. Len(t) /\ x[k] = t[k - Len(s)]
    <3>1. k = Len(s) + 1 /\ x[k] = Sel(c, i, a)
      BY <1>2, <1>3, <2>2
    <3>2. EpStep("disable", e) \in Range(s)
      BY <3>1 DEF Covers, Sel
    <3>3. PICK p \in 1 .. Len(s) : s[p] = EpStep("disable", e)
      BY <1>3, <3>2, LenProperties DEF Range
    <3>4. x[p] = s[p] /\ p \in 1 .. (k - 1)
      BY <1>2, <1>3, <3>1, <3>3, ConcatAt
    <3> QED  BY <3>3, <3>4
  <2> QED  BY <1>2, <1>3, <2>1, <2>2, ConcatAt
<1> QED  BY <1>4, <1>5, <1>6 DEF Walk, t

(* setInterface tells the device last.                                      *)
LEMMA setInterfaceWalks ==
  ASSUME NEW c \in DOMAIN Tree, NEW i \in DOMAIN Tree[c], NEW a \in AltsOf(c, i),
         activeAlternate[c][i] \in AltsOf(c, i),
         a = -1 => activeAlternate[c][i] # -1
  PROVE  /\ setInterface(c, i, a) \in Walk(c, {i}, a)
         /\ Covers(setInterface(c, i, a), c, {i}, a)
<1> DEFINE P == setAlternate(c, i, a)
           Q == <<Ifc(c, i)>>
           W == Walk(c, {i}, a)
<1>1. P \in W /\ Covers(P, c, {i}, a)
  BY setAlternateWalks
<1>2. Q \in W
  <2>1. Ifc(c, i) \in Moves(c, {i}, a)
    <3>1. Ifc(c, i) \in Steps
      BY TreeStepIn
    <3> QED  BY <3>1 DEF Moves, Ifc, EpSteps
  <2> QED  BY <2>1, RecordWalks DEF Ifc
<1>3. setInterface(c, i, a) = (P \o Q) \o Select(c, i, a)
  BY DEF setInterface, Ifc
<1> HIDE DEF P, Q, W
<1>4. P \o Q \in W /\ Range(P \o Q) = Range(P) \cup Range(Q)
  BY <1>1, <1>2, WalkJoins, RangeOfJoined DEF W
<1>5. Covers(P \o Q, c, {i}, a)
  BY <1>1, <1>4 DEF Covers
<1>6. CASE a >= 0
  <2>1. a \in DOMAIN Tree[c][i]
    BY <1>6 DEF AltsOf
  <2>2. Select(c, i, a) = <<Sel(c, i, a)>>
    BY <1>6 DEF Select, Sel
  <2>3. (P \o Q) \o <<Sel(c, i, a)>> \in W
    BY <1>4, <1>5, <2>1, SelectWalks DEF W
  <2>4. Range(P \o Q) \subseteq Range((P \o Q) \o <<Sel(c, i, a)>>)
    <3>1. Sel(c, i, a) \in Steps
      BY <2>1, TreeStepIn
    <3>2. P \o Q \in Seq(Steps)
      BY <1>4, WalkTyped DEF W
    <3>3. <<Sel(c, i, a)>> \in Seq(Steps)
      BY <3>1
    <3> QED  BY <3>2, <3>3, StepsJoin
  <2> QED  BY <1>3, <1>5, <2>2, <2>3, <2>4 DEF Covers, W
<1>7. CASE ~(a >= 0)
  <2>1. Select(c, i, a) = <<>>
    BY <1>7 DEF Select
  <2>2. (P \o Q) \o <<>> = P \o Q
    BY <1>4, WalkTyped, ConcatEmptySeq DEF W
  <2> QED  BY <1>3, <1>4, <1>5, <2>1, <2>2 DEF W
<1> QED  BY <1>6, <1>7

(* The loop over all interfaces of a configuration.                          *)
LEMMA SetInterfacesWalks ==
  ASSUME NEW c \in DOMAIN Tree, NEW a,
         \A i \in DOMAIN Tree[c] :
           /\ a \in AltsOf(c, i)
           /\ activeAlternate[c][i] \in AltsOf(c, i)
           /\ a = -1 => activeAlternate[c][i] # -1
  PROVE  /\ SetInterfaces(c, a) \in Walk(c, DOMAIN Tree[c], a)
         /\ Covers(SetInterfaces(c, a), c, DOMAIN Tree[c], a)
<1> DEFINE I == DOMAIN Tree[c]
           n == Cardinality(I)
           ss == [k \in 1 .. n |-> setInterface(c, k - 1, a)]
<1>1. n \in Nat /\ I = 0 .. (n - 1)
  BY TreeAssumption, FS_CardinalityType
<1>2. SetInterfaces(c, a) = FlattenSeq(ss)
  BY DEF SetInterfaces
<1> HIDE DEF n
<1>3. \A i \in I : /\ setInterface(c, i, a) \in Walk(c, {i}, a)
                   /\ Covers(setInterface(c, i, a), c, {i}, a)
                   /\ Walk(c, {i}, a) \subseteq Walk(c, I, a)
  <2> TAKE i \in I
  <2>1. {i} \subseteq I
    OBVIOUS
  <2> QED  BY <2>1, setInterfaceWalks, WalkGrows
<1>4. \A k \in 1 .. n : k - 1 \in I
  BY <1>1
<1>5. ss \in [1 .. n -> Walk(c, I, a)]
  BY <1>3, <1>4
<1>6. FlattenSeq(ss) \in Walk(c, I, a)
  BY <1>1, <1>5, WalkJoins, FlattenIn
<1>7. ASSUME NEW i \in I
      PROVE  Range(setInterface(c, i, a)) \subseteq Range(FlattenSeq(ss))
  <2>1. i + 1 \in 1 .. n /\ (i + 1) - 1 = i
    BY <1>1
  <2>2. ss[i + 1] = setInterface(c, i, a)
    BY <2>1
  <2>3. ss \in [1 .. n -> Seq(Steps)]
    BY <1>5, WalkTyped
  <2>4. Range(ss[i + 1]) \subseteq Range(FlattenSeq(ss))
    <3> HIDE DEF ss
    <3> QED  BY <1>1, <2>1, <2>3, FlattenContains
  <2> QED  BY <2>2, <2>4
<1>8. Covers(FlattenSeq(ss), c, I, a)
  <2> HIDE DEF ss
  <2> QED  BY <1>3, <1>7 DEF Covers
<1> QED  BY <1>2, <1>6, <1>8

(* Steps that neither disable nor select need no order.                     *)
LEMMA PlainWalks ==
  ASSUME NEW s \in Seq(Steps),
         \A t \in Range(s) : t.do \notin {"disable", "select"}
  PROVE  s \in Orderly /\ s \in Announced
<1>1. \A k \in 1 .. Len(s) : s[k] \in Range(s)
  BY LenProperties DEF Range
<1> QED  BY <1>1 DEF Orderly, Announced

(***************************************************************************)
(* What a request is: the interfaces I of configuration c are moved to      *)
(* alternate a, and the configurations in D, if any, are left before.       *)
(***************************************************************************)
Plan(s, c, I, a, D) ==
  /\ c \in DOMAIN Tree /\ I \subseteq DOMAIN Tree[c]
  /\ \A i \in I : a \in DOMAIN Tree[c][i]
  /\ D \subseteq DOMAIN Tree /\ c \notin D
  /\ s \in Orderly /\ s \in Announced
  /\ \A t \in Range(s) :
       /\ t.do = "enable" => \E i \in I : t.ep \in EndpointsOf(c, i, a)
       /\ t.do = "alternate" => \/ t.c = c /\ t.i \in I /\ t.a = a
                                \/ t.c \in D /\ t.a = -1
       /\ t.do = "select" => t.c = c /\ t.i \in I /\ t.a = a
       /\ t.do = "configuration" => t.c = c /\ I = DOMAIN Tree[c]
  /\ Covers(s, c, I, a)
  /\ \A d \in D : Covers(s, d, DOMAIN Tree[d], -1)
  /\ D # {} => Cfg(c) \in Range(s)

\* The records of the tree name what is there, and the interfaces of the
\* active configuration have an active alternate.
TreeTyped ==
  /\ activeConfiguration \in DOMAIN Tree \cup {-1}
  /\ DOMAIN activeAlternate = DOMAIN Tree
  /\ \A c \in DOMAIN Tree :
       /\ DOMAIN activeAlternate[c] = DOMAIN Tree[c]
       /\ \A i \in DOMAIN Tree[c] : activeAlternate[c][i] \in AltsOf(c, i)

Selected ==
  activeConfiguration # -1 =>
    \A i \in DOMAIN Tree[activeConfiguration] :
      activeAlternate[activeConfiguration][i] # -1

Plain(what) == [do |-> what]

(* The steps of ep0_loop itself.                                            *)
LEMMA TailSteps ==
  ASSUME NEW r \in Requests,
         r.kind = "configuration" => r.value - 1 \in DOMAIN Tree
  PROVE  /\ \A what \in {"configure", "transfer", "answer", "acknowledge"} :
              Plain(what) \in Steps
         /\ \A what \in {"pass", "forward"} :
              [do |-> what, request |-> r] \in Steps
BY DEF Plain, Steps, AnyStep, Fits

(* SET_CONFIGURATION is a plan that leaves the active configuration.        *)
LEMMA ConfigurationPlan ==
  ASSUME TreeTyped, Selected, NEW r \in Requests, r.kind = "configuration",
         Sensible(r)
  PROVE  \E D : Plan(ep0_loop(r), r.value - 1, DOMAIN Tree[r.value - 1], 0, D)
<1> DEFINE c == r.value - 1
           d == activeConfiguration
           D == IF d = -1 THEN {} ELSE {d}
           P == IF d \notin {c, -1} /\ c >= 0 THEN SetInterfaces(d, -1) ELSE <<>>
           Q == SetInterfaces(c, 0)
           R == <<Cfg(c)>>
           S == <<Plain("configure")>>
           T == <<Plain("acknowledge"), [do |-> "forward", request |-> r]>>
<1>1. c \in DOMAIN Tree /\ c # d
  BY DEF Sensible
<1>2. c >= 0 /\ (\A i \in DOMAIN Tree[c] : 0 \in DOMAIN Tree[c][i])
  BY <1>1, TreeAssumption
<1>3. d # -1 => P = SetInterfaces(d, -1)
  BY <1>1, <1>2
<1>4. d = -1 => P = <<>>
  OBVIOUS
<1>5. ep0_loop(r) = (((P \o Q) \o R) \o S) \o T
  BY DEF ep0_loop, ep0_request, setConfiguration, Plain, Cfg
<1>6. d # -1 => /\ d \in DOMAIN Tree
                /\ P \in Walk(d, DOMAIN Tree[d], -1)
                /\ Covers(P, d, DOMAIN Tree[d], -1)
  <2> HAVE d # -1
  <2>1. d \in DOMAIN Tree
    BY DEF TreeTyped
  <2>2. \A i \in DOMAIN Tree[d] : /\ -1 \in AltsOf(d, i)
                                  /\ activeAlternate[d][i] \in AltsOf(d, i)
                                  /\ activeAlternate[d][i] # -1
    BY <2>1 DEF TreeTyped, Selected, AltsOf
  <2> QED  BY <1>3, <2>1, <2>2, SetInterfacesWalks
<1>7. Q \in Walk(c, DOMAIN Tree[c], 0) /\ Covers(Q, c, DOMAIN Tree[c], 0)
  <2>1. \A i \in DOMAIN Tree[c] : /\ 0 \in AltsOf(c, i)
                                  /\ activeAlternate[c][i] \in AltsOf(c, i)
    BY <1>1, <1>2 DEF TreeTyped, AltsOf
  <2> QED  BY <1>1, <2>1, SetInterfacesWalks
<1>8. /\ R \in Seq(Steps) /\ Range(R) = {Cfg(c)}
      /\ R \in Orderly /\ R \in Announced
  <2>1. Cfg(c) \in Steps
    BY <1>1, TreeStepIn
  <2>2. R \in Seq(Steps) /\ Range(R) = {Cfg(c)}
    BY <2>1 DEF Range
  <2>3. \A t \in Range(R) : t.do \notin {"disable", "select"}
    BY <2>2 DEF Cfg
  <2> HIDE DEF R
  <2> QED  BY <2>2, <2>3, PlainWalks
<1>9. /\ S \in Seq(Steps) /\ Range(S) = {Plain("configure")}
      /\ S \in Orderly /\ S \in Announced
  <2>1. Plain("configure") \in Steps
    BY <1>1, TailSteps
  <2>2. S \in Seq(Steps) /\ Range(S) = {Plain("configure")}
    BY <2>1 DEF Range
  <2>3. \A t \in Range(S) : t.do \notin {"disable", "select"}
    BY <2>2 DEF Plain
  <2> HIDE DEF S
  <2> QED  BY <2>2, <2>3, PlainWalks
<1>10. /\ T \in Seq(Steps)
       /\ Range(T) = {Plain("acknowledge"), [do |-> "forward", request |-> r]}
       /\ T \in Orderly /\ T \in Announced
  <2>1. Plain("acknowledge") \in Steps /\ [do |-> "forward", request |-> r] \in Steps
    BY <1>1, TailSteps
  <2>2. T \in Seq(Steps)
    BY <2>1
  <2>3. Range(T) = {Plain("acknowledge"), [do |-> "forward", request |-> r]}
    BY DEF Range
  <2>4. \A t \in Range(T) : t.do \notin {"disable", "select"}
    BY <2>3 DEF Plain
  <2> HIDE DEF T
  <2> QED  BY <2>2, <2>3, <2>4, PlainWalks
<1>11. P \in Orderly /\ P \in Announced /\ P \in Seq(Steps)
  BY <1>4, <1>6, OrderlyJoins, AnnouncedJoins, EmptySeq DEF Walk, Orderly
<1>12. Q \in Orderly /\ Q \in Announced /\ Q \in Seq(Steps)
  BY <1>7 DEF Walk, Orderly
<1> DEFINE s == (((P \o Q) \o R) \o S) \o T
<1>13. s \in Orderly /\ s \in Announced
  <2> HIDE DEF P, Q, R, S, T
  <2>1. s \in Orderly
    BY <1>8, <1>9, <1>10, <1>11, <1>12, OrderlyJoins
  <2>2. s \in Announced
    BY <1>8, <1>9, <1>10, <1>11, <1>12, AnnouncedJoins
  <2> QED  BY <2>1, <2>2
<1>14. Range(s) = Range(P) \cup Range(Q) \cup Range(R) \cup Range(S) \cup Range(T)
  <2> HIDE DEF P, Q, R, S, T
  <2>1. P \o Q \in Seq(Steps) /\ Range(P \o Q) = Range(P) \cup Range(Q)
    BY <1>11, <1>12, StepsJoin
  <2>2. /\ (P \o Q) \o R \in Seq(Steps)
        /\ Range((P \o Q) \o R) = Range(P \o Q) \cup Range(R)
    BY <1>8, <2>1, StepsJoin
  <2>3. /\ ((P \o Q) \o R) \o S \in Seq(Steps)
        /\ Range(((P \o Q) \o R) \o S) = Range((P \o Q) \o R) \cup Range(S)
    BY <1>9, <2>2, StepsJoin
  <2>4. Range(s) = Range(((P \o Q) \o R) \o S) \cup Range(T)
    BY <1>10, <2>3, StepsJoin
  <2> QED  BY <2>1, <2>2, <2>3, <2>4
<1>15. \A t \in Range(P) :
         /\ d # -1
         /\ t.do \in EpSteps \cup {"alternate", "interface", "select"}
         /\ t.do # "enable" /\ t.do # "select"
         /\ t.do = "alternate" => t.c = d /\ t.a = -1
  <2> TAKE t \in Range(P)
  <2>1. d # -1
    BY <1>4 DEF Range
  <2>2. P \in Seq(Moves(d, DOMAIN Tree[d], -1))
    BY <1>6, <2>1, WalkTyped
  <2>3. t \in Moves(d, DOMAIN Tree[d], -1)
    BY <2>2, RangeOfSeq
  <2>4. \A i \in DOMAIN Tree[d] : -1 \notin DOMAIN Tree[d][i]
    BY <1>6, <2>1, TreeAssumption
  <2>5. t.do # "select"
    BY <2>3, <2>4 DEF Moves, Steps, Fits
  <2> QED  BY <2>1, <2>3, <2>4, <2>5 DEF Moves
<1>16. \A t \in Range(Q) : t \in Moves(c, DOMAIN Tree[c], 0)
  <2>1. Q \in Seq(Moves(c, DOMAIN Tree[c], 0))
    BY <1>7, WalkTyped
  <2> QED  BY <2>1, RangeOfSeq
<1>17. \A t \in Range(s) :
         /\ t.do = "enable" => \E i \in DOMAIN Tree[c] : t.ep \in EndpointsOf(c, i, 0)
         /\ t.do = "alternate" => \/ t.c = c /\ t.i \in DOMAIN Tree[c] /\ t.a = 0
                                  \/ t.c \in D /\ t.a = -1
         /\ t.do = "select" => t.c = c /\ t.i \in DOMAIN Tree[c] /\ t.a = 0
         /\ t.do = "configuration" => t.c = c
  <2> HIDE DEF s, P, Q, R, S, T
  <2> TAKE t \in Range(s)
  <2>1. CASE t \in Range(P)
    BY <2>1, <1>15 DEF EpSteps
  <2>2. CASE t \in Range(Q)
    BY <2>2, <1>16 DEF Moves, EpSteps
  <2>3. CASE t \in Range(R)
    BY <2>3, <1>8 DEF Cfg
  <2>4. CASE t \in Range(S) \cup Range(T)
    BY <2>4, <1>9, <1>10 DEF Plain
  <2> QED  BY <1>14, <2>1, <2>2, <2>3, <2>4
<1>18. Covers(s, c, DOMAIN Tree[c], 0) /\ Cfg(c) \in Range(s)
  <2> HIDE DEF s, P, Q, R, S, T
  <2> QED  BY <1>7, <1>8, <1>14 DEF Covers
<1>19. \A x \in D : Covers(s, x, DOMAIN Tree[x], -1)
  <2> HIDE DEF s, P, Q, R, S, T
  <2> QED  BY <1>6, <1>14 DEF Covers
<1>20. D \subseteq DOMAIN Tree /\ c \notin D
  BY <1>1, <1>6
<1>21. Plan(s, c, DOMAIN Tree[c], 0, D)
  <2> HIDE DEF s, D, c
  <2> QED  BY <1>1, <1>2, <1>13, <1>17, <1>18, <1>19, <1>20 DEF Plan, c
<1> QED  BY <1>5, <1>21

(* SET_INTERFACE is a plan for one interface.                               *)
LEMMA InterfacePlan ==
  ASSUME TreeTyped, NEW r \in Requests, r.kind = "interface", Sensible(r)
  PROVE  /\ activeConfiguration # -1
         /\ Plan(ep0_loop(r), activeConfiguration, {r.index}, r.value, {})
<1> DEFINE c == activeConfiguration
           P == setInterface(c, r.index, r.value)
           T == <<Plain("acknowledge"), [do |-> "forward", request |-> r]>>
           s == P \o T
<1>1. /\ c \in DOMAIN Tree /\ r.index \in DOMAIN Tree[c]
      /\ r.value \in DOMAIN Tree[c][r.index] /\ r.value # -1 /\ c # -1
  BY TreeAssumption DEF Sensible
<1>2. ep0_loop(r) = s
  BY DEF ep0_loop, ep0_request, Plain
<1>3. P \in Walk(c, {r.index}, r.value) /\ Covers(P, c, {r.index}, r.value)
  BY <1>1, setInterfaceWalks DEF TreeTyped, AltsOf
<1>4. /\ T \in Seq(Steps)
      /\ Range(T) = {Plain("acknowledge"), [do |-> "forward", request |-> r]}
      /\ T \in Orderly /\ T \in Announced
  <2>1. Plain("acknowledge") \in Steps /\ [do |-> "forward", request |-> r] \in Steps
    BY TailSteps
  <2>2. T \in Seq(Steps)
    BY <2>1
  <2>3. Range(T) = {Plain("acknowledge"), [do |-> "forward", request |-> r]}
    BY DEF Range
  <2>4. \A t \in Range(T) : t.do \notin {"disable", "select"}
    BY <2>3 DEF Plain
  <2> HIDE DEF T
  <2> QED  BY <2>2, <2>3, <2>4, PlainWalks
<1>5. P \in Orderly /\ P \in Announced /\ P \in Seq(Steps)
  BY <1>3 DEF Walk, Orderly
<1> HIDE DEF P, T
<1>6. s \in Orderly /\ s \in Announced
  BY <1>4, <1>5, OrderlyJoins, AnnouncedJoins
<1>7. Range(s) = Range(P) \cup Range(T)
  BY <1>4, <1>5, StepsJoin
<1>8. \A t \in Range(P) : t \in Moves(c, {r.index}, r.value)
  <2>1. P \in Seq(Moves(c, {r.index}, r.value))
    BY <1>3, WalkTyped
  <2> QED  BY <2>1, RangeOfSeq
<1>9. \A t \in Range(s) :
        /\ t.do = "enable" => \E i \in {r.index} : t.ep \in EndpointsOf(c, i, r.value)
        /\ t.do \in {"alternate", "select"} => t.c = c /\ t.i \in {r.index} /\ t.a = r.value
        /\ t.do # "configuration"
  <2> TAKE t \in Range(s)
  <2>1. CASE t \in Range(P)
    BY <2>1, <1>8 DEF Moves, EpSteps
  <2>2. CASE t \in Range(T)
    BY <2>2, <1>4 DEF Plain
  <2> QED  BY <1>7, <2>1, <2>2
<1>10. Covers(s, c, {r.index}, r.value)
  BY <1>3, <1>7 DEF Covers
<1> HIDE DEF s
<1>11. Plan(s, c, {r.index}, r.value, {})
  BY <1>1, <1>6, <1>9, <1>10 DEF Plan
<1> QED  BY <1>1, <1>2, <1>11

(* The other requests do nothing to the tree.                                *)
LEMMA OtherPlan ==
  ASSUME NEW r \in Requests, r.kind \in {"in", "out"}
  PROVE  Plan(ep0_loop(r), 0, {}, 0, {})
<1> DEFINE s == ep0_loop(r)
           In == <<Plain("transfer")>> \o <<Plain("answer")>>
           Out == <<>> \o <<Plain("acknowledge"), [do |-> "pass", request |-> r]>>
<1>1. s = In \/ s = Out
  BY DEF ep0_loop, ep0_request, Plain
<1>2. /\ Plain("transfer") \in Steps /\ Plain("answer") \in Steps
      /\ Plain("acknowledge") \in Steps /\ [do |-> "pass", request |-> r] \in Steps
  BY TailSteps
<1>3. In \in Seq(Steps) /\ Range(In) = {Plain("transfer"), Plain("answer")}
  <2> DEFINE x == <<Plain("transfer")>>
             y == <<Plain("answer")>>
  <2>1. x \in Seq(Steps) /\ y \in Seq(Steps)
    BY <1>2
  <2>2. Range(x) = {Plain("transfer")} /\ Range(y) = {Plain("answer")}
    BY DEF Range
  <2> HIDE DEF x, y
  <2>3. x \o y \in Seq(Steps) /\ Range(x \o y) = Range(x) \cup Range(y)
    BY <2>1, StepsJoin
  <2> QED  BY <2>2, <2>3 DEF x, y
<1>4. /\ Out \in Seq(Steps)
      /\ Range(Out) = {Plain("acknowledge"), [do |-> "pass", request |-> r]}
  <2> DEFINE x == <<Plain("acknowledge"), [do |-> "pass", request |-> r]>>
  <2>1. x \in Seq(Steps)
    BY <1>2
  <2>2. Out = x
    <3> HIDE DEF x
    <3> QED  BY <2>1, ConcatEmptySeq DEF x
  <2>3. Range(x) = {Plain("acknowledge"), [do |-> "pass", request |-> r]}
    BY DEF Range
  <2> QED  BY <2>1, <2>2, <2>3
<1> HIDE DEF s, In, Out
<1>5. /\ s \in Seq(Steps)
      /\ \A t \in Range(s) : t.do \in {"transfer", "answer", "acknowledge", "pass"}
  BY <1>1, <1>3, <1>4 DEF Plain
<1>6. s \in Orderly /\ s \in Announced
  BY <1>5, PlainWalks
<1> QED  BY <1>5, <1>6, TreeAssumption DEF Plan, Covers, s

(* Every request is such a plan.                                             *)
LEMMA RequestPlan ==
  ASSUME TreeTyped, Selected, NEW r \in Requests, Sensible(r)
  PROVE  \E c, I, a, D : Plan(ep0_loop(r), c, I, a, D)
<1>1. r.kind \in {"configuration", "interface", "in", "out"}
  BY PassthroughAssumption
<1>2. CASE r.kind = "configuration"
  BY <1>2, ConfigurationPlan
<1>3. CASE r.kind = "interface"
  BY <1>3, InterfacePlan
<1>4. CASE r.kind \in {"in", "out"}
  BY <1>4, OtherPlan
<1> QED  BY <1>1, <1>2, <1>3, <1>4
-----------------------------------------------------------------------------
(* What holds of the tree and of the steps that are left, while the thread   *)
(* of endpoint zero is somewhere in a request.                               *)

ToDo == Range(steps)
Open(e) == pc[e] # "none"

\* What will be active, and open, when the request is done.
FinalConfiguration(c) ==
  \/ Cfg(c) \in ToDo
  \/ activeConfiguration = c /\ \A t \in ToDo : t.do # "configuration"

FinalAlternate(c, i, a) ==
  \/ Alt(c, i, a) \in ToDo
  \/ /\ activeAlternate[c][i] = a
     /\ \A t \in ToDo : ~(t.do = "alternate" /\ t.c = c /\ t.i = i)

FinalOpen(e) ==
  \/ Open(e) /\ EpStep("disable", e) \notin ToDo
  \/ EpStep("enable", e) \in ToDo

\* An endpoint is disabled after its worker was joined.
JoinedInv ==
  \A k \in 1 .. Len(steps) : steps[k].do = "disable" =>
    IF k = 1 THEN ~Open(steps[k].ep)
             ELSE steps[k - 1] = EpStep("join", steps[k].ep)

\* A request does not record two things for the same place.
OneTarget ==
  \A s, t \in ToDo :
    /\ s.do = "alternate" /\ t.do = "alternate" /\ s.c = t.c /\ s.i = t.i => s.a = t.a
    /\ s.do = "configuration" /\ t.do = "configuration" => s.c = t.c

\* The interfaces of the active configuration will have an active alternate.
SelectedInv ==
  \A c \in DOMAIN Tree : FinalConfiguration(c) =>
    \A i \in DOMAIN Tree[c] : ~FinalAlternate(c, i, -1)

\* Only endpoints of active alternates will be open.
OpenInv ==
  \A c \in DOMAIN Tree : \A i \in DOMAIN Tree[c] : \A a \in DOMAIN Tree[c][i] :
    \A e \in EndpointsOf(c, i, a) : FinalOpen(e) => FinalAlternate(c, i, a)

\* The device is told of an alternate when those of the others are closed.
SelectInv ==
  \A k \in 1 .. Len(steps) : steps[k].do = "select" =>
    \A b \in DOMAIN Tree[steps[k].c][steps[k].i] \ {steps[k].a} :
      \A e \in EndpointsOf(steps[k].c, steps[k].i, b) :
        /\ EpStep("enable", e) \notin ToDo
        /\ Open(e) => \E p \in 1 .. (k - 1) : steps[p] = EpStep("disable", e)

TreeInv ==
  /\ TreeTyped
  /\ steps \in Seq(Steps)
  /\ JoinedInv
  /\ OneTarget
  /\ SelectedInv
  /\ OpenInv
  /\ SelectInv

(* The elements of a sequence of steps.                                     *)
LEMMA StepsAt ==
  ASSUME NEW s \in Seq(Steps)
  PROVE  /\ Len(s) \in Nat
         /\ DOMAIN s = 1 .. Len(s)
         /\ \A k \in 1 .. Len(s) : s[k] \in Steps /\ s[k] \in Range(s)
         /\ \A t \in Range(s) : t \in Steps /\ \E k \in 1 .. Len(s) : s[k] = t
BY LenProperties, ElementOfSeq DEF Range

(* ... and of what is left when the first is done.                          *)
LEMMA StepsTail ==
  ASSUME NEW s \in Seq(Steps), s # <<>>
  PROVE  /\ Head(s) \in Steps /\ Head(s) = s[1]
         /\ Tail(s) \in Seq(Steps)
         /\ Len(Tail(s)) = Len(s) - 1
         /\ \A k \in 1 .. Len(Tail(s)) : Tail(s)[k] = s[k + 1]
         /\ Range(s) = {Head(s)} \cup Range(Tail(s))
<1>1. /\ Head(s) = s[1] /\ Tail(s) \in Seq(Steps)
      /\ Len(s) \in Nat \ {0} /\ Len(Tail(s)) = Len(s) - 1
      /\ \A k \in 1 .. Len(Tail(s)) : Tail(s)[k] = s[k + 1]
  BY HeadTailProperties, LenProperties, EmptySeq
<1>2. Head(s) \in Steps
  BY <1>1, StepsAt
<1>3. ASSUME NEW t \in Range(s)
      PROVE  t = Head(s) \/ t \in Range(Tail(s))
  <2>1. PICK k \in 1 .. Len(s) : s[k] = t
    BY StepsAt
  <2>2. k # 1 => k - 1 \in 1 .. Len(Tail(s)) /\ Tail(s)[k - 1] = s[k]
    BY <1>1
  <2> QED  BY <1>1, <2>1, <2>2, StepsAt
<1>4. ASSUME NEW t \in Range(Tail(s))
      PROVE  t \in Range(s)
  <2>1. PICK k \in 1 .. Len(Tail(s)) : Tail(s)[k] = t
    BY <1>1, StepsAt
  <2>2. k + 1 \in 1 .. Len(s) /\ s[k + 1] = t
    BY <1>1, <2>1
  <2> QED  BY <2>2, StepsAt
<1>5. Head(s) \in Range(s)
  BY <1>1, StepsAt
<1> QED  BY <1>1, <1>2, <1>3, <1>4, <1>5

(* A step of the thread of endpoint zero does not change what will be the   *)
(* alternate of an interface when the request is done.                      *)
LEMMA FinalStays ==
  ASSUME TreeInv, steps # <<>>, steps' = Tail(steps),
         activeAlternate' =
           IF Head(steps).do = "alternate"
             THEN [activeAlternate EXCEPT ![Head(steps).c][Head(steps).i] = Head(steps).a]
             ELSE activeAlternate
  PROVE  \A c \in DOMAIN Tree : \A i \in DOMAIN Tree[c] : \A a \in AltsOf(c, i) :
           FinalAlternate(c, i, a)' <=> FinalAlternate(c, i, a)
<1> DEFINE h == Head(steps)
<1>1. steps \in Seq(Steps) /\ TreeTyped
  BY DEF TreeInv
<1>2. /\ h \in Steps /\ h = steps[1]
      /\ ToDo = {h} \cup ToDo'
  BY <1>1, StepsTail DEF ToDo
<1>3. /\ h.do = "alternate" => h = Alt(h.c, h.i, h.a)
      /\ Fits(h)
  BY <1>2, StepShape DEF Steps
<1>4. \A t \in ToDo : t \in Steps
  BY <1>1, StepsAt DEF ToDo
<1> TAKE c \in DOMAIN Tree
<1> TAKE i \in DOMAIN Tree[c]
<1> TAKE a \in AltsOf(c, i)
<1>5. CASE h.do = "alternate" /\ h.c = c /\ h.i = i
  <2>1. activeAlternate'[c][i] = h.a
    <3>1. activeAlternate' = [activeAlternate EXCEPT ![c][i] = h.a]
      BY <1>5
    <3> QED  BY <3>1, <1>1 DEF TreeTyped
  <2>2. h = Alt(c, i, h.a)
    BY <1>5, <1>3
  <2>3. \A t \in ToDo : t.do = "alternate" /\ t.c = c /\ t.i = i =>
          t = Alt(c, i, h.a)
    <3> TAKE t \in ToDo
    <3> HAVE t.do = "alternate" /\ t.c = c /\ t.i = i
    <3>1. t.a = h.a
      BY <1>5, <1>2 DEF TreeInv, OneTarget
    <3> QED  BY <3>1, <1>4, StepShape
  <2>4. \A b : Alt(c, i, b) = Alt(c, i, h.a) => b = h.a
    BY DEF Alt
  <2>5. \A b : Alt(c, i, b).do = "alternate" /\ Alt(c, i, b).c = c /\ Alt(c, i, b).i = i
    BY DEF Alt
  <2>6. FinalAlternate(c, i, a) <=> a = h.a
    BY <1>5, <1>2, <2>2, <2>3, <2>4, <2>5 DEF FinalAlternate
  <2>7. FinalAlternate(c, i, a)' <=> a = h.a
    BY <1>2, <2>1, <2>3, <2>4, <2>5 DEF FinalAlternate
  <2> QED  BY <2>6, <2>7
<1>6. CASE ~(h.do = "alternate" /\ h.c = c /\ h.i = i)
  <2>1. activeAlternate'[c][i] = activeAlternate[c][i]
    BY <1>6, <1>1, <1>3 DEF TreeTyped
  <2>2. Alt(c, i, a) # h
    BY <1>6 DEF Alt
  <2> QED  BY <1>6, <1>2, <2>1, <2>2 DEF FinalAlternate
<1> QED  BY <1>5, <1>6

(* One step of the thread of endpoint zero keeps TreeInv, if it opens no     *)
(* endpoint but the one it enables and ends at a join.                       *)
LEMMA TreeStep ==
  ASSUME TreeInv, steps # <<>>, steps' = Tail(steps),
         activeConfiguration' = IF Head(steps).do = "configuration"
                                  THEN Head(steps).c ELSE activeConfiguration,
         activeAlternate' =
           IF Head(steps).do = "alternate"
             THEN [activeAlternate EXCEPT ![Head(steps).c][Head(steps).i] = Head(steps).a]
             ELSE activeAlternate,
         \A e \in Endpoints : Open(e)' => Open(e) \/ Head(steps) = EpStep("enable", e),
         Head(steps).do = "join" => pc'[Head(steps).ep] = "none"
  PROVE  TreeInv'
<1> DEFINE h == Head(steps)
<1>1. steps \in Seq(Steps) /\ TreeTyped
  BY DEF TreeInv
<1>2. /\ h \in Steps /\ h = steps[1]
      /\ steps' \in Seq(Steps)
      /\ Len(steps) \in Nat /\ Len(steps') = Len(steps) - 1
      /\ \A k \in 1 .. Len(steps') : steps'[k] = steps[k + 1]
      /\ ToDo = {h} \cup ToDo'
  BY <1>1, StepsTail, LenProperties DEF ToDo
<1>3. /\ h.do \in EpSteps => h.ep \in Endpoints /\ h = EpStep(h.do, h.ep)
      /\ h.do = "alternate" => h = Alt(h.c, h.i, h.a)
      /\ h.do = "configuration" => h = Cfg(h.c)
      /\ Fits(h)
  BY <1>2, StepShape DEF Steps
<1>4. \A t \in ToDo : t \in Steps
  BY <1>1, StepsAt DEF ToDo
<1>5. TreeTyped'
  <2>1. activeConfiguration' \in DOMAIN Tree \cup {-1}
    BY <1>1, <1>3 DEF TreeTyped, Fits
  <2>2. CASE h.do = "alternate"
    <3>1. /\ h.c \in DOMAIN Tree /\ h.i \in DOMAIN Tree[h.c]
          /\ h.a \in AltsOf(h.c, h.i)
      BY <2>2, <1>3 DEF Fits, AltsOf
    <3>2. activeAlternate' = [activeAlternate EXCEPT ![h.c][h.i] = h.a]
      BY <2>2
    <3> QED  BY <1>1, <2>1, <3>1, <3>2 DEF TreeTyped
  <2>3. CASE h.do # "alternate"
    BY <1>1, <2>1, <2>3 DEF TreeTyped
  <2> QED  BY <2>2, <2>3
<1>6. JoinedInv'
  <2> SUFFICES ASSUME NEW k \in 1 .. Len(steps'), steps'[k].do = "disable"
               PROVE  IF k = 1 THEN pc'[steps'[k].ep] = "none"
                      ELSE steps'[k - 1] = EpStep("join", steps'[k].ep)
    BY DEF JoinedInv, Open
  <2>1. k + 1 \in 1 .. Len(steps) /\ steps'[k] = steps[k + 1] /\ (k + 1) - 1 = k
    BY <1>2
  <2>2. steps[k] = EpStep("join", steps'[k].ep)
    BY <2>1 DEF TreeInv, JoinedInv
  <2>3. CASE k = 1
    <3>1. h.do = "join" /\ h.ep = steps'[k].ep
      BY <2>2, <2>3, <1>2 DEF EpStep
    <3> QED  BY <2>3, <3>1 DEF Open
  <2>4. CASE k # 1
    <3>1. k - 1 \in 1 .. Len(steps') /\ steps'[k - 1] = steps[k]
      BY <2>4, <1>2
    <3> QED  BY <2>2, <2>4, <3>1
  <2> QED  BY <2>3, <2>4
<1>7. OneTarget'
  BY <1>2 DEF TreeInv, OneTarget
<1>8. \A c \in DOMAIN Tree : FinalConfiguration(c)' => FinalConfiguration(c)
  <2> TAKE c \in DOMAIN Tree
  <2>1. CASE h.do = "configuration"
    BY <2>1, <1>2, <1>3 DEF FinalConfiguration
  <2>2. CASE h.do # "configuration"
    BY <2>2, <1>2 DEF FinalConfiguration
  <2> QED  BY <2>1, <2>2
<1>9. \A c \in DOMAIN Tree : \A i \in DOMAIN Tree[c] : \A a \in AltsOf(c, i) :
        FinalAlternate(c, i, a)' <=> FinalAlternate(c, i, a)
  BY FinalStays
<1>10. SelectedInv'
  <2> SUFFICES ASSUME NEW c \in DOMAIN Tree, FinalConfiguration(c)',
                      NEW i \in DOMAIN Tree[c]
               PROVE  ~FinalAlternate(c, i, -1)'
    BY DEF SelectedInv
  <2>1. -1 \in AltsOf(c, i)
    BY DEF AltsOf
  <2> QED  BY <2>1, <1>8, <1>9 DEF TreeInv, SelectedInv
<1>11. \A e \in Endpoints : FinalOpen(e)' => FinalOpen(e)
  <2> TAKE e \in Endpoints
  <2> HAVE FinalOpen(e)'
  <2>1. CASE (EpStep("enable", e) \in ToDo)'
    BY <2>1, <1>2 DEF FinalOpen
  <2>2. CASE Open(e)' /\ (EpStep("disable", e) \notin ToDo)'
    <3>1. Open(e) \/ h = EpStep("enable", e)
      BY <2>2
    <3>2. h = EpStep("disable", e) => ~Open(e)
      <4> HAVE h = EpStep("disable", e)
      <4>1. h.do = "disable" /\ h.ep = e /\ 1 \in 1 .. Len(steps)
        BY <1>1, <1>2, EmptySeq DEF EpStep
      <4> QED  BY <4>1, <1>2 DEF TreeInv, JoinedInv
    <3>3. EpStep("disable", e) # EpStep("enable", e)
      BY DEF EpStep
    <3> QED  BY <2>2, <3>1, <3>2, <3>3, <1>2 DEF FinalOpen
  <2> QED  BY <2>1, <2>2 DEF FinalOpen
<1>12. OpenInv'
  <2> SUFFICES ASSUME NEW c \in DOMAIN Tree, NEW i \in DOMAIN Tree[c],
                      NEW a \in DOMAIN Tree[c][i], NEW e \in EndpointsOf(c, i, a),
                      FinalOpen(e)'
               PROVE  FinalAlternate(c, i, a)'
    BY DEF OpenInv
  <2>1. e \in Endpoints /\ a \in AltsOf(c, i)
    BY EndpointsInTree DEF AltsOf
  <2> QED  BY <2>1, <1>9, <1>11 DEF TreeInv, OpenInv
<1>13. SelectInv'
  <2> SUFFICES ASSUME NEW k \in 1 .. Len(steps'), steps'[k].do = "select",
                      NEW b \in DOMAIN Tree[steps'[k].c][steps'[k].i] \ {steps'[k].a},
                      NEW e \in EndpointsOf(steps'[k].c, steps'[k].i, b)
               PROVE  /\ EpStep("enable", e) \notin ToDo'
                      /\ Open(e)' => \E p \in 1 .. (k - 1) :
                                       steps'[p] = EpStep("disable", e)
    BY DEF SelectInv
  <2>1. k + 1 \in 1 .. Len(steps) /\ steps'[k] = steps[k + 1]
    BY <1>2
  <2>2. /\ EpStep("enable", e) \notin ToDo
        /\ Open(e) => \E p \in 1 .. ((k + 1) - 1) : steps[p] = EpStep("disable", e)
    BY <2>1 DEF TreeInv, SelectInv
  <2>3. ASSUME Open(e)'
        PROVE  \E p \in 1 .. (k - 1) : steps'[p] = EpStep("disable", e)
    <3>1. e \in Endpoints
      <4>1. Fits(steps[k + 1])
        BY <1>1, <2>1, StepsAt DEF Steps
      <4> QED  BY <2>1, <4>1, EndpointsInTree DEF Fits
    <3>2. Open(e)
      BY <2>2, <2>3, <3>1, <1>2
    <3>3. PICK p \in 1 .. ((k + 1) - 1) : steps[p] = EpStep("disable", e)
      BY <2>2, <3>2
    <3>4. p # 1
      <4> SUFFICES ASSUME p = 1
                   PROVE  FALSE
        OBVIOUS
      <4>1. steps[1].do = "disable" /\ steps[1].ep = e /\ 1 \in 1 .. Len(steps)
        BY <2>1, <3>3 DEF EpStep
      <4> QED  BY <3>2, <4>1 DEF TreeInv, JoinedInv
    <3>5. p - 1 \in 1 .. (k - 1) /\ steps'[p - 1] = steps[p]
      BY <2>1, <3>3, <3>4, <1>2
    <3> QED  BY <3>3, <3>5
  <2> QED  BY <2>2, <2>3, <1>2
<1> QED
  BY <1>2, <1>5, <1>6, <1>7, <1>10, <1>12, <1>13 DEF TreeInv

(* A step of another thread keeps TreeInv if it opens no endpoint.           *)
LEMMA TreeFrame ==
  ASSUME TreeInv, UNCHANGED <<activeConfiguration, activeAlternate, steps>>,
         \A e \in Endpoints : Open(e)' => Open(e)
  PROVE  TreeInv'
<1>1. steps \in Seq(Steps) /\ ToDo' = ToDo
  BY DEF TreeInv, ToDo
<1>2. TreeTyped' /\ OneTarget' /\ (steps \in Seq(Steps))'
  BY <1>1 DEF TreeInv, TreeTyped, OneTarget
<1>3. JoinedInv'
  <2> SUFFICES ASSUME NEW k \in 1 .. Len(steps), steps[k].do = "disable"
               PROVE  IF k = 1 THEN pc'[steps[k].ep] = "none"
                      ELSE steps[k - 1] = EpStep("join", steps[k].ep)
    BY DEF JoinedInv, Open
  <2>1. steps[k].ep \in Endpoints
    <3>1. steps[k] \in Steps
      BY <1>1, StepsAt
    <3> QED  BY <3>1, StepShape DEF EpSteps
  <2> QED  BY <2>1 DEF TreeInv, JoinedInv, Open
<1>4. SelectedInv'
  BY <1>1 DEF TreeInv, SelectedInv, FinalConfiguration, FinalAlternate
<1>5. OpenInv'
  <2>1. \A e \in Endpoints : FinalOpen(e)' => FinalOpen(e)
    BY <1>1 DEF FinalOpen
  <2>2. \A c \in DOMAIN Tree : \A i \in DOMAIN Tree[c] : \A a \in DOMAIN Tree[c][i] :
          FinalAlternate(c, i, a)' <=> FinalAlternate(c, i, a)
    BY <1>1 DEF FinalAlternate
  <2> SUFFICES ASSUME NEW c \in DOMAIN Tree, NEW i \in DOMAIN Tree[c],
                      NEW a \in DOMAIN Tree[c][i], NEW e \in EndpointsOf(c, i, a),
                      FinalOpen(e)'
               PROVE  FinalAlternate(c, i, a)'
    BY DEF OpenInv
  <2>3. e \in Endpoints
    BY EndpointsInTree
  <2> QED  BY <2>1, <2>2, <2>3 DEF TreeInv, OpenInv
<1>6. SelectInv'
  <2>1. UNCHANGED <<steps, ToDo>>
    BY <1>1
  <2> SUFFICES ASSUME NEW k \in 1 .. Len(steps'), steps'[k].do = "select",
                      NEW b \in DOMAIN Tree[steps'[k].c][steps'[k].i] \ {steps'[k].a},
                      NEW e \in EndpointsOf(steps'[k].c, steps'[k].i, b)
               PROVE  /\ EpStep("enable", e) \notin ToDo'
                      /\ Open(e)' => \E p \in 1 .. (k - 1) :
                                       steps'[p] = EpStep("disable", e)
    BY Zenon DEF SelectInv
  <2>2. /\ k \in 1 .. Len(steps) /\ steps[k].do = "select"
        /\ b \in DOMAIN Tree[steps[k].c][steps[k].i] \ {steps[k].a}
        /\ e \in EndpointsOf(steps[k].c, steps[k].i, b)
    BY <2>1
  <2>3. e \in Endpoints
    <3>1. Fits(steps[k])
      BY <2>2, <1>1, StepsAt DEF Steps
    <3> QED  BY <2>2, <3>1, EndpointsInTree DEF Fits
  <2>4. /\ EpStep("enable", e) \notin ToDo
        /\ Open(e) => \E p \in 1 .. (k - 1) : steps[p] = EpStep("disable", e)
    BY <2>2, Zenon DEF TreeInv, SelectInv
  <2> QED  BY <2>1, <2>3, <2>4
<1> QED  BY <1>2, <1>3, <1>4, <1>5, <1>6 DEF TreeInv

(* A request starts from rest, where only what is active is open.            *)
LEMMA TreeRequest ==
  ASSUME TreeInv, steps = <<>>, NEW r \in Requests, Sensible(r),
         steps' = ep0_loop(r),
         UNCHANGED <<activeConfiguration, activeAlternate, pc>>
  PROVE  TreeInv' /\ steps' \in Orderly
<1>1. ToDo = {}
  BY DEF ToDo, Range
<1>2. TreeTyped
  BY DEF TreeInv
<1>3. Selected
  <2>1. activeConfiguration # -1 => /\ activeConfiguration \in DOMAIN Tree
                                    /\ FinalConfiguration(activeConfiguration)
    BY <1>1, <1>2 DEF TreeTyped, FinalConfiguration
  <2>2. \A c \in DOMAIN Tree : FinalConfiguration(c) =>
          \A i \in DOMAIN Tree[c] : activeAlternate[c][i] # -1
    BY <1>1 DEF TreeInv, SelectedInv, FinalAlternate
  <2> QED  BY <2>1, <2>2 DEF Selected
<1>4. \A c \in DOMAIN Tree : \A i \in DOMAIN Tree[c] : \A a \in DOMAIN Tree[c][i] :
        \A e \in EndpointsOf(c, i, a) : Open(e) => activeAlternate[c][i] = a
  BY <1>1 DEF TreeInv, OpenInv, FinalOpen, FinalAlternate
<1>5. PICK c, I, a, D : Plan(steps', c, I, a, D)
  BY <1>2, <1>3, RequestPlan
<1> USE DEF Plan
<1>6. steps' \in Orderly /\ steps' \in Seq(Steps)
  BY <1>5 DEF Orderly
<1>7. \A t \in ToDo' : t \in Steps
  BY <1>6, StepsAt DEF ToDo
<1>8. ToDo' = Range(steps')
  BY DEF ToDo
<1>9. \A d \in DOMAIN Tree : \A i \in DOMAIN Tree[d] : -1 \notin DOMAIN Tree[d][i]
  BY TreeAssumption
<1>10. TreeTyped'
  BY <1>2 DEF TreeTyped
<1>11. JoinedInv'
  BY <1>6 DEF JoinedInv, Orderly
<1>12. OneTarget'
  BY <1>5, <1>8 DEF OneTarget
<1>13. \A t \in ToDo' : t.do = "alternate" /\ t.c \notin D => t.a # -1
  BY <1>5, <1>8, <1>9
<1>14. ASSUME NEW d \in DOMAIN Tree, FinalConfiguration(d)', NEW i \in DOMAIN Tree[d],
              FinalAlternate(d, i, -1)'
       PROVE  FALSE
  <2>1. Alt(d, i, -1).do = "alternate" /\ Alt(d, i, -1).c = d /\ Alt(d, i, -1).a = -1
    BY DEF Alt
  <2>2. CASE Cfg(d) \in ToDo'
    <3>1. d = c /\ I = DOMAIN Tree[c]
      BY <2>2, <1>5, <1>8 DEF Cfg
    <3>2. Alt(c, i, a) \in ToDo' /\ d \notin D
      BY <3>1, <1>5, <1>8 DEF Covers
    <3>3. Alt(c, i, a).do = "alternate" /\ Alt(c, i, a).c = c /\ Alt(c, i, a).i = i
      BY DEF Alt
    <3>4. Alt(d, i, -1) \in ToDo'
      BY <1>14, <3>1, <3>2, <3>3 DEF FinalAlternate
    <3> QED  BY <3>2, <3>4, <2>1, <1>13
  <2>3. CASE /\ activeConfiguration' = d
             /\ \A t \in ToDo' : t.do # "configuration"
    <3>1. D = {}
      BY <2>3, <1>5, <1>8 DEF Cfg
    <3>2. activeAlternate[d][i] # -1
      BY <2>3, <1>3, <1>9 DEF Selected
    <3>3. Alt(d, i, -1) \in ToDo'
      BY <1>14, <3>2 DEF FinalAlternate
    <3> QED  BY <3>1, <3>3, <2>1, <1>13
  <2> QED  BY <1>14, <2>2, <2>3 DEF FinalConfiguration
<1>15. ASSUME NEW d \in DOMAIN Tree, NEW i \in DOMAIN Tree[d],
              NEW b \in DOMAIN Tree[d][i], NEW e \in EndpointsOf(d, i, b)
       PROVE  /\ EpStep("enable", e) \in ToDo' => d = c /\ i \in I /\ b = a
              /\ Open(e) => activeAlternate[d][i] = b /\ activeAlternate[d][i] # -1
  <2>1. ASSUME EpStep("enable", e) \in ToDo'
        PROVE  d = c /\ i \in I /\ b = a
    <3>1. PICK j \in I : e \in EndpointsOf(c, j, a)
      BY <2>1, <1>5, <1>8 DEF EpStep
    <3>2. c \in DOMAIN Tree /\ j \in DOMAIN Tree[c] /\ a \in DOMAIN Tree[c][j]
      BY <1>5
    <3>3. d = c /\ i = j /\ b = a
      BY <3>1, <3>2, DistinctEndpoints
    <3> QED  BY <3>3
  <2> QED  BY <2>1, <1>4, <1>9
<1>16. ASSUME NEW d \in DOMAIN Tree, NEW i \in DOMAIN Tree[d],
              NEW b \in DOMAIN Tree[d][i], NEW e \in EndpointsOf(d, i, b),
              FinalOpen(e)'
       PROVE  FinalAlternate(d, i, b)'
  <2>1. e \in Endpoints
    BY EndpointsInTree
  <2>2. CASE EpStep("enable", e) \in ToDo'
    <3>1. d = c /\ i \in I /\ b = a
      BY <2>2, <1>15
    <3> QED  BY <3>1, <1>5, <1>8 DEF FinalAlternate, Covers
  <2>3. CASE Open(e) /\ EpStep("disable", e) \notin ToDo'
    <3>1. activeAlternate[d][i] = b /\ b # -1
      BY <2>3, <1>15
    <3>2. \A x : x # b => e \in Leaving(d, i, x)
      BY <2>1, <3>1 DEF Leaving
    <3>3. CASE \E t \in ToDo' : t.do = "alternate" /\ t.c = d /\ t.i = i
      <4>1. PICK t \in ToDo' : t.do = "alternate" /\ t.c = d /\ t.i = i
        BY <3>3
      <4>2. t = Alt(d, i, t.a)
        BY <4>1, <1>7, StepShape
      <4>3. CASE d = c /\ i \in I /\ t.a = a
        BY <4>1, <4>2, <4>3, <3>2, <2>3, <1>5, <1>8 DEF Covers, FinalAlternate
      <4>4. CASE d \in D /\ t.a = -1
        BY <4>4, <3>1, <3>2, <2>3, <1>5, <1>8 DEF Covers
      <4> QED  BY <4>1, <4>3, <4>4, <1>5, <1>8
    <3>4. CASE ~\E t \in ToDo' : t.do = "alternate" /\ t.c = d /\ t.i = i
      BY <3>1, <3>4 DEF FinalAlternate
    <3> QED  BY <3>3, <3>4
  <2> QED  BY <1>16, <2>2, <2>3 DEF FinalOpen, Open
<1>17. SelectInv'
  <2> SUFFICES ASSUME NEW k \in 1 .. Len(steps'), steps'[k].do = "select",
                      NEW b \in DOMAIN Tree[steps'[k].c][steps'[k].i] \ {steps'[k].a},
                      NEW e \in EndpointsOf(steps'[k].c, steps'[k].i, b)
               PROVE  /\ EpStep("enable", e) \notin ToDo'
                      /\ Open(e)' => \E p \in 1 .. (k - 1) :
                                       steps'[p] = EpStep("disable", e)
    BY DEF SelectInv
  <2> DEFINE d == steps'[k].c
             i == steps'[k].i
  <2>1. steps'[k] \in ToDo' /\ d = c /\ i \in I /\ steps'[k].a = a
    BY <1>5, <1>6, <1>8, StepsAt
  <2>2. d \in DOMAIN Tree /\ i \in DOMAIN Tree[d] /\ b # a
    BY <2>1, <1>5
  <2>3. EpStep("enable", e) \notin ToDo'
    BY <2>2, <1>15
  <2>4. ASSUME Open(e)
        PROVE  \E p \in 1 .. (k - 1) : steps'[p] = EpStep("disable", e)
    <3>1. activeAlternate[d][i] = b /\ e \in Endpoints
      BY <2>2, <2>4, <1>15, EndpointsInTree
    <3>2. e \in Leaving(d, i, steps'[k].a)
      BY <3>1 DEF Leaving
    <3> QED  BY <3>2, <1>5 DEF Announced
  <2> QED  BY <2>3, <2>4 DEF Open
<1>18. SelectedInv' /\ OpenInv'
  BY <1>14, <1>16 DEF SelectedInv, OpenInv
<1> QED
  BY <1>6, <1>10, <1>11, <1>12, <1>17, <1>18 DEF TreeInv

-----------------------------------------------------------------------------
(* What holds of the threads, the handles and the device. *)

Owned(e) == ep_int[e] \in Handles /\ owner[ep_int[e]] = e

WorkTyped ==
  /\ TypeOK
  /\ stop \in [Endpoints -> BOOLEAN] /\ keepRunning \in [Endpoints -> BOOLEAN]
  /\ io \in [Endpoints -> Handles \cup {-1}]

\* The callback, if one runs, has read the handle of its own endpoint.
EventInv ==
  \/ event = CbIdle
  \/ event.pc = "write" /\ event.ep \in Endpoints /\ event.io = ep_int[event.ep]

\* busyPackets counts at least what libusb, the callback or the worker has, and
\* a worker counts nothing where it may end or read.
BusyInv ==
  \A e \in Endpoints :
    /\ Outstanding(e) + (IF pc[e] = "submit" THEN 1 ELSE 0) <= busyPackets[e]
    /\ pc[e] \in {"none", "sleep", "read", "done"} => busyPackets[e] = 0

\* A worker has the handle of its own endpoint for as long as it runs ...
OwnInv ==
  \A e \in Endpoints : /\ Open(e) => Owned(e)
                       /\ pc[e] = "read" => io[e] = ep_int[e]

\* ... and until it is disabled.
HeadOwned ==
  steps # <<>> /\ Head(steps).do = "disable" => Owned(Head(steps).ep)

WorkInv == WorkTyped /\ EventInv /\ BusyInv /\ OwnInv /\ HeadOwned

DeviceTyped ==
  /\ device = [config |-> device.config, alt |-> device.alt]
  /\ device.config \in DOMAIN Tree
  /\ DOMAIN device.alt = DOMAIN Tree[device.config]
  /\ \A i \in DOMAIN Tree[device.config] :
       device.alt[i] \in DOMAIN Tree[device.config][i]

IInv == TreeInv /\ WorkInv /\ DeviceTyped

(* main has finitely many stages.                                           *)
LEMMA StagesIsNat == Stages \in Nat
BY TreeAssumption, FS_CardinalityType DEF Stages

(* The mark of a free handle is no endpoint.                                *)
LEMMA NoEndpointApart == \A e \in Endpoints : e # NoEndpoint
BY TreeAssumption

(* Only a join is followed by a step that disables.                          *)
LEMMA BeforeDisable ==
  ASSUME TreeInv, steps # <<>>, steps' = Tail(steps), Head(steps).do # "join"
  PROVE  HeadOwned'
<1> SUFFICES ASSUME steps' # <<>>, Head(steps').do = "disable"
             PROVE  FALSE
  BY DEF HeadOwned
<1>1. steps \in Seq(Steps) /\ steps' \in Seq(Steps) /\ Head(steps) = steps[1]
  BY StepsTail DEF TreeInv
<1>2. Len(steps') \in Nat /\ Len(steps') # 0
  BY <1>1, LenProperties, EmptySeq
<1>3. Head(steps') = steps'[1] /\ steps'[1] = steps[2] /\ 2 \in 1 .. Len(steps)
  BY <1>1, <1>2, StepsTail, LenProperties, HeadTailProperties DEF TreeInv
<1>4. steps[2 - 1] = EpStep("join", steps[2].ep)
  BY <1>3 DEF TreeInv, JoinedInv
<1> QED  BY <1>1, <1>4 DEF EpStep

(* What is disabled after a join is what was joined.                        *)
LEMMA AfterJoin ==
  ASSUME TreeInv, steps # <<>>, steps' = Tail(steps),
         steps' # <<>>, Head(steps').do = "disable"
  PROVE  Head(steps).ep = Head(steps').ep
<1>1. steps \in Seq(Steps) /\ steps' \in Seq(Steps) /\ Head(steps) = steps[1]
  BY StepsTail DEF TreeInv
<1>2. Len(steps') \in Nat /\ Len(steps') # 0
  BY <1>1, LenProperties, EmptySeq
<1>3. Head(steps') = steps'[1] /\ steps'[1] = steps[2] /\ 2 \in 1 .. Len(steps)
  BY <1>1, <1>2, StepsTail, LenProperties, HeadTailProperties DEF TreeInv
<1>4. steps[2 - 1] = EpStep("join", steps[2].ep)
  BY <1>3 DEF TreeInv, JoinedInv
<1> QED  BY <1>1, <1>3, <1>4 DEF EpStep

(* A step that leaves the endpoints and their threads alone.                 *)
LEMMA WorkFrame ==
  ASSUME WorkInv, UNCHANGED <<epVars, workVars, owner, event>>,
         main' \in 0 .. Stages, ended' \in {"no", "main", "enable", "submit", "ep0"},
         failed' \subseteq {"select", "forward"}, HeadOwned'
  PROVE  WorkInv'
<1>1. WorkTyped'
  BY DEF WorkInv, WorkTyped, TypeOK, epVars, workVars
<1>2. \A e \in Endpoints : Outstanding(e)' = Outstanding(e)
  BY DEF Outstanding, workVars
<1>3. EventInv' /\ BusyInv' /\ OwnInv'
  BY <1>2 DEF WorkInv, EventInv, BusyInv, OwnInv, Open, Owned, epVars, workVars
<1> QED  BY <1>1, <1>3 DEF WorkInv

(* The actions of the thread of endpoint zero keep the invariant: the       *)
(* transfers and answers ...                                                *)
LEMMA TransferKeeps == IInv /\ (Transfer \/ Answer) => IInv'
<1> SUFFICES ASSUME IInv, Transfer \/ Answer
             PROVE  IInv'
  OBVIOUS
<1>1. /\ steps # <<>> /\ steps' = Tail(steps)
      /\ Head(steps).do \in {"transfer", "answer", "acknowledge", "pass"}
      /\ UNCHANGED <<main, ended, infoVars, device, failed, epVars, workVars,
                     owner, event>>
  BY DEF Transfer, Answer, Doing
<1>2. TreeInv'
  BY <1>1, TreeStep DEF IInv, infoVars, workVars, Open
<1>3. WorkInv'
  BY <1>1, BeforeDisable, WorkFrame DEF IInv, WorkInv, WorkTyped, TypeOK
<1> QED  BY <1>1, <1>2, <1>3 DEF IInv, DeviceTyped

(* ... the records of the tree ...                                          *)
LEMMA RecordKeeps == IInv /\ Record => IInv'
<1> SUFFICES ASSUME IInv, Record
             PROVE  IInv'
  OBVIOUS
<1>1. /\ steps # <<>> /\ steps' = Tail(steps)
      /\ Head(steps).do \in {"alternate", "interface", "configuration", "configure"}
      /\ UNCHANGED <<main, ended, device, failed, epVars, workVars, owner, event>>
  BY DEF Record, Doing
<1>2. activeConfiguration' = IF Head(steps).do = "configuration"
                               THEN Head(steps).c ELSE activeConfiguration
  BY DEF Record, Doing
<1>3. activeAlternate' =
        IF Head(steps).do = "alternate"
          THEN [activeAlternate EXCEPT ![Head(steps).c][Head(steps).i] = Head(steps).a]
          ELSE activeAlternate
  BY DEF Record, Doing
<1>4. TreeInv'
  BY <1>1, <1>2, <1>3, TreeStep DEF IInv, workVars, Open
<1>5. WorkInv'
  BY <1>1, BeforeDisable, WorkFrame DEF IInv, WorkInv, WorkTyped, TypeOK
<1> QED  BY <1>1, <1>4, <1>5 DEF IInv, DeviceTyped

(* ... the selection of an alternate ...                                    *)
LEMMA SelectKeeps == IInv /\ SelectStep => IInv'
<1> SUFFICES ASSUME IInv, SelectStep
             PROVE  IInv'
  OBVIOUS
<1>1. /\ steps # <<>> /\ steps' = Tail(steps) /\ Head(steps).do = "select"
      /\ UNCHANGED <<main, ended, infoVars, epVars, workVars, owner, event>>
      /\ failed' \subseteq failed \cup {"select"}
      /\ \/ /\ device.config = Head(steps).c
            /\ device' = [device EXCEPT !.alt[Head(steps).i] = Head(steps).a]
         \/ UNCHANGED device
  BY DEF SelectStep, Doing
<1>2. TreeInv'
  BY <1>1, TreeStep DEF IInv, infoVars, workVars, Open
<1>3. WorkInv'
  BY <1>1, BeforeDisable, WorkFrame DEF IInv, WorkInv, WorkTyped, TypeOK
<1>4. DeviceTyped'
  <2>1. Fits(Head(steps))
    BY <1>1, StepsTail DEF IInv, TreeInv, Steps
  <2>2. CASE UNCHANGED device
    BY <2>2 DEF IInv, DeviceTyped
  <2>3. CASE /\ device.config = Head(steps).c
             /\ device' = [device EXCEPT !.alt[Head(steps).i] = Head(steps).a]
    <3> DEFINE i == Head(steps).i
               a == Head(steps).a
    <3>1. i \in DOMAIN Tree[device.config] /\ a \in DOMAIN Tree[device.config][i]
      BY <1>1, <2>1, <2>3 DEF Fits
    <3>2. device' = [config |-> device.config, alt |-> [device.alt EXCEPT ![i] = a]]
      BY <2>3 DEF IInv, DeviceTyped
    <3> QED  BY <3>1, <3>2 DEF IInv, DeviceTyped
  <2> QED  BY <1>1, <2>2, <2>3
<1> QED  BY <1>2, <1>3, <1>4 DEF IInv

(* ... the request that goes to the device ...                              *)
LEMMA ForwardKeeps == IInv /\ Forward => IInv'
<1> SUFFICES ASSUME IInv, Forward
             PROVE  IInv'
  OBVIOUS
<1> DEFINE r == Head(steps).request
<1>1. /\ steps # <<>> /\ steps' = Tail(steps) /\ Head(steps).do = "forward"
      /\ UNCHANGED <<main, ended, infoVars, epVars, workVars, owner, event>>
      /\ failed' \subseteq failed \cup {"forward"}
  BY DEF Forward, Doing
<1>2. \/ /\ r.kind = "configuration"
         /\ device' = [config |-> r.value - 1,
                       alt |-> [i \in DOMAIN Tree[r.value - 1] |-> 0]]
      \/ Understands(r) /\ device' = [device EXCEPT !.alt[r.index] = r.value]
      \/ UNCHANGED device
  BY DEF Forward
<1>3. TreeInv'
  BY <1>1, TreeStep DEF IInv, infoVars, workVars, Open
<1>4. WorkInv'
  BY <1>1, BeforeDisable, WorkFrame DEF IInv, WorkInv, WorkTyped, TypeOK
<1>5. DeviceTyped'
  <2>1. Fits(Head(steps))
    BY <1>1, StepsTail DEF IInv, TreeInv, Steps
  <2>2. CASE UNCHANGED device
    BY <2>2 DEF IInv, DeviceTyped
  <2>3. CASE /\ r.kind = "configuration"
             /\ device' = [config |-> r.value - 1,
                           alt |-> [i \in DOMAIN Tree[r.value - 1] |-> 0]]
    <3>1. r.value - 1 \in DOMAIN Tree
      BY <1>1, <2>1, <2>3 DEF Fits
    <3> QED  BY <2>3, <3>1, TreeAssumption DEF DeviceTyped
  <2>4. CASE Understands(r) /\ device' = [device EXCEPT !.alt[r.index] = r.value]
    <3>1. /\ r.index \in DOMAIN Tree[device.config]
          /\ r.value \in DOMAIN Tree[device.config][r.index]
      BY <2>4 DEF Understands, IInv, DeviceTyped
    <3>2. device' = [config |-> device.config,
                     alt |-> [device.alt EXCEPT ![r.index] = r.value]]
      BY <2>4 DEF IInv, DeviceTyped
    <3> QED  BY <3>1, <3>2 DEF IInv, DeviceTyped
  <2> QED  BY <1>2, <2>2, <2>3, <2>4
<1> QED  BY <1>3, <1>4, <1>5 DEF IInv

(* Nothing is under way for an endpoint whose worker has been joined.        *)
LEMMA ClosedIsQuiet ==
  ASSUME WorkInv, NEW e \in Endpoints, pc[e] = "none"
  PROVE  busyPackets[e] = 0 /\ Outstanding(e) = 0 /\ event.ep # e
<1>1. busyPackets[e] = 0
  BY DEF WorkInv, BusyInv
<1>2. Outstanding(e) + 0 <= 0
  <2>1. Outstanding(e) + (IF pc[e] = "submit" THEN 1 ELSE 0) <= busyPackets[e]
    BY DEF WorkInv, BusyInv
  <2> QED  BY <1>1, <2>1
<1>3. inFlight[e] \in 0 .. 1
  BY DEF WorkInv, WorkTyped, TypeOK
<1> QED  BY <1>1, <1>2, <1>3 DEF Outstanding

(* The first free handle is a free handle.                                  *)
LEMMA LeastOf ==
  ASSUME NEW T \in SUBSET Nat, T # {}
  PROVE  (CHOOSE k \in T : \A j \in T : k <= j) \in T
<1>1. \E k \in T : \A j \in T : k <= j
  BY LeastNumber, Zenon
<1> QED  BY <1>1, Zenon

(* ... the next request ...                                                 *)
LEMMA RequestKeeps ==
  ASSUME IInv, NEW r \in Requests, Request(r)
  PROVE  IInv'
<1>1. /\ steps = <<>> /\ Sensible(r) /\ steps' = ep0_loop(r)
      /\ UNCHANGED <<main, ended, infoVars, device, failed, epVars, workVars,
                     owner, event>>
  BY DEF Request
<1>2. TreeInv' /\ steps' \in Orderly
  BY <1>1, TreeRequest DEF IInv, infoVars, workVars
<1>3. HeadOwned'
  <2> SUFFICES ASSUME steps' # <<>>, Head(steps').do = "disable"
               PROVE  FALSE
    BY DEF HeadOwned
  <2>1. steps' \in Seq(Steps)
    BY <1>2 DEF Orderly
  <2>2. Head(steps') = steps'[1] /\ 1 \in 1 .. Len(steps')
    BY <2>1, StepsTail, LenProperties, EmptySeq
  <2> QED  BY <1>2, <2>2 DEF Orderly
<1>4. WorkInv'
  BY <1>1, <1>3, WorkFrame DEF IInv, WorkInv, WorkTyped, TypeOK
<1> QED  BY <1>1, <1>2, <1>4 DEF IInv, DeviceTyped

(* main and the end of the process.                                          *)
LEMMA MainKeeps ==
  ASSUME IInv, main' \in 0 .. Stages,
         ended' \in {"no", "main", "enable", "submit", "ep0"},
         UNCHANGED <<infoVars, steps, device, failed, epVars, workVars, owner,
                     event>>
  PROVE  IInv'
<1>1. TreeInv'
  BY TreeFrame DEF IInv, infoVars, workVars, Open
<1>2. HeadOwned'
  BY DEF IInv, WorkInv, HeadOwned, Owned, epVars
<1>3. WorkInv'
  BY <1>2, WorkFrame DEF IInv, WorkInv, WorkTyped, TypeOK
<1> QED  BY <1>1, <1>3 DEF IInv, DeviceTyped

(* ... the flags that stop a worker ...                                     *)
LEMMA StopKeeps == IInv /\ Stop => IInv'
<1> SUFFICES ASSUME IInv, Stop
             PROVE  IInv'
  OBVIOUS
<1>1. /\ steps # <<>> /\ steps' = Tail(steps) /\ Head(steps).do = "stop"
      /\ stop' = [stop EXCEPT ![Head(steps).ep] = TRUE]
      /\ keepRunning' = [keepRunning EXCEPT ![Head(steps).ep] = FALSE]
      /\ UNCHANGED <<main, ended, infoVars, device, failed, ep_int, workVars,
                     owner, event>>
  BY DEF Stop, Doing
<1>2. TreeInv'
  BY <1>1, TreeStep DEF IInv, infoVars, workVars, Open
<1>3. HeadOwned'
  BY <1>1, BeforeDisable DEF IInv
<1>4. WorkTyped'
  <2>1. stop' \in [Endpoints -> BOOLEAN] /\ keepRunning' \in [Endpoints -> BOOLEAN]
    BY <1>1 DEF IInv, WorkInv, WorkTyped
  <2>2. {stop'[e] : e \in Endpoints} \cup {keepRunning'[e] : e \in Endpoints}
          \subseteq BOOLEAN
    BY <2>1
  <2> QED  BY <1>1, <2>1, <2>2 DEF IInv, WorkInv, WorkTyped, TypeOK, workVars
<1>5. \A e \in Endpoints : Outstanding(e)' = Outstanding(e)
  BY <1>1 DEF Outstanding, workVars
<1>6. EventInv' /\ OwnInv'
  BY <1>1 DEF IInv, WorkInv, EventInv, OwnInv, Open, Owned, workVars
<1>7. BusyInv'
  BY <1>1, <1>5 DEF IInv, WorkInv, BusyInv, workVars
<1> QED  BY <1>1, <1>2, <1>3, <1>4, <1>6, <1>7 DEF IInv, WorkInv, DeviceTyped

(* ... pthread_join ...                                                     *)
LEMMA JoinKeeps == IInv /\ Join => IInv'
<1> SUFFICES ASSUME IInv, Join
             PROVE  IInv'
  OBVIOUS
<1> DEFINE e == Head(steps).ep
<1>1. /\ steps # <<>> /\ steps' = Tail(steps) /\ Head(steps).do = "join"
      /\ pc[e] = "done" /\ pc' = [pc EXCEPT ![e] = "none"]
      /\ UNCHANGED <<main, ended, infoVars, device, failed, epVars,
                     busyPackets, io, inFlight, owner, event>>
  BY DEF Join, Doing
<1>2. e \in Endpoints
  BY <1>1, StepsTail, StepShape DEF IInv, TreeInv, EpSteps
<1>3. pc' \in [Endpoints -> {"none", "sleep", "loop", "read", "submit", "done"}]
  BY <1>1, <1>2 DEF IInv, WorkInv, WorkTyped, TypeOK
<1>4. /\ pc'[e] = "none"
      /\ \A d \in Endpoints : d # e => pc'[d] = pc[d]
  BY <1>1, <1>2 DEF IInv, WorkInv, WorkTyped, TypeOK
<1>5. TreeInv'
  <2>1. \A d \in Endpoints : Open(d)' => Open(d)
    BY <1>4 DEF Open
  <2> QED  BY <1>1, <1>4, <2>1, TreeStep DEF IInv, infoVars
<1>6. HeadOwned'
  <2> SUFFICES ASSUME steps' # <<>>, Head(steps').do = "disable"
               PROVE  /\ ep_int'[Head(steps').ep] \in Handles
                      /\ owner'[ep_int'[Head(steps').ep]] = Head(steps').ep
    BY DEF HeadOwned, Owned
  <2>1. Head(steps').ep = e
    BY <1>1, AfterJoin DEF IInv
  <2>2. Owned(e)
    BY <1>1, <1>2 DEF IInv, WorkInv, OwnInv, Open
  <2> QED  BY <1>1, <2>1, <2>2 DEF Owned, epVars
<1>7. WorkTyped'
  BY <1>1, <1>3 DEF IInv, WorkInv, WorkTyped, TypeOK, epVars
<1>8. \A d \in Endpoints : Outstanding(d)' = Outstanding(d)
  BY <1>1 DEF Outstanding
<1>9. BusyInv'
  <2> SUFFICES ASSUME NEW d \in Endpoints
               PROVE  /\ Outstanding(d) + (IF pc'[d] = "submit" THEN 1 ELSE 0)
                           <= busyPackets[d]
                      /\ pc'[d] \in {"none", "sleep", "read", "done"} =>
                           busyPackets[d] = 0
    BY <1>1, <1>8 DEF BusyInv
  <2>1. \/ pc'[d] = pc[d]
        \/ pc[d] = "done" /\ pc'[d] = "none"
    BY <1>1, <1>4
  <2> QED  BY <2>1 DEF IInv, WorkInv, BusyInv
<1>10. EventInv'
  BY <1>1 DEF IInv, WorkInv, EventInv, epVars
<1>11. OwnInv'
  BY <1>1, <1>4 DEF IInv, WorkInv, OwnInv, Open, Owned, epVars
<1> QED  BY <1>1, <1>5, <1>6, <1>7, <1>9, <1>10, <1>11 DEF IInv, WorkInv, DeviceTyped

(* ... usb_raw_ep_enable, whether it finds a handle or not ...              *)
LEMMA EnableKeeps == IInv /\ Enable => IInv'
<1> SUFFICES ASSUME IInv, Enable
             PROVE  IInv'
  OBVIOUS
<1> DEFINE e == Head(steps).ep
           free == {k \in Handles : owner[k] = NoEndpoint}
           used == {Address[owner[k]] : k \in Handles \ free}
           h == CHOOSE k \in free : \A j \in free : k <= j
<1>1. /\ steps # <<>> /\ steps' = Tail(steps) /\ Head(steps).do = "enable"
      /\ UNCHANGED <<main, infoVars, device, failed, busyPackets, io, inFlight,
                     event>>
  BY DEF Enable, Doing
<1>2. e \in Endpoints /\ Head(steps) = EpStep("enable", e)
  BY <1>1, StepsTail, StepShape DEF IInv, TreeInv, EpSteps
<1>3. HeadOwned'
  BY <1>1, BeforeDisable DEF IInv
<1>4. CASE ended' = "enable" /\ UNCHANGED <<epVars, pc, owner>>
  <2>1. TreeInv'
    BY <1>1, <1>4, TreeStep DEF IInv, infoVars, Open
  <2>2. WorkInv'
    BY <1>1, <1>3, <1>4, WorkFrame DEF IInv, WorkInv, WorkTyped, TypeOK, workVars
  <2> QED  BY <1>1, <2>1, <2>2 DEF IInv, DeviceTyped
<1>5. CASE free # {} /\ Address[e] \notin used
  <2>1. /\ owner' = [owner EXCEPT ![h] = e]
        /\ ep_int' = [ep_int EXCEPT ![e] = h]
        /\ stop' = [stop EXCEPT ![e] = FALSE]
        /\ keepRunning' = [keepRunning EXCEPT ![e] = TRUE]
        /\ pc' = [pc EXCEPT ![e] = IF e \in IsoEndpoints THEN "sleep" ELSE "loop"]
        /\ UNCHANGED ended
    BY <1>5 DEF Enable
  <2>2. h \in Handles /\ owner[h] = NoEndpoint
    <3>1. free \in SUBSET Nat
      BY PassthroughAssumption DEF Handles
    <3>2. h \in free
      BY <1>5, <3>1, LeastOf, Zenon
    <3> QED  BY <3>2
  <2> HIDE DEF h
  <2>3. ep_int \in [Endpoints -> Handles \cup {-1}] /\ owner \in [Handles -> Endpoints \cup {NoEndpoint}]
        /\ pc \in [Endpoints -> {"none", "sleep", "loop", "read", "submit", "done"}]
        /\ stop \in [Endpoints -> BOOLEAN] /\ keepRunning \in [Endpoints -> BOOLEAN]
    BY DEF IInv, WorkInv, WorkTyped, TypeOK
  <2>4. /\ ep_int' \in [Endpoints -> Handles \cup {-1}]
        /\ owner' \in [Handles -> Endpoints \cup {NoEndpoint}]
        /\ pc' \in [Endpoints -> {"none", "sleep", "loop", "read", "submit", "done"}]
        /\ stop' \in [Endpoints -> BOOLEAN] /\ keepRunning' \in [Endpoints -> BOOLEAN]
    BY <1>2, <2>1, <2>2, <2>3
  <2>5. /\ ep_int'[e] = h /\ owner'[h] = e /\ pc'[e] \in {"sleep", "loop"}
        /\ \A d \in Endpoints : d # e => ep_int'[d] = ep_int[d] /\ pc'[d] = pc[d]
        /\ \A k \in Handles : k # h => owner'[k] = owner[k]
    BY <1>2, <2>1, <2>2, <2>3
  <2>6. ~Open(e)
    <3> SUFFICES ASSUME Open(e)
                 PROVE  FALSE
      OBVIOUS
    <3>1. ep_int[e] \in Handles /\ owner[ep_int[e]] = e
      BY <1>2 DEF IInv, WorkInv, OwnInv, Owned
    <3>2. ep_int[e] \in Handles \ free
      BY <1>2, <3>1, NoEndpointApart
    <3> QED  BY <1>5, <3>1, <3>2
  <2>7. busyPackets[e] = 0 /\ Outstanding(e) = 0 /\ event.ep # e
    BY <1>2, <2>6, ClosedIsQuiet DEF IInv, Open
  <2>9. TreeInv'
    <3>1. \A d \in Endpoints : Open(d)' => Open(d) \/ Head(steps) = EpStep("enable", d)
      BY <1>2, <2>5 DEF Open
    <3> QED  BY <1>1, <3>1, TreeStep DEF IInv, infoVars
  <2>10. WorkTyped'
    <3>1. {stop'[d] : d \in Endpoints} \cup {keepRunning'[d] : d \in Endpoints}
            \subseteq BOOLEAN
      BY <2>4
    <3> QED  BY <1>1, <2>1, <2>4, <3>1 DEF IInv, WorkInv, WorkTyped, TypeOK
  <2>11. EventInv'
    BY <1>1, <2>5, <2>7 DEF IInv, WorkInv, EventInv
  <2>12. BusyInv'
    <3> SUFFICES ASSUME NEW d \in Endpoints
                 PROVE  /\ Outstanding(d) + (IF pc'[d] = "submit" THEN 1 ELSE 0)
                             <= busyPackets[d]
                        /\ pc'[d] \in {"none", "sleep", "read", "done"} =>
                             busyPackets[d] = 0
      BY <1>1 DEF BusyInv, Outstanding
    <3>1. CASE d = e
      BY <3>1, <2>5, <2>7
    <3>2. CASE d # e
      BY <3>2, <2>5 DEF IInv, WorkInv, BusyInv
    <3> QED  BY <3>1, <3>2
  <2>13. OwnInv'
    <3> SUFFICES ASSUME NEW d \in Endpoints
                 PROVE  /\ pc'[d] # "none" => /\ ep_int'[d] \in Handles
                                              /\ owner'[ep_int'[d]] = d
                        /\ pc'[d] = "read" => io[d] = ep_int'[d]
      BY <1>1 DEF OwnInv, Open, Owned
    <3>1. CASE d = e
      BY <3>1, <2>2, <2>5
    <3>2. CASE d # e
      <4>1. pc[d] # "none" => ep_int[d] \in Handles /\ owner[ep_int[d]] = d
        BY DEF IInv, WorkInv, OwnInv, Open, Owned
      <4>2. pc[d] # "none" => ep_int[d] # h
        BY <4>1, <2>2, NoEndpointApart
      <4>3. pc[d] = "read" => io[d] = ep_int[d]
        BY DEF IInv, WorkInv, OwnInv
      <4> QED  BY <3>2, <4>1, <4>2, <4>3, <2>5
    <3> QED  BY <3>1, <3>2
  <2> QED  BY <1>1, <1>3, <2>9, <2>10, <2>11, <2>12, <2>13 DEF IInv, WorkInv, DeviceTyped
<1> QED  BY <1>4, <1>5 DEF Enable

(* ... and usb_raw_ep_disable, which leaves the handle of no other          *)
(* endpoint.                                                                *)
LEMMA DisableKeeps == IInv /\ Disable => IInv'
<1> SUFFICES ASSUME IInv, Disable
             PROVE  IInv'
  OBVIOUS
<1> DEFINE e == Head(steps).ep
<1>1. /\ steps # <<>> /\ steps' = Tail(steps) /\ Head(steps).do = "disable"
      /\ owner' = [owner EXCEPT ![ep_int[e]] = NoEndpoint]
      /\ ep_int' = [ep_int EXCEPT ![e] = 0]
      /\ UNCHANGED <<main, ended, infoVars, device, failed, stop, keepRunning,
                     workVars, event>>
  BY DEF Disable, Doing
<1>2. e \in Endpoints /\ Owned(e)
  BY <1>1, StepsTail, StepShape DEF IInv, TreeInv, EpSteps, WorkInv, HeadOwned
<1>3. pc[e] = "none"
  <2>1. 1 \in 1 .. Len(steps) /\ Head(steps) = steps[1]
    BY <1>1, StepsTail, LenProperties, EmptySeq DEF IInv, TreeInv
  <2> QED  BY <1>1, <2>1 DEF IInv, TreeInv, JoinedInv, Open
<1>4. 0 \in Handles
  BY PassthroughAssumption DEF Handles
<1>5. /\ ep_int' \in [Endpoints -> Handles \cup {-1}]
      /\ owner' \in [Handles -> Endpoints \cup {NoEndpoint}]
      /\ \A d \in Endpoints : d # e => ep_int'[d] = ep_int[d]
      /\ \A k \in Handles : k # ep_int[e] => owner'[k] = owner[k]
  BY <1>1, <1>2, <1>4 DEF IInv, WorkInv, WorkTyped, TypeOK, Owned
<1>6. event.ep # e
  BY <1>2, <1>3, ClosedIsQuiet DEF IInv
<1>7. TreeInv'
  BY <1>1, TreeStep DEF IInv, infoVars, workVars, Open
<1>8. HeadOwned'
  BY <1>1, BeforeDisable DEF IInv
<1>9. WorkTyped'
  BY <1>1, <1>5 DEF IInv, WorkInv, WorkTyped, TypeOK, workVars
<1>10. EventInv'
  BY <1>1, <1>5, <1>6 DEF IInv, WorkInv, EventInv
<1>11. BusyInv'
  <2>1. \A d \in Endpoints : Outstanding(d)' = Outstanding(d)
    BY <1>1 DEF Outstanding, workVars
  <2> QED  BY <1>1, <2>1 DEF IInv, WorkInv, BusyInv, workVars
<1>12. OwnInv'
  <2> SUFFICES ASSUME NEW d \in Endpoints
               PROVE  /\ pc[d] # "none" => /\ ep_int'[d] \in Handles
                                           /\ owner'[ep_int'[d]] = d
                      /\ pc[d] = "read" => io[d] = ep_int'[d]
    BY <1>1 DEF OwnInv, Open, Owned, workVars
  <2>1. CASE d = e
    BY <2>1, <1>3
  <2>2. CASE d # e
    <3>1. /\ pc[d] # "none" => ep_int[d] \in Handles /\ owner[ep_int[d]] = d
          /\ pc[d] = "read" => io[d] = ep_int[d]
      BY DEF IInv, WorkInv, OwnInv, Open, Owned
    <3>2. pc[d] # "none" => ep_int[d] # ep_int[e]
      BY <1>2, <2>2, <3>1 DEF Owned
    <3> QED  BY <2>2, <3>1, <3>2, <1>5
  <2> QED  BY <2>1, <2>2
<1> QED
  BY <1>1, <1>7, <1>8, <1>9, <1>10, <1>11, <1>12 DEF IInv, WorkInv, DeviceTyped

(* One turn of the worker of e, which stays open: it is left at p, with b    *)
(* packets counted, n transfers with libusb and handle v.                    *)
LEMMA WorkerTurn ==
  ASSUME IInv, NEW e \in Endpoints, UNCHANGED Unchanging,
         NEW p \in {"loop", "read", "submit", "done"},
         NEW b \in 0 .. 1, NEW n \in 0 .. 1, NEW v \in Handles \cup {-1},
         pc[e] # "none",
         pc' = [pc EXCEPT ![e] = p], io' = [io EXCEPT ![e] = v],
         busyPackets' = [busyPackets EXCEPT ![e] = b],
         inFlight' = [inFlight EXCEPT ![e] = n],
         n + (IF event.ep = e THEN 1 ELSE 0) + (IF p = "submit" THEN 1 ELSE 0) <= b,
         p \in {"read", "done"} => b = 0,
         p = "read" => v = ep_int[e]
  PROVE  IInv'
<1>1. UNCHANGED <<main, ended, infoVars, steps, device, failed, epVars, owner,
                  event>>
  BY DEF Unchanging
<1>2. /\ pc \in [Endpoints -> {"none", "sleep", "loop", "read", "submit", "done"}]
      /\ busyPackets \in [Endpoints -> 0 .. 1] /\ inFlight \in [Endpoints -> 0 .. 1]
      /\ io \in [Endpoints -> Handles \cup {-1}]
  BY DEF IInv, WorkInv, WorkTyped, TypeOK
<1>3. /\ pc' \in [Endpoints -> {"none", "sleep", "loop", "read", "submit", "done"}]
      /\ busyPackets' \in [Endpoints -> 0 .. 1] /\ inFlight' \in [Endpoints -> 0 .. 1]
      /\ io' \in [Endpoints -> Handles \cup {-1}]
  BY <1>2
<1>4. /\ pc'[e] = p /\ busyPackets'[e] = b /\ inFlight'[e] = n /\ io'[e] = v
      /\ \A d \in Endpoints : d # e =>
           /\ pc'[d] = pc[d] /\ busyPackets'[d] = busyPackets[d]
           /\ inFlight'[d] = inFlight[d] /\ io'[d] = io[d]
  BY <1>2
<1>5. TreeInv'
  <2>1. \A d \in Endpoints : Open(d)' => Open(d)
    BY <1>4 DEF Open
  <2> QED  BY <1>1, <2>1, TreeFrame DEF IInv, infoVars
<1>6. WorkTyped'
  BY <1>1, <1>3 DEF IInv, WorkInv, WorkTyped, TypeOK, epVars
<1>7. EventInv' /\ HeadOwned'
  BY <1>1 DEF IInv, WorkInv, EventInv, HeadOwned, Owned, epVars
<1>8. BusyInv'
  <2> SUFFICES ASSUME NEW d \in Endpoints
               PROVE  /\ inFlight'[d] + (IF event.ep = d THEN 1 ELSE 0)
                           + (IF pc'[d] = "submit" THEN 1 ELSE 0) <= busyPackets'[d]
                      /\ pc'[d] \in {"none", "sleep", "read", "done"} =>
                           busyPackets'[d] = 0
    BY <1>1 DEF BusyInv, Outstanding
  <2>1. CASE d = e
    BY <2>1, <1>4
  <2>2. CASE d # e
    BY <2>2, <1>4 DEF IInv, WorkInv, BusyInv, Outstanding
  <2> QED  BY <2>1, <2>2
<1>9. OwnInv'
  <2> SUFFICES ASSUME NEW d \in Endpoints
               PROVE  /\ pc'[d] # "none" => Owned(d)
                      /\ pc'[d] = "read" => io'[d] = ep_int[d]
    BY <1>1 DEF OwnInv, Open, Owned, epVars
  <2>1. CASE d = e
    BY <2>1, <1>4 DEF IInv, WorkInv, OwnInv, Open
  <2>2. CASE d # e
    BY <2>2, <1>4 DEF IInv, WorkInv, OwnInv, Open
  <2> QED  BY <2>1, <2>2
<1> QED
  BY <1>1, <1>5, <1>6, <1>7, <1>8, <1>9 DEF IInv, WorkInv, DeviceTyped

(* What a worker has, and has counted, wherever it is.                       *)
LEMMA WorkerCounts ==
  ASSUME IInv, NEW e \in Endpoints
  PROVE  /\ busyPackets[e] \in 0 .. 1 /\ inFlight[e] \in 0 .. 1
         /\ inFlight[e] + (IF event.ep = e THEN 1 ELSE 0)
              + (IF pc[e] = "submit" THEN 1 ELSE 0) <= busyPackets[e]
         /\ pc[e] \in {"none", "sleep", "read", "done"} => busyPackets[e] = 0
         /\ busyPackets = [busyPackets EXCEPT ![e] = busyPackets[e]]
         /\ inFlight = [inFlight EXCEPT ![e] = inFlight[e]]
         /\ io = [io EXCEPT ![e] = io[e]]
         /\ io[e] \in Handles \cup {-1} /\ ep_int[e] \in Handles \cup {-1}
<1>1. /\ busyPackets \in [Endpoints -> 0 .. 1] /\ inFlight \in [Endpoints -> 0 .. 1]
      /\ io \in [Endpoints -> Handles \cup {-1}]
      /\ ep_int \in [Endpoints -> Handles \cup {-1}]
  BY DEF IInv, WorkInv, WorkTyped, TypeOK
<1> QED  BY <1>1 DEF IInv, WorkInv, BusyInv, Outstanding

(* A turn that changes where the worker is and nothing else.                *)
LEMMA WorkerGoes ==
  ASSUME IInv, NEW e \in Endpoints, NEW p \in {"loop", "done"},
         UNCHANGED <<Unchanging, busyPackets, io, inFlight>>,
         pc' = [pc EXCEPT ![e] = p], pc[e] # "none",
         p = "done" => busyPackets[e] = 0
  PROVE  IInv'
<1> DEFINE b == busyPackets[e]
           n == inFlight[e]
           v == io[e]
<1>1. /\ b \in 0 .. 1 /\ n \in 0 .. 1
      /\ n + (IF event.ep = e THEN 1 ELSE 0) <= b
  <2>1. /\ b \in 0 .. 1 /\ n \in 0 .. 1
        /\ n + (IF event.ep = e THEN 1 ELSE 0) + (IF pc[e] = "submit" THEN 1 ELSE 0) <= b
    BY WorkerCounts
  <2> HIDE DEF b, n
  <2> QED  BY <2>1
<1>2. /\ v \in Handles \cup {-1} /\ io' = [io EXCEPT ![e] = v]
      /\ busyPackets' = [busyPackets EXCEPT ![e] = b]
      /\ inFlight' = [inFlight EXCEPT ![e] = n]
      /\ UNCHANGED Unchanging
  BY WorkerCounts
<1>3. p = "done" => b = 0
  OBVIOUS
<1> HIDE DEF b, n, v
<1>4. n + (IF event.ep = e THEN 1 ELSE 0) + (IF p = "submit" THEN 1 ELSE 0) <= b
  BY <1>1
<1>5. p \in {"loop", "read", "submit", "done"} /\ p # "read"
  OBVIOUS
<1> QED  BY <1>1, <1>2, <1>3, <1>4, <1>5, WorkerTurn, ZenonT(40)

(* Every turn of a worker keeps the invariant ...                           *)
LEMMA WorkerKeeps ==
  ASSUME IInv, NEW e \in Endpoints, Worker(e)
  PROVE  IInv'
<1> DEFINE b == busyPackets[e]
           n == inFlight[e]
           one == 1
<1>0. /\ b \in 0 .. 1 /\ n \in 0 .. 1
      /\ n + (IF event.ep = e THEN 1 ELSE 0) + (IF pc[e] = "submit" THEN 1 ELSE 0) <= b
      /\ pc[e] \in {"none", "sleep", "read", "done"} => b = 0
      /\ busyPackets = [busyPackets EXCEPT ![e] = b]
      /\ inFlight = [inFlight EXCEPT ![e] = n]
      /\ io = [io EXCEPT ![e] = io[e]]
      /\ io[e] \in Handles \cup {-1} /\ ep_int[e] \in Handles \cup {-1}
  BY WorkerCounts
<1>a. one \in 0 .. 1 /\ one = 1
  OBVIOUS
<1> HIDE DEF b, n, one
<1>1. CASE EndThread(e)
  <2>1. pc[e] # "none" /\ b = 0 /\ pc' = [pc EXCEPT ![e] = "done"]
        /\ UNCHANGED <<Unchanging, busyPackets, io, inFlight>>
    BY <1>1 DEF EndThread, b
  <2> QED  BY <2>1, WorkerGoes DEF b
<1>2. CASE ep_in_work_interrupt(e) \/ ep_in_work_isochronous(e)
  <2>1. pc[e] \in {"loop", "sleep"} /\ b < 1 /\ pc' = [pc EXCEPT ![e] = "submit"]
        /\ busyPackets' = [busyPackets EXCEPT ![e] = @ + 1]
        /\ UNCHANGED <<Unchanging, io, inFlight>>
    BY <1>2 DEF ep_in_work_interrupt, ep_in_work_isochronous, Works, Woken, Count, b
  <2>2. b = 0
    BY <1>0, <2>1
  <2>4. busyPackets' = [busyPackets EXCEPT ![e] = one]
    BY <1>a, <2>1, <2>2 DEF b
  <2>3. n + (IF event.ep = e THEN 1 ELSE 0) + (IF "submit" = "submit" THEN 1 ELSE 0) <= one
    BY <1>0, <1>a, <2>1, <2>2
  <2>5. /\ io' = [io EXCEPT ![e] = io[e]] /\ inFlight' = [inFlight EXCEPT ![e] = n]
        /\ UNCHANGED Unchanging /\ pc[e] # "none"
        /\ pc' = [pc EXCEPT ![e] = "submit"]
    BY <1>0, <2>1
  <2> QED  BY <1>0, <1>a, <2>3, <2>4, <2>5, WorkerTurn
<1>3. CASE ep_out_work_interrupt(e)
  <2>1. pc[e] = "loop" /\ b < 1 /\ pc' = [pc EXCEPT ![e] = "read"]
        /\ io' = [io EXCEPT ![e] = ep_int[e]]
        /\ UNCHANGED <<Unchanging, busyPackets, inFlight>>
    BY <1>3 DEF ep_out_work_interrupt, Works, b
  <2>2. b = 0
    BY <1>0, <2>1
  <2>3. n + (IF event.ep = e THEN 1 ELSE 0) + (IF "read" = "submit" THEN 1 ELSE 0) <= b
    BY <1>0, <2>1
  <2> QED  BY <1>0, <2>1, <2>2, <2>3, WorkerTurn
<1>4. CASE Read(e)
  <2>1. pc[e] = "read" /\ io' = [io EXCEPT ![e] = -1]
        /\ UNCHANGED <<Unchanging, inFlight>>
    BY <1>4 DEF Read
  <2>2. b = 0
    BY <1>0, <2>1
  <2>3. CASE Count(e) /\ pc' = [pc EXCEPT ![e] = "submit"]
    <3>1. busyPackets' = [busyPackets EXCEPT ![e] = one]
      BY <1>a, <2>2, <2>3 DEF Count, b
    <3>2. n + (IF event.ep = e THEN 1 ELSE 0) + (IF "submit" = "submit" THEN 1 ELSE 0) <= one
      BY <1>0, <1>a, <2>1, <2>2
    <3> QED  BY <1>0, <1>a, <2>1, <2>3, <3>1, <3>2, WorkerTurn
  <2>4. CASE UNCHANGED busyPackets /\ pc' = [pc EXCEPT ![e] = "loop"]
    <3>1. n + (IF event.ep = e THEN 1 ELSE 0) + (IF "loop" = "submit" THEN 1 ELSE 0) <= b
      BY <1>0, <2>1
    <3> QED  BY <1>0, <2>1, <2>4, <3>1, WorkerTurn
  <2> QED  BY <1>4, <2>3, <2>4 DEF Read
<1>5. CASE Submit(e)
  <2>1. pc[e] = "submit" /\ pc' = [pc EXCEPT ![e] = "loop"]
        /\ inFlight' = [inFlight EXCEPT ![e] = @ + 1]
        /\ UNCHANGED <<Unchanging, busyPackets, io>>
    BY <1>5 DEF Submit
  <2>2. n = 0 /\ b = 1 /\ event.ep # e
    BY <1>0, <2>1
  <2>3. inFlight' = [inFlight EXCEPT ![e] = one]
    BY <1>a, <2>1, <2>2 DEF n
  <2>4. one + (IF event.ep = e THEN 1 ELSE 0) + (IF "loop" = "submit" THEN 1 ELSE 0) <= b
    BY <1>a, <2>2
  <2>5. /\ io' = [io EXCEPT ![e] = io[e]] /\ busyPackets' = [busyPackets EXCEPT ![e] = b]
        /\ UNCHANGED Unchanging /\ pc[e] # "none"
        /\ pc' = [pc EXCEPT ![e] = "loop"]
    BY <1>0, <2>1
  <2> QED  BY <1>0, <1>a, <2>3, <2>4, <2>5, WorkerTurn
<1>6. CASE SubmitFails(e)
  <2>1. CASE pc[e] = "submit" /\ pc' = [pc EXCEPT ![e] = "loop"]
             /\ UNCHANGED <<Unchanging, busyPackets, io, inFlight>>
    <3> QED  BY <2>1, WorkerGoes
  <2>2. CASE Exit("submit")
    <3>1. main' \in 0 .. Stages
      BY <2>2 DEF Exit, IInv, WorkInv, WorkTyped, TypeOK
    <3> QED  BY <2>2, <3>1, MainKeeps DEF Exit
  <2> QED  BY <1>6, <2>1, <2>2 DEF SubmitFails
<1> QED  BY <1>1, <1>2, <1>3, <1>4, <1>5, <1>6 DEF Worker

(* A callback touches the counts of one endpoint: it leaves n transfers with *)
(* libusb, b packets counted, and the loop of main at ev.                    *)
LEMMA CallbackTurn ==
  ASSUME IInv, NEW e \in Endpoints,
         UNCHANGED <<main, ended, infoVars, steps, device, failed, epVars, pc,
                     io, owner>>,
         NEW b \in 0 .. 1, NEW n \in 0 .. 1, NEW ev,
         busyPackets' = [busyPackets EXCEPT ![e] = b],
         inFlight' = [inFlight EXCEPT ![e] = n], event' = ev,
         \/ ev = CbIdle
         \/ ev.pc = "write" /\ ev.ep = e /\ ev.io = ep_int[e]
         \/ ev = event,
         \A d \in Endpoints : d # e => (ev.ep = d => event.ep = d),
         n + (IF ev.ep = e THEN 1 ELSE 0) + (IF pc[e] = "submit" THEN 1 ELSE 0) <= b,
         busyPackets[e] = 0 => b = 0
  PROVE  IInv'
<1>1. /\ busyPackets \in [Endpoints -> 0 .. 1] /\ inFlight \in [Endpoints -> 0 .. 1]
  BY DEF IInv, WorkInv, WorkTyped, TypeOK
<1>2. /\ busyPackets' \in [Endpoints -> 0 .. 1] /\ inFlight' \in [Endpoints -> 0 .. 1]
      /\ busyPackets'[e] = b /\ inFlight'[e] = n
      /\ \A d \in Endpoints : d # e =>
           busyPackets'[d] = busyPackets[d] /\ inFlight'[d] = inFlight[d]
  BY <1>1
<1>3. TreeInv'
  BY TreeFrame DEF IInv, infoVars, Open
<1>4. EventInv'
  BY DEF IInv, WorkInv, EventInv, epVars
<1>5. WorkTyped'
  <2>1. event.pc' \in {"idle", "write"}
    BY DEF CbIdle, IInv, WorkInv, WorkTyped, TypeOK
  <2> QED  BY <1>2, <2>1 DEF IInv, WorkInv, WorkTyped, TypeOK, epVars
<1>6. HeadOwned' /\ OwnInv'
  BY DEF IInv, WorkInv, HeadOwned, OwnInv, Open, Owned, epVars
<1>7. BusyInv'
  <2> SUFFICES ASSUME NEW d \in Endpoints
               PROVE  /\ inFlight'[d] + (IF ev.ep = d THEN 1 ELSE 0)
                           + (IF pc[d] = "submit" THEN 1 ELSE 0) <= busyPackets'[d]
                      /\ pc[d] \in {"none", "sleep", "read", "done"} =>
                           busyPackets'[d] = 0
    BY DEF BusyInv, Outstanding
  <2>1. CASE d = e
    BY <2>1, <1>2, WorkerCounts
  <2>2. CASE d # e
    <3>1. /\ inFlight[d] \in 0 .. 1 /\ busyPackets[d] \in 0 .. 1
          /\ inFlight[d] + (IF event.ep = d THEN 1 ELSE 0)
               + (IF pc[d] = "submit" THEN 1 ELSE 0) <= busyPackets[d]
          /\ pc[d] \in {"none", "sleep", "read", "done"} => busyPackets[d] = 0
      BY WorkerCounts
    <3>2. ev.ep = d => event.ep = d
      BY <2>2
    <3> QED  BY <2>2, <3>1, <3>2, <1>2
  <2> QED  BY <2>1, <2>2
<1> QED
  BY <1>3, <1>4, <1>5, <1>6, <1>7 DEF IInv, WorkInv, DeviceTyped

(* ... the callbacks keep it ...                                            *)
LEMMA CallbackKeeps ==
  ASSUME IInv, NEW e \in Endpoints, Callback(e)
  PROVE  IInv'
<1> DEFINE b == busyPackets[e]
           n == inFlight[e]
           zero == 0
           written == [pc |-> "write", ep |-> e, io |-> ep_int[e]]
<1>0. /\ b \in 0 .. 1 /\ n \in 0 .. 1 /\ zero = 0 /\ zero \in 0 .. 1
      /\ n + (IF event.ep = e THEN 1 ELSE 0) + (IF pc[e] = "submit" THEN 1 ELSE 0) <= b
      /\ busyPackets = [busyPackets EXCEPT ![e] = b]
  BY WorkerCounts
<1>1. /\ event.pc = "idle" /\ n > 0
      /\ inFlight' = [inFlight EXCEPT ![e] = n - 1]
      /\ UNCHANGED <<main, ended, infoVars, steps, device, failed, epVars, pc,
                     io, owner>>
  BY DEF Callback, cb_transfer_out, cb_transfer_in, CbFailed, Returned
<1>2. event = CbIdle /\ (\A d \in Endpoints : event.ep # d)
  BY <1>1, NoEndpointApart DEF IInv, WorkInv, EventInv, CbIdle
<1> HIDE DEF b, n, zero
<1>3. n - 1 = zero /\ b = 1 /\ pc[e] # "submit"
  BY <1>0, <1>1
<1>4. inFlight' = [inFlight EXCEPT ![e] = zero]
  BY <1>1, <1>3
<1>5. CASE Uncount(e) /\ UNCHANGED event
  <2>1. busyPackets' = [busyPackets EXCEPT ![e] = zero]
    BY <1>0, <1>3, <1>5 DEF Uncount, b
  <2>2. zero + (IF event.ep = e THEN 1 ELSE 0) + (IF pc[e] = "submit" THEN 1 ELSE 0) <= zero
    BY <1>0, <1>2, <1>3
  <2>3. event' = CbIdle /\ (\A d \in Endpoints : d # e => (CbIdle.ep = d => event.ep = d))
    BY <1>2, <1>5
  <2>4. /\ UNCHANGED <<main, ended, infoVars, steps, device, failed, epVars, pc,
                       io, owner>>
        /\ zero + (IF CbIdle.ep = e THEN 1 ELSE 0) + (IF pc[e] = "submit" THEN 1 ELSE 0)
             <= zero
    BY <1>1, <1>2, <2>2
  <2> QED  BY <1>0, <1>4, <2>1, <2>3, <2>4, CallbackTurn
<1>6. CASE event' = written /\ UNCHANGED busyPackets
  <2>1. zero + (IF written.ep = e THEN 1 ELSE 0) + (IF pc[e] = "submit" THEN 1 ELSE 0) <= b
    BY <1>0, <1>3
  <2>2. \A d \in Endpoints : d # e => (written.ep = d => event.ep = d)
    OBVIOUS
  <2>3. written.pc = "write" /\ written.ep = e /\ written.io = ep_int[e]
    OBVIOUS
  <2> HIDE DEF written
  <2>4. /\ UNCHANGED <<main, ended, infoVars, steps, device, failed, epVars, pc,
                       io, owner>>
        /\ busyPackets' = [busyPackets EXCEPT ![e] = b] /\ event' = written
        /\ (busyPackets[e] = 0 => b = 0)
    BY <1>0, <1>1, <1>6 DEF b
  <2> QED  BY <1>0, <1>4, <2>1, <2>2, <2>3, <2>4, CallbackTurn
<1>7. CASE UNCHANGED <<busyPackets, event>>
  <2>1. zero + (IF event.ep = e THEN 1 ELSE 0) + (IF pc[e] = "submit" THEN 1 ELSE 0) <= b
    BY <1>0, <1>2, <1>3
  <2>2. /\ UNCHANGED <<main, ended, infoVars, steps, device, failed, epVars, pc,
                       io, owner>>
        /\ busyPackets' = [busyPackets EXCEPT ![e] = b] /\ event' = event
        /\ (busyPackets[e] = 0 => b = 0)
    BY <1>0, <1>1, <1>7 DEF b
  <2> QED  BY <1>0, <1>4, <2>1, <2>2, CallbackTurn
<1> QED
  BY <1>5, <1>6, <1>7 DEF Callback, cb_transfer_out, cb_transfer_in, CbFailed

(* ... and so does the end of the write in one of them.                     *)
LEMMA CbWrittenKeeps == IInv /\ CbWritten => IInv'
<1> SUFFICES ASSUME IInv, CbWritten
             PROVE  IInv'
  OBVIOUS
<1> DEFINE e == event.ep
           n == inFlight[e]
           zero == 0
<1>1. /\ event.pc = "write" /\ event' = CbIdle
      /\ busyPackets' = [busyPackets EXCEPT ![e] = busyPackets[e] - 1]
      /\ UNCHANGED <<main, ended, infoVars, steps, device, failed, epVars, pc,
                     io, inFlight, owner>>
  BY DEF CbWritten, Uncount
<1>2. e \in Endpoints
  BY <1>1 DEF IInv, WorkInv, EventInv, CbIdle
<1>3. /\ busyPackets[e] \in 0 .. 1 /\ n \in 0 .. 1 /\ zero = 0 /\ zero \in 0 .. 1
      /\ n + 1 + (IF pc[e] = "submit" THEN 1 ELSE 0) <= busyPackets[e]
      /\ inFlight = [inFlight EXCEPT ![e] = n]
  BY <1>2, WorkerCounts
<1>4. \A d \in Endpoints : CbIdle.ep # d
  BY NoEndpointApart DEF CbIdle
<1> HIDE DEF zero, n
<1>5. n = zero /\ busyPackets[e] - 1 = zero /\ pc[e] # "submit"
  BY <1>3
<1>6. zero + (IF CbIdle.ep = e THEN 1 ELSE 0) + (IF pc[e] = "submit" THEN 1 ELSE 0) <= zero
  BY <1>2, <1>3, <1>4, <1>5
<1>7. /\ busyPackets' = [busyPackets EXCEPT ![e] = zero]
      /\ inFlight' = [inFlight EXCEPT ![e] = zero]
      /\ event' = CbIdle
      /\ UNCHANGED <<main, ended, infoVars, steps, device, failed, epVars, pc,
                     io, owner>>
      /\ (\A d \in Endpoints : d # e => (CbIdle.ep = d => event.ep = d))
  BY <1>1, <1>3, <1>4, <1>5
<1> HIDE DEF e
<1> QED  BY <1>2, <1>3, <1>6, <1>7, CallbackTurn

(* It holds when main starts ...                                            *)
LEMMA InitInv == Init => IInv
<1> SUFFICES ASSUME Init
             PROVE  IInv
  OBVIOUS
<1>1. steps = <<>> /\ ToDo = {} /\ Len(steps) = 0
  BY EmptySeq DEF Init, ToDo, Range
<1>2. steps \in Seq(Steps) /\ JoinedInv /\ OneTarget /\ SelectInv
  BY <1>1, EmptySeq DEF JoinedInv, OneTarget, SelectInv
<1>3. TreeTyped
  BY DEF Init, TreeTyped, AltsOf
<1>4. SelectedInv
  BY <1>1, TreeAssumption DEF Init, SelectedInv, FinalConfiguration
<1>5. OpenInv
  <2>1. \A e \in Endpoints : ~FinalOpen(e)
    BY <1>1 DEF Init, FinalOpen, Open
  <2> QED  BY <2>1, EndpointsInTree DEF OpenInv
<1>6. 0 \in Handles /\ Stages \in 0 .. Stages
  BY PassthroughAssumption, StagesIsNat DEF Handles
<1>7. WorkTyped
  <2>1. {stop[e] : e \in Endpoints} \cup {keepRunning[e] : e \in Endpoints}
          \subseteq BOOLEAN
    BY DEF Init
  <2>2. /\ ep_int \in [Endpoints -> Handles \cup {-1}]
        /\ io \in [Endpoints -> Handles \cup {-1}]
        /\ owner \in [Handles -> Endpoints \cup {NoEndpoint}]
    BY DEF Init
  <2>3. /\ busyPackets \in [Endpoints -> 0 .. 1] /\ inFlight \in [Endpoints -> 0 .. 1]
        /\ pc \in [Endpoints -> {"none", "sleep", "loop", "read", "submit", "done"}]
        /\ stop \in [Endpoints -> BOOLEAN] /\ keepRunning \in [Endpoints -> BOOLEAN]
    BY DEF Init
  <2>4. /\ main \in 0 .. Stages /\ ended \in {"no", "main", "enable", "submit", "ep0"}
        /\ failed \subseteq {"select", "forward"} /\ event.pc \in {"idle", "write"}
    BY <1>6 DEF Init, CbIdle
  <2> QED  BY <2>1, <2>2, <2>3, <2>4 DEF WorkTyped, TypeOK
<1>8. EventInv /\ OwnInv /\ HeadOwned
  BY <1>1 DEF Init, EventInv, OwnInv, HeadOwned, Open
<1>9. BusyInv
  BY NoEndpointApart DEF Init, BusyInv, Outstanding, CbIdle
<1>10. DeviceTyped
  BY TreeAssumption DEF Init, DeviceTyped
<1> QED
  BY <1>2, <1>3, <1>4, <1>5, <1>7, <1>8, <1>9, <1>10 DEF IInv, TreeInv, WorkInv

(* ... and every step keeps it.                                             *)
LEMMA NextInv == IInv /\ [Next]_vars => IInv'
<1> SUFFICES ASSUME IInv, [Next]_vars
             PROVE  IInv'
  OBVIOUS
<1>1. main \in 0 .. Stages /\ Stages \in Nat
      /\ ended \in {"no", "main", "enable", "submit", "ep0"}
  BY StagesIsNat DEF IInv, WorkInv, WorkTyped, TypeOK
<1>2. CASE MainStage
  <2>1. main' \in 0 .. Stages
    BY <1>1, <1>2 DEF MainStage
  <2> QED  BY <1>1, <1>2, <2>1, MainKeeps DEF MainStage
<1>3. CASE MainFails \/ AnswerFails
  BY <1>1, <1>3, MainKeeps DEF MainFails, AnswerFails, Exit
<1>4. ASSUME NEW r \in Requests, Request(r)
      PROVE  IInv'
  BY <1>4, RequestKeeps
<1>5. CASE Ep0
  BY <1>5, TransferKeeps, EnableKeeps, StopKeeps, JoinKeeps, DisableKeeps,
     RecordKeeps, SelectKeeps, ForwardKeeps DEF Ep0
<1>6. ASSUME NEW e \in Endpoints, Worker(e) \/ Callback(e)
      PROVE  IInv'
  BY <1>6, WorkerKeeps, CallbackKeeps
<1>7. CASE UNCHANGED vars
  BY <1>1, <1>7, MainKeeps DEF vars
<1> QED  BY <1>2, <1>3, <1>4, <1>5, <1>6, <1>7, CbWrittenKeeps DEF Next
-----------------------------------------------------------------------------
(* The theorems.  The program in C ... *)

(* IInv, which holds in every reachable state, says what the theorems below *)
(* need.                                                                    *)
THEOREM Invariance == Spec => []IInv
<1> QED  BY InitInv, NextInv, PTL DEF Spec

(***************************************************************************)
(* The variables keep their types: a count of busyPackets is 0 or 1 and     *)
(* never less, whatever fails.                                              *)
(***************************************************************************)
THEOREM TypeCorrect == Spec => []TypeOK
<1>1. IInv => TypeOK
  BY DEF IInv, WorkInv, WorkTyped
<1> QED  BY <1>1, Invariance, PTL

(***************************************************************************)
(* setEndpoint disables no endpoint whose worker runs, or of which libusb   *)
(* or a callback holds a transfer, whatever the host asks for.              *)
(***************************************************************************)
THEOREM DisablesQuietEndpoints == Spec => []SafeToDisable
<1>1. IInv => SafeToDisable
  <2> SUFFICES ASSUME IInv, steps # <<>>, Head(steps).do = "disable"
               PROVE  pc[Head(steps).ep] = "none" /\ Outstanding(Head(steps).ep) = 0
    BY DEF SafeToDisable
  <2> DEFINE e == Head(steps).ep
  <2>1. e \in Endpoints
    BY StepsTail, StepShape DEF IInv, TreeInv, EpSteps
  <2>2. 1 \in 1 .. Len(steps) /\ Head(steps) = steps[1]
    BY StepsTail, LenProperties, EmptySeq DEF IInv, TreeInv
  <2>3. pc[e] = "none"
    BY <2>2 DEF IInv, TreeInv, JoinedInv, Open
  <2> QED  BY <2>1, <2>3, ClosedIsQuiet DEF IInv
<1> QED  BY <1>1, Invariance, PTL

(***************************************************************************)
(* Workers and callbacks read and write through the handle of their own     *)
(* endpoint, although usb_raw_ep_disable leaves handle 0 behind.            *)
(***************************************************************************)
THEOREM OwnHandles == Spec => []HandleOwned
<1>1. IInv => HandleOwned
  <2> SUFFICES ASSUME IInv
               PROVE  HandleOwned
    OBVIOUS
  <2>1. ASSUME NEW e \in Endpoints, pc[e] = "read"
        PROVE  io[e] \in Handles /\ owner[io[e]] = e
    BY <2>1 DEF IInv, WorkInv, OwnInv, Open, Owned
  <2>2. ASSUME event.pc = "write"
        PROVE  event.io \in Handles /\ owner[event.io] = event.ep
    <3>1. event.ep \in Endpoints /\ event.io = ep_int[event.ep]
      BY <2>2 DEF IInv, WorkInv, EventInv, CbIdle
    <3>2. pc[event.ep] # "none"
      BY <3>1, ClosedIsQuiet DEF IInv
    <3> QED  BY <3>1, <3>2 DEF IInv, WorkInv, OwnInv, Open, Owned
  <2> QED  BY <2>1, <2>2 DEF HandleOwned
<1> QED  BY <1>1, Invariance, PTL

(***************************************************************************)
(* When setInterface tells the device of another alternate, libusb holds no *)
(* transfer of the endpoints that it gives up, and their workers are joined.*)
(***************************************************************************)
THEOREM SelectsQuietInterfaces == Spec => []QuietBeforeSelect
<1>1. IInv => QuietBeforeSelect
  <2> DEFINE s == Head(steps)
  <2> SUFFICES ASSUME IInv, steps # <<>>, s.do = "select", device.config = s.c,
                      NEW e \in EndpointsOf(s.c, s.i, device.alt[s.i])
                                  \ EndpointsOf(s.c, s.i, s.a)
               PROVE  Outstanding(e) = 0 /\ pc[e] = "none"
    BY DEF QuietBeforeSelect
  <2>1. 1 \in 1 .. Len(steps) /\ s = steps[1] /\ Fits(s)
    BY StepsTail, LenProperties, EmptySeq DEF IInv, TreeInv, Steps
  <2>2. s.c \in DOMAIN Tree /\ s.i \in DOMAIN Tree[s.c]
    BY <2>1 DEF Fits
  <2>3. device.alt[s.i] \in DOMAIN Tree[s.c][s.i] \ {s.a}
    BY <2>2 DEF IInv, DeviceTyped
  <2>4. e \in Endpoints
    BY <2>2, <2>3, EndpointsInTree
  <2>5. Open(e) => \E p \in 1 .. (1 - 1) : steps[p] = EpStep("disable", e)
    BY <2>1, <2>2, <2>3 DEF IInv, TreeInv, SelectInv
  <2>6. pc[e] = "none"
    BY <2>5 DEF Open
  <2> QED  BY <2>4, <2>6, ClosedIsQuiet DEF IInv
<1> QED  BY <1>1, Invariance, PTL

-----------------------------------------------------------------------------
(* What is kept of the steps of a request. *)

Keeps(s) == [k \in DOMAIN s |-> IF Kept(s[k]) THEN <<s[k]>> ELSE <<>>]

LEMMA KeepsTyped ==
  ASSUME NEW s \in Seq(Steps)
  PROVE  /\ Len(s) \in Nat /\ DOMAIN s = 1 .. Len(s)
         /\ Keeps(s) \in [1 .. Len(s) -> Seq(Steps)]
         /\ KeptOf(s) = FlattenSeq(Keeps(s))
         /\ KeptOf(s) \in Seq(Steps)
<1>1. Len(s) \in Nat /\ DOMAIN s = 1 .. Len(s) /\ \A k \in 1 .. Len(s) : s[k] \in Steps
  BY LenProperties, ElementOfSeq
<1>2. Keeps(s) \in [1 .. Len(s) -> Seq(Steps)]
  <2> SUFFICES ASSUME NEW k \in 1 .. Len(s)
               PROVE  (IF Kept(s[k]) THEN <<s[k]>> ELSE <<>>) \in Seq(Steps)
    BY <1>1 DEF Keeps
  <2>1. <<s[k]>> \in Seq(Steps) /\ <<>> \in Seq(Steps)
    BY <1>1, EmptySeq
  <2> QED  BY <2>1
<1>3. KeptOf(s) = FlattenSeq(Keeps(s))
  BY DEF KeptOf, Keeps
<1>4. PICK f : JoinedUpTo(f, Keeps(s), Steps, Len(s))
  BY <1>1, <1>2, FlattenPrefixes
<1>5. KeptOf(s) \in Seq(Steps)
  BY <1>1, <1>3, <1>4 DEF JoinedUpTo
<1> QED  BY <1>1, <1>2, <1>3, <1>5

(* ... of a sequence made of two ...                                        *)
LEMMA KeptJoins ==
  ASSUME NEW s \in Seq(Steps), NEW t \in Seq(Steps)
  PROVE  KeptOf(s \o t) = KeptOf(s) \o KeptOf(t)
<1> DEFINE x == s \o t
<1>1. /\ x \in Seq(Steps) /\ Len(x) = Len(s) + Len(t)
      /\ \A k \in 1 .. Len(s) : x[k] = s[k]
      /\ \A k \in 1 .. Len(t) : x[Len(s) + k] = t[k]
  BY ConcatAt
<1> HIDE DEF x
<1>2. \A u \in {s, t, x} : /\ Len(u) \in Nat /\ DOMAIN u = 1 .. Len(u)
                           /\ Keeps(u) \in [1 .. Len(u) -> Seq(Steps)]
                           /\ KeptOf(u) = FlattenSeq(Keeps(u))
  BY <1>1, KeepsTyped
<1>3. \A u \in {s, t, x} : \A k \in 1 .. Len(u) :
        Keeps(u)[k] = IF Kept(u[k]) THEN <<u[k]>> ELSE <<>>
  BY <1>2 DEF Keeps
<1>4. \A k \in 1 .. Len(s) : Keeps(x)[k] = Keeps(s)[k]
  <2> TAKE k \in 1 .. Len(s)
  <2>1. k \in 1 .. Len(x)
    BY <1>1, <1>2
  <2> QED  BY <1>1, <1>3, <2>1
<1>5. \A k \in 1 .. Len(t) : Keeps(x)[Len(s) + k] = Keeps(t)[k]
  <2> TAKE k \in 1 .. Len(t)
  <2>1. Len(s) + k \in 1 .. Len(x)
    BY <1>1, <1>2
  <2> QED  BY <1>1, <1>3, <2>1
<1> DEFINE n == Len(s)
           m == Len(t)
<1>6. /\ n \in Nat /\ m \in Nat
      /\ Keeps(s) \in [1 .. n -> Seq(Steps)] /\ Keeps(t) \in [1 .. m -> Seq(Steps)]
      /\ Keeps(x) \in [1 .. (n + m) -> Seq(Steps)]
      /\ \A k \in 1 .. n : Keeps(x)[k] = Keeps(s)[k]
      /\ \A k \in 1 .. m : Keeps(x)[n + k] = Keeps(t)[k]
  BY <1>1, <1>2, <1>4, <1>5
<1> HIDE DEF n, m
<1>7. Joins(Steps, n, m, Keeps(s), Keeps(t), Keeps(x))
  BY <1>6 DEF Joins
<1>8. FlattenSeq(Keeps(x)) = FlattenSeq(Keeps(s)) \o FlattenSeq(Keeps(t))
  BY <1>7, FlattenJoins
<1> QED  BY <1>2, <1>8 DEF x

(* ... of one step, and of none ...                                         *)
LEMMA KeptSingle ==
  /\ KeptOf(<<>>) = <<>>
  /\ \A s \in Steps : KeptOf(<<s>>) = IF Kept(s) THEN <<s>> ELSE <<>>
<1>1. ASSUME NEW s \in Seq(Steps)
      PROVE  \E f : /\ f[0] = <<>> /\ KeptOf(s) = f[Len(s)]
                    /\ \A k \in 1 .. Len(s) : f[k - 1] \in Seq(Steps) /\ f[k] = f[k - 1] \o Keeps(s)[k]
  <2>1. Len(s) \in Nat /\ Keeps(s) \in [1 .. Len(s) -> Seq(Steps)] /\ KeptOf(s) = FlattenSeq(Keeps(s))
    BY KeepsTyped
  <2>2. PICK f : JoinedUpTo(f, Keeps(s), Steps, Len(s))
    BY <2>1, FlattenPrefixes
  <2>3. \A k \in 1 .. Len(s) : k - 1 \in 0 .. Len(s)
    BY <2>1
  <2> QED  BY <2>1, <2>2, <2>3 DEF JoinedUpTo
<1>2. KeptOf(<<>>) = <<>>
  <2>1. <<>> \in Seq(Steps) /\ Len(<<>>) = 0
    BY EmptySeq
  <2> QED  BY <1>1, <2>1
<1>3. ASSUME NEW s \in Steps
      PROVE  KeptOf(<<s>>) = IF Kept(s) THEN <<s>> ELSE <<>>
  <2> DEFINE x == <<s>>
  <2>1. x \in Seq(Steps) /\ Len(x) = 1 /\ DOMAIN x = 1 .. 1 /\ x[1] = s
    OBVIOUS
  <2> HIDE DEF x
  <2>2. Keeps(x)[1] = IF Kept(s) THEN <<s>> ELSE <<>>
    BY <2>1 DEF Keeps
  <2>3. Keeps(x)[1] \in Seq(Steps)
    <3>1. Keeps(x) \in [1 .. Len(x) -> Seq(Steps)]
      BY <2>1, KeepsTyped, Zenon
    <3> QED  BY <2>1, <3>1
  <2>4. PICK f : /\ f[0] = <<>> /\ KeptOf(x) = f[1]
                 /\ f[1] = f[0] \o Keeps(x)[1]
    <3>1. PICK f : /\ f[0] = <<>> /\ KeptOf(x) = f[Len(x)]
                   /\ \A k \in 1 .. Len(x) : f[k - 1] \in Seq(Steps) /\ f[k] = f[k - 1] \o Keeps(x)[k]
      BY <1>1, <2>1
    <3>2. 1 \in 1 .. Len(x) /\ 1 - 1 = 0
      BY <2>1
    <3> QED  BY <2>1, <3>1, <3>2
  <2>5. KeptOf(x) = Keeps(x)[1]
    BY <2>3, <2>4, ConcatEmptySeq
  <2> QED  BY <2>2, <2>5 DEF x
<1> QED  BY <1>2, <1>3

(* ... of a flattened sequence ...                                          *)
LEMMA KeptFlatten ==
  ASSUME NEW n \in Nat, NEW ss \in [1 .. n -> Seq(Steps)],
         NEW tt \in [1 .. n -> Seq(Steps)],
         \A k \in 1 .. n : KeptOf(ss[k]) = tt[k]
  PROVE  KeptOf(FlattenSeq(ss)) = FlattenSeq(tt)
<1>1. PICK f : JoinedUpTo(f, ss, Steps, n)
  BY FlattenPrefixes
<1>2. PICK g : JoinedUpTo(g, tt, Steps, n)
  BY FlattenPrefixes
<1>3. /\ \A k \in 0 .. n : f[k] \in Seq(Steps)
      /\ f[0] = <<>> /\ FlattenSeq(ss) = f[n]
      /\ \A k \in 1 .. n : f[k] = f[k - 1] \o ss[k]
  BY <1>1 DEF JoinedUpTo
<1>4. /\ g[0] = <<>> /\ FlattenSeq(tt) = g[n]
      /\ \A k \in 1 .. n : g[k] = g[k - 1] \o tt[k]
  BY <1>2 DEF JoinedUpTo
<1> DEFINE P == {k \in 0 .. n : KeptOf(f[k]) = g[k]}
<1>5. 0 \in P
  BY <1>3, <1>4, KeptSingle
<1>6. ASSUME NEW k \in 1 .. n, k - 1 \in P
      PROVE  k \in P
  <2>1. k - 1 \in 0 .. n /\ k \in 0 .. n /\ KeptOf(f[k - 1]) = g[k - 1]
    BY <1>6
  <2>2. f[k - 1] \in Seq(Steps) /\ ss[k] \in Seq(Steps)
    BY <1>3, <2>1
  <2>3. KeptOf(f[k - 1] \o ss[k]) = KeptOf(f[k - 1]) \o KeptOf(ss[k])
    BY <2>2, KeptJoins
  <2>4. KeptOf(f[k]) = g[k]
    BY <1>3, <1>4, <2>1, <2>3
  <2> QED  BY <2>1, <2>4
<1>7. \A k \in 0 .. n : k \in P
  <2> HIDE DEF P
  <2> QED  BY <1>5, <1>6, UpTo
<1> QED  BY <1>3, <1>4, <1>7

(* ... and of what is left when one step is done.                           *)
LEMMA KeptTail ==
  ASSUME NEW s \in Seq(Steps), s # <<>>
  PROVE  IF Kept(Head(s))
           THEN /\ KeptOf(s) # <<>> /\ Head(KeptOf(s)) = Head(s)
                /\ Tail(KeptOf(s)) = KeptOf(Tail(s))
           ELSE KeptOf(s) = KeptOf(Tail(s))
<1> DEFINE h == Head(s)
           t == Tail(s)
<1>1. h \in Steps /\ t \in Seq(Steps) /\ s = <<h>> \o t
  BY HeadThenTail
<1> HIDE DEF h, t
<1>2. <<h>> \in Seq(Steps) /\ KeptOf(t) \in Seq(Steps)
  BY <1>1, KeepsTyped
<1>3. KeptOf(s) = KeptOf(<<h>>) \o KeptOf(t)
  BY <1>1, <1>2, KeptJoins
<1>4. CASE Kept(h)
  <2>1. KeptOf(s) = <<h>> \o KeptOf(t)
    BY <1>1, <1>3, <1>4, KeptSingle
  <2>2. h \in Steps /\ KeptOf(t) \in Seq(Steps)
    BY <1>1, <1>2
  <2>3. KeptOf(s) # <<>> /\ Head(KeptOf(s)) = h /\ Tail(KeptOf(s)) = KeptOf(t)
    BY <2>1, <2>2, ConsParts
  <2> QED  BY <1>4, <2>3 DEF h, t
<1>5. CASE ~Kept(h)
  <2>1. KeptOf(s) = <<>> \o KeptOf(t)
    BY <1>1, <1>3, <1>5, KeptSingle
  <2>2. KeptOf(s) = KeptOf(t)
    BY <1>2, <2>1, ConcatEmptySeq
  <2> QED  BY <1>5, <2>2 DEF h, t
<1> QED  BY <1>4, <1>5

-----------------------------------------------------------------------------
(* Two and three sequences of one element.                                  *)
LEMMA OnesJoin ==
  ASSUME NEW T, NEW a \in T, NEW b \in T, NEW c \in T
  PROVE  /\ <<a>> \o <<b>> = <<a, b>>
         /\ (<<a>> \o <<b>>) \o <<c>> = <<a, b, c>>
<1> DEFINE s == <<a>>
           t == <<b>>
           u == <<c>>
           v == <<a, b>>
           w == <<a, b, c>>
<1>1. /\ s \in Seq(T) /\ Len(s) = 1 /\ s[1] = a
      /\ t \in Seq(T) /\ Len(t) = 1 /\ t[1] = b
      /\ u \in Seq(T) /\ Len(u) = 1 /\ u[1] = c
      /\ v \in Seq(T) /\ Len(v) = 2 /\ v[1] = a /\ v[2] = b
      /\ w \in Seq(T) /\ Len(w) = 3 /\ w[1] = a /\ w[2] = b /\ w[3] = c
  OBVIOUS
<1> HIDE DEF s, t, u, v, w
<1> DEFINE y == s \o t
           z == y \o u
<1>2. /\ y \in Seq(T) /\ Len(y) = 1 + 1
      /\ \A k \in 1 .. 1 : y[k] = s[k] /\ y[1 + k] = t[k]
  <2>0. s \in Seq(T) /\ t \in Seq(T)
    BY <1>1
  <2>1. /\ y \in Seq(T) /\ Len(y) = Len(s) + Len(t)
        /\ \A k \in 1 .. Len(s) : y[k] = s[k]
        /\ \A k \in 1 .. Len(t) : y[Len(s) + k] = t[k]
    BY <2>0, ConcatAt
  <2> QED  BY <1>1, <2>1
<1> HIDE DEF y
<1>3. y[1] = a /\ y[2] = b /\ Len(y) = 2
  BY <1>1, <1>2
<1>4. /\ z \in Seq(T) /\ Len(z) = 2 + 1
      /\ \A k \in 1 .. 2 : z[k] = y[k]
      /\ \A k \in 1 .. 1 : z[2 + k] = u[k]
  <2>0. y \in Seq(T) /\ u \in Seq(T)
    BY <1>1, <1>2
  <2>1. /\ z \in Seq(T) /\ Len(z) = Len(y) + Len(u)
        /\ \A k \in 1 .. Len(y) : z[k] = y[k]
        /\ \A k \in 1 .. Len(u) : z[Len(y) + k] = u[k]
    BY <2>0, ConcatAt
  <2> QED  BY <1>1, <1>3, <2>1
<1> HIDE DEF z
<1>5. z[1] = a /\ z[2] = b /\ z[3] = c /\ Len(z) = 3
  BY <1>1, <1>3, <1>4
<1>6. \A k \in 1 .. Len(y) : y[k] = v[k]
  <2> TAKE k \in 1 .. Len(y)
  <2>1. k = 1 \/ k = 2
    BY <1>3
  <2> QED  BY <1>1, <1>3, <2>1
<1>7. \A k \in 1 .. Len(z) : z[k] = w[k]
  <2> TAKE k \in 1 .. Len(z)
  <2>1. k = 1 \/ k = 2 \/ k = 3
    BY <1>5
  <2> QED  BY <1>1, <1>5, <2>1
<1>8. y = v
  BY <1>1, <1>2, <1>3, <1>6, SeqEqual
<1>9. z = w
  <2>1. z \in Seq(T) /\ w \in Seq(T) /\ Len(z) = Len(w)
    BY <1>1, <1>4, <1>5
  <2> QED  BY <1>7, <2>1, SeqEqual
<1> QED  BY <1>8, <1>9 DEF s, t, u, v, w, y, z

(* The functions make, of what is kept, the steps of Configuration:          *)
(* setEndpoint ...                                                          *)
LEMMA setEndpointKept ==
  ASSUME NEW e \in Endpoints, NEW enable \in BOOLEAN
  PROVE  /\ setEndpoint(e, enable) \in Seq(Steps)
         /\ KeptOf(setEndpoint(e, enable)) =
              <<EpStep(IF enable THEN "enable" ELSE "disable", e)>>
<1> DEFINE a == EpStep("enable", e)
           s == EpStep("stop", e)
           j == EpStep("join", e)
           d == EpStep("disable", e)
<1>1. a \in Steps /\ s \in Steps /\ j \in Steps /\ d \in Steps
  BY EpStepIn DEF EpSteps
<1>2. Kept(a) /\ ~Kept(s) /\ ~Kept(j) /\ Kept(d)
  BY DEF Kept, EpStep
<1>3. setEndpoint(e, enable) = IF enable THEN <<a>> ELSE <<s, j, d>>
  BY DEF setEndpoint, EpStep
<1> HIDE DEF a, s, j, d
<1>4. CASE enable
  BY <1>1, <1>2, <1>3, <1>4, KeptSingle DEF a
<1>5. CASE ~enable
  <2>1. <<s, j, d>> = (<<s>> \o <<j>>) \o <<d>>
    BY <1>1, OnesJoin
  <2> DEFINE S == <<s>>
             J == <<j>>
             D == <<d>>
  <2>2. S \in Seq(Steps) /\ J \in Seq(Steps) /\ D \in Seq(Steps)
    BY <1>1
  <2> HIDE DEF S, J, D
  <2>3. S \o J \in Seq(Steps) /\ (S \o J) \o D \in Seq(Steps)
    BY <2>2, StepsJoin
  <2>4. KeptOf((S \o J) \o D) = (KeptOf(S) \o KeptOf(J)) \o KeptOf(D)
    <3>1. KeptOf(S \o J) = KeptOf(S) \o KeptOf(J)
      BY <2>2, KeptJoins
    <3>2. KeptOf((S \o J) \o D) = KeptOf(S \o J) \o KeptOf(D)
      BY <2>2, <2>3, KeptJoins
    <3> QED  BY <3>1, <3>2
  <2>5. KeptOf(S) = <<>> /\ KeptOf(J) = <<>> /\ KeptOf(D) = D
    BY <1>1, <1>2, KeptSingle DEF S, J, D
  <2>6. (<<>> \o <<>>) \o D = D
    <3>1. <<>> \in Seq(Steps)
      BY EmptySeq
    <3> QED  BY <2>2, <3>1, ConcatEmptySeq
  <2> QED  BY <1>3, <1>5, <2>1, <2>3, <2>4, <2>5, <2>6 DEF S, J, D, d
<1> QED  BY <1>4, <1>5

(* ... the loop over the endpoints of an alternate ...                      *)
LEMMA SetEachKept ==
  ASSUME NEW c \in DOMAIN Tree, NEW i \in DOMAIN Tree[c], NEW b \in DOMAIN Tree[c][i],
         NEW enable \in BOOLEAN
  PROVE  /\ SetEach(c, i, b, enable) \in Seq(Steps)
         /\ KeptOf(SetEach(c, i, b, enable)) =
              Library!EachEndpoint(IF enable THEN "enable" ELSE "disable", c, i, b)
<1> DEFINE eps == Tree[c][i][b]
           n == Len(eps)
           what == IF enable THEN "enable" ELSE "disable"
           ss == [k \in DOMAIN eps |-> setEndpoint(eps[k], enable)]
           x == [k \in DOMAIN eps |-> EpStep(what, eps[k])]
           tt == [k \in DOMAIN eps |-> <<x[k]>>]
<1>1. eps \in Seq(EndpointsOf(c, i, b)) /\ EndpointsOf(c, i, b) \subseteq Endpoints
  BY TreeAssumption, EndpointsInTree
<1>2. n \in Nat /\ DOMAIN eps = 1 .. n
  BY <1>1, LenProperties
<1>3. \A k \in 1 .. n : eps[k] \in Endpoints
  BY <1>1, ElementOfSeq
<1>4. \A k \in 1 .. n : /\ setEndpoint(eps[k], enable) \in Seq(Steps)
                        /\ KeptOf(setEndpoint(eps[k], enable)) = <<EpStep(what, eps[k])>>
  BY <1>3, setEndpointKept
<1>5. \A k \in 1 .. n : EpStep(what, eps[k]) \in Steps
  <2>1. what \in EpSteps
    BY DEF EpSteps
  <2> HIDE DEF what
  <2> QED  BY <1>3, <2>1, EpStepIn
<1>6. SetEach(c, i, b, enable) = FlattenSeq(ss)
  BY DEF SetEach
<1>7. x = Library!EachEndpoint(what, c, i, b)
  BY DEF Library!EachEndpoint, EpStep
<1> HIDE DEF n, what
<1>8. x \in Seq(Steps) /\ Len(x) = n
  <2>1. x \in [1 .. n -> Steps]
    BY <1>2, <1>5
  <2> HIDE DEF x
  <2> QED  BY <1>2, <2>1, IsASeq
<1>9. /\ ss \in [1 .. n -> Seq(Steps)] /\ tt \in [1 .. n -> Seq(Steps)]
      /\ \A k \in 1 .. n : KeptOf(ss[k]) = tt[k]
      /\ \A k \in 1 .. n : tt[k] = <<x[k]>>
  <2>1. \A k \in 1 .. n : <<x[k]>> \in Seq(Steps)
    BY <1>2, <1>5
  <2> QED  BY <1>2, <1>4, <2>1
<1> HIDE DEF ss, tt, x
<1>10. KeptOf(FlattenSeq(ss)) = FlattenSeq(tt)
  BY <1>2, <1>9, KeptFlatten
<1>11. FlattenSeq(tt) = x
  BY <1>8, <1>9, FlattenSingles
<1>12. FlattenSeq(ss) \in Seq(Steps)
  <2>1. PICK f : JoinedUpTo(f, ss, Steps, n)
    BY <1>2, <1>9, FlattenPrefixes
  <2>2. n \in 0 .. n
    BY <1>2
  <2> QED  BY <2>1, <2>2 DEF JoinedUpTo
<1> QED  BY <1>6, <1>7, <1>10, <1>11, <1>12 DEF what

(* ... setAlternate ...                                                     *)
LEMMA setAlternateKept ==
  ASSUME NEW c \in DOMAIN Tree, NEW i \in DOMAIN Tree[c], NEW a \in AltsOf(c, i),
         activeAlternate[c][i] \in AltsOf(c, i),
         a = -1 => activeAlternate[c][i] # -1
  PROVE  /\ setAlternate(c, i, a) \in Seq(Steps)
         /\ KeptOf(setAlternate(c, i, a)) = Library!setAlternate(c, i, a)
<1> DEFINE active == activeAlternate[c][i]
           P == IF active \notin {a, -1} /\ a >= 0 THEN SetEach(c, i, active, FALSE)
                                                   ELSE <<>>
           Q == SetEach(c, i, IF a >= 0 THEN a ELSE active, a >= 0)
           R == <<Alt(c, i, a)>>
           leave == IF active # a /\ active >= 0 /\ a >= 0
                      THEN Library!EachEndpoint("disable", c, i, active) ELSE <<>>
           enter == IF a >= 0 THEN Library!EachEndpoint("enable", c, i, a)
                              ELSE Library!EachEndpoint("disable", c, i, active)
<1>1. /\ DOMAIN Tree[c][i] \subseteq Nat
      /\ active # -1 => active \in DOMAIN Tree[c][i]
      /\ a # -1 => a \in DOMAIN Tree[c][i]
  BY TreeAssumption DEF AltsOf
<1>2. /\ active \notin {a, -1} /\ a >= 0 <=> active # a /\ active >= 0 /\ a >= 0
      /\ a >= 0 <=> a # -1
  BY <1>1
<1>3. P \in Seq(Steps) /\ KeptOf(P) = leave
  <2>1. CASE active \notin {a, -1} /\ a >= 0
    BY <1>1, <1>2, <2>1, SetEachKept
  <2>2. CASE ~(active \notin {a, -1} /\ a >= 0)
    BY <1>2, <2>2, EmptySeq, KeptSingle
  <2> QED  BY <2>1, <2>2
<1>4. Q \in Seq(Steps) /\ KeptOf(Q) = enter
  <2>1. CASE a >= 0
    <3>1. /\ SetEach(c, i, a, TRUE) \in Seq(Steps)
          /\ KeptOf(SetEach(c, i, a, TRUE)) = Library!EachEndpoint("enable", c, i, a)
      BY <1>1, <1>2, <2>1, SetEachKept
    <3>2. (a >= 0) = TRUE
      BY <2>1
    <3> QED  BY <2>1, <3>1, <3>2
  <2>2. CASE ~(a >= 0)
    <3>1. /\ SetEach(c, i, active, FALSE) \in Seq(Steps)
          /\ KeptOf(SetEach(c, i, active, FALSE)) = Library!EachEndpoint("disable", c, i, active)
      BY <1>1, <1>2, <2>2, SetEachKept
    <3>2. (a >= 0) = FALSE
      BY <2>2
    <3> QED  BY <2>2, <3>1, <3>2
  <2> QED  BY <2>1, <2>2
<1>5. R \in Seq(Steps) /\ KeptOf(R) = R
  <2>1. Alt(c, i, a) \in Steps
    BY TreeStepIn DEF AltsOf
  <2>2. Kept(Alt(c, i, a))
    BY DEF Kept, Alt
  <2> QED  BY <2>1, <2>2, KeptSingle
<1>6. setAlternate(c, i, a) = (P \o Q) \o R
  BY DEF setAlternate, Alt
<1>7. Library!setAlternate(c, i, a) = (leave \o enter) \o R
  BY DEF Library!setAlternate, Alt
<1> HIDE DEF P, Q, R, leave, enter
<1>8. P \o Q \in Seq(Steps) /\ KeptOf(P \o Q) = leave \o enter
  BY <1>3, <1>4, StepsJoin, KeptJoins
<1>9. (P \o Q) \o R \in Seq(Steps) /\ KeptOf((P \o Q) \o R) = (leave \o enter) \o R
  <2> DEFINE PQ == P \o Q
  <2>1. PQ \in Seq(Steps)
    BY <1>8
  <2> HIDE DEF PQ
  <2>2. PQ \o R \in Seq(Steps) /\ KeptOf(PQ \o R) = KeptOf(PQ) \o KeptOf(R)
    BY <1>5, <2>1, StepsJoin, KeptJoins
  <2> QED  BY <1>5, <1>8, <2>2 DEF PQ
<1> QED  BY <1>6, <1>7, <1>9

(* ... setInterface ...                                                     *)
LEMMA setInterfaceKept ==
  ASSUME NEW c \in DOMAIN Tree, NEW i \in DOMAIN Tree[c], NEW a \in AltsOf(c, i),
         activeAlternate[c][i] \in AltsOf(c, i),
         a = -1 => activeAlternate[c][i] # -1
  PROVE  /\ setInterface(c, i, a) \in Seq(Steps)
         /\ KeptOf(setInterface(c, i, a)) = Library!setInterface(c, i, a)
<1> DEFINE P == setAlternate(c, i, a)
           L == Library!setAlternate(c, i, a)
           Q == <<Ifc(c, i)>>
           R == Select(c, i, a)
<1>1. P \in Seq(Steps) /\ KeptOf(P) = L
  BY setAlternateKept
<1>2. Q \in Seq(Steps) /\ KeptOf(Q) = Q
  <2>1. Ifc(c, i) \in Steps
    BY TreeStepIn
  <2>2. Kept(Ifc(c, i))
    BY DEF Kept, Ifc
  <2> QED  BY <2>1, <2>2, KeptSingle
<1>3. R \in Seq(Steps) /\ KeptOf(R) = R
  <2>1. CASE a >= 0
    <3>1. a \in DOMAIN Tree[c][i]
      BY <2>1 DEF AltsOf
    <3>2. Sel(c, i, a) \in Steps /\ R = <<Sel(c, i, a)>>
      BY <2>1, <3>1, TreeStepIn DEF Select, Sel
    <3>3. Kept(Sel(c, i, a))
      BY DEF Kept, Sel
    <3> QED  BY <3>2, <3>3, KeptSingle
  <2>2. CASE ~(a >= 0)
    <3>1. R = <<>>
      BY <2>2 DEF Select
    <3> QED  BY <3>1, EmptySeq, KeptSingle
  <2> QED  BY <2>1, <2>2
<1>4. setInterface(c, i, a) = (P \o Q) \o R
  BY DEF setInterface, Ifc
<1>5. Library!setInterface(c, i, a) = (L \o Q) \o R
  BY DEF Library!setInterface, Ifc, Select
<1> HIDE DEF P, Q, R, L
<1>6. P \o Q \in Seq(Steps) /\ KeptOf(P \o Q) = L \o Q
  BY <1>1, <1>2, StepsJoin, KeptJoins
<1>7. (P \o Q) \o R \in Seq(Steps) /\ KeptOf((P \o Q) \o R) = (L \o Q) \o R
  <2> DEFINE PQ == P \o Q
  <2>1. PQ \in Seq(Steps)
    BY <1>6
  <2> HIDE DEF PQ
  <2>2. PQ \o R \in Seq(Steps) /\ KeptOf(PQ \o R) = KeptOf(PQ) \o KeptOf(R)
    BY <1>3, <2>1, StepsJoin, KeptJoins
  <2> QED  BY <1>3, <1>6, <2>2 DEF PQ
<1> QED  BY <1>4, <1>5, <1>7

(* The operators that Configuration takes from the same modules.            *)
LEMMA SameOperators ==
  ASSUME NEW s
  PROVE  /\ Library!FlattenSeq(s) = FlattenSeq(s)
         /\ Library!Cardinality(s) = Cardinality(s)
<1>1. Library!FlattenSeq(s) = FlattenSeq(s)
  BY DEF Library!FlattenSeq, FlattenSeq
<1>2. Library!Cardinality(s) = Cardinality(s)
  BY DEF Library!Cardinality, Cardinality
<1> QED  BY <1>1, <1>2

(* ... the loop over the interfaces ...                                     *)
LEMMA SetInterfacesKept ==
  ASSUME NEW c \in DOMAIN Tree, NEW a,
         \A i \in DOMAIN Tree[c] :
           /\ a \in AltsOf(c, i)
           /\ activeAlternate[c][i] \in AltsOf(c, i)
           /\ a = -1 => activeAlternate[c][i] # -1
  PROVE  /\ SetInterfaces(c, a) \in Seq(Steps)
         /\ KeptOf(SetInterfaces(c, a)) = Library!AllInterfaces(c, a)
<1> DEFINE I == DOMAIN Tree[c]
           n == Cardinality(I)
           ss == [k \in 1 .. n |-> setInterface(c, k - 1, a)]
           tt == [k \in 1 .. n |-> Library!setInterface(c, k - 1, a)]
<1>1. n \in Nat /\ I = 0 .. (n - 1)
  BY TreeAssumption, FS_CardinalityType
<1>2. SetInterfaces(c, a) = FlattenSeq(ss)
  BY DEF SetInterfaces
<1>3. Library!AllInterfaces(c, a) = FlattenSeq(tt)
  BY SameOperators DEF Library!AllInterfaces
<1> HIDE DEF n
<1>4. \A k \in 1 .. n : /\ setInterface(c, k - 1, a) \in Seq(Steps)
                        /\ KeptOf(setInterface(c, k - 1, a)) = Library!setInterface(c, k - 1, a)
  <2> TAKE k \in 1 .. n
  <2>1. k - 1 \in I
    BY <1>1
  <2> QED  BY <2>1, setInterfaceKept
<1>5. /\ ss \in [1 .. n -> Seq(Steps)] /\ tt \in [1 .. n -> Seq(Steps)]
      /\ \A k \in 1 .. n : KeptOf(ss[k]) = tt[k]
  <2>1. \A k \in 1 .. n : Library!setInterface(c, k - 1, a) \in Seq(Steps)
    BY <1>4, KeepsTyped
  <2> QED  BY <1>4, <2>1
<1> HIDE DEF ss, tt
<1>6. KeptOf(FlattenSeq(ss)) = FlattenSeq(tt)
  BY <1>1, <1>5, KeptFlatten
<1>7. FlattenSeq(ss) \in Seq(Steps)
  <2>1. PICK f : JoinedUpTo(f, ss, Steps, n)
    BY <1>1, <1>5, FlattenPrefixes
  <2>2. n \in 0 .. n
    BY <1>1
  <2> QED  BY <2>1, <2>2 DEF JoinedUpTo
<1> QED  BY <1>2, <1>3, <1>6, <1>7

(* What is left of the acknowledgement and of the request that goes to the  *)
(* device.                                                                  *)
LEMMA EndKept ==
  ASSUME NEW r \in Requests,
         r.kind = "configuration" => r.value - 1 \in DOMAIN Tree
  PROVE  /\ <<Plain("acknowledge"), [do |-> "forward", request |-> r]>> \in Seq(Steps)
         /\ KeptOf(<<Plain("acknowledge"), [do |-> "forward", request |-> r]>>) =
              <<[do |-> "forward", request |-> r]>>
<1> DEFINE a == Plain("acknowledge")
           f == [do |-> "forward", request |-> r]
           A == <<a>>
           F == <<f>>
<1>1. a \in Steps /\ f \in Steps
  BY TailSteps
<1>2. ~Kept(a) /\ Kept(f)
  BY DEF Kept, Plain
<1> HIDE DEF a, f
<1>3. A \in Seq(Steps) /\ F \in Seq(Steps) /\ KeptOf(A) = <<>> /\ KeptOf(F) = F
  BY <1>1, <1>2, KeptSingle
<1>4. A \o F = <<a, f>>
  BY <1>1, OnesJoin
<1> HIDE DEF A, F
<1>5. A \o F \in Seq(Steps) /\ KeptOf(A \o F) = KeptOf(A) \o KeptOf(F)
  BY <1>3, StepsJoin, KeptJoins
<1>6. <<>> \o F = F
  BY <1>3, ConcatEmptySeq
<1> QED  BY <1>3, <1>4, <1>5, <1>6 DEF F, a, f

(* ... SET_CONFIGURATION ...                                                *)
LEMMA ConfigurationKept ==
  ASSUME TreeTyped, Selected, NEW r \in Requests, r.kind = "configuration",
         Sensible(r)
  PROVE  KeptOf(ep0_loop(r)) = Library!ep0Request(r)
<1> DEFINE c == r.value - 1
           d == activeConfiguration
           P == IF d \notin {c, -1} /\ c >= 0 THEN SetInterfaces(d, -1) ELSE <<>>
           Q == SetInterfaces(c, 0)
           R == <<Cfg(c)>>
           S == <<Plain("configure")>>
           F == <<[do |-> "forward", request |-> r]>>
           T == <<Plain("acknowledge"), [do |-> "forward", request |-> r]>>
           leave == IF d # c /\ d >= 0 /\ c >= 0 THEN Library!AllInterfaces(d, -1)
                                                 ELSE <<>>
           enter == Library!AllInterfaces(c, 0)
<1>1. c \in DOMAIN Tree /\ c # d
  BY DEF Sensible
<1>2. /\ c >= 0 /\ (\A i \in DOMAIN Tree[c] : 0 \in DOMAIN Tree[c][i])
      /\ d # -1 => d \in DOMAIN Tree /\ d >= 0
  BY <1>1, TreeAssumption DEF TreeTyped
<1>3. P \in Seq(Steps) /\ KeptOf(P) = leave
  <2>1. CASE d = -1
    <3>1. P = <<>> /\ leave = <<>>
      BY <2>1
    <3> QED  BY <3>1, EmptySeq, KeptSingle
  <2>2. CASE d # -1
    <3>1. d \in DOMAIN Tree /\ P = SetInterfaces(d, -1) /\ leave = Library!AllInterfaces(d, -1)
      BY <1>1, <1>2, <2>2
    <3>2. \A i \in DOMAIN Tree[d] : /\ -1 \in AltsOf(d, i)
                                    /\ activeAlternate[d][i] \in AltsOf(d, i)
                                    /\ activeAlternate[d][i] # -1
      BY <2>2, <3>1 DEF TreeTyped, Selected, AltsOf
    <3> QED  BY <3>1, <3>2, SetInterfacesKept
  <2> QED  BY <2>1, <2>2
<1>4. Q \in Seq(Steps) /\ KeptOf(Q) = enter
  <2>1. \A i \in DOMAIN Tree[c] : /\ 0 \in AltsOf(c, i)
                                  /\ activeAlternate[c][i] \in AltsOf(c, i)
    BY <1>1, <1>2 DEF TreeTyped, AltsOf
  <2> QED  BY <1>1, <2>1, SetInterfacesKept
<1>5. R \in Seq(Steps) /\ KeptOf(R) = R
  <2>1. Cfg(c) \in Steps /\ Kept(Cfg(c))
    BY <1>1, TreeStepIn DEF Kept, Cfg
  <2> QED  BY <2>1, KeptSingle
<1>6. S \in Seq(Steps) /\ KeptOf(S) = S
  <2>1. Plain("configure") \in Steps /\ Kept(Plain("configure"))
    BY <1>1, TailSteps DEF Kept, Plain
  <2> QED  BY <2>1, KeptSingle
<1>7. T \in Seq(Steps) /\ KeptOf(T) = F
  BY <1>1, EndKept
<1>8. ep0_loop(r) = (((P \o Q) \o R) \o S) \o T
  BY DEF ep0_loop, ep0_request, setConfiguration, Plain, Cfg
<1>9. Library!ep0Request(r) = (((leave \o enter) \o R) \o S) \o F
  BY DEF Library!ep0Request, Library!setConfiguration, Plain, Cfg
<1> HIDE DEF P, Q, R, S, T, F, leave, enter
<1> DEFINE X == P \o Q
           Y == X \o R
           Z == Y \o S
<1>10. X \in Seq(Steps) /\ KeptOf(X) = leave \o enter
  BY <1>3, <1>4, StepsJoin, KeptJoins
<1> HIDE DEF X
<1>11. Y \in Seq(Steps) /\ KeptOf(Y) = (leave \o enter) \o R
  BY <1>5, <1>10, StepsJoin, KeptJoins
<1> HIDE DEF Y
<1>12. Z \in Seq(Steps) /\ KeptOf(Z) = ((leave \o enter) \o R) \o S
  BY <1>6, <1>11, StepsJoin, KeptJoins
<1> HIDE DEF Z
<1>13. KeptOf(Z \o T) = (((leave \o enter) \o R) \o S) \o F
  BY <1>7, <1>12, KeptJoins
<1> QED  BY <1>8, <1>9, <1>13 DEF X, Y, Z

(* ... and SET_INTERFACE.                                                   *)
LEMMA InterfaceKept ==
  ASSUME TreeTyped, NEW r \in Requests, r.kind = "interface", Sensible(r)
  PROVE  KeptOf(ep0_loop(r)) = Library!ep0Request(r)
<1> DEFINE c == activeConfiguration
           P == setInterface(c, r.index, r.value)
           L == Library!setInterface(c, r.index, r.value)
           T == <<Plain("acknowledge"), [do |-> "forward", request |-> r]>>
           F == <<[do |-> "forward", request |-> r]>>
<1>1. /\ c \in DOMAIN Tree /\ r.index \in DOMAIN Tree[c]
      /\ r.value \in DOMAIN Tree[c][r.index] /\ r.value # -1
  BY TreeAssumption DEF Sensible
<1>2. P \in Seq(Steps) /\ KeptOf(P) = L
  BY <1>1, setInterfaceKept DEF TreeTyped, AltsOf
<1>3. T \in Seq(Steps) /\ KeptOf(T) = F
  BY EndKept
<1>4. ep0_loop(r) = P \o T
  BY DEF ep0_loop, ep0_request, Plain
<1>5. Library!ep0Request(r) = L \o F
  BY DEF Library!ep0Request
<1> HIDE DEF P, L, T, F
<1>6. KeptOf(P \o T) = L \o F
  BY <1>2, <1>3, KeptJoins
<1> QED  BY <1>4, <1>5, <1>6

(* The other requests leave nothing.                                        *)
LEMMA OtherKept ==
  ASSUME NEW r \in Requests, r.kind \in {"in", "out"}
  PROVE  KeptOf(ep0_loop(r)) = <<>>
<1> DEFINE x == IF r.kind = "in" THEN Plain("transfer") ELSE Plain("acknowledge")
           y == IF r.kind = "in" THEN Plain("answer") ELSE [do |-> "pass", request |-> r]
           X == <<x>>
           Y == <<y>>
<1>1. x \in Steps /\ y \in Steps
  BY TailSteps
<1>2. ~Kept(x) /\ ~Kept(y)
  BY DEF Kept, Plain
<1>3. r.kind = "in" => ep0_loop(r) = <<Plain("transfer")>> \o <<Plain("answer")>>
  BY DEF ep0_loop, ep0_request, Plain
<1>4. r.kind # "in" =>
        ep0_loop(r) = <<>> \o <<Plain("acknowledge"), [do |-> "pass", request |-> r]>>
  BY DEF ep0_loop, ep0_request, Plain
<1>5. ep0_loop(r) = X \o Y
  <2>1. CASE r.kind = "in"
    BY <1>3, <2>1
  <2>2. CASE r.kind # "in"
    <3>1. X \o Y = <<x, y>>
      <4> HIDE DEF x, y
      <4> QED  BY <1>1, OnesJoin
    <3>2. <<x, y>> \in Seq(Steps)
      <4> HIDE DEF x, y
      <4> QED  BY <1>1
    <3> DEFINE w == <<x, y>>
    <3>3. <<>> \o w = w
      <4>1. w \in Seq(Steps)
        BY <3>2
      <4> HIDE DEF w
      <4> QED  BY <4>1, ConcatEmptySeq
    <3>4. w = <<Plain("acknowledge"), [do |-> "pass", request |-> r]>>
      BY <2>2
    <3> QED  BY <1>4, <2>2, <3>1, <3>3, <3>4
  <2> QED  BY <2>1, <2>2
<1> HIDE DEF x, y
<1>6. X \in Seq(Steps) /\ Y \in Seq(Steps) /\ KeptOf(X) = <<>> /\ KeptOf(Y) = <<>>
  BY <1>1, <1>2, KeptSingle
<1> HIDE DEF X, Y
<1>7. KeptOf(X \o Y) = <<>> \o <<>>
  BY <1>6, KeptJoins
<1>8. <<>> \o <<>> = <<>>
  BY EmptySeq, ConcatEmptySeq
<1> QED  BY <1>5, <1>7, <1>8

-----------------------------------------------------------------------------
(* The handles and the open endpoints. *)

\* No two handles are taken by endpoints of one address, nor by one endpoint.
AddressInv ==
  \A h, k \in Handles : owner[h] # NoEndpoint /\ owner[k] # NoEndpoint =>
    (Address[owner[h]] = Address[owner[k]] => h = k)

(* A free handle has no endpoint, and one that is taken an open one.         *)
LEMMA OpenOwns ==
  ASSUME IInv
  PROVE  /\ \A h \in Handles : owner[h] # NoEndpoint => owner[h] \in OpenEndpoints
         /\ \A f \in OpenEndpoints : /\ f \in Endpoints /\ f # NoEndpoint
                                     /\ \E h \in Handles : owner[h] = f
<1>1. owner \in [Handles -> Endpoints \cup {NoEndpoint}]
  BY DEF IInv, WorkInv, WorkTyped, TypeOK
<1> QED  BY <1>1, NoEndpointApart DEF OpenEndpoints

(* If no handle is free, each address is that of an open endpoint, unless    *)
(* there are fewer handles than addresses.                                   *)
LEMMA AllAddressesOpen ==
  ASSUME IInv, AddressInv, EnoughHandles, \A h \in Handles : owner[h] # NoEndpoint,
         NEW e \in Endpoints
  PROVE  \E h \in Handles : Address[owner[h]] = Address[e]
<1> DEFINE T == {Address[f] : f \in Endpoints}
           g == [h \in Handles |-> Address[owner[h]]]
<1>1. IsFiniteSet(T) /\ Cardinality(T) <= NumHandles
  BY DEF EnoughHandles
<1>2. \A h \in Handles : owner[h] \in Endpoints
  BY DEF IInv, WorkInv, WorkTyped, TypeOK
<1>3. g \in [Handles -> T]
  BY <1>2
<1>4. \A h, k \in Handles : g[h] = g[k] => h = k
  BY DEF AddressInv
<1>5. Address[e] \in T
  OBVIOUS
<1> HIDE DEF T
<1>6. g \in Injection(Handles, T)
  BY <1>3, <1>4 DEF Injection, IsInjective
<1>7. NumHandles \in Nat /\ NumHandles - 1 \in Int /\ Handles = 0 .. (NumHandles - 1)
  BY PassthroughAssumption DEF Handles
<1>8. Cardinality(Handles) = NumHandles
  <2>1. Cardinality(Handles) = IF 0 > NumHandles - 1 THEN 0 ELSE (NumHandles - 1) - 0 + 1
    BY <1>7, FS_Interval
  <2> QED  BY <1>7, <2>1, PassthroughAssumption
<1>9. Cardinality(T) \in Nat /\ Cardinality(Handles) <= Cardinality(T)
  <2> HIDE DEF g
  <2> QED  BY <1>1, <1>6, FS_Injection, FS_CardinalityType
<1>10. Cardinality(Handles) = Cardinality(T)
  BY <1>1, <1>7, <1>8, <1>9
<1>11. g \in Surjection(Handles, T)
  <2> HIDE DEF g
  <2> QED  BY <1>1, <1>6, <1>10, FS_Injection
<1>12. PICK h \in Handles : g[h] = Address[e]
  <2> HIDE DEF g
  <2> QED  BY <1>5, <1>11 DEF Surjection
<1> QED  BY <1>12

(* usb_raw_ep_enable takes a handle for an endpoint whose address is not in  *)
(* use, or ends the process if it is.                                        *)
LEMMA EnableOpens ==
  ASSUME IInv, AddressInv, EnoughHandles, Enable
  PROVE  LET e == Head(steps).ep
         IN  \/ /\ ended' = "enable" /\ owner' = owner
                /\ \E f \in OpenEndpoints : Address[f] = Address[e]
             \/ /\ ended' = ended /\ OpenEndpoints' = OpenEndpoints \cup {e}
                /\ ~\E f \in OpenEndpoints : Address[f] = Address[e]
                /\ AddressInv'
<1> DEFINE e == Head(steps).ep
           free == {k \in Handles : owner[k] = NoEndpoint}
           used == {Address[owner[k]] : k \in Handles \ free}
           h == CHOOSE k \in free : \A j \in free : k <= j
<1>1. e \in Endpoints
  BY StepsTail, StepShape DEF Enable, Doing, IInv, TreeInv, EpSteps
<1>2. owner \in [Handles -> Endpoints \cup {NoEndpoint}]
  BY DEF IInv, WorkInv, WorkTyped, TypeOK
<1>3. CASE free = {} \/ Address[e] \in used
  <2>1. ended' = "enable" /\ owner' = owner
    BY <1>3 DEF Enable
  <2>2. \E k \in Handles : owner[k] # NoEndpoint /\ Address[owner[k]] = Address[e]
    <3>1. CASE free = {}
      <4>1. \A k \in Handles : owner[k] # NoEndpoint
        BY <3>1
      <4> QED  BY <1>1, <4>1, AllAddressesOpen
    <3>2. CASE Address[e] \in used
      BY <3>2
    <3> QED  BY <1>3, <3>1, <3>2
  <2> QED  BY <2>1, <2>2, OpenOwns
<1>4. CASE free # {} /\ Address[e] \notin used
  <2>1. owner' = [owner EXCEPT ![h] = e] /\ ended' = ended
    BY <1>4 DEF Enable
  <2>2. h \in Handles /\ owner[h] = NoEndpoint
    <3>1. free \in SUBSET Nat
      BY PassthroughAssumption DEF Handles
    <3>2. h \in free
      BY <1>4, <3>1, LeastOf, Zenon
    <3> QED  BY <3>2
  <2>3. \A k \in Handles : owner[k] # NoEndpoint => Address[owner[k]] # Address[e]
    BY <1>4
  <2> HIDE DEF h
  <2>4. /\ owner'[h] = e
        /\ \A k \in Handles : k # h => owner'[k] = owner[k]
    BY <1>2, <2>1, <2>2
  <2>5. ~\E f \in OpenEndpoints : Address[f] = Address[e]
    BY <2>3, OpenOwns
  <2>6. OpenEndpoints' = OpenEndpoints \cup {e}
    <3>1. \A f \in Endpoints : (\E k \in Handles : owner'[k] = f) <=>
                                 (\E k \in Handles : owner[k] = f) \/ f = e
      BY <2>2, <2>4, NoEndpointApart
    <3> QED  BY <1>1, <3>1 DEF OpenEndpoints
  <2>7. AddressInv'
    <3> SUFFICES ASSUME NEW j \in Handles, NEW k \in Handles,
                        owner'[j] # NoEndpoint, owner'[k] # NoEndpoint,
                        Address[owner'[j]] = Address[owner'[k]]
                 PROVE  j = k
      BY DEF AddressInv
    <3> QED  BY <2>3, <2>4 DEF AddressInv
  <2> QED  BY <2>1, <2>5, <2>6, <2>7
<1> QED  BY <1>3, <1>4

(* usb_raw_ep_disable gives back the only handle of its endpoint.           *)
LEMMA DisableCloses ==
  ASSUME IInv, AddressInv, Disable
  PROVE  OpenEndpoints' = OpenEndpoints \ {Head(steps).ep} /\ AddressInv'
<1> DEFINE e == Head(steps).ep
           h == ep_int[e]
<1>1. e \in Endpoints /\ h \in Handles /\ owner[h] = e
  BY StepsTail, StepShape
     DEF Disable, Doing, IInv, TreeInv, EpSteps, WorkInv, HeadOwned, Owned
<1>2. owner' = [owner EXCEPT ![h] = NoEndpoint]
  BY DEF Disable
<1>3. owner \in [Handles -> Endpoints \cup {NoEndpoint}]
  BY DEF IInv, WorkInv, WorkTyped, TypeOK
<1> HIDE DEF e, h
<1>4. /\ owner'[h] = NoEndpoint
      /\ \A k \in Handles : k # h => owner'[k] = owner[k]
  BY <1>1, <1>2, <1>3
<1>5. \A k \in Handles : owner[k] = e => k = h
  BY <1>1, NoEndpointApart DEF AddressInv
<1>6. \A f \in Endpoints : (\E k \in Handles : owner'[k] = f) <=>
                             (\E k \in Handles : owner[k] = f) /\ f # e
  BY <1>1, <1>4, <1>5, NoEndpointApart
<1>7. OpenEndpoints' = OpenEndpoints \ {e}
  BY <1>6 DEF OpenEndpoints
<1>8. AddressInv'
  BY <1>4 DEF AddressInv
<1> QED  BY <1>7, <1>8 DEF e

-----------------------------------------------------------------------------
(* Every step is one of Configuration, or none. *)

(* The library starts as the program does.                                  *)
LEMMA InitMaps == Init => Library!Init /\ AddressInv
<1> SUFFICES ASSUME Init
             PROVE  Library!Init /\ AddressInv
  OBVIOUS
<1>1. \A h \in Handles : owner[h] = NoEndpoint
  BY DEF Init
<1>2. OpenEndpoints = {}
  BY <1>1, NoEndpointApart DEF OpenEndpoints
<1>3. KeptOf(steps) = <<>>
  BY KeptSingle DEF Init
<1>4. Library!Init
  BY <1>2, <1>3 DEF Init, Library!Init, Library!AltsZero
<1> QED  BY <1>1, <1>4 DEF AddressInv

(* What is not seen there.                                                  *)
LEMMA NothingSeen ==
  ASSUME ended # "enable", ended' # "enable", OpenEndpoints' = OpenEndpoints,
         KeptOf(steps') = KeptOf(steps), UNCHANGED <<infoVars, device, failed>>
  PROVE  UNCHANGED Library!vars
BY DEF Library!vars, Library!infoVars, infoVars

(* A step of a request that is kept is the next one there, and one that is   *)
(* not changes nothing there.                                               *)
LEMMA StepSeen ==
  ASSUME IInv, steps # <<>>, steps' = Tail(steps)
  PROVE  IF Kept(Head(steps))
           THEN /\ KeptOf(steps) # <<>> /\ Head(KeptOf(steps)) = Head(steps)
                /\ KeptOf(steps') = Tail(KeptOf(steps))
           ELSE KeptOf(steps') = KeptOf(steps)
<1>1. steps \in Seq(Steps)
  BY DEF IInv, TreeInv
<1> QED  BY <1>1, KeptTail

(* The transfers, the answers, and the stop and the end of a worker.         *)
LEMMA HiddenStep ==
  ASSUME IInv, Runs, Transfer \/ Answer \/ Stop \/ Join
  PROVE  UNCHANGED Library!vars /\ owner' = owner
<1>1. /\ steps # <<>> /\ steps' = Tail(steps) /\ ~Kept(Head(steps))
      /\ UNCHANGED <<ended, infoVars, device, failed, owner>>
  BY DEF Transfer, Answer, Stop, Join, Doing, Kept
<1>2. OpenEndpoints' = OpenEndpoints
  BY <1>1 DEF OpenEndpoints
<1>3. ended # "enable"
  BY DEF Runs
<1> QED  BY <1>1, <1>2, <1>3, StepSeen, NothingSeen

(* main, the workers and the callbacks.                                     *)
LEMMA ThreadStep ==
  ASSUME MainStage \/ MainFails \/ CbWritten \/ AnswerFails \/
           (\E e \in Endpoints : Worker(e) \/ Callback(e))
  PROVE  /\ UNCHANGED <<infoVars, steps, device, failed, owner>>
         /\ ended' \in {ended, "main", "submit", "ep0"}
<1>1. CASE MainStage \/ MainFails \/ CbWritten \/ AnswerFails
  BY <1>1 DEF MainStage, MainFails, AnswerFails, Exit, CbWritten
<1>2. ASSUME NEW e \in Endpoints, Callback(e)
      PROVE  UNCHANGED <<infoVars, steps, device, failed, owner, ended>>
  BY <1>2 DEF Callback, cb_transfer_out, cb_transfer_in, CbFailed, Returned
<1>3. ASSUME NEW e \in Endpoints, Worker(e)
      PROVE  /\ UNCHANGED <<infoVars, steps, device, failed, owner>>
             /\ ended' \in {ended, "submit"}
  <2>1. CASE SubmitFails(e)
    BY <2>1 DEF SubmitFails, Exit, Unchanging
  <2>2. CASE ~SubmitFails(e)
    <3>1. UNCHANGED Unchanging
      BY <1>3, <2>2 DEF Worker, EndThread, ep_in_work_interrupt,
         ep_in_work_isochronous, ep_out_work_interrupt, Read, Submit
    <3> QED  BY <3>1 DEF Unchanging
  <2> QED  BY <2>1, <2>2
<1> QED  BY <1>1, <1>2, <1>3

LEMMA ThreadMaps ==
  ASSUME Runs, MainStage \/ MainFails \/ CbWritten \/ AnswerFails \/
                 (\E e \in Endpoints : Worker(e) \/ Callback(e))
  PROVE  UNCHANGED Library!vars /\ owner' = owner
<1>1. /\ UNCHANGED <<infoVars, steps, device, failed, owner>>
      /\ ended' \in {ended, "main", "submit", "ep0"}
  BY ThreadStep
<1>2. OpenEndpoints' = OpenEndpoints
  BY <1>1 DEF OpenEndpoints
<1>3. ended # "enable" /\ ended' # "enable"
  BY <1>1 DEF Runs
<1> QED  BY <1>1, <1>2, <1>3, NothingSeen

(* The records.                                                             *)
LEMMA RecordMaps ==
  ASSUME IInv, Runs, Record
  PROVE  Library!Step /\ owner' = owner
<1>1. /\ steps # <<>> /\ steps' = Tail(steps) /\ Kept(Head(steps))
      /\ UNCHANGED <<ended, device, failed, owner>>
  BY DEF Record, Doing, Kept
<1>2. /\ KeptOf(steps) # <<>> /\ Head(KeptOf(steps)) = Head(steps)
      /\ KeptOf(steps)' = Tail(KeptOf(steps))
  BY <1>1, StepSeen
<1>3. OpenEndpoints' = OpenEndpoints
  BY <1>1 DEF OpenEndpoints
<1> HIDE DEF KeptOf, OpenEndpoints
<1>4. CASE Head(steps).do = "alternate"
  <2>1. Library!AlternateStep
    BY <1>1, <1>2, <1>3, <1>4 DEF Record, Doing, Library!AlternateStep, Library!Doing
  <2> QED  BY <1>1, <2>1 DEF Library!Step
<1>5. CASE Head(steps).do = "interface"
  <2>1. Library!InterfaceStep
    BY <1>1, <1>2, <1>3, <1>5 DEF Record, Doing, Library!InterfaceStep, Library!Doing
  <2> QED  BY <1>1, <2>1 DEF Library!Step
<1>6. CASE Head(steps).do = "configuration"
  <2>1. Library!ConfigurationStep
    BY <1>1, <1>2, <1>3, <1>6 DEF Record, Doing, Library!ConfigurationStep, Library!Doing
  <2> QED  BY <1>1, <2>1 DEF Library!Step
<1>7. CASE Head(steps).do = "configure"
  <2>1. Library!ConfigureStep
    BY <1>1, <1>2, <1>3, <1>7
       DEF Record, Doing, Library!ConfigureStep, Library!Doing, Library!infoVars
  <2> QED  BY <1>1, <2>1 DEF Library!Step
<1> QED  BY <1>4, <1>5, <1>6, <1>7 DEF Record, Doing

(* The device is told of an alternate ...                                   *)
LEMMA SelectMaps ==
  ASSUME IInv, Runs, SelectStep
  PROVE  Library!Step /\ owner' = owner
<1>1. /\ steps # <<>> /\ steps' = Tail(steps) /\ Kept(Head(steps))
      /\ Head(steps).do = "select"
      /\ UNCHANGED <<ended, infoVars, owner>>
      /\ \/ /\ device.config = Head(steps).c
            /\ device' = [device EXCEPT !.alt[Head(steps).i] = Head(steps).a]
         \/ UNCHANGED device
      /\ failed' = failed \/ failed' = failed \cup {"select"}
  BY DEF SelectStep, Doing, Kept
<1>2. /\ KeptOf(steps) # <<>> /\ Head(KeptOf(steps)) = Head(steps)
      /\ KeptOf(steps)' = Tail(KeptOf(steps))
  BY <1>1, StepSeen
<1>3. OpenEndpoints' = OpenEndpoints
  BY <1>1 DEF OpenEndpoints
<1>4. ("forward" \in failed)' = ("forward" \in failed)
  BY <1>1
<1> HIDE DEF KeptOf, OpenEndpoints
<1>5. Library!SelectStep
  BY <1>1, <1>2, <1>3, <1>4
     DEF Library!SelectStep, Library!Doing, Library!infoVars, infoVars
<1> QED  BY <1>1, <1>5 DEF Library!Step

(* ... and gets the request.                                                *)
LEMMA ForwardMaps ==
  ASSUME IInv, Runs, Forward
  PROVE  Library!Step /\ owner' = owner
<1> DEFINE r == Head(steps).request
<1>1. /\ steps # <<>> /\ steps' = Tail(steps) /\ Kept(Head(steps))
      /\ Head(steps).do = "forward"
      /\ UNCHANGED <<ended, infoVars, owner>>
      /\ \/ /\ \/ /\ r.kind = "configuration"
                  /\ device' = [config |-> r.value - 1,
                                alt |-> [i \in DOMAIN Tree[r.value - 1] |-> 0]]
               \/ /\ r.kind = "interface" /\ Understands(r)
                  /\ device' = [device EXCEPT !.alt[r.index] = r.value]
            /\ UNCHANGED failed
         \/ failed' = failed \cup {"forward"} /\ UNCHANGED device
  BY DEF Forward, Doing, Kept
<1>2. /\ KeptOf(steps) # <<>> /\ Head(KeptOf(steps)) = Head(steps)
      /\ KeptOf(steps)' = Tail(KeptOf(steps))
  BY <1>1, StepSeen
<1>3. OpenEndpoints' = OpenEndpoints
  BY <1>1 DEF OpenEndpoints
<1>4. Understands(r) => Library!Understands(r)
  BY DEF Understands, Library!Understands
<1>5. failed' = failed => ("forward" \in failed)' = ("forward" \in failed)
  OBVIOUS
<1>6. failed' = failed \cup {"forward"} => ("forward" \in failed)' = TRUE
  OBVIOUS
<1> HIDE DEF KeptOf, OpenEndpoints
<1>7. Library!ForwardStep
  BY <1>1, <1>2, <1>3, <1>4, <1>5, <1>6
     DEF Library!ForwardStep, Library!Doing, Library!infoVars, infoVars,
         Library!InConfiguration, Library!AltsZero
<1> QED  BY <1>1, <1>7 DEF Library!Step

(* An endpoint is opened ...                                                *)
LEMMA EnableMaps ==
  ASSUME IInv, AddressInv, EnoughHandles, Runs, Enable
  PROVE  Library!Step /\ AddressInv'
<1> DEFINE e == Head(steps).ep
<1>1. /\ steps # <<>> /\ steps' = Tail(steps) /\ Kept(Head(steps))
      /\ Head(steps).do = "enable"
      /\ UNCHANGED <<infoVars, device, failed>>
  BY DEF Enable, Doing, Kept
<1>2. /\ KeptOf(steps) # <<>> /\ Head(KeptOf(steps)) = Head(steps)
      /\ KeptOf(steps)' = Tail(KeptOf(steps))
  BY <1>1, StepSeen
<1>3. \/ /\ ended' = "enable" /\ owner' = owner
         /\ \E f \in OpenEndpoints : Address[f] = Address[e]
      \/ /\ ended' = ended /\ OpenEndpoints' = OpenEndpoints \cup {e}
         /\ ~\E f \in OpenEndpoints : Address[f] = Address[e]
         /\ AddressInv'
  BY EnableOpens
<1>4. AddressInv'
  BY <1>3 DEF AddressInv
<1>5. owner' = owner => OpenEndpoints' = OpenEndpoints
  BY DEF OpenEndpoints
<1> HIDE DEF KeptOf, OpenEndpoints
<1>6. Library!EnableStep
  <2>1. CASE ended' = "enable" /\ owner' = owner
             /\ \E f \in OpenEndpoints : Address[f] = Address[e]
    <3>1. (ended # "enable")' = FALSE
      BY <2>1
    <3> QED  BY <1>1, <1>2, <1>5, <2>1, <3>1
                DEF Library!EnableStep, Library!Doing, Library!infoVars, infoVars
  <2>2. CASE ended' = ended /\ OpenEndpoints' = OpenEndpoints \cup {e}
             /\ ~\E f \in OpenEndpoints : Address[f] = Address[e]
    <3>1. (ended # "enable")' = (ended # "enable")
      BY <2>2
    <3> QED  BY <1>1, <1>2, <2>2, <3>1
                DEF Library!EnableStep, Library!Doing, Library!infoVars, infoVars
  <2> QED  BY <1>3, <2>1, <2>2
<1> QED  BY <1>4, <1>6 DEF Library!Step

(* ... and closed.                                                          *)
LEMMA DisableMaps ==
  ASSUME IInv, AddressInv, Runs, Disable
  PROVE  Library!Step /\ AddressInv'
<1>1. /\ steps # <<>> /\ steps' = Tail(steps) /\ Kept(Head(steps))
      /\ Head(steps).do = "disable"
      /\ UNCHANGED <<ended, infoVars, device, failed>>
  BY DEF Disable, Doing, Kept
<1>2. /\ KeptOf(steps) # <<>> /\ Head(KeptOf(steps)) = Head(steps)
      /\ KeptOf(steps)' = Tail(KeptOf(steps))
  BY <1>1, StepSeen
<1>3. OpenEndpoints' = OpenEndpoints \ {Head(steps).ep} /\ AddressInv'
  BY DisableCloses
<1> HIDE DEF KeptOf, OpenEndpoints
<1>4. Library!DisableStep
  BY <1>1, <1>2, <1>3 DEF Library!DisableStep, Library!Doing, Library!infoVars, infoVars
<1> QED  BY <1>3, <1>4 DEF Library!Step

(* A request of the tree is one there; of the others nothing is seen.        *)
LEMMA RequestMaps ==
  ASSUME IInv, Runs, NEW r \in Requests, Request(r)
  PROVE  /\ owner' = owner
         /\ \/ \E q \in {x \in Requests : x.kind \in {"configuration", "interface"}} :
                 Library!Request(q)
            \/ UNCHANGED Library!vars
<1>1. /\ steps = <<>> /\ Sensible(r) /\ steps' = ep0_loop(r)
      /\ UNCHANGED <<ended, infoVars, device, failed, owner>>
  BY DEF Request
<1>2. OpenEndpoints' = OpenEndpoints /\ KeptOf(steps) = <<>>
  BY <1>1, KeptSingle DEF OpenEndpoints
<1>3. TreeTyped /\ Selected
  <2>1. ToDo = {}
    BY <1>1 DEF ToDo, Range
  <2>2. TreeTyped
    BY DEF IInv, TreeInv
  <2>3. activeConfiguration # -1 => /\ activeConfiguration \in DOMAIN Tree
                                    /\ FinalConfiguration(activeConfiguration)
    BY <2>1, <2>2 DEF TreeTyped, FinalConfiguration
  <2>4. \A c \in DOMAIN Tree : FinalConfiguration(c) =>
          \A i \in DOMAIN Tree[c] : activeAlternate[c][i] # -1
    BY <2>1 DEF IInv, TreeInv, SelectedInv, FinalAlternate
  <2> QED  BY <2>2, <2>3, <2>4 DEF Selected
<1>4. CASE r.kind \in {"configuration", "interface"}
  <2>1. KeptOf(steps') = Library!ep0Request(r)
    BY <1>1, <1>3, <1>4, ConfigurationKept, InterfaceKept
  <2>2. Library!IndicesInRange(r)
    BY <1>1, <1>4 DEF Sensible, Library!IndicesInRange
  <2>3. ~Library!SelectsActive(r)
    BY <1>1, <1>4 DEF Sensible, Library!SelectsActive
  <2> HIDE DEF KeptOf, OpenEndpoints
  <2>4. Library!Request(r)
    BY <1>1, <1>2, <2>1, <2>2, <2>3 DEF Library!Request, Library!infoVars, infoVars
  <2> QED  BY <1>1, <1>4, <2>4
<1>5. CASE r.kind \notin {"configuration", "interface"}
  <2>1. r.kind \in {"in", "out"}
    BY <1>5, PassthroughAssumption
  <2>2. KeptOf(steps') = KeptOf(steps)
    BY <1>1, <1>2, <2>1, OtherKept
  <2>3. ended # "enable" /\ ended' # "enable"
    BY <1>1 DEF Runs
  <2> QED  BY <1>1, <1>2, <2>2, <2>3, NothingSeen
<1> QED  BY <1>4, <1>5

(* Every step is one of Configuration, or is not seen there.                *)
LEMMA NextMaps ==
  ASSUME IInv, AddressInv, EnoughHandles, [Next]_vars
  PROVE  [Library!Next]_(Library!vars) /\ AddressInv'
<1>1. owner' = owner => AddressInv'
  BY DEF AddressInv
<1>2. ASSUME Runs, Library!Step
      PROVE  Library!Next
  BY <1>2 DEF Runs, Library!Next
<1>3. CASE UNCHANGED vars
  <2>1. UNCHANGED <<ended, infoVars, steps, device, failed, owner>>
    BY <1>3 DEF vars
  <2>2. OpenEndpoints' = OpenEndpoints /\ KeptOf(steps') = KeptOf(steps)
    BY <2>1 DEF OpenEndpoints
  <2>3. (ended # "enable")' = (ended # "enable")
    BY <2>1
  <2> HIDE DEF KeptOf, OpenEndpoints
  <2>4. UNCHANGED Library!vars
    BY <2>1, <2>2, <2>3 DEF Library!vars, Library!infoVars, infoVars
  <2> QED  BY <1>1, <2>1, <2>4
<1>4. CASE Runs /\ (MainStage \/ MainFails \/ CbWritten \/ AnswerFails
                      \/ \E e \in Endpoints : Worker(e) \/ Callback(e))
  BY <1>1, <1>4, ThreadMaps
<1>5. ASSUME Runs, NEW r \in Requests, Request(r)
      PROVE  [Library!Next]_(Library!vars) /\ AddressInv'
  <2>1. CASE \E q \in {x \in Requests : x.kind \in {"configuration", "interface"}} :
               Library!Request(q)
    <3>1. Library!Next
      BY <1>5, <2>1 DEF Runs, Library!Next
    <3> QED  BY <1>1, <1>5, <3>1, RequestMaps
  <2>2. CASE UNCHANGED Library!vars
    BY <1>1, <1>5, <2>2, RequestMaps
  <2> QED  BY <1>5, <2>1, <2>2, RequestMaps
<1>6. CASE Ep0
  <2>1. CASE Transfer \/ Answer \/ Stop \/ Join
    BY <1>1, <1>6, <2>1, HiddenStep DEF Ep0
  <2>2. CASE Record \/ SelectStep \/ Forward
    BY <1>1, <1>2, <1>6, <2>2, RecordMaps, SelectMaps, ForwardMaps DEF Ep0
  <2>3. CASE Enable \/ Disable
    BY <1>2, <1>6, <2>3, EnableMaps, DisableMaps DEF Ep0
  <2> QED  BY <1>6, <2>1, <2>2, <2>3 DEF Ep0
<1>7. ASSUME NEW e \in Endpoints, Worker(e) \/ Callback(e)
      PROVE  Runs
  BY <1>7 DEF Worker, Callback
<1> QED  BY <1>3, <1>4, <1>5, <1>6, <1>7 DEF Next

(***************************************************************************)
(* The C program moves the tree as the library does: it implements module   *)
(* Configuration, whose theorems therefore hold of it, where opening and    *)
(* closing an endpoint is one step.  EnoughHandles: the library does not    *)
(* count the handles of the gadget driver.                                  *)
(***************************************************************************)
THEOREM ImplementsConfiguration ==
  ASSUME EnoughHandles
  PROVE  Spec => KeepsConfiguration
<1>1. Init => Library!Init /\ AddressInv
  BY InitMaps
<1>2. IInv /\ AddressInv /\ [Next]_vars => [Library!Next]_(Library!vars) /\ AddressInv'
  BY NextMaps
<1> QED
  BY <1>1, <1>2, Invariance, PTL DEF Spec, KeepsConfiguration, Library!Spec
=============================================================================
