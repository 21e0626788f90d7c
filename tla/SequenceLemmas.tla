--------------------------- MODULE SequenceLemmas ---------------------------
(***************************************************************************)
(* Facts about numbers and sequences that several proofs share: a set of    *)
(* natural numbers has a least element, and what FlattenSeq, with which     *)
(* PassthroughC and Configuration build their requests, does to a sequence  *)
(* of sequences.                                                            *)
(*                                                                         *)
(* FlattenSeq is a recursive function.  The facts about it are proved from  *)
(* the least number for which they would fail.                              *)
(***************************************************************************)
EXTENDS Integers, SequencesExt, SequenceTheorems, WellFoundedInduction, TLAPS

(* A set of natural numbers that is not empty has a least element. *)
LEMMA LeastNumber ==
  ASSUME NEW T \in SUBSET Nat, T # {}
  PROVE  \E x \in T : \A y \in T : x <= y
<1> DEFINE R == {ss \in Nat \X Nat : ss[1] < ss[2]}
<1>0. R = OpToRel(<, Nat)
  BY Zenon DEF OpToRel
<1>a. IsWellFoundedOn(R, Nat)
  BY <1>0, NatLessThanWellFounded, Zenon
<1>1. PICK x \in T : \A y \in T : ~ (<<y, x>> \in R)
  BY <1>a, WFMin
<1>2. \A a, b \in Nat : a < b => <<a, b>> \in R
  BY Zenon
<1> HIDE DEF R
<1>3. ASSUME NEW y \in T
      PROVE  x <= y
  <2>1. x \in Nat /\ y \in Nat
    OBVIOUS
  <2>2. y < x => <<y, x>> \in R
    BY <2>1, <1>2, Zenon
  <2>3. ~ (<<y, x>> \in R)
    BY <1>1, Zenon
  <2> QED  BY <2>1, <2>2, <2>3
<1> QED  BY <1>3

\* f is what the recursive definition in FlattenSeq makes of the first m.
Partial(f, ss, m) ==
  f = [i \in 1 .. m |-> IF i = 1 THEN ss[i] ELSE f[i - 1] \o ss[i]]

(* The recursive definition in FlattenSeq defines a function; if S has the   *)
(* sequences of ss and what can be joined from its members, it has the       *)
(* values of the function too.                                               *)
LEMMA PartialExists ==
  ASSUME NEW S, NEW n \in Nat, NEW ss \in [1 .. n -> S],
         \A a, b \in S : a \o b \in S
  PROVE  \E f \in [1 .. n -> S] : Partial(f, ss, n)
<1> DEFINE Fails == {m \in 0 .. n : ~\E f \in [1 .. m -> S] : Partial(f, ss, m)}
<1> SUFFICES ASSUME Fails # {}
             PROVE  FALSE
  OBVIOUS
<1>0. Fails \in SUBSET Nat
  OBVIOUS
<1>1. PICK m \in Fails : \A k \in Fails : m <= k
  BY <1>0, LeastNumber, Zenon
<1>2. m # 0
  <2>1. [i \in 1 .. 0 |-> i] \in [1 .. 0 -> S]
    OBVIOUS
  <2>2. Partial([i \in 1 .. 0 |-> i], ss, 0)
    BY DEF Partial
  <2> QED  BY <2>1, <2>2
<1>3. m - 1 \in 0 .. n /\ m \in 1 .. n
  BY <1>1, <1>2
<1>4. PICK g \in [1 .. (m - 1) -> S] : Partial(g, ss, m - 1)
  BY <1>1, <1>3
<1> DEFINE f == [i \in 1 .. m |->
                   IF i = m THEN IF m = 1 THEN ss[1] ELSE g[m - 1] \o ss[m]
                            ELSE g[i]]
<1>5. f \in [1 .. m -> S]
  BY <1>3
<1>6. Partial(f, ss, m)
  <2> SUFFICES ASSUME NEW i \in 1 .. m
               PROVE  f[i] = IF i = 1 THEN ss[i] ELSE f[i - 1] \o ss[i]
    BY DEF Partial
  <2>1. CASE i = m
    BY <2>1, <1>3
  <2>2. CASE i # m
    <3>1. i \in 1 .. (m - 1) /\ (i # 1 => i - 1 \in 1 .. (m - 1))
      BY <2>2, <1>3
    <3>2. g[i] = IF i = 1 THEN ss[i] ELSE g[i - 1] \o ss[i]
      <4>1. g = [j \in 1 .. (m - 1) |-> IF j = 1 THEN ss[j] ELSE g[j - 1] \o ss[j]]
        BY <1>4 DEF Partial
      <4> HIDE DEF Fails
      <4> QED  BY ONLY <4>1, <3>1, Zenon
    <3>3. f[i] = g[i]
      BY <2>2
    <3>4. i # 1 => f[i - 1] = g[i - 1]
      BY <3>1
    <3> HIDE DEF f
    <3> QED  BY <3>2, <3>3, <3>4
  <2> QED  BY <2>1, <2>2
<1> QED  BY <1>1, <1>5, <1>6

(* FlattenSeq returns the last value of that function.                       *)
LEMMA FlattenDefined ==
  ASSUME NEW S, NEW n \in Nat, NEW ss \in [1 .. n -> S],
         \A a, b \in S : a \o b \in S
  PROVE  \E f : /\ \A i \in 1 .. n : f[i] = IF i = 1 THEN ss[i]
                                               ELSE f[i - 1] \o ss[i]
               /\ FlattenSeq(ss) = IF n = 0 THEN <<>> ELSE f[n]
<1> DEFINE f == CHOOSE g : Partial(g, ss, n)
<1>1. Partial(f, ss, n)
  BY PartialExists
<1>2. Len(ss) = n
  OBVIOUS
<1>3. FlattenSeq(ss) = IF n = 0 THEN <<>> ELSE f[n]
  BY <1>2 DEF FlattenSeq, Partial
<1> HIDE DEF f
<1>4. \A i \in 1 .. n : f[i] = IF i = 1 THEN ss[i] ELSE f[i - 1] \o ss[i]
  BY <1>1, Zenon DEF Partial
<1> QED  BY <1>3, <1>4

(* If joining does not lead out of S, neither does FlattenSeq.               *)
LEMMA FlattenIn ==
  ASSUME NEW S, NEW n \in Nat, NEW ss \in [1 .. n -> S],
         <<>> \in S,
         \A a, b \in S : a \o b \in S
  PROVE  FlattenSeq(ss) \in S
<1>1. PICK f : /\ \A i \in 1 .. n : f[i] = IF i = 1 THEN ss[i]
                                               ELSE f[i - 1] \o ss[i]
               /\ FlattenSeq(ss) = IF n = 0 THEN <<>> ELSE f[n]
  BY FlattenDefined
<1> DEFINE Fails == {i \in 1 .. n : f[i] \notin S}
<1>2. ASSUME Fails # {}
      PROVE  FALSE
  <2>1. Fails \in SUBSET Nat
    OBVIOUS
  <2>2. PICK i \in Fails : \A k \in Fails : i <= k
    BY <1>2, <2>1, LeastNumber, Zenon
  <2>3. i \in 1 .. n /\ ss[i] \in S
    OBVIOUS
  <2>4. i # 1 => i - 1 \in 1 .. n /\ i - 1 \notin Fails
    BY <2>2, <2>3
  <2> QED  BY <1>1, <2>3, <2>4
<1> QED  BY <1>1, <1>2

(* What FlattenSeq returns has the entries of all the sequences ...          *)
LEMMA FlattenContains ==
  ASSUME NEW T, NEW n \in Nat, NEW ss \in [1 .. n -> Seq(T)], NEW k \in 1 .. n
  PROVE  Range(ss[k]) \subseteq Range(FlattenSeq(ss))
<1>1. \A a, b \in Seq(T) : a \o b \in Seq(T)
  BY ConcatProperties
<1>2. PICK f : /\ \A i \in 1 .. n : f[i] = IF i = 1 THEN ss[i]
                                               ELSE f[i - 1] \o ss[i]
               /\ FlattenSeq(ss) = IF n = 0 THEN <<>> ELSE f[n]
  BY <1>1, FlattenDefined
<1> DEFINE Untyped == {i \in 1 .. n : f[i] \notin Seq(T)}
<1>3. ASSUME Untyped # {}
      PROVE  FALSE
  <2>1. Untyped \in SUBSET Nat
    OBVIOUS
  <2>2. PICK i \in Untyped : \A j \in Untyped : i <= j
    BY <1>3, <2>1, LeastNumber, Zenon
  <2>3. i \in 1 .. n /\ ss[i] \in Seq(T)
    OBVIOUS
  <2>4. i # 1 => i - 1 \in 1 .. n /\ i - 1 \notin Untyped
    BY <2>2, <2>3
  <2> QED  BY <1>1, <1>2, <2>3, <2>4
<1>4. \A j \in 1 .. n : f[j] \in Seq(T)
  BY <1>3
<1> HIDE DEF Untyped
<1> DEFINE Misses == {i \in k .. n : ~(Range(ss[k]) \subseteq Range(f[i]))}
<1>5. ASSUME Misses # {}
      PROVE  FALSE
  <2>1. Misses \in SUBSET Nat
    OBVIOUS
  <2>2. PICK i \in Misses : \A j \in Misses : i <= j
    BY <1>5, <2>1, LeastNumber, Zenon
  <2>3. i \in k .. n /\ i \in 1 .. n /\ ss[i] \in Seq(T)
    OBVIOUS
  <2>4. i = 1 => k = i
    BY <2>3
  <2>5. i # 1 => i - 1 \in 1 .. n /\ f[i - 1] \in Seq(T)
    BY <1>4, <2>3
  <2>6. i # 1 => Range(f[i]) = Range(f[i - 1]) \cup Range(ss[i])
    <3> HAVE i # 1
    <3>1. f[i] = f[i - 1] \o ss[i]
      BY <1>2, <2>3
    <3> QED  BY <2>3, <2>5, <3>1, RangeConcatenation
  <2>7. i # k => i - 1 \in k .. n /\ i - 1 \notin Misses
    BY <2>2, <2>3
  <2> QED
    <3>1. CASE i = 1
      BY <3>1, <2>3, <2>4, <1>2
    <3>2. CASE i # 1
      BY <3>2, <2>3, <2>6, <2>7
    <3> QED  BY <3>1, <3>2
<1>6. n \in k .. n /\ n # 0
  OBVIOUS
<1> QED  BY <1>2, <1>5, <1>6

(* ... and no others.                                                        *)
LEMMA FlattenRange ==
  ASSUME NEW T, NEW n \in Nat, NEW ss \in [1 .. n -> Seq(T)],
         NEW U, \A k \in 1 .. n : Range(ss[k]) \subseteq U
  PROVE  Range(FlattenSeq(ss)) \subseteq U
<1> DEFINE S == {s \in Seq(T) : Range(s) \subseteq U}
<1>1. ss \in [1 .. n -> S]
  OBVIOUS
<1>2. <<>> \in S
  BY EmptySeq DEF Range
<1>3. \A a, b \in S : a \o b \in S
  BY RangeConcatenation, ConcatProperties
<1> HIDE DEF S
<1>4. FlattenSeq(ss) \in S
  BY <1>1, <1>2, <1>3, FlattenIn
<1> QED  BY <1>4 DEF S

(* If joining the k-th sequence leads from W[k - 1] to W[k], FlattenSeq leads
   from the empty sequence to the last of them.                              *)
LEMMA FlattenGrows ==
  ASSUME NEW T, NEW n \in Nat, NEW ss \in [1 .. n -> Seq(T)], NEW W,
         <<>> \in W[0],
         \A k \in 1 .. n : \A s \in Seq(T) : s \in W[k - 1] => s \o ss[k] \in W[k]
  PROVE  FlattenSeq(ss) \in W[n]
<1>1. \A a, b \in Seq(T) : a \o b \in Seq(T)
  BY ConcatProperties
<1>2. PICK f : /\ \A i \in 1 .. n : f[i] = IF i = 1 THEN ss[i]
                                               ELSE f[i - 1] \o ss[i]
               /\ FlattenSeq(ss) = IF n = 0 THEN <<>> ELSE f[n]
  BY <1>1, FlattenDefined
<1>3. 1 \in 1 .. n => ss[1] \in W[1]
  <2> HAVE 1 \in 1 .. n
  <2>1. ss[1] \in Seq(T) /\ <<>> \in Seq(T) /\ 1 - 1 = 0
    BY EmptySeq
  <2>2. <<>> \o ss[1] \in W[1]
    BY <2>1
  <2> QED  BY <2>1, <2>2, ConcatEmptySeq
<1> DEFINE Fails == {i \in 1 .. n : ~(f[i] \in Seq(T) /\ f[i] \in W[i])}
<1>4. ASSUME Fails # {}
      PROVE  FALSE
  <2>1. Fails \in SUBSET Nat
    OBVIOUS
  <2>2. PICK i \in Fails : \A j \in Fails : i <= j
    BY <1>4, <2>1, LeastNumber, Zenon
  <2>3. i \in 1 .. n /\ ss[i] \in Seq(T)
    OBVIOUS
  <2>4. i # 1 => i - 1 \in 1 .. n /\ i - 1 \notin Fails
    BY <2>2, <2>3
  <2> QED  BY <1>1, <1>2, <1>3, <2>3, <2>4
<1>5. CASE n = 0
  BY <1>2, <1>5
<1>6. CASE n # 0
  <2>1. n \in 1 .. n /\ n \notin Fails
    BY <1>4, <1>6
  <2> QED  BY <1>2, <1>6, <2>1
<1> QED  BY <1>5, <1>6
-----------------------------------------------------------------------------
(* Induction up to n: P has 0, and with each number the next.                *)
LEMMA UpTo ==
  ASSUME NEW n \in Nat, NEW P, 0 \in P, \A k \in 1 .. n : k - 1 \in P => k \in P
  PROVE  \A k \in 0 .. n : k \in P
<1> DEFINE Fails == {k \in 0 .. n : k \notin P}
<1> SUFFICES ASSUME Fails # {}
             PROVE  FALSE
  OBVIOUS
<1>1. Fails \in SUBSET Nat
  OBVIOUS
<1>2. PICK k \in Fails : \A j \in Fails : k <= j
  BY <1>1, LeastNumber, Zenon
<1>3. k \in 1 .. n /\ k - 1 \in 0 .. n
  BY <1>2
<1>4. k - 1 \in P
  BY <1>2, <1>3
<1> QED  BY <1>2, <1>3, <1>4

\* f[k] joins the first k of the n sequences of elements of T.
JoinedUpTo(f, ss, T, n) ==
  /\ \A k \in 0 .. n : f[k] \in Seq(T)
  /\ f[0] = <<>> /\ FlattenSeq(ss) = f[n]
  /\ \A k \in 1 .. n : f[k] = f[k - 1] \o ss[k]

(* FlattenSeq joins one sequence after the other to the empty one.          *)
LEMMA FlattenPrefixes ==
  ASSUME NEW T, NEW n \in Nat, NEW ss \in [1 .. n -> Seq(T)]
  PROVE  \E f : JoinedUpTo(f, ss, T, n)
<1> DEFINE S == Seq(T)
<1>1. <<>> \in S /\ (\A a, b \in S : a \o b \in S) /\ ss \in [1 .. n -> S]
  BY EmptySeq, ConcatProperties
<1>2. PICK g : /\ \A i \in 1 .. n : g[i] = IF i = 1 THEN ss[i] ELSE g[i - 1] \o ss[i]
               /\ FlattenSeq(ss) = IF n = 0 THEN <<>> ELSE g[n]
  <2> HIDE DEF S
  <2> QED  BY <1>1, FlattenDefined
<1> DEFINE f == [k \in 0 .. n |-> IF k = 0 THEN <<>> ELSE g[k]]
<1>3. \A k \in 1 .. n : f[k] = f[k - 1] \o ss[k]
  <2> TAKE k \in 1 .. n
  <2>1. CASE k = 1
    BY <2>1, <1>2, ConcatEmptySeq
  <2>2. CASE k # 1
    <3>1. k - 1 \in 1 .. n /\ k - 1 \in 0 .. n /\ k - 1 # 0 /\ k # 0 /\ k \in 0 .. n
      BY <2>2
    <3>2. g[k] = g[k - 1] \o ss[k]
      BY <1>2, <2>2
    <3> QED  BY <3>1, <3>2
  <2> QED  BY <2>1, <2>2
<1>4. f[0] = <<>> /\ FlattenSeq(ss) = f[n]
  BY <1>2
<1>5. \A k \in 0 .. n : f[k] \in S
  <2> DEFINE P == {k \in 0 .. n : f[k] \in S}
  <2>1. 0 \in P
    BY <1>1, <1>4
  <2>2. ASSUME NEW k \in 1 .. n, k - 1 \in P
        PROVE  k \in P
    <3>1. f[k - 1] \in S /\ ss[k] \in S /\ f[k] = f[k - 1] \o ss[k]
      BY <1>1, <1>3, <2>2
    <3> HIDE DEF f, S
    <3>2. f[k] \in S
      BY <1>1, <3>1
    <3> QED  BY <3>2
  <2>3. \A k \in 0 .. n : k \in P
    <3> HIDE DEF P
    <3> QED  BY <2>1, <2>2, UpTo
  <2> QED  BY <2>3
<1> HIDE DEF f
<1>6. JoinedUpTo(f, ss, T, n)
  BY <1>3, <1>4, <1>5 DEF JoinedUpTo
<1> QED  BY <1>6

(* \o is associative.                                                       *)
LEMMA Associates ==
  \A T : \A s, t, u \in Seq(T) : (s \o t) \o u = s \o (t \o u)
<1> TAKE T
<1> TAKE s, t, u \in Seq(T)
<1> QED  BY ConcatAssociative

\* cc consists of the sequences of aa and then those of bb.
Joins(T, n, m, aa, bb, cc) ==
  /\ n \in Nat /\ m \in Nat
  /\ aa \in [1 .. n -> Seq(T)] /\ bb \in [1 .. m -> Seq(T)]
  /\ cc \in [1 .. (n + m) -> Seq(T)]
  /\ \A k \in 1 .. n : cc[k] = aa[k]
  /\ \A k \in 1 .. m : cc[n + k] = bb[k]

(* Flattening a sequence that is made of two.                               *)
LEMMA FlattenJoins ==
  ASSUME NEW T, NEW n, NEW m, NEW aa, NEW bb, NEW cc, Joins(T, n, m, aa, bb, cc)
  PROVE  FlattenSeq(cc) = FlattenSeq(aa) \o FlattenSeq(bb)
<1> /\ n \in Nat /\ m \in Nat
    /\ aa \in [1 .. n -> Seq(T)] /\ bb \in [1 .. m -> Seq(T)]
    /\ cc \in [1 .. (n + m) -> Seq(T)]
    /\ \A k \in 1 .. n : cc[k] = aa[k]
    /\ \A k \in 1 .. m : cc[n + k] = bb[k]
  BY DEF Joins
<1>1. PICK f : JoinedUpTo(f, aa, T, n)
  BY FlattenPrefixes
<1>2. PICK g : JoinedUpTo(g, bb, T, m)
  BY FlattenPrefixes
<1>3. n + m \in Nat
  OBVIOUS
<1>4. PICK h : JoinedUpTo(h, cc, T, n + m)
  BY <1>3, FlattenPrefixes
<1>5. /\ \A k \in 0 .. n : f[k] \in Seq(T)
      /\ f[0] = <<>> /\ FlattenSeq(aa) = f[n]
      /\ \A k \in 1 .. n : f[k] = f[k - 1] \o aa[k]
  BY <1>1 DEF JoinedUpTo
<1>6. /\ \A k \in 0 .. m : g[k] \in Seq(T)
      /\ g[0] = <<>> /\ FlattenSeq(bb) = g[m]
      /\ \A k \in 1 .. m : g[k] = g[k - 1] \o bb[k]
  BY <1>2 DEF JoinedUpTo
<1>7. /\ h[0] = <<>> /\ FlattenSeq(cc) = h[n + m]
      /\ \A k \in 1 .. (n + m) : h[k] = h[k - 1] \o cc[k]
  BY <1>4 DEF JoinedUpTo
<1>8. h[n] = f[n]
  <2> DEFINE P == {k \in 0 .. n : h[k] = f[k]}
  <2>1. 0 \in P
    BY <1>5, <1>7
  <2>2. ASSUME NEW k \in 1 .. n, k - 1 \in P
        PROVE  k \in P
    <3>1. k \in 1 .. (n + m) /\ h[k - 1] = f[k - 1] /\ cc[k] = aa[k]
      BY <2>2
    <3>2. h[k] = f[k]
      BY <1>5, <1>7, <3>1
    <3> QED  BY <3>2
  <2>3. \A k \in 0 .. n : k \in P
    <3> HIDE DEF P
    <3> QED  BY <2>1, <2>2, UpTo
  <2> QED  BY <2>3
<1>9. h[n + m] = f[n] \o g[m]
  <2> DEFINE P == {k \in 0 .. m : h[n + k] = f[n] \o g[k]}
  <2>1. f[n] \in Seq(T) /\ 0 \in 0 .. m /\ n \in 0 .. n /\ m \in 0 .. m
    <3>1. n \in 0 .. n
      OBVIOUS
    <3> QED  BY <1>5, <3>1
  <2>2. 0 \in P
    <3>1. h[n + 0] = f[n] \o g[0]
      BY <1>6, <1>8, <2>1, ConcatEmptySeq
    <3> QED  BY <2>1, <3>1, Zenon
  <2>3. ASSUME NEW k \in 1 .. m, k - 1 \in P
        PROVE  k \in P
    <3>1. /\ n + k \in 1 .. (n + m) /\ (n + k) - 1 = n + (k - 1)
          /\ k - 1 \in 0 .. m /\ k \in 0 .. m
      OBVIOUS
    <3>2. h[n + (k - 1)] = f[n] \o g[k - 1] /\ cc[n + k] = bb[k]
      BY <2>3
    <3>3. g[k - 1] \in Seq(T) /\ bb[k] \in Seq(T)
      BY <1>6, <3>1
    <3>4. h[n + k] = (f[n] \o g[k - 1]) \o bb[k]
      BY <1>7, <3>1, <3>2, Zenon
    <3>5. g[k] = g[k - 1] \o bb[k]
      BY <1>6
    <3>6. h[n + k] = f[n] \o g[k]
      <4> DEFINE A == f[n]
                 B == g[k - 1]
                 C == bb[k]
      <4>1. (A \o B) \o C = A \o (B \o C)
        <5>1. A \in Seq(T) /\ B \in Seq(T) /\ C \in Seq(T)
          BY <2>1, <3>3
        <5> HIDE DEF A, B, C
        <5> QED  BY <5>1, Associates
      <4> QED  BY <3>4, <3>5, <4>1
    <3> QED  BY <3>1, <3>6, Zenon
  <2>4. \A k \in 0 .. m : k \in P
    <3> HIDE DEF P
    <3> QED  BY <2>2, <2>3, UpTo
  <2> QED  BY <2>1, <2>4, Zenon
<1> QED  BY <1>5, <1>6, <1>7, <1>8, <1>9

(* Flattening a sequence of sequences of one element each.                  *)
LEMMA FlattenSingles ==
  ASSUME NEW T, NEW x \in Seq(T), NEW ss \in [1 .. Len(x) -> Seq(T)],
         \A k \in 1 .. Len(x) : ss[k] = <<x[k]>>
  PROVE  FlattenSeq(ss) = x
<1> DEFINE n == Len(x)
<1>1. n \in Nat /\ (\A k \in 1 .. n : x[k] \in T)
  BY LenProperties, ElementOfSeq
<1>2. PICK f : JoinedUpTo(f, ss, T, n)
  BY <1>1, FlattenPrefixes
<1>3. /\ \A k \in 0 .. n : f[k] \in Seq(T)
      /\ f[0] = <<>> /\ FlattenSeq(ss) = f[n]
      /\ \A k \in 1 .. n : f[k] = f[k - 1] \o ss[k]
  BY <1>2 DEF JoinedUpTo
<1> HIDE DEF n
<1> DEFINE P == {k \in 0 .. n : Len(f[k]) = k /\ \A j \in 1 .. k : f[k][j] = x[j]}
<1>4. 0 \in P
  BY <1>1, <1>3, EmptySeq
<1>5. ASSUME NEW k \in 1 .. n, k - 1 \in P
      PROVE  k \in P
  <2> DEFINE s == f[k - 1]
             t == <<x[k]>>
  <2>1. k - 1 \in 0 .. n /\ k \in 0 .. n
    BY <1>1
  <2>2. s \in Seq(T) /\ Len(s) = k - 1 /\ \A j \in 1 .. (k - 1) : s[j] = x[j]
    BY <1>3, <1>5, <2>1
  <2>3. t \in Seq(T) /\ Len(t) = 1 /\ t[1] = x[k]
    BY <1>1
  <2>4. f[k] = s \o t
    BY <1>3 DEF n
  <2> HIDE DEF s, t
  <2>5. Len(f[k]) = k /\ \A j \in 1 .. k : f[k][j] = x[j]
    <3>1. /\ Len(s \o t) = Len(s) + Len(t)
          /\ \A i \in 1 .. Len(s) + Len(t) :
               (s \o t)[i] = IF i <= Len(s) THEN s[i] ELSE t[i - Len(s)]
      BY <2>2, <2>3, ConcatProperties, Zenon
    <3> HIDE DEF n
    <3>2. /\ Len(f[k]) = k
          /\ \A i \in 1 .. k : f[k][i] = IF i <= k - 1 THEN s[i] ELSE t[i - (k - 1)]
      BY <1>1, <2>2, <2>3, <2>4, <3>1
    <3> QED  BY <1>1, <2>2, <2>3, <3>2
  <2> QED  BY <2>1, <2>5
<1>6. \A k \in 0 .. n : k \in P
  <2> HIDE DEF P
  <2> QED  BY <1>1, <1>4, <1>5, UpTo
<1>7. Len(f[n]) = n /\ f[n] \in Seq(T) /\ \A j \in 1 .. n : f[n][j] = x[j]
  BY <1>1, <1>3, <1>6
<1> QED  BY <1>3, <1>7, SeqEqual DEF n

(* A sequence is its head and its tail.                                     *)
LEMMA HeadThenTail ==
  ASSUME NEW T, NEW s \in Seq(T), s # <<>>
  PROVE  Head(s) \in T /\ Tail(s) \in Seq(T) /\ s = <<Head(s)>> \o Tail(s)
OBVIOUS

(* ... and the other way round.                                             *)
LEMMA ConsParts ==
  ASSUME NEW T, NEW x \in T, NEW t \in Seq(T)
  PROVE  /\ <<x>> \o t # <<>> /\ Head(<<x>> \o t) = x /\ Tail(<<x>> \o t) = t
OBVIOUS
=============================================================================
