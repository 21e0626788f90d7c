---------------------------- MODULE Utf16Proofs ----------------------------
(***************************************************************************)
(* For strings of any bytes and any length, and a buffer of any size: what  *)
(* utf8_to_utf16le reads and writes.                                        *)
(***************************************************************************)
EXTENDS Utf16, SequenceTheorems, TLAPS

Types ==
  /\ s \in Seq(Bytes)
  /\ size \in Nat
  /\ len \in Nat
  /\ next \in Nat /\ next > 0
  /\ cp \in Seq(Nat)
  /\ pc \in {"loop", "done", "fail"}

(* One code unit written is one less to write. *)
BoundsInv ==
  /\ Len(cp) + len = size
  /\ next <= Len(s) + 2
  /\ pc = "loop" => next <= Len(s) + 1

Ascii == \A k \in DOMAIN s : s[k] < 128

(* The code units written so far are the bytes read so far. *)
AsciiInv ==
  Ascii => /\ pc # "fail"
           /\ next <= Len(s) + 1
           /\ Len(cp) = next - 1
           /\ \A k \in 1 .. Len(cp) : cp[k] = s[k]
           /\ pc = "done" => len = 0 \/ next = Len(s) + 1

Utf16Inv == Types /\ BoundsInv /\ NoSurrogates /\ AsciiInv

-----------------------------------------------------------------------------
(* A byte of the string, or the 0 that ends it. *)
LEMMA BytesOfString ==
  ASSUME Types, NEW k \in Nat, k > 0
  PROVE  /\ Byte(k) \in 0 .. 255
         /\ Byte(k) # 0 => k <= Len(s) /\ k \in DOMAIN s /\ Byte(k) = s[k]
         /\ k <= Len(s) => Byte(k) # 0
         /\ Len(s) \in Nat /\ DOMAIN s = 1 .. Len(s)
<1>1. s \in Seq(Bytes) /\ Bytes \subseteq 1 .. 255
  BY Utf16Assumption DEF Types
<1>2. Len(s) \in Nat /\ DOMAIN s = 1 .. Len(s)
  BY <1>1, LenProperties
<1>3. k <= Len(s) => s[k] \in Bytes
  BY <1>1, <1>2, ElementOfSeq
<1>4. k <= Len(s) => s[k] \in 0 .. 255 /\ s[k] # 0 /\ k \in DOMAIN s
  <2>1. k <= Len(s) => k \in DOMAIN s
    BY <1>2
  <2>2. \A b \in Bytes : b \in 0 .. 255 /\ b # 0
    BY <1>1
  <2> QED  BY <1>3, <2>1, <2>2
<1>5. CASE k <= Len(s)
  BY <1>2, <1>4, <1>5 DEF Byte
<1>6. CASE ~(k <= Len(s))
  BY <1>2, <1>6 DEF Byte
<1> QED  BY <1>5, <1>6

(* A string of two-byte characters stays below the surrogates. *)
LEMMA TwoBytesBelow ==
  ASSUME NEW c \in 0 .. 255, NEW d \in 0 .. 255
  PROVE  /\ (c % 32) * 64 + (d % 64) \in Nat
         /\ (c % 32) * 64 + (d % 64) < 55296
<1>1. c % 32 \in 0 .. 31 /\ d % 64 \in 0 .. 63
  OBVIOUS
<1> QED  BY <1>1

(* The string is a sequence of bytes, and nothing is written. *)
LEMMA InitEstablishes == Init => Utf16Inv
<1> SUFFICES ASSUME Init PROVE Utf16Inv
  OBVIOUS
<1>1. s \in Seq(Bytes) /\ Len(s) \in Nat
  <2>1. PICK m \in 0 .. MaxLen : s \in [1 .. m -> Bytes]
    BY DEF Init, BoundedSeq, SeqOf
  <2>2. m \in Nat
    BY Utf16Assumption
  <2> QED  BY <2>1, <2>2
<1>2. size \in Nat
  BY Utf16Assumption DEF Init
<1>3. cp \in Seq(Nat) /\ Len(cp) = 0 /\ DOMAIN cp = {}
  BY EmptySeq DEF Init
<1> QED
  BY <1>1, <1>2, <1>3 DEF Init, Utf16Inv, Types, BoundsInv, NoSurrogates, AsciiInv

(* A code unit that is no surrogate is written, after one, two or three bytes
   of the string; one byte only, if it is ASCII. *)
LEMMA KeepsEmit ==
  ASSUME Utf16Inv, NEW u \in Nat, NEW n \in 1 .. 3, Emit(u, n),
         NEW c \in 0 .. 255, c = Byte(next), At(c), ~Surrogate(u),
         next + n <= Len(s) + 1,
         n = 1 => u = c,
         n > 1 => c >= 128
  PROVE  Utf16Inv'
<1>1. /\ cp' = Append(cp, u) /\ next' = next + n /\ len' = len - 1
      /\ UNCHANGED <<s, size, pc>>
      /\ pc = "loop" /\ len # 0 /\ c # 0
  BY DEF Emit, At
<1>2. /\ cp \in Seq(Nat) /\ cp' \in Seq(Nat)
      /\ Len(cp) \in Nat /\ Len(cp') = Len(cp) + 1
      /\ DOMAIN cp = 1 .. Len(cp) /\ DOMAIN cp' = 1 .. (Len(cp) + 1)
      /\ cp'[Len(cp) + 1] = u
      /\ \A k \in 1 .. Len(cp) : cp'[k] = cp[k]
  BY <1>1, AppendProperties, LenProperties DEF Utf16Inv, Types
<1>3. next \in Nat /\ next > 0 /\ len \in Nat /\ Len(s) \in Nat
  BY BytesOfString DEF Utf16Inv, Types
<1>4. Types'
  BY <1>1, <1>2, <1>3 DEF Utf16Inv, Types
<1>5. BoundsInv'
  <2>1. Len(cp) + len = size
    BY DEF Utf16Inv, BoundsInv
  <2>2. Len(cp') + len' = size'
    BY <1>1, <1>2, <1>3, <2>1
  <2>3. next' <= Len(s') + 1 /\ next' \in Nat
    BY <1>1, <1>3
  <2> QED  BY <1>1, <1>3, <2>2, <2>3 DEF BoundsInv
<1>6. NoSurrogates'
  <2> SUFFICES ASSUME NEW k \in 1 .. (Len(cp) + 1)
               PROVE  ~Surrogate(cp'[k])
    BY <1>2 DEF NoSurrogates, Surrogate
  <2>1. CASE k \in 1 .. Len(cp)
    BY <1>2, <2>1 DEF Utf16Inv, NoSurrogates
  <2>2. CASE k = Len(cp) + 1
    BY <1>2, <2>2
  <2> QED  BY <1>2, <2>1, <2>2
<1>7. AsciiInv'
  <2>1. SUFFICES ASSUME Ascii
                 PROVE  /\ next' = Len(cp') + 1
                        /\ \A k \in 1 .. Len(cp') : cp'[k] = s[k]
    BY <1>1, <1>3 DEF AsciiInv, Ascii
  <2>2. next \in DOMAIN s /\ Byte(next) = s[next] /\ s[next] < 128
    BY <1>1, <1>3, <2>1, BytesOfString DEF Utf16Inv, Ascii
  <2>3. n = 1 /\ u = s[next]
    <3>1. c < 128
      BY <2>2
    <3> QED  BY <2>2, <3>1
  <2>4. Len(cp) = next - 1 /\ \A k \in 1 .. Len(cp) : cp[k] = s[k]
    BY <2>1 DEF Utf16Inv, AsciiInv
  <2> QED  BY <1>1, <1>2, <1>3, <2>3, <2>4
<1> QED  BY <1>4, <1>5, <1>6, <1>7 DEF Utf16Inv

(* The function returns, and has read at most one byte more than the string
   has; of an ASCII string, none. *)
LEMMA KeepsFinish ==
  ASSUME Utf16Inv, NEW how \in {"done", "fail"}, NEW n \in 0 .. 3, Finish(how, n),
         next + n <= Len(s) + 2,
         how = "done" => n = 0 /\ (len = 0 \/ next = Len(s) + 1),
         how = "fail" => ~Ascii
  PROVE  Utf16Inv'
<1>1. next' = next + n /\ pc' = how /\ UNCHANGED <<s, size, len, cp>>
  BY DEF Finish
<1>2. Types' /\ BoundsInv' /\ NoSurrogates'
  BY <1>1 DEF Utf16Inv, Types, BoundsInv, NoSurrogates
<1>3. AsciiInv'
  BY <1>1 DEF Utf16Inv, Types, AsciiInv, Ascii
<1> QED  BY <1>2, <1>3 DEF Utf16Inv

(* A byte above 127 that the string has: it is not ASCII. *)
LEMMA NotAscii ==
  ASSUME Utf16Inv, Byte(next) >= 128
  PROVE  ~Ascii /\ next <= Len(s) /\ Len(s) \in Nat /\ next \in Nat
<1>1. next \in Nat /\ next > 0
  BY DEF Utf16Inv, Types
<1>2. Byte(next) \in 0 .. 255
      /\ (Byte(next) # 0 => next <= Len(s) /\ next \in DOMAIN s /\ Byte(next) = s[next])
      /\ Len(s) \in Nat
  BY <1>1, BytesOfString DEF Utf16Inv
<1>3. Byte(next) # 0
  BY <1>2
<1>4. s[next] >= 128 /\ s[next] \in 0 .. 255
  BY <1>2, <1>3
<1>5. next \in DOMAIN s /\ ~(s[next] < 128)
  <2>1. \A b \in 0 .. 255 : b >= 128 => ~(b < 128)
    OBVIOUS
  <2> QED  BY <1>2, <1>3, <1>4, <2>1
<1> QED  BY <1>1, <1>2, <1>3, <1>5 DEF Ascii

(* A byte that continues a character is one that the string has. *)
LEMMA InString ==
  ASSUME Utf16Inv, NEW k \in Nat, k > 0, Continues(Byte(k))
  PROVE  k <= Len(s)
<1>1. Byte(k) \in 0 .. 255 /\ (Byte(k) # 0 => k <= Len(s))
  BY BytesOfString DEF Utf16Inv
<1> QED  BY <1>1 DEF Continues

-----------------------------------------------------------------------------
(* Every turn of the loop keeps the invariant. *)
LEMMA NextKeeps ==
  ASSUME Utf16Inv, [Next]_vars
  PROVE  Utf16Inv'
<1> DEFINE c == Byte(next)
           d == Byte(next + 1)
           f == Byte(next + 2)
<1>1. /\ next \in Nat /\ next > 0 /\ next + 1 \in Nat /\ next + 2 \in Nat
      /\ Len(s) \in Nat
      /\ c \in 0 .. 255 /\ d \in 0 .. 255 /\ f \in 0 .. 255
      /\ c # 0 => next <= Len(s)
      /\ next <= Len(s) => c # 0
  BY BytesOfString DEF Utf16Inv, Types
<1>2. pc = "loop" => next <= Len(s) + 1
  BY DEF Utf16Inv, BoundsInv
<1> HIDE DEF c, d, f
<1>3. CASE Stop
  <2>1. Finish("done", 0) /\ (len = 0 \/ c = 0) /\ pc = "loop"
    BY <1>3 DEF Stop, c
  <2>2. len = 0 \/ next = Len(s) + 1
    BY <1>1, <1>2, <2>1
  <2>3. next + 0 <= Len(s) + 2
    BY <1>1, <1>2, <2>1
  <2> QED  BY <2>1, <2>2, <2>3, KeepsFinish
<1>4. CASE One
  <2>1. At(c) /\ c < 128 /\ Emit(c, 1)
    BY <1>4 DEF One, c
  <2>2. next + 1 <= Len(s) + 1 /\ ~Surrogate(c)
    BY <1>1, <2>1 DEF At, Surrogate
  <2>3. c \in Nat
    BY <1>1
  <2>4. 1 \in 1 .. 3 /\ ~(1 > 1) /\ c \in 0 .. 255
    BY <1>1
  <2>5. c = Byte(next)
    BY DEF c
  <2> QED  BY <2>1, <2>2, <2>3, <2>4, <2>5, KeepsEmit, Zenon
<1>5. CASE Two
  <2> DEFINE u == (c % 32) * 64 + (d % 64)
  <2>0. At(c) /\ TwoBytes(c) /\ (IF Continues(d) THEN Emit(u, 2) ELSE Finish("fail", 2))
    BY <1>5 DEF Two, c, d
  <2>1. At(c) /\ c >= 128 /\ (IF Continues(d) THEN Emit(u, 2) ELSE Finish("fail", 2))
    BY <1>1, <2>0 DEF TwoBytes
  <2>2. u \in Nat /\ u < 55296
    BY <1>1, TwoBytesBelow
  <2>3. ~Surrogate(u)
    BY <2>2 DEF Surrogate
  <2> HIDE DEF u
  <2>4. ~Ascii /\ next <= Len(s)
    BY <2>1, NotAscii DEF c
  <2>5. CASE Continues(d)
    <3>1. next + 2 <= Len(s) + 1
      BY <1>1, <2>5, InString DEF d
    <3>2. 2 \in 1 .. 3 /\ 2 # 1 /\ c \in 0 .. 255
      BY <1>1
    <3>3. c = Byte(next)
      BY DEF c
    <3>4. At(c) /\ c >= 128 /\ Emit(u, 2) /\ u \in Nat
      BY <2>1, <2>2, <2>5
    <3> QED  BY <2>3, <3>1, <3>2, <3>3, <3>4, KeepsEmit, Zenon
  <2>6. CASE ~Continues(d)
    <3>1. next + 2 <= Len(s) + 2
      BY <1>1, <2>4
    <3> QED  BY <2>1, <2>4, <2>6, <3>1, KeepsFinish
  <2> QED  BY <2>5, <2>6
<1>6. CASE Three
  <2> DEFINE u == (c % 16) * 4096 + (d % 64) * 64 + (f % 64)
  <2>0. /\ At(c) /\ ThreeBytes(c)
        /\ IF ~Continues(d) THEN Finish("fail", 2)
           ELSE IF ~Continues(f) \/ Surrogate(u) THEN Finish("fail", 3)
           ELSE Emit(u, 3)
    BY <1>6 DEF Three, c, d, f
  <2>1. /\ At(c) /\ c >= 128
        /\ IF ~Continues(d) THEN Finish("fail", 2)
           ELSE IF ~Continues(f) \/ Surrogate(u) THEN Finish("fail", 3)
           ELSE Emit(u, 3)
    BY <1>1, <2>0 DEF ThreeBytes
  <2>2. u \in Nat
    <3>1. c % 16 \in 0 .. 15 /\ d % 64 \in 0 .. 63 /\ f % 64 \in 0 .. 63
      BY <1>1
    <3>2. ASSUME NEW x \in 0 .. 15, NEW y \in 0 .. 63, NEW z \in 0 .. 63
          PROVE  x * 4096 + y * 64 + z \in Nat
      OBVIOUS
    <3> DEFINE x == c % 16
               y == d % 64
               z == f % 64
    <3>3. u = x * 4096 + y * 64 + z
      OBVIOUS
    <3> HIDE DEF x, y, z, u
    <3>4. x \in 0 .. 15 /\ y \in 0 .. 63 /\ z \in 0 .. 63
      BY <3>1 DEF x, y, z
    <3> QED  BY <3>2, <3>3, <3>4
  <2> HIDE DEF u
  <2>3. ~Ascii /\ next <= Len(s)
    BY <2>1, NotAscii DEF c
  <2>4. Continues(d) => next + 1 <= Len(s)
    BY <1>1, InString DEF d
  <2>5. Continues(f) => next + 2 <= Len(s)
    BY <1>1, InString DEF f
  <2>6. CASE ~Continues(d)
    <3>1. next + 2 <= Len(s) + 2
      BY <1>1, <2>3
    <3> QED  BY <2>1, <2>3, <2>6, <3>1, KeepsFinish
  <2>7. CASE Continues(d) /\ (~Continues(f) \/ Surrogate(u))
    <3>1. next + 3 <= Len(s) + 2
      BY <1>1, <2>4, <2>7
    <3> QED  BY <2>1, <2>3, <2>7, <3>1, KeepsFinish
  <2>8. CASE Continues(d) /\ Continues(f) /\ ~Surrogate(u)
    <3>1. next + 3 <= Len(s) + 1
      BY <1>1, <2>5, <2>8
    <3>2. 3 \in 1 .. 3 /\ 3 # 1 /\ c \in 0 .. 255
      BY <1>1
    <3>3. c = Byte(next)
      BY DEF c
    <3> QED  BY <2>1, <2>2, <2>8, <3>1, <3>2, <3>3, KeepsEmit, Zenon
  <2> QED  BY <2>6, <2>7, <2>8
<1>7. CASE Other
  <2>1. Finish("fail", 1) /\ c >= 128
    BY <1>7 DEF Other, c
  <2>2. ~Ascii /\ next <= Len(s)
    BY <2>1, NotAscii DEF c
  <2>3. next + 1 <= Len(s) + 2
    BY <1>1, <2>2
  <2> QED  BY <2>1, <2>2, <2>3, KeepsFinish
<1>8. CASE UNCHANGED vars
  BY <1>8 DEF vars, Utf16Inv, Types, BoundsInv, NoSurrogates, AsciiInv, Ascii
<1> QED  BY <1>3, <1>4, <1>5, <1>6, <1>7, <1>8 DEF Next

(* For any string and any buffer. *)
THEOREM Utf16Invariance == Spec => []Utf16Inv
<1>1. Init => Utf16Inv
  BY InitEstablishes
<1>2. Utf16Inv /\ [Next]_vars => Utf16Inv'
  BY NextKeeps
<1> QED  BY <1>1, <1>2, PTL DEF Spec

(* No byte behind the end of the string is read, and no code unit is written
   behind the end of the buffer. *)
THEOREM InBounds == Spec => []StaysInBounds
<1>1. Utf16Inv => StaysInBounds
  <2> SUFFICES ASSUME Utf16Inv PROVE StaysInBounds
    OBVIOUS
  <2>1. Len(cp) \in Nat
    BY LenProperties DEF Utf16Inv, Types
  <2> QED  BY <2>1 DEF Utf16Inv, Types, BoundsInv, StaysInBounds
<1> QED  BY <1>1, Utf16Invariance, PTL

(* No surrogate is written. *)
THEOREM SurrogateFree == Spec => []NoSurrogates
<1>1. Utf16Inv => NoSurrogates
  BY DEF Utf16Inv
<1> QED  BY <1>1, Utf16Invariance, PTL

(* An ASCII string is copied, as far as the buffer takes it. *)
THEOREM AsciiCopied == Spec => []AsciiUnchanged
<1>1. Utf16Inv => AsciiUnchanged
  <2> SUFFICES ASSUME Utf16Inv, Ascii
               PROVE  /\ pc # "fail"
                      /\ cp = SubSeq(s, 1, next - 1)
                      /\ pc = "done" => len = 0 \/ next = Len(s) + 1
    BY DEF AsciiUnchanged, Ascii
  <2>1. /\ pc # "fail" /\ next <= Len(s) + 1 /\ Len(cp) = next - 1
        /\ \A k \in 1 .. Len(cp) : cp[k] = s[k]
        /\ pc = "done" => len = 0 \/ next = Len(s) + 1
    BY DEF Utf16Inv, AsciiInv
  <2>2. next \in Nat /\ next > 0 /\ s \in Seq(Bytes) /\ cp \in Seq(Nat) /\ Len(s) \in Nat
    BY LenProperties DEF Utf16Inv, Types
  <2>3. \A k \in 1 .. (next - 1) : s[k] \in Nat
    <3>1. \A k \in 1 .. Len(s) : s[k] \in Bytes
      BY <2>2, ElementOfSeq
    <3> QED  BY <2>1, <2>2, <3>1, Utf16Assumption
  <2> DEFINE t == SubSeq(s, 1, next - 1)
  <2>4. /\ t \in Seq(Nat)
        /\ Len(t) = IF 1 <= next - 1 THEN (next - 1) - 1 + 1 ELSE 0
        /\ \A k \in 1 .. ((next - 1) - 1 + 1) : t[k] = s[1 + k - 1]
    BY <2>2, <2>3, SubSeqProperties
  <2> HIDE DEF t
  <2>5. Len(cp) = Len(t) /\ \A k \in 1 .. Len(cp) : cp[k] = t[k]
    <3>1. Len(cp) = Len(t)
      BY <2>1, <2>2, <2>4
    <3>2. (next - 1) - 1 + 1 = Len(cp) /\ \A k \in 1 .. Len(cp) : 1 + k - 1 = k
      BY <2>1, <2>2
    <3> QED  BY <2>1, <2>4, <3>1, <3>2
  <2>6. cp = t
    BY <2>2, <2>4, <2>5, SeqEqual
  <2> QED  BY <2>1, <2>6 DEF t
<1> QED  BY <1>1, Utf16Invariance, PTL

=============================================================================
