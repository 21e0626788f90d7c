------------------------------- MODULE Utf16 -------------------------------
(***************************************************************************)
(* utf8_to_utf16le, which makes the string descriptors of a gadget.  One    *)
(* step is one turn of its loop.                                            *)
(***************************************************************************)
EXTENDS Integers, Sequences, SequencesExt

CONSTANTS
  Bytes,    \* the bytes that strings are made of, none of them 0
  MaxLen    \* the longest string, and the largest value of len

ASSUME Utf16Assumption ==
  /\ Bytes \subseteq 1 .. 255
  /\ MaxLen \in Nat

VARIABLES
  s,       \* the string, without the 0 that ends it
  size,    \* the argument len, how many code units the buffer takes
  len,     \* what is left of it
  next,    \* where s points to
  cp,      \* the code units written so far
  pc       \* "loop", "done" or "fail"

vars == <<s, size, len, next, cp, pc>>

Init ==
  /\ s \in BoundedSeq(Bytes, MaxLen)
  /\ size \in 0 .. MaxLen
  /\ len = size
  /\ next = 1
  /\ cp = <<>>
  /\ pc = "loop"

\* The byte at position k; one past the string is the 0 that ends it.
Byte(k) == IF k <= Len(s) THEN s[k] ELSE 0

\* (c & 0xc0) != 0xc0 goes to fail
Continues(c) == c >= 192

\* 110yyyyy 10xxxxxx
TwoBytes(c) == 192 <= c /\ c < 224

\* 1110zzzz 10yyyyyy 10xxxxxx
ThreeBytes(c) == 224 <= c /\ c < 240

\* 0xd800 <= uchar && uchar <= 0xdfff
Surrogate(u) == 55296 <= u /\ u <= 57343

Emit(u, bytes) ==
  /\ cp' = Append(cp, u)
  /\ next' = next + bytes
  /\ len' = len - 1
  /\ UNCHANGED <<s, size, pc>>

Finish(how, bytes) ==
  /\ pc' = how
  /\ next' = next + bytes
  /\ UNCHANGED <<s, size, len, cp>>

\* Mistake: one code unit is kept back, as if for a 0 at the end.
StopEarly == pc = "loop" /\ (len <= 1 \/ Byte(next) = 0) /\ Finish("done", 0)

Stop == pc = "loop" /\ (len = 0 \/ Byte(next) = 0) /\ Finish("done", 0)

\* The loop goes on at the byte c.
At(c) == pc = "loop" /\ len # 0 /\ c # 0

One == At(Byte(next)) /\ Byte(next) < 128 /\ Emit(Byte(next), 1)

Two ==
  LET c == Byte(next)
      d == Byte(next + 1)
  IN  /\ At(c) /\ TwoBytes(c)
      /\ IF Continues(d) THEN Emit((c % 32) * 64 + (d % 64), 2)
                         ELSE Finish("fail", 2)

\* Mistake: the test for surrogates is left out.
ThreeNoTest ==
  LET c == Byte(next)
      d == Byte(next + 1)
      f == Byte(next + 2)
  IN  /\ At(c) /\ ThreeBytes(c)
      /\ IF ~Continues(d) THEN Finish("fail", 2)
         ELSE IF ~Continues(f) THEN Finish("fail", 3)
         ELSE Emit((c % 16) * 4096 + (d % 64) * 64 + (f % 64), 3)

\* Mistake: both bytes are read before they are looked at.
ThreeReadsFirst ==
  LET c == Byte(next)
      d == Byte(next + 1)
      f == Byte(next + 2)
      u == (c % 16) * 4096 + (d % 64) * 64 + (f % 64)
  IN  /\ At(c) /\ ThreeBytes(c)
      /\ IF ~Continues(d) \/ ~Continues(f) \/ Surrogate(u)
           THEN Finish("fail", 3)
         ELSE Emit(u, 3)

Three ==
  LET c == Byte(next)
      d == Byte(next + 1)
      f == Byte(next + 2)
      u == (c % 16) * 4096 + (d % 64) * 64 + (f % 64)
  IN  /\ At(c) /\ ThreeBytes(c)
      /\ IF ~Continues(d) THEN Finish("fail", 2)
         ELSE IF ~Continues(f) \/ Surrogate(u) THEN Finish("fail", 3)
         ELSE Emit(u, 3)

\* A continuation byte on its own, or the first of four bytes.
Other ==
  LET c == Byte(next)
  IN  /\ At(c) /\ c >= 128 /\ ~TwoBytes(c) /\ ~ThreeBytes(c)
      /\ Finish("fail", 1)

Next == Stop \/ One \/ Two \/ Three \/ Other

Spec == Init /\ [][Next]_vars

-----------------------------------------------------------------------------
(***************************************************************************)
(* The function never reads behind the 0 that ends the string, although it  *)
(* takes up to two bytes more after it has looked at the first; and it      *)
(* writes no more code units than the buffer takes.                         *)
(***************************************************************************)
StaysInBounds ==
  /\ next <= Len(s) + 2
  /\ pc = "loop" => next <= Len(s) + 1
  /\ Len(cp) <= size

\* "no bogus surrogates": none is written, whatever the bytes are.
NoSurrogates == \A k \in DOMAIN cp : ~Surrogate(cp[k])

(***************************************************************************)
(* What was read of an ASCII string is what was written, and all of it is   *)
(* read if there is room.                                                   *)
(***************************************************************************)
AsciiUnchanged ==
  (\A k \in DOMAIN s : s[k] < 128) =>
    /\ pc # "fail"
    /\ cp = SubSeq(s, 1, next - 1)
    /\ pc = "done" => len = 0 \/ next = Len(s) + 1

(***************************************************************************)
(* "this insists on correct encodings" (raw-helper.cpp): a string of ASCII  *)
(* characters and of two-byte characters 110yyyyy 10xxxxxx, as the comment  *)
(* in the code has them, is correct and is not refused.                     *)
(***************************************************************************)
Correct ==
  /\ \A k \in DOMAIN s : TwoBytes(s[k]) => k < Len(s) /\ s[k + 1] \in 128 .. 191
  /\ \A k \in DOMAIN s : s[k] \in 128 .. 191 => k > 1 /\ TwoBytes(s[k - 1])
  /\ \A k \in DOMAIN s : s[k] < 224

AcceptsCorrect == Correct => pc # "fail"

=============================================================================
