--------------------------- MODULE ShiftRegisters ---------------------------
(***************************************************************************)
(* The generator of hybrid/trivium.cpp as one thinks of it: three          *)
(* registers of bits that are shifted together, each with the feedback of  *)
(* itself and its neighbour.  Positions count from 0, where bits come in.  *)
(* The lengths are those the code's taps have: 93 and 83, and for the      *)
(* third 114 during initiation and 110 in get_integer.                     *)
(***************************************************************************)
EXTENDS Integers, Sequences

CONSTANT Rounds \* 4*288

Bit == {0, 1}

a (+) b == (a + b) % 2 \* ^, for & there is multiplication

VARIABLES s1, s2, s3, \* the registers
          clock,      \* rounds of the initiation done
          out         \* the bits of the key stream so far

vars == <<s1, s2, s3, clock, out>>

\* Whatever is loaded, nothing has been clocked.
Init == /\ s1 \in [0..92 -> Bit]
        /\ s2 \in [0..82 -> Bit]
        /\ s3 \in [0..113 -> Bit]
        /\ clock = 0
        /\ out = <<>>

Push(s, t) == [p \in DOMAIN s |-> IF p = 0 THEN t ELSE s[p - 1]]

\* The bits that come in.  The third register ends at position last.
Feedback1 == s1[65] (+) s1[90] * s1[91] (+) s1[92] (+) s2[76]
Feedback2 == s2[67] (+) s2[80] * s2[81] (+) s2[82] (+) s3[85]
Feedback3(last) == s3[64] (+) s3[last - 2] * s3[last - 1] (+) s3[last] (+) s1[68]

Shift(last) == /\ s1' = Push(s1, Feedback1)
               /\ s2' = Push(s2, Feedback2)
               /\ s3' = Push(s3, Feedback3(last))

Mix == /\ clock < Rounds
       /\ Shift(113)
       /\ clock' = clock + 1
       /\ UNCHANGED out

OutputBit == s1[65] (+) s1[92] (+) s2[67] (+) s2[82] (+) s3[64] (+) s3[109]

Emit == /\ clock = Rounds
        /\ out' = Append(out, OutputBit)
        /\ Shift(109)
        /\ UNCHANGED clock

Next == Mix \/ Emit

Spec == Init /\ [][Next]_vars
=============================================================================
