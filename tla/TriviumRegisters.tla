-------------------------- MODULE TriviumRegisters --------------------------
(***************************************************************************)
(* The registers of the Trivium object of hybrid/trivium.cpp, of which     *)
(* camera/, Client/ and cpu_programming/ have copies: initiation and       *)
(* get_integer, word by word as they are written.  The loop of get_integer *)
(* is also that of the GPU kernel of gpu_encryption/Trivium_encryption.cpp.*)
(*                                                                         *)
(* An int is a function from the shift amount to the bit that x >> shift   *)
(* leaves in the lowest place; the upper bits of an arithmetic shift are   *)
(* never used.                                                             *)
(***************************************************************************)
EXTENDS Integers, Sequences

CONSTANTS Keys,    \* the pairs <<key, init>> considered
          Rounds,  \* the local len of initiation, 4*288
          MaxInts  \* bound: calls of get_integer

Bit == {0, 1}

Word == [0..31 -> Bit]

ASSUME TriviumAssumption == /\ Keys \subseteq [0..2 -> Word] \X [0..2 -> Word]
                            /\ Rounds \in Nat
                            /\ MaxInts \in Nat

VARIABLES r1, r2, r3, \* the registers, of 3, 3 and 4 words
          at,         \* where the object is
          i,          \* the loop variable of initiation and get_integer
          z,          \* the local z of get_integer
          ints        \* history: the integers get_integer has returned

registers == <<r1, r2, r3>>
vars == <<registers, at, i, z, ints>>

Zero == [b \in 0..31 |-> 0]

a (+) b == (a + b) % 2

\* The lower half of a word cleared: x >> 16 << 16.
UpperHalf(x) == [b \in 0..31 |-> IF b < 16 THEN 0 ELSE x[b]]

\* calloc in the constructor, then initiation up to its loop.
Init == \E k \in Keys :
          /\ r1 = [k[1] EXCEPT ![2] = UpperHalf(@)]
          /\ r2 = [k[2] EXCEPT ![2] = UpperHalf(@)]
          /\ r3 = [w \in 0..3 |-> IF w = 3 THEN [Zero EXCEPT ![3] = 1] ELSE Zero]
          /\ at = "initiation"
          /\ i = 0
          /\ z = Zero
          /\ ints = <<>>

\* x << 1 with t coming in.
ShiftWord(x, t) == [b \in 0..31 |-> IF b = 0 THEN t ELSE x[b - 1]]

\* Mutant: the word takes over the new highest bit of the one before it.
ShiftInLate(r, t) == [w \in DOMAIN r |-> ShiftWord(r[w], IF w = 0 THEN t ELSE r[w - 1][30])]

\* All words of a register: bit1, bit2 and bit3 are what the words before lose.
ShiftIn(r, t) == [w \in DOMAIN r |-> ShiftWord(r[w], IF w = 0 THEN t ELSE r[w - 1][31])]

ShiftAll(t1, t2, t3) == /\ r1' = ShiftIn(r1, t1)
                        /\ r2' = ShiftIn(r2, t2)
                        /\ r3' = ShiftIn(r3, t3)

\* Mutant: the taps of get_integer for the last register in the initiation.
RoundShortTaps ==
  /\ at = "initiation" /\ i < Rounds
  /\ LET t1 == r1[2][1] (+) r1[2][26] * r1[2][27] (+) r1[2][28] (+) r2[2][12]
         t2 == r2[2][3] (+) r2[2][16] * r2[2][17] (+) r2[2][18] (+) r3[2][21]
         t3 == r3[2][0] (+) r3[3][11] * r3[3][12] (+) r3[3][13] (+) r1[2][4]
     IN  ShiftAll(t1, t2, t3)
  /\ i' = i + 1
  /\ UNCHANGED <<at, z, ints>>

\* Mutant: what comes into the first register is not masked with 1.
RoundUnmasked ==
  /\ at = "initiation" /\ i < Rounds
  /\ LET t1 == r1[2][1] + r1[2][26] * r1[2][27] + r1[2][28] + r2[2][12]
         t2 == r2[2][3] (+) r2[2][16] * r2[2][17] (+) r2[2][18] (+) r3[2][21]
         t3 == r3[2][0] (+) r3[3][15] * r3[3][16] (+) r3[3][17] (+) r1[2][4]
     IN  ShiftAll(t1, t2, t3)
  /\ i' = i + 1
  /\ UNCHANGED <<at, z, ints>>

\* A round of the loop of initiation.
Round ==
  /\ at = "initiation" /\ i < Rounds
  /\ LET t1 == r1[2][1] (+) r1[2][26] * r1[2][27] (+) r1[2][28] (+) r2[2][12]
         t2 == r2[2][3] (+) r2[2][16] * r2[2][17] (+) r2[2][18] (+) r3[2][21]
         t3 == r3[2][0] (+) r3[3][15] * r3[3][16] (+) r3[3][17] (+) r1[2][4]
     IN  ShiftAll(t1, t2, t3)
  /\ i' = i + 1
  /\ UNCHANGED <<at, z, ints>>

InitiationReturns == /\ at = "initiation" /\ i = Rounds
                     /\ at' = "initiated"
                     /\ UNCHANGED <<registers, i, z, ints>>

CallGetInteger == /\ at = "initiated"
                  /\ Len(ints) < MaxInts
                  /\ at' = "get_integer"
                  /\ i' = 0
                  /\ z' = Zero
                  /\ UNCHANGED <<registers, ints>>

\* The output bit, of which get_integer keeps the three parts.
Parts == <<r1[2][1] (+) r1[2][28], r2[2][3] (+) r2[2][18], r3[2][0] (+) r3[3][13]>>

OutputBit == Parts[1] (+) Parts[2] (+) Parts[3]

\* A round of the loop of get_integer.
GetBit ==
  /\ at = "get_integer" /\ i < 32
  /\ z' = ShiftWord(z, OutputBit)
  /\ LET t1 == Parts[1] (+) r1[2][26] * r1[2][27] (+) r2[2][12]
         t2 == Parts[2] (+) r2[2][16] * r2[2][17] (+) r3[2][21]
         t3 == Parts[3] (+) r3[3][11] * r3[3][12] (+) r1[2][4]
     IN  ShiftAll(t1, t2, t3)
  /\ i' = i + 1
  /\ UNCHANGED <<at, ints>>

GetIntegerReturns == /\ at = "get_integer" /\ i = 32
                     /\ ints' = Append(ints, z)
                     /\ at' = "initiated"
                     /\ UNCHANGED <<registers, i, z>>

Next == Round \/ InitiationReturns \/ CallGetInteger \/ GetBit \/ GetIntegerReturns

Spec == Init /\ [][Next]_vars

----------------------------------------------------------------------------
TypeOK == /\ r1 \in [0..2 -> Word]
          /\ r2 \in [0..2 -> Word]
          /\ r3 \in [0..3 -> Word]
          /\ at \in {"initiation", "initiated", "get_integer"}
          /\ i \in Nat
          /\ z \in Word
          /\ ints \in Seq(Word)

\* Bit p of a register.
BitOf(r, p) == r[p \div 32][p % 32]

\* The key stream so far, first bit first: in an integer it is the highest.
KeyStream ==
  LET unfinished == IF at = "get_integer" THEN i ELSE 0
  IN  [k \in 1..(32 * Len(ints) + unfinished) |->
         IF k <= 32 * Len(ints) THEN ints[((k - 1) \div 32) + 1][31 - ((k - 1) % 32)]
                                ELSE z[unfinished - (k - 32 * Len(ints))]]

ShiftRegisters == INSTANCE ShiftRegisters WITH
                    s1 <- [p \in 0..92 |-> BitOf(r1, p)],
                    s2 <- [p \in 0..82 |-> BitOf(r2, p)],
                    s3 <- [p \in 0..113 |-> BitOf(r3, p)],
                    clock <- IF at = "initiation" THEN i ELSE Rounds,
                    out <- KeyStream

\* The words, carries and masks of trivium.cpp 139-170 and 183-227 are three registers
\* of bits: no bit is lost or doubled between two words, no bit behind the last tap
\* has an effect, and an integer of the key stream is 32 output bits, first one highest.
ImplementsShiftRegisters == ShiftRegisters!Spec

\* The bits that a shift loses, from what it has left, with the third register as long
\* as the taps of the step make it.
Lost1 == r1[0][0] (+) BitOf(r1, 66) (+) BitOf(r1, 91) * BitOf(r1, 92) (+) BitOf(r2, 77)
Lost2 == r2[0][0] (+) BitOf(r2, 68) (+) BitOf(r2, 81) * BitOf(r2, 82) (+) BitOf(r3, 86)
Lost3(length) == r3[0][0] (+) BitOf(r3, 65)
                 (+) BitOf(r3, length - 2) * BitOf(r3, length - 1) (+) BitOf(r1, 69)

Undone == i' = i + 1 => /\ BitOf(r1, 92) = Lost1'
                        /\ BitOf(r2, 82) = Lost2'
                        /\ IF at = "initiation" THEN BitOf(r3, 113) = Lost3(114)'
                                                ELSE BitOf(r3, 109) = Lost3(110)'

\* No round forgets a bit that is in use: what falls out of each register can be computed
\* from the registers after the round, so that two states of the places in use never
\* become the same one, on which the period of the key stream rests.  In use are 93 and
\* 83 places of r1 and r2, and 114 of r3 in initiation but only 110 in get_integer: the
\* bits 110 to 113 that initiation leaves in r3 have no effect any more.
Invertible == [][Undone]_vars

----------------------------------------------------------------------------
\* What the comments of trivium.cpp say.  They count the bits of Trivium from 1 to 288,
\* in registers of 93, 84 and 111 bits (comment at 147).
S(n) == IF n <= 93 THEN BitOf(r1, n - 1)
        ELSE IF n <= 177 THEN BitOf(r2, n - 94) ELSE BitOf(r3, n - 178)

\* trivium.cpp 184-188: the output bit is s66 + s93 + s162 + s177 + s243 + s288.
OutputAsCommented == at = "get_integer" =>
                       OutputBit = S(66) (+) S(93) (+) S(162) (+) S(177) (+) S(243) (+) S(288)
=============================================================================
