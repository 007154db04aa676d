--------------------------- MODULE TriviumProofs ---------------------------
(***************************************************************************)
(* Theorems about TriviumRegisters, for every set of keys and every number *)
(* of rounds and of integers.                                              *)
(***************************************************************************)
EXTENDS TriviumRegisters, TLAPS

LEMMA BitClosed == ASSUME NEW a \in Bit, NEW b \in Bit
                   PROVE  /\ a (+) b \in Bit
                          /\ a * b \in Bit
BY DEF Bit, (+)

LEMMA WordBit == ASSUME NEW x \in Word, NEW b \in 0..31
                 PROVE  x[b] \in Bit
BY DEF Word

LEMMA ShiftWordType == ASSUME NEW x \in Word, NEW t \in Bit
                       PROVE  ShiftWord(x, t) \in Word
BY DEF Word, ShiftWord

LEMMA ShiftInType == ASSUME NEW last \in Nat, NEW r \in [0..last -> Word], NEW t \in Bit
                     PROVE  ShiftIn(r, t) \in [0..last -> Word]
<1>1. ASSUME NEW w \in 0..last
      PROVE  ShiftWord(r[w], IF w = 0 THEN t ELSE r[w - 1][31]) \in Word
  <2>1. CASE w = 0
    BY <2>1, ShiftWordType
  <2>2. CASE w # 0
    <3> DEFINE before == r[w - 1]
    <3>1. before \in Word
      BY <2>2
    <3>2. before[31] \in Bit
      <4> HIDE DEF before
      <4> QED BY <3>1, WordBit
    <3> QED BY <2>2, <3>2, ShiftWordType
  <2> QED BY <2>1, <2>2
<1> QED BY <1>1 DEF ShiftIn

\* A shift of the words is a shift of the bits.
LEMMA BitOfShiftIn == ASSUME NEW last \in Nat, NEW r \in [0..last -> Word], NEW t \in Bit,
                             NEW p \in 0..(32 * last + 31)
                      PROVE  BitOf(ShiftIn(r, t), p) = IF p = 0 THEN t ELSE BitOf(r, p - 1)
<1> DEFINE w == p \div 32
           b == p % 32
<1>1. /\ w \in 0..last
      /\ b \in 0..31
      /\ p = 32 * w + b
  OBVIOUS
<1>2. BitOf(ShiftIn(r, t), p) = IF b = 0 THEN IF w = 0 THEN t ELSE r[w - 1][31]
                                         ELSE r[w][b - 1]
  BY <1>1 DEF BitOf, ShiftIn, ShiftWord
<1>3. CASE b = 0
  <2>1. p # 0 => (p - 1) \div 32 = w - 1 /\ (p - 1) % 32 = 31
    BY <1>1, <1>3
  <2> QED BY <1>1, <1>2, <1>3, <2>1 DEF BitOf
<1>4. CASE b # 0
  <2>1. p # 0 /\ (p - 1) \div 32 = w /\ (p - 1) % 32 = b - 1
    BY <1>1, <1>4
  <2> QED BY <1>2, <1>4, <2>1 DEF BitOf
<1> QED BY <1>3, <1>4

\* The bits of a register of three words, and of the one of four.
LEMMA BitType == ASSUME NEW last \in Nat, NEW r \in [0..last -> Word],
                        NEW p \in 0..(32 * last + 31)
                 PROVE  BitOf(r, p) \in Bit
<1>1. p \div 32 \in 0..last /\ p % 32 \in 0..31
  OBVIOUS
<1>2. r[p \div 32] \in Word
  BY <1>1
<1> QED BY <1>1, <1>2, WordBit DEF BitOf

----------------------------------------------------------------------------
(***************************************************************************)
(* Type correctness.                                                       *)
(***************************************************************************)
LEMMA InitTypeOK == Init => TypeOK
<1> SUFFICES ASSUME NEW k \in Keys,
                    r1 = [k[1] EXCEPT ![2] = UpperHalf(@)],
                    r2 = [k[2] EXCEPT ![2] = UpperHalf(@)],
                    r3 = [w \in 0..3 |-> IF w = 3 THEN [Zero EXCEPT ![3] = 1] ELSE Zero],
                    at = "initiation", i = 0, z = Zero, ints = <<>>
             PROVE  TypeOK
  BY DEF Init
<1>1. Zero \in Word /\ [Zero EXCEPT ![3] = 1] \in Word
  BY DEF Zero, Word, Bit
<1>2. \A x \in Word : UpperHalf(x) \in Word
  BY WordBit DEF UpperHalf, Word, Bit
<1>3. k[1] \in [0..2 -> Word] /\ k[2] \in [0..2 -> Word]
  BY TriviumAssumption
<1>4. r1 \in [0..2 -> Word] /\ r2 \in [0..2 -> Word]
  BY <1>2, <1>3
<1> QED BY <1>1, <1>4 DEF TypeOK

\* What a shift of all registers with bits leaves.
LEMMA ShiftAllType == ASSUME TypeOK, NEW t1 \in Bit, NEW t2 \in Bit, NEW t3 \in Bit,
                             ShiftAll(t1, t2, t3)
                      PROVE  /\ r1' \in [0..2 -> Word]
                             /\ r2' \in [0..2 -> Word]
                             /\ r3' \in [0..3 -> Word]
BY ShiftInType DEF ShiftAll, TypeOK

\* All taps are bits of the registers.
LEMMA Taps == ASSUME TypeOK
              PROVE  /\ \A w \in 0..2, b \in 0..31 : r1[w][b] \in Bit /\ r2[w][b] \in Bit
                     /\ \A w \in 0..3, b \in 0..31 : r3[w][b] \in Bit
BY WordBit DEF TypeOK

LEMMA StepTypeOK == TypeOK /\ [Next]_vars => TypeOK'
<1> SUFFICES ASSUME TypeOK, [Next]_vars
             PROVE  TypeOK'
  OBVIOUS
<1> USE TriviumAssumption
<1>1. CASE Round
  <2> DEFINE t1 == r1[2][1] (+) r1[2][26] * r1[2][27] (+) r1[2][28] (+) r2[2][12]
             t2 == r2[2][3] (+) r2[2][16] * r2[2][17] (+) r2[2][18] (+) r3[2][21]
             t3 == r3[2][0] (+) r3[3][15] * r3[3][16] (+) r3[3][17] (+) r1[2][4]
  <2>1. ShiftAll(t1, t2, t3)
    BY <1>1 DEF Round
  <2>2. t1 \in Bit /\ t2 \in Bit /\ t3 \in Bit
    BY Taps, BitClosed
  <2>3. /\ r1' \in [0..2 -> Word]
        /\ r2' \in [0..2 -> Word]
        /\ r3' \in [0..3 -> Word]
    BY <2>1, <2>2, ShiftAllType
  <2> QED BY <1>1, <2>3 DEF Round, TypeOK
<1>2. CASE InitiationReturns
  BY <1>2 DEF InitiationReturns, TypeOK, registers
<1>3. CASE CallGetInteger
  BY <1>3 DEF CallGetInteger, TypeOK, registers, Zero, Word, Bit
<1>4. CASE GetBit
  <2> DEFINE t1 == Parts[1] (+) r1[2][26] * r1[2][27] (+) r2[2][12]
             t2 == Parts[2] (+) r2[2][16] * r2[2][17] (+) r3[2][21]
             t3 == Parts[3] (+) r3[3][11] * r3[3][12] (+) r1[2][4]
  <2>1. ShiftAll(t1, t2, t3)
    BY <1>4 DEF GetBit
  <2>2. Parts[1] \in Bit /\ Parts[2] \in Bit /\ Parts[3] \in Bit
    BY Taps, BitClosed DEF Parts
  <2>3. t1 \in Bit /\ t2 \in Bit /\ t3 \in Bit /\ OutputBit \in Bit
    <3> HIDE DEF Parts
    <3> QED BY <2>2, Taps, BitClosed DEF OutputBit
  <2>4. /\ r1' \in [0..2 -> Word]
        /\ r2' \in [0..2 -> Word]
        /\ r3' \in [0..3 -> Word]
    BY <2>1, <2>3, ShiftAllType
  <2>5. z' \in Word
    BY <1>4, <2>3, ShiftWordType DEF GetBit, TypeOK
  <2> QED BY <1>4, <2>4, <2>5 DEF GetBit, TypeOK
<1>5. CASE GetIntegerReturns
  BY <1>5 DEF GetIntegerReturns, TypeOK, registers
<1>6. CASE UNCHANGED vars
  BY <1>6 DEF TypeOK, vars, registers
<1> QED BY <1>1, <1>2, <1>3, <1>4, <1>5, <1>6 DEF Next

\* The registers hold bits whatever the key, and an integer of the key stream has 32.
THEOREM TypeCorrect == Spec => []TypeOK
<1> QED BY InitTypeOK, StepTypeOK, PTL DEF Spec

----------------------------------------------------------------------------
(***************************************************************************)
(* No round forgets a bit.                                                 *)
(***************************************************************************)

\* A feedback bit gives the lost one back when the others are XORed to it: as the
\* initiation computes it, and as get_integer does, the two output taps first.
LEMMA XorCancels == ASSUME NEW a \in Bit, NEW m \in Bit, NEW d \in Bit, NEW e \in Bit
                    PROVE  d = (a (+) m (+) d (+) e) (+) a (+) m (+) e
BY DEF Bit, (+)

LEMMA XorCancelsToo == ASSUME NEW a \in Bit, NEW m \in Bit, NEW d \in Bit, NEW e \in Bit
                       PROVE  d = ((a (+) d) (+) m (+) e) (+) a (+) m (+) e
BY DEF Bit, (+)

\* All places of the registers hold bits.
LEMMA PlacesAreBits == ASSUME TypeOK
                       PROVE  /\ \A p \in 0..95 : BitOf(r1, p) \in Bit /\ BitOf(r2, p) \in Bit
                              /\ \A p \in 0..127 : BitOf(r3, p) \in Bit
<1>1. ASSUME NEW p \in 0..95
      PROVE  BitOf(r1, p) \in Bit /\ BitOf(r2, p) \in Bit
  <2>1. p \in 0..(32 * 2 + 31)
    OBVIOUS
  <2>2. BitOf(r1, p) \in Bit
    BY <2>1, BitType DEF TypeOK
  <2>3. BitOf(r2, p) \in Bit
    BY <2>1, BitType DEF TypeOK
  <2> QED BY <2>2, <2>3
<1>2. ASSUME NEW p \in 0..127
      PROVE  BitOf(r3, p) \in Bit
  <2>1. p \in 0..(32 * 3 + 31)
    OBVIOUS
  <2> QED BY <2>1, BitType DEF TypeOK
<1> QED BY <1>1, <1>2

\* Where the bits of the registers stand after a round.
LEMMA Shifted == ASSUME TypeOK, NEW t1 \in Bit, NEW t2 \in Bit, NEW t3 \in Bit,
                        ShiftAll(t1, t2, t3)
                 PROVE  /\ BitOf(r1', 0) = t1 /\ BitOf(r2', 0) = t2 /\ BitOf(r3', 0) = t3
                        /\ \A p \in 1..95 : /\ BitOf(r1', p) = BitOf(r1, p - 1)
                                           /\ BitOf(r2', p) = BitOf(r2, p - 1)
                        /\ \A p \in 1..127 : BitOf(r3', p) = BitOf(r3, p - 1)
<1>1. /\ r1 \in [0..2 -> Word] /\ r1' = ShiftIn(r1, t1)
      /\ r2 \in [0..2 -> Word] /\ r2' = ShiftIn(r2, t2)
      /\ r3 \in [0..3 -> Word] /\ r3' = ShiftIn(r3, t3)
  BY DEF TypeOK, ShiftAll
<1>2. \A p \in 0..95 : /\ BitOf(r1', p) = IF p = 0 THEN t1 ELSE BitOf(r1, p - 1)
                       /\ BitOf(r2', p) = IF p = 0 THEN t2 ELSE BitOf(r2, p - 1)
  <2> TAKE p \in 0..95
  <2>1. p \in 0..(32 * 2 + 31)
    OBVIOUS
  <2>2. BitOf(ShiftIn(r1, t1), p) = IF p = 0 THEN t1 ELSE BitOf(r1, p - 1)
    BY <1>1, <2>1, BitOfShiftIn
  <2>3. BitOf(ShiftIn(r2, t2), p) = IF p = 0 THEN t2 ELSE BitOf(r2, p - 1)
    BY <1>1, <2>1, BitOfShiftIn
  <2> QED BY <1>1, <2>2, <2>3
<1>3. \A p \in 0..127 : BitOf(r3', p) = IF p = 0 THEN t3 ELSE BitOf(r3, p - 1)
  <2> TAKE p \in 0..127
  <2>1. p \in 0..(32 * 3 + 31)
    OBVIOUS
  <2>2. BitOf(ShiftIn(r3, t3), p) = IF p = 0 THEN t3 ELSE BitOf(r3, p - 1)
    BY <1>1, <2>1, BitOfShiftIn
  <2> QED BY <1>1, <2>2
<1> QED BY <1>2, <1>3

\* The bits that are tapped, by their places.
LEMMA TapPlaces == /\ \A b \in 0..31 : /\ r1[2][b] = BitOf(r1, 64 + b)
                                       /\ r2[2][b] = BitOf(r2, 64 + b)
                                       /\ r3[2][b] = BitOf(r3, 64 + b)
                                       /\ r3[3][b] = BitOf(r3, 96 + b)
                   /\ r1'[0][0] = BitOf(r1', 0)
                   /\ r2'[0][0] = BitOf(r2', 0)
                   /\ r3'[0][0] = BitOf(r3', 0)
BY DEF BitOf

LEMMA StepUndone == TypeOK /\ [Next]_vars => Undone
<1> SUFFICES ASSUME TypeOK, Next, i' = i + 1
             PROVE  /\ BitOf(r1, 92) = Lost1'
                    /\ BitOf(r2, 82) = Lost2'
                    /\ IF at = "initiation" THEN BitOf(r3, 113) = Lost3(114)'
                                            ELSE BitOf(r3, 109) = Lost3(110)'
  BY DEF Undone, TypeOK, vars
<1>1. Round \/ GetBit
  BY TriviumAssumption DEF Next, InitiationReturns, CallGetInteger, GetIntegerReturns, TypeOK
<1> DEFINE A(p) == BitOf(r1, p)
           B(p) == BitOf(r2, p)
           C(p) == BitOf(r3, p)
<1>2. /\ \A p \in 0..95 : A(p) \in Bit /\ B(p) \in Bit
      /\ \A p \in 0..127 : C(p) \in Bit
  BY PlacesAreBits
\* Products and sums of taps are bits as well.
<1>3. /\ A(90) * A(91) \in Bit /\ B(80) * B(81) \in Bit
      /\ C(111) * C(112) \in Bit /\ C(107) * C(108) \in Bit
  BY <1>2, BitClosed
<1>4. CASE Round
  <2> DEFINE t1 == A(65) (+) A(90) * A(91) (+) A(92) (+) B(76)
             t2 == B(67) (+) B(80) * B(81) (+) B(82) (+) C(85)
             t3 == C(64) (+) C(111) * C(112) (+) C(113) (+) A(68)
  <2>1. ShiftAll(t1, t2, t3)
    BY <1>4, TapPlaces DEF Round
  <2>2. t1 \in Bit /\ t2 \in Bit /\ t3 \in Bit
    <3> HIDE DEF A, B, C
    <3> QED BY <1>2, <1>3, BitClosed
  <2>3. /\ r1'[0][0] = t1 /\ r2'[0][0] = t2 /\ r3'[0][0] = t3
        /\ \A p \in 1..95 : BitOf(r1', p) = A(p - 1) /\ BitOf(r2', p) = B(p - 1)
        /\ \A p \in 1..127 : BitOf(r3', p) = C(p - 1)
    <3> HIDE DEF t1, t2, t3
    <3> QED BY <2>1, <2>2, Shifted, TapPlaces
  <2>4. /\ Lost1' = t1 (+) A(65) (+) A(90) * A(91) (+) B(76)
        /\ Lost2' = t2 (+) B(67) (+) B(80) * B(81) (+) C(85)
        /\ Lost3(114)' = t3 (+) C(64) (+) C(111) * C(112) (+) A(68)
    <3> HIDE DEF t1, t2, t3, A, B, C
    <3> QED BY <2>3 DEF Lost1, Lost2, Lost3
  <2>5. /\ A(92) = Lost1'
        /\ B(82) = Lost2'
        /\ C(113) = Lost3(114)'
    <3>1. A(92) = Lost1'
      <4>1. A(65) \in Bit /\ A(90) * A(91) \in Bit /\ A(92) \in Bit /\ B(76) \in Bit
        BY <1>2, <1>3
      <4> HIDE DEF A, B, C
      <4> QED BY <2>4, <4>1, XorCancels
    <3>2. B(82) = Lost2'
      <4>1. B(67) \in Bit /\ B(80) * B(81) \in Bit /\ B(82) \in Bit /\ C(85) \in Bit
        BY <1>2, <1>3
      <4> HIDE DEF A, B, C
      <4> QED BY <2>4, <4>1, XorCancels
    <3>3. C(113) = Lost3(114)'
      <4>1. C(64) \in Bit /\ C(111) * C(112) \in Bit /\ C(113) \in Bit /\ A(68) \in Bit
        BY <1>2, <1>3
      <4> HIDE DEF A, B, C
      <4> QED BY <2>4, <4>1, XorCancels
    <3> QED BY <3>1, <3>2, <3>3
  <2> QED BY <1>4, <2>5 DEF Round
<1>5. CASE GetBit
  <2> DEFINE t1 == (A(65) (+) A(92)) (+) A(90) * A(91) (+) B(76)
             t2 == (B(67) (+) B(82)) (+) B(80) * B(81) (+) C(85)
             t3 == (C(64) (+) C(109)) (+) C(107) * C(108) (+) A(68)
  <2>1. ShiftAll(t1, t2, t3)
    BY <1>5, TapPlaces DEF GetBit, Parts
  <2>2. t1 \in Bit /\ t2 \in Bit /\ t3 \in Bit
    <3> HIDE DEF A, B, C
    <3> QED BY <1>2, <1>3, BitClosed
  <2>3. /\ r1'[0][0] = t1 /\ r2'[0][0] = t2 /\ r3'[0][0] = t3
        /\ \A p \in 1..95 : BitOf(r1', p) = A(p - 1) /\ BitOf(r2', p) = B(p - 1)
        /\ \A p \in 1..127 : BitOf(r3', p) = C(p - 1)
    <3> HIDE DEF t1, t2, t3
    <3> QED BY <2>1, <2>2, Shifted, TapPlaces
  <2>4. /\ Lost1' = t1 (+) A(65) (+) A(90) * A(91) (+) B(76)
        /\ Lost2' = t2 (+) B(67) (+) B(80) * B(81) (+) C(85)
        /\ Lost3(110)' = t3 (+) C(64) (+) C(107) * C(108) (+) A(68)
    <3> HIDE DEF t1, t2, t3, A, B, C
    <3> QED BY <2>3 DEF Lost1, Lost2, Lost3
  <2>5. /\ A(92) = Lost1'
        /\ B(82) = Lost2'
        /\ C(109) = Lost3(110)'
    <3>1. A(92) = Lost1'
      <4>1. A(65) \in Bit /\ A(90) * A(91) \in Bit /\ A(92) \in Bit /\ B(76) \in Bit
        BY <1>2, <1>3
      <4> HIDE DEF A, B, C
      <4> QED BY <2>4, <4>1, XorCancelsToo
    <3>2. B(82) = Lost2'
      <4>1. B(67) \in Bit /\ B(80) * B(81) \in Bit /\ B(82) \in Bit /\ C(85) \in Bit
        BY <1>2, <1>3
      <4> HIDE DEF A, B, C
      <4> QED BY <2>4, <4>1, XorCancelsToo
    <3>3. C(109) = Lost3(110)'
      <4>1. C(64) \in Bit /\ C(107) * C(108) \in Bit /\ C(109) \in Bit /\ A(68) \in Bit
        BY <1>2, <1>3
      <4> HIDE DEF A, B, C
      <4> QED BY <2>4, <4>1, XorCancelsToo
    <3> QED BY <3>1, <3>2, <3>3
  <2> QED BY <1>5, <2>5 DEF GetBit
<1> QED BY <1>1, <1>4, <1>5

\* Whatever the key and wherever in the key stream, a round can be undone: two states of
\* the places in use, 114 of r3 in initiation and 110 in get_integer, never become one
\* (trivium.cpp 139-170 and 183-227).
THEOREM InvertibleHolds == Spec => Invertible
<1> QED BY StepUndone, InitTypeOK, StepTypeOK, PTL DEF Spec, Invertible

----------------------------------------------------------------------------
(***************************************************************************)
(* The words implement registers of bits.  How far the loops can get is    *)
(* needed for it: InitiationReturns is a stuttering step because i = Rounds*)
(* then, and z holds no more than the 32 bits that GetIntegerReturns hands *)
(* over.                                                                   *)
(***************************************************************************)
LoopBounds == /\ at = "initiation" => i <= Rounds
              /\ at = "get_integer" => i <= 32

IndInv == TypeOK /\ LoopBounds

LEMMA InitIndInv == Init => IndInv
<1> SUFFICES ASSUME Init
             PROVE  LoopBounds
  BY InitTypeOK DEF IndInv
<1>1. at = "initiation" /\ i = 0
  BY DEF Init
<1> QED BY <1>1, TriviumAssumption DEF LoopBounds

LEMMA StepIndInv == IndInv /\ [Next]_vars => IndInv'
<1> SUFFICES ASSUME IndInv, [Next]_vars
             PROVE  LoopBounds'
  BY StepTypeOK DEF IndInv
<1> QED BY TriviumAssumption DEF IndInv, TypeOK, LoopBounds, Next, Round, InitiationReturns,
           CallGetInteger, GetBit, GetIntegerReturns, vars, registers

LEMMA InitShiftRegisters == Init => ShiftRegisters!Init
<1> SUFFICES ASSUME Init
             PROVE  ShiftRegisters!Init
  OBVIOUS
<1>1. /\ \A p \in 0..95 : BitOf(r1, p) \in Bit /\ BitOf(r2, p) \in Bit
      /\ \A p \in 0..127 : BitOf(r3, p) \in Bit
  BY InitTypeOK, PlacesAreBits
<1>2. at = "initiation" /\ i = 0 /\ ints = <<>>
  BY DEF Init
<1>3. KeyStream = <<>>
  BY <1>2 DEF KeyStream
<1> QED BY <1>1, <1>2, <1>3 DEF ShiftRegisters!Init, ShiftRegisters!Bit, Bit

\* The bits of the key stream: those of the integers, then those of z.
Unfinished == IF at = "get_integer" THEN i ELSE 0

FromOneOn ==
  /\ Unfinished \in 0..32
  /\ KeyStream = [k \in 1..(32 * Len(ints) + Unfinished) |-> KeyStream[k]]

FromInts == \A k \in 1..(32 * Len(ints)) :
              /\ ((k - 1) \div 32) + 1 \in 1..Len(ints)
              /\ KeyStream[k] = ints[((k - 1) \div 32) + 1][31 - ((k - 1) % 32)]

FromZ == \A j \in 1..Unfinished : KeyStream[32 * Len(ints) + j] = z[Unfinished - j]

KeyStreamShape == FromOneOn /\ FromInts /\ FromZ

LEMMA KeyStreamBits == IndInv => KeyStreamShape
<1> SUFFICES ASSUME IndInv
             PROVE  KeyStreamShape
  OBVIOUS
<1> DEFINE n == 32 * Len(ints)
           m == Unfinished
           bit(k) == IF k <= n THEN ints[((k - 1) \div 32) + 1][31 - ((k - 1) % 32)]
                               ELSE z[m - (k - n)]
<1>1. Len(ints) \in Nat /\ n \in Nat /\ m \in 0..32
  BY DEF IndInv, TypeOK, LoopBounds, Unfinished
<1>2. KeyStream = [k \in 1..(n + m) |-> bit(k)]
  BY DEF KeyStream, Unfinished
<1>3. ASSUME NEW k \in 1..n
      PROVE  /\ ((k - 1) \div 32) + 1 \in 1..Len(ints)
             /\ KeyStream[k] = ints[((k - 1) \div 32) + 1][31 - ((k - 1) % 32)]
  <2>1. k \in 1..(n + m) /\ k <= n
    BY <1>1
  <2>2. KeyStream[k] = bit(k)
    <3> HIDE DEF bit, n, m
    <3> QED BY <1>2, <2>1
  <2>3. ((k - 1) \div 32) + 1 \in 1..Len(ints)
    BY <1>1
  <2> QED BY <2>1, <2>2, <2>3
<1>4. ASSUME NEW j \in 1..m
      PROVE  KeyStream[n + j] = z[m - j]
  <2>1. n + j \in 1..(n + m) /\ ~(n + j <= n) /\ m - ((n + j) - n) = m - j
    <3> HIDE DEF n, m
    <3> QED BY <1>1
  <2>2. KeyStream[n + j] = bit(n + j)
    <3> HIDE DEF bit, n, m
    <3> QED BY <1>2, <2>1
  <2> QED BY <2>1, <2>2
<1> QED BY <1>1, <1>2, <1>3, <1>4 DEF KeyStreamShape, FromOneOn, FromInts, FromZ

LEMMA ShiftWordBits == ASSUME NEW x, NEW t
                       PROVE  /\ ShiftWord(x, t)[0] = t
                              /\ \A b \in 1..31 : ShiftWord(x, t)[b] = x[b - 1]
BY DEF ShiftWord

\* The integer and the bit of it in which bit k of a key stream is found.
LEMMA LastWord == ASSUME NEW len \in Nat, NEW j \in 1..32, NEW k \in Int, k = 32 * len + j
                  PROVE  (k - 1) \div 32 = len /\ (k - 1) % 32 = j - 1
OBVIOUS

LEMMA KeyStreamType == ASSUME IndInv, KeyStreamShape
                       PROVE  /\ KeyStream \in Seq(Bit)
                              /\ Len(KeyStream) = 32 * Len(ints) + Unfinished
<1> DEFINE n == 32 * Len(ints)
           m == Unfinished
<1>1. Len(ints) \in Nat /\ n \in Nat /\ m \in 0..32
  BY DEF IndInv, TypeOK, KeyStreamShape, FromOneOn
<1>2. ASSUME NEW k \in 1..(n + m)
      PROVE  KeyStream[k] \in Bit
  <2>1. CASE k <= n
    <3> DEFINE q == ((k - 1) \div 32) + 1
               b == 31 - ((k - 1) % 32)
    <3>1. k \in 1..n /\ b \in 0..31
      BY <1>1, <2>1
    <3>2. q \in 1..Len(ints) /\ KeyStream[k] = ints[q][b]
      BY <3>1 DEF KeyStreamShape, FromInts
    <3> HIDE DEF q, b
    <3>3. ints[q] \in Word
      BY <3>2 DEF IndInv, TypeOK
    <3> QED BY <3>1, <3>2, <3>3, WordBit
  <2>2. CASE n < k
    <3> DEFINE j == k - n
    <3>1. j \in 1..m /\ k = n + j /\ m - j \in 0..31
      <4> HIDE DEF n, m
      <4> QED BY <1>1, <2>2
    <3>2. KeyStream[n + j] = z[m - j]
      <4> HIDE DEF j
      <4> QED BY <3>1 DEF KeyStreamShape, FromZ
    <3> HIDE DEF j
    <3> QED BY <3>1, <3>2, WordBit DEF IndInv, TypeOK
  <2> QED BY <1>1, <2>1, <2>2
<1>3. KeyStream = [k \in 1..(n + m) |-> KeyStream[k]]
  BY DEF KeyStreamShape, FromOneOn
<1> HIDE DEF n, m
<1>4. n + m \in Nat
  BY <1>1
<1> QED BY <1>2, <1>3, <1>4 DEF n, m

LEMMA KeyStreamGrows == ASSUME IndInv, IndInv', KeyStreamShape, KeyStreamShape', GetBit
                        PROVE  KeyStream' = Append(KeyStream, OutputBit)
<1> DEFINE n == 32 * Len(ints)
<1>1. n \in Nat /\ i \in 0..31 /\ Unfinished = i /\ Unfinished' = i + 1 /\ ints' = ints
  BY DEF IndInv, TypeOK, GetBit, Unfinished
<1>2. KeyStream \in Seq(Bit) /\ Len(KeyStream) = n + i
  BY <1>1, KeyStreamType
<1>3. KeyStream' = [k \in 1..(n + i + 1) |-> KeyStream'[k]]
  <2>1. KeyStream' = [k \in 1..(n + (i + 1)) |-> KeyStream'[k]]
    BY <1>1 DEF KeyStreamShape, FromOneOn
  <2>2. n + (i + 1) = n + i + 1
    BY <1>1
  <2> QED BY <2>1, <2>2
<1>4. KeyStream'[n + i + 1] = OutputBit
  <2>1. KeyStream'[n + (i + 1)] = z'[0]
    BY <1>1 DEF KeyStreamShape, FromZ
  <2>2. z'[0] = OutputBit
    BY ShiftWordBits DEF GetBit
  <2> QED BY <1>1, <2>1, <2>2
<1>5. ASSUME NEW k \in 1..(n + i)
      PROVE  KeyStream'[k] = KeyStream[k]
  <2>1. CASE k <= n
    <3>1. k \in 1..n
      BY <1>1, <2>1
    <3> QED BY <1>1, <3>1 DEF KeyStreamShape, FromInts
  <2>2. CASE n < k
    <3> DEFINE j == k - n
    <3>1. j \in 1..i /\ j \in 1..(i + 1) /\ k = n + j
      <4> HIDE DEF n
      <4> QED BY <1>1, <2>2
    <3>2. KeyStream[n + j] = z[i - j]
      <4> HIDE DEF j
      <4> QED BY <1>1, <3>1 DEF KeyStreamShape, FromZ
    <3>3. KeyStream'[n + j] = z'[i + 1 - j]
      <4> HIDE DEF j
      <4> QED BY <1>1, <3>1 DEF KeyStreamShape, FromZ
    <3>4. z'[i + 1 - j] = z[i - j]
      <4>1. i + 1 - j \in 1..31 /\ (i + 1 - j) - 1 = i - j
        <5> HIDE DEF j, n
        <5> QED BY <1>1, <3>1
      <4>2. \A e \in 1..31 : z'[e] = z[e - 1]
        BY ShiftWordBits DEF GetBit
      <4> HIDE DEF j, n
      <4> QED BY <4>1, <4>2
    <3> QED BY <3>1, <3>2, <3>3, <3>4
  <2> QED BY <1>1, <2>1, <2>2
<1> HIDE DEF n
<1> QED BY <1>1, <1>2, <1>3, <1>4, <1>5

\* The three steps between the loops change no bit of the key stream.
LEMMA KeyStreamKept == ASSUME IndInv, IndInv', KeyStreamShape, KeyStreamShape',
                              InitiationReturns \/ CallGetInteger \/ GetIntegerReturns
                       PROVE  KeyStream' = KeyStream
<1> DEFINE n == 32 * Len(ints)
<1>1. n \in Nat /\ Len(ints) \in Nat /\ i \in Nat
  BY DEF IndInv, TypeOK
<1>2. CASE InitiationReturns \/ CallGetInteger
  BY <1>2 DEF InitiationReturns, CallGetInteger, KeyStream
<1>3. CASE GetIntegerReturns
  <2>1. /\ Unfinished = 32 /\ Unfinished' = 0
        /\ ints' = Append(ints, z) /\ z' = z
        /\ Len(ints') = Len(ints) + 1
    BY <1>3 DEF GetIntegerReturns, Unfinished, IndInv, TypeOK
  <2>2. 32 * Len(ints') = n + 32
    BY <1>1, <2>1
  <2>3. KeyStream = [k \in 1..(n + 32) |-> KeyStream[k]]
    BY <2>1 DEF KeyStreamShape, FromOneOn
  <2>4. KeyStream' = [k \in 1..(n + 32) |-> KeyStream'[k]]
    <3>1. KeyStream' = [k \in 1..(32 * Len(ints') + Unfinished') |-> KeyStream'[k]]
      BY DEF KeyStreamShape, FromOneOn
    <3>2. 32 * Len(ints') + Unfinished' = n + 32
      BY <1>1, <2>1, <2>2
    <3> QED BY <3>1, <3>2
  <2>5. ASSUME NEW k \in 1..(n + 32)
        PROVE  KeyStream'[k] = KeyStream[k]
    <3> DEFINE q == ((k - 1) \div 32) + 1
               b == 31 - ((k - 1) % 32)
    <3>1. KeyStream'[k] = Append(ints, z)[q][b]
      BY <2>1, <2>2 DEF KeyStreamShape, FromInts
    <3>2. CASE k <= n
      <4>1. k \in 1..n
        BY <1>1, <3>2
      <4>2. q \in 1..Len(ints) /\ KeyStream[k] = ints[q][b]
        BY <4>1 DEF KeyStreamShape, FromInts
      <4>3. Append(ints, z)[q] = ints[q]
        <5> HIDE DEF q
        <5> QED BY <4>2 DEF IndInv, TypeOK
      <4> QED BY <3>1, <4>2, <4>3
    <3>3. CASE n < k
      <4> DEFINE j == k - n
      <4>1. j \in 1..32 /\ k = n + j /\ q = Len(ints) + 1 /\ b = 32 - j
        <5>1. j \in 1..32 /\ k = n + j
          <6> HIDE DEF n
          <6> QED BY <1>1, <3>3
        <5>2. (k - 1) \div 32 = Len(ints) /\ (k - 1) % 32 = j - 1
          <6> HIDE DEF j
          <6>1. k \in Int /\ k = 32 * Len(ints) + j
            BY <1>1, <5>1
          <6> QED BY <1>1, <5>1, <6>1, LastWord
        <5> QED BY <1>1, <5>1, <5>2
      <4>2. KeyStream[n + j] = z[32 - j]
        <5> HIDE DEF j
        <5> QED BY <2>1, <4>1 DEF KeyStreamShape, FromZ
      <4>3. Append(ints, z)[q] = z
        <5> HIDE DEF q
        <5> QED BY <4>1 DEF IndInv, TypeOK
      <4> QED BY <3>1, <4>1, <4>2, <4>3
    <3> QED BY <1>1, <3>2, <3>3
  <2> QED BY <2>3, <2>4, <2>5
<1> QED BY <1>2, <1>3

\* get_integer adds the two output taps of a register first, ShiftRegisters the end last.
LEMMA XorOrder == ASSUME NEW a \in Bit, NEW m \in Bit, NEW d \in Bit, NEW e \in Bit
                  PROVE  a (+) m (+) d (+) e = (a (+) d) (+) m (+) e
BY DEF Bit, (+)

LEMMA XorPairs == ASSUME NEW a \in Bit, NEW b \in Bit, NEW c \in Bit
                  PROVE  a (+) b (+) c = a (+) (b (+) c)
BY DEF Bit, (+)

\* The bits behind the ends of the registers of ShiftRegisters, which the words still
\* hold, do not matter: a shift of the words is one of the places in front.
LEMMA ShiftRegistersShift ==
  ASSUME TypeOK, NEW last \in {109, 113}, ShiftAll(ShiftRegisters!Feedback1,
                                                  ShiftRegisters!Feedback2,
                                                  ShiftRegisters!Feedback3(last))
  PROVE  ShiftRegisters!Shift(last)
<1> DEFINE t1 == ShiftRegisters!Feedback1
           t2 == ShiftRegisters!Feedback2
           t3 == ShiftRegisters!Feedback3(last)
<1>1. t1 \in Bit /\ t2 \in Bit /\ t3 \in Bit
  BY PlacesAreBits, BitClosed DEF ShiftRegisters!Feedback1, ShiftRegisters!Feedback2,
     ShiftRegisters!Feedback3, ShiftRegisters!(+), (+)
<1> HIDE DEF t1, t2, t3
<1>2. /\ BitOf(r1', 0) = t1 /\ BitOf(r2', 0) = t2 /\ BitOf(r3', 0) = t3
      /\ \A p \in 1..95 : /\ BitOf(r1', p) = BitOf(r1, p - 1)
                           /\ BitOf(r2', p) = BitOf(r2, p - 1)
      /\ \A p \in 1..127 : BitOf(r3', p) = BitOf(r3, p - 1)
  BY <1>1, Shifted DEF t1, t2, t3
<1> QED BY <1>2 DEF ShiftRegisters!Shift, ShiftRegisters!Push, t1, t2, t3

LEMMA StepShiftRegisters == IndInv /\ IndInv' /\ KeyStreamShape /\ KeyStreamShape' /\ [Next]_vars
                              => [ShiftRegisters!Next]_(ShiftRegisters!vars)
<1> SUFFICES ASSUME IndInv, IndInv', KeyStreamShape, KeyStreamShape', [Next]_vars
             PROVE  [ShiftRegisters!Next]_(ShiftRegisters!vars)
  OBVIOUS
<1> DEFINE A(p) == BitOf(r1, p)
           B(p) == BitOf(r2, p)
           C(p) == BitOf(r3, p)
           clock == IF at = "initiation" THEN i ELSE Rounds
<1>1. /\ \A p \in 0..95 : A(p) \in Bit /\ B(p) \in Bit
      /\ \A p \in 0..127 : C(p) \in Bit
  BY PlacesAreBits DEF IndInv
<1>2. /\ ShiftRegisters!Feedback1 = A(65) (+) A(90) * A(91) (+) A(92) (+) B(76)
      /\ ShiftRegisters!Feedback2 = B(67) (+) B(80) * B(81) (+) B(82) (+) C(85)
      /\ ShiftRegisters!Feedback3(113) = C(64) (+) C(111) * C(112) (+) C(113) (+) A(68)
      /\ ShiftRegisters!Feedback3(109) = C(64) (+) C(107) * C(108) (+) C(109) (+) A(68)
      /\ ShiftRegisters!OutputBit = A(65) (+) A(92) (+) B(67) (+) B(82) (+) C(64) (+) C(109)
  BY DEF ShiftRegisters!Feedback1, ShiftRegisters!Feedback2, ShiftRegisters!Feedback3,
     ShiftRegisters!OutputBit, ShiftRegisters!(+), (+)
<1>3. CASE Round
  <2>1. ShiftAll(ShiftRegisters!Feedback1, ShiftRegisters!Feedback2,
                 ShiftRegisters!Feedback3(113))
    BY <1>2, <1>3, TapPlaces DEF Round
  <2>2. ShiftRegisters!Shift(113)
    BY <2>1, ShiftRegistersShift DEF IndInv
  <2>3. clock < Rounds /\ clock' = clock + 1
    BY <1>3 DEF Round
  <2>4. KeyStream' = KeyStream
    BY <1>3 DEF Round, KeyStream
  <2> QED BY <2>2, <2>3, <2>4 DEF ShiftRegisters!Next, ShiftRegisters!Mix
<1>4. CASE GetBit
  <2>1. /\ A(90) * A(91) \in Bit /\ B(80) * B(81) \in Bit /\ C(107) * C(108) \in Bit
    BY <1>1, BitClosed
  <2>2. /\ ShiftRegisters!Feedback1 = (A(65) (+) A(92)) (+) A(90) * A(91) (+) B(76)
        /\ ShiftRegisters!Feedback2 = (B(67) (+) B(82)) (+) B(80) * B(81) (+) C(85)
        /\ ShiftRegisters!Feedback3(109) = (C(64) (+) C(109)) (+) C(107) * C(108) (+) A(68)
        /\ ShiftRegisters!OutputBit = (A(65) (+) A(92)) (+) (B(67) (+) B(82)) (+) (C(64) (+) C(109))
    <3>1. /\ A(65) \in Bit /\ A(68) \in Bit /\ A(92) \in Bit
          /\ B(67) \in Bit /\ B(76) \in Bit /\ B(82) \in Bit
          /\ C(64) \in Bit /\ C(85) \in Bit /\ C(109) \in Bit
      BY <1>1
    <3> HIDE DEF A, B, C
    <3>2. ShiftRegisters!Feedback1 = (A(65) (+) A(92)) (+) A(90) * A(91) (+) B(76)
      BY <1>2, <2>1, <3>1, XorOrder
    <3>3. ShiftRegisters!Feedback2 = (B(67) (+) B(82)) (+) B(80) * B(81) (+) C(85)
      BY <1>2, <2>1, <3>1, XorOrder
    <3>4. ShiftRegisters!Feedback3(109) = (C(64) (+) C(109)) (+) C(107) * C(108) (+) A(68)
      BY <1>2, <2>1, <3>1, XorOrder
    <3>5. ShiftRegisters!OutputBit
            = (A(65) (+) A(92)) (+) (B(67) (+) B(82)) (+) (C(64) (+) C(109))
      <4> DEFINE ab == A(65) (+) A(92)
                 abcd == ab (+) B(67) (+) B(82)
      <4>1. ab \in Bit /\ abcd \in Bit
        BY <3>1, BitClosed
      <4>2. abcd = ab (+) (B(67) (+) B(82))
        <5> HIDE DEF ab
        <5> QED BY <3>1, <4>1, XorPairs
      <4>3. abcd (+) C(64) (+) C(109) = abcd (+) (C(64) (+) C(109))
        <5> HIDE DEF abcd
        <5> QED BY <3>1, <4>1, XorPairs
      <4> QED BY <1>2, <4>2, <4>3
    <3> QED BY <3>2, <3>3, <3>4, <3>5
  <2>3. ShiftAll(ShiftRegisters!Feedback1, ShiftRegisters!Feedback2,
                 ShiftRegisters!Feedback3(109))
    BY <1>4, <2>2, TapPlaces DEF GetBit, Parts
  <2>4. ShiftRegisters!Shift(109)
    BY <2>3, ShiftRegistersShift DEF IndInv
  <2>5. OutputBit = ShiftRegisters!OutputBit
    BY <2>2, TapPlaces DEF OutputBit, Parts
  <2>6. KeyStream' = Append(KeyStream, ShiftRegisters!OutputBit)
    BY <1>4, <2>5, KeyStreamGrows
  <2>7. clock = Rounds /\ clock' = clock
    BY <1>4 DEF GetBit
  <2> QED BY <2>4, <2>6, <2>7 DEF ShiftRegisters!Next, ShiftRegisters!Emit
<1>5. CASE InitiationReturns \/ CallGetInteger \/ GetIntegerReturns
  <2>1. KeyStream' = KeyStream
    BY <1>5, KeyStreamKept
  <2>2. r1' = r1 /\ r2' = r2 /\ r3' = r3 /\ clock' = clock
    BY <1>5 DEF InitiationReturns, CallGetInteger, GetIntegerReturns, registers
  <2> QED BY <2>1, <2>2 DEF ShiftRegisters!vars
<1>6. CASE UNCHANGED vars
  <2>1. KeyStream' = KeyStream
    BY <1>6 DEF vars, KeyStream
  <2> QED BY <1>6, <2>1 DEF vars, registers, ShiftRegisters!vars
<1> QED BY <1>3, <1>4, <1>5, <1>6 DEF Next

\* The words, carries and masks of trivium.cpp 139-170 and 183-227 are three registers of
\* bits, and an integer 32 bits of their output, for every key and every number of rounds.
THEOREM ImplementsShiftRegistersHolds == Spec => ImplementsShiftRegisters
<1> QED BY InitIndInv, StepIndInv, InitShiftRegisters, StepShiftRegisters, KeyStreamBits, PTL
        DEF Spec, ImplementsShiftRegisters, ShiftRegisters!Spec
=============================================================================
