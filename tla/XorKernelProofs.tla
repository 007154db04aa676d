-------------------------- MODULE XorKernelProofs --------------------------
(***************************************************************************)
(* The invariants of XorKernel for any number of QPUs, any width of a      *)
(* vector and messages of any length, in all four kernels.                 *)
(*                                                                         *)
(* A word of an array has a place: lane Lane(w) of row Row(w) of QPU       *)
(* Me(w).  A QPU's pointers stand at the first word of one of its rows,    *)
(* its FIFO holds what was requested for that row and perhaps the next,    *)
(* and r has the words of the QPUs' earlier rows, and no other.            *)
(***************************************************************************)
EXTENDS XorKernel, FiniteSetTheorems, FunctionTheorems, TLAPS

\* Division with a remainder; the provers use the two numbers best by their names.
Quotient(a, b)  == a \div b
Remainder(a, b) == a % b

Vector(w) == Quotient(w, Lanes)
Lane(w)   == Remainder(w, Lanes)
Me(w)     == Remainder(Vector(w), NumQPUs)
Row(w)    == Quotient(Vector(w), NumQPUs)

Word(me, row, lane) == Lanes * (me + NumQPUs * row) + lane

----------------------------------------------------------------------------
\* What i advances by when a row is stored.
Step == IF kernel = "trivium" THEN 1 ELSE inc

Places == {"prologue", "for", "load", "gather", "receive", "store", "last receive",
           "last store", "done"}

Types == /\ kernel \in {"V1", "V2", "hybrid", "trivium"}
         /\ n \in Nat
         /\ pc \in [QPUs -> Places]
         /\ i \in [QPUs -> Nat]
         /\ at \in [QPUs -> Nat]
         /\ fifo \in [QPUs -> Seq({"p", "q", "r"} \X Nat)]
         /\ DOMAIN regs = QPUs

\* The pointers and the loop variable agree on the row.
InStep(me) == /\ Me(at[me]) = me /\ Lane(at[me]) = 0
              /\ i[me] = Step * Row(at[me])

\* The FIFO has what was requested for this row, for the next, or for both.
Requested(me) ==
  fifo[me] = IF kernel = "V1" \/ pc[me] \in {"prologue", "last store", "done"} THEN <<>>
             ELSE CASE pc[me] = "receive" -> Requests(at[me]) \o Requests(at[me] + inc)
                    [] pc[me] = "store" -> Requests(at[me] + inc)
                    [] OTHER -> Requests(at[me])

Received(me) == pc[me] \in {"store", "last store"} => regs[me] = Requests(at[me])

\* Where each kernel can be, and what its loop test has found.
Control(me) ==
  /\ pc[me] = "load" => kernel = "V1"
  /\ pc[me] \in {"prologue", "gather", "receive", "last receive", "last store"} => kernel # "V1"
  /\ pc[me] = "last store" => kernel = "hybrid"
  /\ pc[me] \in {"load", "gather", "receive", "store"} => i[me] < Limit(me)
  /\ pc[me] \in {"last receive", "last store", "done"} => i[me] >= Limit(me)
  /\ Row(at[me]) > 0 => i[me] < Limit(me) + Step

\* The rows a QPU has stored.
Rows(me) == Row(at[me]) + (IF pc[me] = "done" /\ kernel = "hybrid" THEN 1 ELSE 0)

WordsStored == DOMAIN r = {w \in Nat : Row(w) < Rows(Me(w))}

TriviumSize == kernel = "trivium" => \E s \in Nat : n = Lanes * s

Local(me) == InStep(me) /\ Requested(me) /\ Received(me) /\ Control(me)

IInv == /\ Types /\ TriviumSize
        /\ \A me \in QPUs : Local(me)
        /\ WordsStored /\ XorsItsOwn

----------------------------------------------------------------------------
\* The places of the words.

LEMMA Division ==
  ASSUME NEW a \in Nat, NEW b \in Nat, b > 0
  PROVE  /\ Quotient(a, b) \in Nat /\ Remainder(a, b) \in 0..(b - 1)
         /\ a = b * Quotient(a, b) + Remainder(a, b)
<1>1. PICK q \in Nat : q = a \div b
  OBVIOUS
<1>2. PICK m \in 0..(b - 1) : m = a % b
  OBVIOUS
<1>3. a = b * q + m
  BY <1>1, <1>2
<1>4. q = Quotient(a, b) /\ m = Remainder(a, b)
  BY <1>1, <1>2 DEF Quotient, Remainder
<1> QED
  BY <1>2, <1>3, <1>4

LEMMA Divided ==
  ASSUME NEW b \in Nat, b > 0, NEW q \in Nat, NEW m \in 0..(b - 1)
  PROVE  Quotient(b * q + m, b) = q /\ Remainder(b * q + m, b) = m
<1>1. PICK a \in Nat : a = b * q + m
  OBVIOUS
<1>2. q = a \div b /\ m = a % b
  BY <1>1
<1> QED
  BY <1>1, <1>2 DEF Quotient, Remainder

LEMMA CountsArePositive == /\ NumQPUs \in Nat /\ NumQPUs > 0 /\ Lanes \in Nat /\ Lanes > 0
                /\ inc \in Nat /\ inc > 0
<1>1. NumQPUs \in Nat /\ NumQPUs > 0 /\ Lanes \in Nat /\ Lanes > 0
  BY KernelAssumption
<1>2. \A a, b \in Nat : a > 0 /\ b > 0 => a * b \in Nat /\ a * b > 0
  OBVIOUS
<1> QED
  BY <1>1, <1>2 DEF inc

LEMMA WordPlace ==
  ASSUME NEW me \in QPUs, NEW row \in Nat, NEW lane \in 0..(Lanes - 1)
  PROVE  LET w == Word(me, row, lane) IN
         w \in Nat /\ Me(w) = me /\ Row(w) = row /\ Lane(w) = lane
<1> DEFINE v == NumQPUs * row + me
           w == Lanes * v + lane
<1>1. /\ NumQPUs \in Nat /\ NumQPUs > 0 /\ Lanes \in Nat /\ Lanes > 0 /\ me \in 0..(NumQPUs - 1)
  BY CountsArePositive DEF QPUs
<1>2. v \in Nat /\ Quotient(v, NumQPUs) = row /\ Remainder(v, NumQPUs) = me
  <2>1. NumQPUs * row \in Nat
    BY <1>1
  <2> QED
    BY <1>1, <2>1, Divided
<1>3. Word(me, row, lane) = w
  <2>1. NumQPUs * row \in Nat /\ me \in Nat
    BY <1>1
  <2>2. me + NumQPUs * row = v
    BY <2>1
  <2> QED
    BY <2>2 DEF Word
<1> HIDE DEF v
<1>4. w \in Nat /\ Quotient(w, Lanes) = v /\ Remainder(w, Lanes) = lane
  <2>1. Lanes * v \in Nat /\ lane \in Nat
    BY <1>1, <1>2
  <2> QED
    <3>1. Quotient(Lanes * v + lane, Lanes) = v /\ Remainder(Lanes * v + lane, Lanes) = lane
      BY <1>1, <1>2, Divided
    <3>2. \A a, b \in Nat : a + b \in Nat
      OBVIOUS
    <3> QED
      BY <2>1, <3>1, <3>2
<1> HIDE DEF w
<1> QED
  BY <1>2, <1>3, <1>4 DEF Me, Row, Lane, Vector

LEMMA PlaceWord ==
  ASSUME NEW w \in Nat
  PROVE  /\ Me(w) \in QPUs /\ Row(w) \in Nat /\ Lane(w) \in 0..(Lanes - 1)
         /\ w = Word(Me(w), Row(w), Lane(w))
<1>1. NumQPUs \in Nat /\ NumQPUs > 0 /\ Lanes \in Nat /\ Lanes > 0
  BY CountsArePositive
<1>2. /\ Vector(w) \in Nat /\ Lane(w) \in 0..(Lanes - 1)
      /\ w = Lanes * Vector(w) + Lane(w)
  BY <1>1, Division DEF Vector, Lane
<1>3. /\ Row(w) \in Nat /\ Me(w) \in 0..(NumQPUs - 1)
      /\ Vector(w) = NumQPUs * Row(w) + Me(w)
  BY <1>1, <1>2, Division DEF Row, Me
<1>4. Vector(w) = Me(w) + NumQPUs * Row(w)
  <2>1. NumQPUs * Row(w) \in Nat
    BY <1>1, <1>3
  <2> QED
    BY <1>3, <2>1
<1> QED
  BY <1>2, <1>3, <1>4 DEF Word, QPUs

\* The words of a row, and the next row.
LEMMA RowWords ==
  ASSUME NEW me \in QPUs, NEW row \in Nat
  PROVE  /\ \A lane \in 0..(Lanes - 1) : Word(me, row, 0) + lane = Word(me, row, lane)
         /\ Word(me, row, 0) + inc = Word(me, row + 1, 0)
         /\ Word(me, row, 0) = me * Lanes + inc * row
<1>1. NumQPUs \in Nat /\ Lanes \in Nat /\ me \in Nat
  BY CountsArePositive DEF QPUs
<1>2. \A a, b \in Nat : a * b \in Nat /\ a * b = b * a
  OBVIOUS
<1>3. \A a, b, c \in Nat : a * (b + c) = a * b + a * c
  OBVIOUS
<1>4. \A a, b, c \in Nat : a * (b * c) = (b * a) * c
  OBVIOUS
<1>5. Word(me, row, 0) = Lanes * me + inc * row
  <2>1. Lanes * (me + NumQPUs * row) = Lanes * me + Lanes * (NumQPUs * row)
    BY <1>1, <1>2, <1>3
  <2>2. Lanes * (NumQPUs * row) = inc * row
    BY <1>1, <1>4 DEF inc
  <2>3. Lanes * me \in Nat /\ inc * row \in Nat
    BY <1>1, <1>2, CountsArePositive
  <2> QED
    BY <2>1, <2>2, <2>3 DEF Word
<1>6. Word(me, row + 1, 0) = Lanes * me + inc * (row + 1)
  <2>1. Lanes * (me + NumQPUs * (row + 1)) = Lanes * me + Lanes * (NumQPUs * (row + 1))
    BY <1>1, <1>2, <1>3
  <2>2. Lanes * (NumQPUs * (row + 1)) = inc * (row + 1)
    BY <1>1, <1>4 DEF inc
  <2>3. Lanes * me \in Nat /\ inc * (row + 1) \in Nat
    BY <1>1, <1>2, CountsArePositive
  <2> QED
    BY <2>1, <2>2, <2>3 DEF Word
<1>7. inc * (row + 1) = inc * row + inc
  <2>1. inc \in Nat /\ inc * 1 = inc
    BY CountsArePositive
  <2> QED
    BY <1>3, <2>1
<1>8. Lanes * me \in Nat /\ inc * row \in Nat /\ inc \in Nat
  BY <1>1, <1>2, CountsArePositive
<1>9. Word(me, row, 0) + inc = Word(me, row + 1, 0)
  BY <1>5, <1>6, <1>7, <1>8
<1>10. Word(me, row, 0) = me * Lanes + inc * row
  BY <1>1, <1>2, <1>5
<1>11. ASSUME NEW lane \in 0..(Lanes - 1)
       PROVE  Word(me, row, 0) + lane = Word(me, row, lane)
  <2>1. PICK x \in Nat : x = Lanes * (me + NumQPUs * row)
    BY <1>1, <1>2
  <2>2. lane \in Nat /\ x + 0 + lane = x + lane
    BY <1>1
  <2> QED
    BY <2>1, <2>2 DEF Word
<1> QED
  BY <1>9, <1>10, <1>11

\* The words of a QPU's row are those with its place.
LEMMA InRow ==
  ASSUME NEW me \in QPUs, NEW row \in Nat, NEW w
  PROVE  (\E lane \in 0..(Lanes - 1) : w = Word(me, row, lane))
         <=> w \in Nat /\ Me(w) = me /\ Row(w) = row
<1>1. ASSUME NEW lane \in 0..(Lanes - 1), w = Word(me, row, lane)
      PROVE  w \in Nat /\ Me(w) = me /\ Row(w) = row
  BY <1>1, WordPlace
<1>2. ASSUME w \in Nat, Me(w) = me, Row(w) = row
      PROVE  \E lane \in 0..(Lanes - 1) : w = Word(me, row, lane)
  BY <1>2, PlaceWord
<1> QED
  BY <1>1, <1>2

\* The vectors of a core before its row-th are row in number.
LEMMA UsedCount ==
  ASSUME NEW me \in QPUs, NEW row \in Nat
  PROVE  Used(me, me + NumQPUs * row) = Lanes * row
<1> DEFINE v == me + NumQPUs * row
           S == {e \in 0..(v - 1) : e % NumQPUs = me}
           f == [k \in 0..(row - 1) |-> me + NumQPUs * k]
<1>1. /\ NumQPUs \in Nat /\ NumQPUs > 0 /\ me \in 0..(NumQPUs - 1) /\ me \in Nat
  BY CountsArePositive DEF QPUs
<1>2. \A a, b, c \in Nat : a > 0 => /\ b < c <=> a * b < a * c
                                    /\ a * b = a * c => b = c
                                    /\ a * b \in Nat
  <2> TAKE a, b, c \in Nat
  <2>1. ASSUME a > 0, b < c PROVE a * b < a * c
    <3>1. PICK e \in Nat : c = b + e /\ e > 0
      BY <2>1
    <3>2. a * c = a * b + a * e /\ a * e > 0 /\ a * b \in Nat
      BY <2>1, <3>1
    <3> QED
      BY <3>2
  <2>2. ASSUME a > 0, c < b PROVE a * c < a * b
    <3>1. PICK e \in Nat : b = c + e /\ e > 0
      BY <2>2
    <3>2. a * b = a * c + a * e /\ a * e > 0 /\ a * c \in Nat
      BY <2>2, <3>1
    <3> QED
      BY <3>2
  <2>3. a * b \in Nat /\ a * c \in Nat /\ (b < c \/ b = c \/ c < b)
    OBVIOUS
  <2> QED
    BY <2>1, <2>2, <2>3
<1>3. ASSUME NEW k \in 0..(row - 1)
      PROVE  me + NumQPUs * k \in S
  <2>1. k \in Nat /\ NumQPUs * k < NumQPUs * row /\ NumQPUs * k \in Nat /\ NumQPUs * row \in Nat
    BY <1>1, <1>2
  <2>2. me + NumQPUs * k \in 0..(v - 1)
    BY <1>1, <2>1
  <2>3. (NumQPUs * k + me) % NumQPUs = me
    BY <1>1, <2>1, Divided DEF Remainder
  <2>4. NumQPUs * k + me = me + NumQPUs * k
    BY <1>1, <2>1
  <2> QED
    BY <2>2, <2>3, <2>4
<1>4. ASSUME NEW e \in S
      PROVE  \E k \in 0..(row - 1) : me + NumQPUs * k = e
  <2> DEFINE k == Quotient(e, NumQPUs)
  <2>0. NumQPUs * row \in Nat
    BY <1>1, <1>2
  <2>1. e \in Nat /\ e < v /\ Remainder(e, NumQPUs) = me
    BY <1>1, <2>0 DEF Remainder
  <2>2. k \in Nat /\ e = NumQPUs * k + me
    BY <1>1, <2>1, Division
  <2> HIDE DEF k
  <2>3. NumQPUs * k \in Nat
    BY <1>1, <1>2, <2>2
  <2>4. NumQPUs * k < NumQPUs * row
    BY <1>1, <2>0, <2>1, <2>2, <2>3
  <2>5. k < row
    BY <1>1, <1>2, <2>2, <2>4
  <2>6. k \in 0..(row - 1) /\ me + NumQPUs * k = e
    BY <1>1, <2>2, <2>3, <2>5
  <2> QED
    BY <2>6
<1>5. f \in Bijection(0..(row - 1), S)
  <2>1. f \in [0..(row - 1) -> S]
    BY <1>3
  <2>2. \A a, b \in 0..(row - 1) : f[a] = f[b] => a = b
    <3> TAKE a, b \in 0..(row - 1)
    <3>1. /\ a \in Nat /\ b \in Nat /\ NumQPUs * a \in Nat /\ NumQPUs * b \in Nat
          /\ f[a] = me + NumQPUs * a /\ f[b] = me + NumQPUs * b
      BY <1>1, <1>2
    <3>2. f[a] = f[b] => NumQPUs * a = NumQPUs * b
      BY <1>1, <3>1
    <3> QED
      BY <1>1, <1>2, <3>1, <3>2
  <2>3. \A e \in S : \E k \in 0..(row - 1) : f[k] = e
    BY <1>4
  <2> HIDE DEF f, S
  <2> QED
    BY <2>1, <2>2, <2>3, Fun_IsBij
<1>6. IsFiniteSet(0..(row - 1)) /\ Cardinality(0..(row - 1)) = row
  <2>1. 0 \in Int /\ row - 1 \in Int
    OBVIOUS
  <2>2. IsFiniteSet(0..(row - 1))
        /\ Cardinality(0..(row - 1)) = IF 0 > row - 1 THEN 0 ELSE (row - 1) - 0 + 1
    BY <2>1, FS_Interval
  <2>3. (IF 0 > row - 1 THEN 0 ELSE (row - 1) - 0 + 1) = row
    OBVIOUS
  <2> QED
    BY <2>2, <2>3
<1> HIDE DEF f, S
<1>7. ExistsBijection(0..(row - 1), S)
  BY <1>5 DEF ExistsBijection
<1>8. Cardinality(S) = row
  BY <1>6, <1>7, FS_Bijection
<1> QED
  BY <1>8 DEF Used, S, v

\* The integer of the key stream that the CPU's loop uses for a word.
LEMMA CpuKey ==
  ASSUME NEW me \in QPUs, NEW row \in Nat, NEW lane \in 0..(Lanes - 1)
  PROVE  CpuKeyWord(Word(me, row, lane)) = <<"z", me, Lanes * row + Lanes - 1 - lane>>
<1> DEFINE w == Word(me, row, lane)
<1>1. w \in Nat /\ Me(w) = me /\ Row(w) = row /\ Lane(w) = lane
  BY WordPlace
<1> HIDE DEF w
<1>2. w = Lanes * (me + NumQPUs * row) + lane
  BY DEF w, Word
<1>3. me + NumQPUs * row \in Nat /\ Lanes \in Nat /\ Lanes > 0
  <2>1. NumQPUs \in Nat /\ me \in Nat /\ Lanes \in Nat /\ Lanes > 0
    BY CountsArePositive DEF QPUs
  <2>2. \A a, b \in Nat : a * b \in Nat /\ a + b \in Nat
    OBVIOUS
  <2> QED
    BY <2>1, <2>2
<1>4. w \div Lanes = me + NumQPUs * row
  <2>1. PICK v \in Nat : v = me + NumQPUs * row
    BY <1>3
  <2>2. Quotient(Lanes * v + lane, Lanes) = v
    BY <1>3, <2>1, Divided
  <2> QED
    BY <1>2, <2>1, <2>2 DEF Quotient
<1>5. (w \div Lanes) % NumQPUs = me /\ w % Lanes = lane
  BY <1>1 DEF Me, Vector, Lane, Quotient, Remainder
<1>6. Used(me, me + NumQPUs * row) = Lanes * row
  BY UsedCount
<1>7. CpuKeyWord(w) = <<"z", me, Lanes * row + Lanes - 1 - lane>>
  BY <1>4, <1>5, <1>6 DEF CpuKeyWord
<1> QED
  BY <1>7 DEF w

----------------------------------------------------------------------------
\* The FIFO.

Request == {"p", "q", "r"} \X Nat

LEMMA Joined ==
  ASSUME NEW S, NEW a \in Seq(S), NEW b \in Seq(S)
  PROVE  /\ a \o b \in Seq(S) /\ Len(a \o b) = Len(a) + Len(b) /\ Len(a) \in Nat /\ Len(b) \in Nat
         /\ \A k \in 1..Len(a) : (a \o b)[k] = a[k]
         /\ \A k \in (Len(a) + 1)..(Len(a) + Len(b)) : (a \o b)[k] = b[k - Len(a)]
OBVIOUS

\* Taking what was put in first leaves what was put in behind it.
LEMMA TakenFirst ==
  ASSUME NEW S, NEW a \in Seq(S), NEW b \in Seq(S)
  PROVE  /\ SubSeq(a \o b, 1, Len(a)) = a
         /\ SubSeq(a \o b, Len(a) + 1, Len(a \o b)) = b
<1> DEFINE c == a \o b
           x == SubSeq(c, 1, Len(a))
           y == SubSeq(c, Len(a) + 1, Len(c))
<1>1. /\ c \in Seq(S) /\ Len(c) = Len(a) + Len(b) /\ Len(a) \in Nat /\ Len(b) \in Nat
      /\ \A k \in 1..Len(a) : c[k] = a[k]
      /\ \A k \in (Len(a) + 1)..(Len(a) + Len(b)) : c[k] = b[k - Len(a)]
  BY Joined
<1> HIDE DEF c
<1>2. /\ x \in Seq(S) /\ Len(x) = Len(a) /\ \A k \in 1..Len(a) : x[k] = c[k]
  BY <1>1
<1>3. /\ y \in Seq(S) /\ Len(y) = Len(b) /\ \A k \in 1..Len(b) : y[k] = c[k + Len(a)]
  BY <1>1
<1> HIDE DEF x, y
<1>4. x = a
  BY <1>1, <1>2
<1>5. y = b
  <2>1. \A k \in 1..Len(b) : y[k] = b[k]
    <3> TAKE k \in 1..Len(b)
    <3>1. k + Len(a) \in (Len(a) + 1)..(Len(a) + Len(b)) /\ k + Len(a) - Len(a) = k
      BY <1>1
    <3> QED
      BY <1>1, <1>3, <3>1
  <2> QED
    BY <1>3, <2>1
<1> QED
  BY <1>4, <1>5 DEF x, y, c

LEMMA RequestTypes ==
  ASSUME Types, NEW word \in Nat
  PROVE  /\ Len(Arrays) \in 1..3
         /\ Requests(word) \in Seq(Request) /\ Len(Requests(word)) = Len(Arrays)
         /\ Requests(word)[1] = <<"p", word>>
         /\ kernel # "trivium" => Requests(word)[2] = <<"q", word>>
<1>1. /\ Arrays \in Seq({"p", "q", "r"}) /\ Len(Arrays) \in 1..3 /\ Arrays[1] = "p"
      /\ kernel # "trivium" => Arrays[2] = "q" /\ Len(Arrays) \in 2..3
  <2>1. kernel \in {"V1", "V2", "hybrid", "trivium"}
    BY DEF Types
  <2>2. CASE kernel = "V2"
    BY <2>2 DEF Arrays
  <2>3. CASE kernel = "trivium"
    BY <2>3 DEF Arrays
  <2>4. CASE kernel \in {"V1", "hybrid"}
    BY <2>4 DEF Arrays
  <2> QED
    BY <2>1, <2>2, <2>3, <2>4
<1> HIDE DEF Arrays
<1>2. Requests(word) \in [1..Len(Arrays) -> Request]
  BY <1>1 DEF Requests, Request
<1>3. \A l \in Nat : \A f \in [1..l -> Request] : f \in Seq(Request) /\ Len(f) = l
  OBVIOUS
<1>4. Requests(word) \in Seq(Request) /\ Len(Requests(word)) = Len(Arrays)
  BY <1>1, <1>2, <1>3
<1>5. \A k \in 1..Len(Arrays) : Requests(word)[k] = <<Arrays[k], word>>
  BY DEF Requests
<1> QED
  BY <1>1, <1>4, <1>5

----------------------------------------------------------------------------
\* What a step of one QPU leaves alone.

\* What depends on the kernel and n only.
LEMMA SameKernel ==
  ASSUME UNCHANGED <<kernel, n>>
  PROVE  /\ Step' = Step /\ Arrays' = Arrays
         /\ \A me : Limit(me)' = Limit(me)
         /\ \A word : Requests(word)' = Requests(word)
BY DEF Step, Arrays, Limit, Requests

LEMMA Others ==
  ASSUME UNCHANGED <<kernel, n>>, NEW q, Local(q),
         pc'[q] = pc[q], i'[q] = i[q], at'[q] = at[q], fifo'[q] = fifo[q], regs'[q] = regs[q]
  PROVE  Local(q)'
<1>1. /\ Step' = Step /\ Limit(q)' = Limit(q)
      /\ \A word : Requests(word)' = Requests(word)
  BY SameKernel
<1>2. InStep(q)'
  BY <1>1 DEF Local, InStep
<1>3. Requested(q)'
  BY <1>1 DEF Local, Requested
<1>4. Received(q)'
  BY <1>1 DEF Local, Received
<1>5. Control(q)'
  BY <1>1 DEF Local, Control
<1> QED
  BY <1>2, <1>3, <1>4, <1>5 DEF Local

\* Nothing is stored.
LEMMA NotStored ==
  ASSUME WordsStored, XorsItsOwn, UNCHANGED <<kernel, at, r>>,
         \A q \in QPUs : pc'[q] = "done" /\ kernel = "hybrid" <=> pc[q] = "done" /\ kernel = "hybrid"
  PROVE  WordsStored' /\ XorsItsOwn'
<1>1. \A q \in QPUs : Rows(q)' = Rows(q)
  BY DEF Rows
<1>2. \A w \in Nat : Rows(Me(w))' = Rows(Me(w))
  BY <1>1, PlaceWord
<1>3. WordsStored'
  BY <1>2 DEF WordsStored
<1>4. XorsItsOwn'
  BY DEF XorsItsOwn, CpuKeyWord, Used
<1> QED
  BY <1>3, <1>4

\* Where a QPU's pointers stand.
LEMMA Standing ==
  ASSUME Types, NEW me \in QPUs, InStep(me)
  PROVE  LET row == Row(at[me]) IN
         /\ at[me] \in Nat /\ row \in Nat /\ at[me] = Word(me, row, 0)
         /\ at[me] + inc \in Nat /\ at[me] + inc = Word(me, row + 1, 0)
         /\ Me(at[me] + inc) = me /\ Row(at[me] + inc) = row + 1 /\ Lane(at[me] + inc) = 0
<1> DEFINE row == Row(at[me])
<1>1. at[me] \in Nat
  BY DEF Types
<1>2. row \in Nat /\ at[me] = Word(me, row, 0)
  BY <1>1, PlaceWord DEF InStep
<1>3. at[me] + inc = Word(me, row + 1, 0)
  BY <1>2, RowWords
<1>4. row + 1 \in Nat /\ 0 \in 0..(Lanes - 1)
  BY <1>2, CountsArePositive
<1>5. /\ Word(me, row + 1, 0) \in Nat /\ Me(Word(me, row + 1, 0)) = me
      /\ Row(Word(me, row + 1, 0)) = row + 1 /\ Lane(Word(me, row + 1, 0)) = 0
  BY <1>4, WordPlace
<1> QED
  BY <1>1, <1>2, <1>3, <1>5

\* What a store writes: the words of the row, each the XOR of its own two words.
LEMMA StoresRow ==
  ASSUME Types, NEW me \in QPUs, InStep(me), regs[me] = Requests(at[me])
  PROVE  /\ \A w : w \in DOMAIN Stored(me)
                     <=> w \in Nat /\ Me(w) = me /\ Row(w) = Row(at[me])
         /\ \A w \in DOMAIN Stored(me) : Stored(me)[w] =
              <<<<"p", w>>, IF kernel = "trivium" THEN CpuKeyWord(w) ELSE <<"q", w>>>>
<1> DEFINE row == Row(at[me])
<1>1. at[me] \in Nat /\ row \in Nat /\ at[me] = Word(me, row, 0)
  BY Standing
<1>2. \A lane \in 0..(Lanes - 1) : at[me] + lane = Word(me, row, lane)
  BY <1>1, RowWords
<1>3. DOMAIN Stored(me) = {at[me] + lane : lane \in 0..(Lanes - 1)}
  BY DEF Stored
<1>4. ASSUME NEW w
      PROVE  w \in DOMAIN Stored(me) <=> w \in Nat /\ Me(w) = me /\ Row(w) = row
  <2>1. w \in DOMAIN Stored(me) <=> \E lane \in 0..(Lanes - 1) : w = Word(me, row, lane)
    BY <1>2, <1>3
  <2>2. row \in Nat
    BY <1>1
  <2> HIDE DEF row
  <2>3. (\E lane \in 0..(Lanes - 1) : w = Word(me, row, lane))
        <=> w \in Nat /\ Me(w) = me /\ Row(w) = row
    BY <2>2, InRow, Zenon
  <2> QED
    BY <2>1, <2>3, Zenon
<1>5. /\ regs[me] = Requests(at[me]) /\ Requests(at[me])[1] = <<"p", at[me]>>
      /\ kernel # "trivium" => Requests(at[me])[2] = <<"q", at[me]>>
  BY <1>1, RequestTypes
<1>6. kernel = "trivium" => i[me] = row
  <2>1. \A a \in Nat : 1 * a = a
    OBVIOUS
  <2>2. kernel = "trivium" => i[me] = 1 * row
    BY DEF InStep, Step
  <2> QED
    BY <1>1, <2>1, <2>2
<1> HIDE DEF row
<1>7. ASSUME NEW lane \in 0..(Lanes - 1)
      PROVE  Stored(me)[at[me] + lane] = <<<<"p", at[me] + lane>>, KeyWord(me, lane)>>
  <2>1. /\ lane \in Nat
        /\ \A a, b, c \in Nat : c = a + b => c - a = b
    <3>1. lane \in Nat
      BY CountsArePositive
    <3>2. \A a, b, c \in Nat : c = a + b => c - a = b
      OBVIOUS
    <3> QED
      BY <3>1, <3>2
  <2>2. PICK w \in Nat : w = at[me] + lane
    BY <1>1, <2>1
  <2>3. Stored(me)[w] = <<<<regs[me][1][1], regs[me][1][2] + lane>>, KeyWord(me, lane)>>
    <3>0. w \in {at[me] + l : l \in 0..(Lanes - 1)}
      BY <2>2
    <3>1. w - at[me] = lane
      BY <1>1, <2>1, <2>2
    <3>2. Stored(me)[w] =
            <<<<regs[me][1][1], regs[me][1][2] + (w - at[me])>>, KeyWord(me, w - at[me])>>
      BY <3>0 DEF Stored
    <3> QED
      BY <3>1, <3>2
  <2>4. regs[me][1] = <<"p", at[me]>>
    BY <1>5
  <2>5. regs[me][1][1] = "p" /\ regs[me][1][2] = at[me]
    BY <2>4
  <2> QED
    BY <2>2, <2>3, <2>5
<1>8. ASSUME NEW lane \in 0..(Lanes - 1)
      PROVE  KeyWord(me, lane) = IF kernel = "trivium" THEN CpuKeyWord(at[me] + lane)
                                 ELSE <<"q", at[me] + lane>>
  <2>1. CASE kernel = "trivium"
    <3>1. CpuKeyWord(at[me] + lane) = <<"z", me, Lanes * row + Lanes - 1 - lane>>
      BY <1>1, <1>2, CpuKey
    <3>2. KeyWord(me, lane) = <<"z", me, row * Lanes + Lanes - 1 - lane>>
      BY <1>6, <2>1 DEF KeyWord
    <3>3. row * Lanes = Lanes * row
      <4>1. \A a, b \in Nat : a * b = b * a
        OBVIOUS
      <4> QED
        BY <1>1, <4>1, CountsArePositive
    <3> QED
      BY <2>1, <3>1, <3>2, <3>3
  <2>2. CASE kernel # "trivium"
    <3>1. regs[me][2] = <<"q", at[me]>>
      BY <1>5, <2>2
    <3>2. regs[me][2][1] = "q" /\ regs[me][2][2] = at[me]
      BY <3>1
    <3> QED
      BY <2>2, <3>2 DEF KeyWord
  <2> QED
    BY <2>1, <2>2
<1>9. \A w \in DOMAIN Stored(me) : Stored(me)[w] =
              <<<<"p", w>>, IF kernel = "trivium" THEN CpuKeyWord(w) ELSE <<"q", w>>>>
  BY <1>3, <1>7, <1>8
<1> QED
  BY <1>4, <1>9 DEF row

\* A row is stored, and what the QPU has stored counts one row more.
LEMMA RowStored ==
  ASSUME Types, NEW me \in QPUs, InStep(me), regs[me] = Requests(at[me]),
         Rows(me) = Row(at[me]),
         WordsStored, XorsItsOwn, kernel' = kernel, r' = Update(r, Stored(me)),
         Rows(me)' = Row(at[me]) + 1,
         \A q \in QPUs \ {me} : Rows(q)' = Rows(q)
  PROVE  WordsStored' /\ XorsItsOwn'
<1>1. /\ \A w : w \in DOMAIN Stored(me)
                  <=> w \in Nat /\ Me(w) = me /\ Row(w) = Row(at[me])
      /\ \A w \in DOMAIN Stored(me) : Stored(me)[w] =
              <<<<"p", w>>, IF kernel = "trivium" THEN CpuKeyWord(w) ELSE <<"q", w>>>>
  BY StoresRow
<1>2. Row(at[me]) \in Nat
  BY Standing
<1>3. /\ DOMAIN r' = DOMAIN r \cup DOMAIN Stored(me)
      /\ \A w \in DOMAIN r' : r'[w] = IF w \in DOMAIN Stored(me) THEN Stored(me)[w] ELSE r[w]
  BY DEF Update
<1>4. ASSUME NEW w \in Nat
      PROVE  w \in DOMAIN r' <=> Row(w) < Rows(Me(w))'
  <2>1. Me(w) \in QPUs /\ Row(w) \in Nat
    BY PlaceWord
  <2>2. w \in DOMAIN r <=> Row(w) < Rows(Me(w))
    BY DEF WordsStored
  <2>3. CASE Me(w) = me
    <3>1. w \in DOMAIN r' <=> Row(w) < Rows(me) \/ Row(w) = Row(at[me])
      BY <2>2, <2>3, <1>1, <1>3
    <3>2. \A a, b \in Nat : a < b \/ a = b <=> a < b + 1
      OBVIOUS
    <3> QED
      BY <2>1, <2>3, <3>1, <3>2, <1>2
  <2>4. CASE Me(w) # me
    BY <2>1, <2>2, <2>4, <1>1, <1>3
  <2> QED
    BY <2>3, <2>4
<1>5. \A w \in DOMAIN r' : w \in Nat
  BY <1>1, <1>3 DEF WordsStored
<1>6. WordsStored'
  BY <1>4, <1>5 DEF WordsStored
<1>7. XorsItsOwn'
  <2>1. \A w : CpuKeyWord(w)' = CpuKeyWord(w)
    BY DEF CpuKeyWord, Used
  <2>2. \A w \in DOMAIN r' : r'[w] =
              <<<<"p", w>>, IF kernel = "trivium" THEN CpuKeyWord(w) ELSE <<"q", w>>>>
    BY <1>1, <1>3 DEF XorsItsOwn
  <2> QED
    BY <2>1, <2>2 DEF XorsItsOwn
<1> QED
  BY <1>6, <1>7

----------------------------------------------------------------------------
\* The steps.

LEMMA NoneIsSeq == ASSUME NEW S PROVE <<>> \in Seq(S)
OBVIOUS

\* Taking everything leaves nothing.
LEMMA TakenAll ==
  ASSUME NEW S, NEW a \in Seq(S)
  PROVE  SubSeq(a, 1, Len(a)) = a /\ SubSeq(a, Len(a) + 1, Len(a)) = <<>>
OBVIOUS

LEMMA Went ==
  ASSUME Types, NEW me \in QPUs, NEW from, NEW to \in Places, Goto(me, from, to)
  PROVE  /\ pc[me] = from /\ pc'[me] = to /\ pc' \in [QPUs -> Places]
         /\ \A q \in QPUs \ {me} : pc'[q] = pc[q]
BY DEF Types, Goto

\* What has to be shown of a step of one QPU.
LEMMA OneMoves ==
  ASSUME IInv, NEW me \in QPUs, UNCHANGED <<kernel, n>>, Types', Local(me)',
         \A q \in QPUs \ {me} : /\ pc'[q] = pc[q] /\ i'[q] = i[q] /\ at'[q] = at[q]
                                /\ fifo'[q] = fifo[q] /\ regs'[q] = regs[q],
         WordsStored', XorsItsOwn'
  PROVE  IInv'
<1>1. \A q \in QPUs \ {me} : Local(q)'
  BY Others DEF IInv
<1>2. TriviumSize'
  BY DEF IInv, TriviumSize
<1> QED
  BY <1>1, <1>2 DEF IInv

\* A step that only goes on, and perhaps moves the FIFO or the registers.
LEMMA NothingMoves ==
  ASSUME IInv, NEW me \in QPUs, UNCHANGED <<kernel, n, i, at, r>>,
         NEW from, NEW to \in Places, Goto(me, from, to), from # "done",
         to = "done" => kernel # "hybrid",
         fifo' \in [QPUs -> Seq({"p", "q", "r"} \X Nat)], DOMAIN regs' = QPUs,
         \A q \in QPUs \ {me} : fifo'[q] = fifo[q] /\ regs'[q] = regs[q],
         Requested(me)', Received(me)', Control(me)'
  PROVE  IInv'
<1>1. /\ pc[me] = from /\ pc'[me] = to /\ pc' \in [QPUs -> Places]
      /\ \A q \in QPUs \ {me} : pc'[q] = pc[q]
  BY Went DEF IInv
<1>2. Types'
  BY <1>1 DEF IInv, Types
<1>3. InStep(me)'
  <2>1. InStep(me)
    BY DEF IInv, Local
  <2> QED
    BY <2>1, SameKernel DEF InStep
<1>4. \A q \in QPUs : pc'[q] = "done" /\ kernel = "hybrid" <=> pc[q] = "done" /\ kernel = "hybrid"
  BY <1>1
<1>5. WordsStored' /\ XorsItsOwn'
  BY <1>4, NotStored DEF IInv
<1>6. Local(me)'
  BY <1>3 DEF Local
<1>7. \A q \in QPUs \ {me} : /\ pc'[q] = pc[q] /\ i'[q] = i[q] /\ at'[q] = at[q]
                             /\ fifo'[q] = fifo[q] /\ regs'[q] = regs[q]
  BY <1>1
<1> QED
  BY <1>2, <1>5, <1>6, <1>7, OneMoves

LEMMA KeepsPrologue ==
  ASSUME IInv, NEW me \in QPUs, Prologue(me)
  PROVE  IInv'
<1>1. /\ Types /\ Local(me) /\ at[me] \in Nat
  BY DEF IInv, Types
<1>2. /\ pc[me] = "prologue" /\ pc'[me] = "for" /\ Goto(me, "prologue", "for")
      /\ fifo' = [fifo EXCEPT ![me] = @ \o Requests(at[me])]
      /\ UNCHANGED <<kernel, n, i, at, regs, r>>
  <2>1. Goto(me, "prologue", "for") /\ "for" \in Places
    BY DEF Prologue, Places
  <2>2. pc[me] = "prologue" /\ pc'[me] = "for"
    BY <1>1, <2>1, Went
  <2> QED
    BY <2>1, <2>2 DEF Prologue
<1>3. kernel # "V1" /\ fifo[me] = <<>> /\ Requests(at[me]) \in Seq({"p", "q", "r"} \X Nat)
  <2>1. kernel # "V1"
    BY <1>1, <1>2 DEF Local, Control
  <2>2. fifo[me] = <<>>
    BY <1>1, <1>2 DEF Local, Requested
  <2>3. Requests(at[me]) \in Seq({"p", "q", "r"} \X Nat)
    BY <1>1, RequestTypes DEF Request
  <2> QED
    BY <2>1, <2>2, <2>3
<1>4. fifo[me] \o Requests(at[me]) = Requests(at[me])
  BY <1>3
<1>5. /\ fifo' \in [QPUs -> Seq({"p", "q", "r"} \X Nat)] /\ fifo'[me] = Requests(at[me])
      /\ \A q \in QPUs \ {me} : fifo'[q] = fifo[q]
  BY <1>1, <1>2, <1>3, <1>4 DEF Types
<1>6. Requested(me)'
  BY <1>2, <1>3, <1>5, SameKernel DEF Requested
<1>7. Received(me)'
  BY <1>2 DEF Received
<1>8. Control(me)'
  BY <1>1, <1>2, SameKernel DEF Local, Control
<1>9. DOMAIN regs' = QPUs
  BY <1>1, <1>2 DEF Types
<1> QED
  BY <1>2, <1>5, <1>6, <1>7, <1>8, <1>9, NothingMoves DEF Places

LEMMA KeepsEnter ==
  ASSUME IInv, NEW me \in QPUs, Enter(me)
  PROVE  IInv'
<1>1. /\ Types /\ Local(me)
  BY DEF IInv
<1>2. PICK to \in {"load", "gather"} : Goto(me, "for", to) /\ (to = "load" <=> kernel = "V1")
  BY DEF Enter
<1>3. pc[me] = "for" /\ pc'[me] = to /\ to \in Places
  BY <1>1, <1>2, Went DEF Places
<1>4. i[me] < Limit(me) /\ UNCHANGED <<kernel, n, i, at, fifo, regs, r>>
  BY DEF Enter
<1>5. Requested(me)'
  BY <1>1, <1>2, <1>3, <1>4, SameKernel DEF Local, Requested
<1>6. Received(me)'
  BY <1>2, <1>3 DEF Received
<1>7. Control(me)'
  BY <1>1, <1>2, <1>3, <1>4, SameKernel DEF Local, Control
<1>8. /\ fifo' \in [QPUs -> Seq({"p", "q", "r"} \X Nat)] /\ DOMAIN regs' = QPUs
  BY <1>1, <1>4 DEF Types
<1> QED
  BY <1>2, <1>3, <1>4, <1>5, <1>6, <1>7, <1>8, NothingMoves

LEMMA KeepsLeave ==
  ASSUME IInv, NEW me \in QPUs, Leave(me)
  PROVE  IInv'
<1>1. /\ Types /\ Local(me)
  BY DEF IInv
<1>2. PICK to \in {"done", "last receive"} :
         Goto(me, "for", to) /\ (to = "done" <=> kernel = "V1")
  BY DEF Leave
<1>3. pc[me] = "for" /\ pc'[me] = to /\ to \in Places
  BY <1>1, <1>2, Went DEF Places
<1>4. i[me] >= Limit(me) /\ UNCHANGED <<kernel, n, i, at, fifo, regs, r>>
  BY DEF Leave
<1>5. Requested(me)'
  BY <1>1, <1>2, <1>3, <1>4, SameKernel DEF Local, Requested
<1>6. Received(me)'
  BY <1>2, <1>3 DEF Received
<1>7. Control(me)'
  BY <1>1, <1>2, <1>3, <1>4, SameKernel DEF Local, Control
<1>8. /\ fifo' \in [QPUs -> Seq({"p", "q", "r"} \X Nat)] /\ DOMAIN regs' = QPUs
  BY <1>1, <1>4 DEF Types
<1> QED
  BY <1>2, <1>3, <1>4, <1>5, <1>6, <1>7, <1>8, NothingMoves

LEMMA KeepsLoad ==
  ASSUME IInv, NEW me \in QPUs, Load(me)
  PROVE  IInv'
<1>1. /\ Types /\ Local(me)
  BY DEF IInv
<1>2. /\ pc[me] = "load" /\ pc'[me] = "store" /\ Goto(me, "load", "store")
      /\ regs' = [regs EXCEPT ![me] = Requests(at[me])]
      /\ UNCHANGED <<kernel, n, i, at, fifo, r>>
  BY <1>1, Went DEF Load, Places
<1>3. kernel = "V1"
  BY <1>1, <1>2 DEF Local, Control
<1>4. /\ DOMAIN regs' = QPUs /\ regs'[me] = Requests(at[me])
      /\ \A q \in QPUs \ {me} : regs'[q] = regs[q]
  BY <1>1, <1>2 DEF Types
<1>5. Requested(me)'
  <2>1. fifo[me] = <<>>
    BY <1>1, <1>3 DEF Local, Requested
  <2> QED
    BY <1>2, <1>3, <2>1 DEF Requested
<1>6. Received(me)'
  BY <1>2, <1>4, SameKernel DEF Received
<1>7. Control(me)'
  BY <1>1, <1>2, <1>3, SameKernel DEF Local, Control
<1>8. fifo' \in [QPUs -> Seq({"p", "q", "r"} \X Nat)]
  BY <1>1, <1>2 DEF Types
<1> QED
  BY <1>2, <1>4, <1>5, <1>6, <1>7, <1>8, NothingMoves DEF Places

LEMMA KeepsGather ==
  ASSUME IInv, NEW me \in QPUs, Gather(me)
  PROVE  IInv'
<1>1. /\ Types /\ Local(me) /\ at[me] \in Nat /\ at[me] + inc \in Nat
  BY Standing DEF IInv, Types, Local
<1>2. /\ pc[me] = "gather" /\ pc'[me] = "receive" /\ Goto(me, "gather", "receive")
      /\ fifo' = [fifo EXCEPT ![me] = @ \o Requests(at[me] + inc)]
      /\ UNCHANGED <<kernel, n, i, at, regs, r>>
  BY <1>1, Went DEF Gather, Places
<1>3. kernel # "V1"
  BY <1>1, <1>2 DEF Local, Control
<1>4. fifo[me] = Requests(at[me])
  BY <1>1, <1>2, <1>3 DEF Local, Requested
<1>5. /\ Requests(at[me]) \in Seq({"p", "q", "r"} \X Nat)
      /\ Requests(at[me] + inc) \in Seq({"p", "q", "r"} \X Nat)
  BY <1>1, RequestTypes DEF Request
<1>6. Requests(at[me]) \o Requests(at[me] + inc) \in Seq({"p", "q", "r"} \X Nat)
  BY <1>5, Joined
<1>7. /\ fifo' \in [QPUs -> Seq({"p", "q", "r"} \X Nat)]
      /\ fifo'[me] = Requests(at[me]) \o Requests(at[me] + inc)
      /\ \A q \in QPUs \ {me} : fifo'[q] = fifo[q]
  BY <1>1, <1>2, <1>4, <1>6 DEF Types
<1>8. Requested(me)'
  <2>1. fifo'[me] = Requests(at[me])' \o Requests(at[me] + inc)'
    BY <1>2, <1>7 DEF Requests, Arrays
  <2> QED
    BY <1>2, <1>3, <2>1 DEF Requested
<1>9. Received(me)'
  BY <1>2 DEF Received
<1>10. Control(me)'
  BY <1>1, <1>2, <1>3, SameKernel DEF Local, Control
<1>11. DOMAIN regs' = QPUs
  BY <1>1, <1>2 DEF Types
<1> QED
  BY <1>2, <1>7, <1>8, <1>9, <1>10, <1>11, NothingMoves DEF Places

LEMMA KeepsReceive ==
  ASSUME IInv, NEW me \in QPUs, Receive(me)
  PROVE  IInv'
<1>1. /\ Types /\ Local(me) /\ at[me] \in Nat /\ at[me] + inc \in Nat
  BY Standing DEF IInv, Types, Local
<1> DEFINE a == Requests(at[me])
           b == Requests(at[me] + inc)
<1>2. /\ pc[me] = "receive" /\ pc'[me] = "store" /\ Goto(me, "receive", "store")
      /\ UNCHANGED <<kernel, n, i, at, r>>
  BY <1>1, Went DEF Receive, ReceiveAll, Places
<1>3. kernel # "V1"
  BY <1>1, <1>2 DEF Local, Control
<1>4. fifo[me] = a \o b
  BY <1>1, <1>2, <1>3 DEF Local, Requested
<1>5. /\ a \in Seq({"p", "q", "r"} \X Nat) /\ Len(a) = Len(Arrays)
      /\ b \in Seq({"p", "q", "r"} \X Nat)
  BY <1>1, RequestTypes DEF Request
<1>6. /\ regs' = [regs EXCEPT ![me] = SubSeq(fifo[me], 1, Len(Arrays))]
      /\ fifo' = [fifo EXCEPT ![me] = SubSeq(fifo[me], Len(Arrays) + 1, Len(fifo[me]))]
  BY DEF Receive, ReceiveAll
<1>7. SubSeq(a \o b, 1, Len(a)) = a /\ SubSeq(a \o b, Len(a) + 1, Len(a \o b)) = b
  BY <1>5, TakenFirst
<1>8. regs' = [regs EXCEPT ![me] = a] /\ fifo' = [fifo EXCEPT ![me] = b]
  BY <1>4, <1>5, <1>6, <1>7
<1>9. /\ fifo' \in [QPUs -> Seq({"p", "q", "r"} \X Nat)] /\ fifo'[me] = b
      /\ DOMAIN regs' = QPUs /\ regs'[me] = a
      /\ \A q \in QPUs \ {me} : fifo'[q] = fifo[q] /\ regs'[q] = regs[q]
  BY <1>1, <1>5, <1>8 DEF Types
<1>10. Requested(me)'
  BY <1>2, <1>3, <1>9, SameKernel DEF Requested, inc
<1>11. Received(me)'
  BY <1>2, <1>9, SameKernel DEF Received
<1>12. Control(me)'
  BY <1>1, <1>2, <1>3, SameKernel DEF Local, Control
<1> QED
  BY <1>2, <1>9, <1>10, <1>11, <1>12, NothingMoves DEF Places

LEMMA KeepsLastReceive ==
  ASSUME IInv, NEW me \in QPUs, LastReceive(me)
  PROVE  IInv'
<1>1. /\ Types /\ Local(me) /\ at[me] \in Nat
  BY DEF IInv, Types
<1> DEFINE a == Requests(at[me])
<1>2. PICK to \in {"done", "last store"} :
         Goto(me, "last receive", to) /\ (to = "last store" <=> kernel = "hybrid")
  BY DEF LastReceive
<1>3. /\ pc[me] = "last receive" /\ pc'[me] = to /\ to \in Places
      /\ UNCHANGED <<kernel, n, i, at, r>>
  BY <1>1, <1>2, Went DEF LastReceive, ReceiveAll, Places
<1>4. kernel # "V1"
  BY <1>1, <1>3 DEF Local, Control
<1>5. fifo[me] = a
  BY <1>1, <1>3, <1>4 DEF Local, Requested
<1>6. a \in Seq({"p", "q", "r"} \X Nat) /\ Len(a) = Len(Arrays)
  BY <1>1, RequestTypes DEF Request
<1>7. /\ regs' = [regs EXCEPT ![me] = SubSeq(fifo[me], 1, Len(Arrays))]
      /\ fifo' = [fifo EXCEPT ![me] = SubSeq(fifo[me], Len(Arrays) + 1, Len(fifo[me]))]
  BY DEF LastReceive, ReceiveAll
<1>8. regs' = [regs EXCEPT ![me] = a] /\ fifo' = [fifo EXCEPT ![me] = <<>>]
  <2>1. SubSeq(a, 1, Len(a)) = a /\ SubSeq(a, Len(a) + 1, Len(a)) = <<>>
    BY <1>6, TakenAll
  <2> QED
    BY <1>5, <1>6, <1>7, <2>1
<1>9. /\ fifo' \in [QPUs -> Seq({"p", "q", "r"} \X Nat)] /\ fifo'[me] = <<>>
      /\ DOMAIN regs' = QPUs /\ regs'[me] = a
      /\ \A q \in QPUs \ {me} : fifo'[q] = fifo[q] /\ regs'[q] = regs[q]
  <2>1. <<>> \in Seq({"p", "q", "r"} \X Nat)
    BY NoneIsSeq
  <2> QED
    BY <1>1, <1>8, <2>1 DEF Types
<1>10. Requested(me)'
  BY <1>2, <1>3, <1>9 DEF Requested
<1>11. Received(me)'
  BY <1>2, <1>3, <1>9, SameKernel DEF Received
<1>12. Control(me)'
  BY <1>1, <1>2, <1>3, <1>4, SameKernel DEF Local, Control
<1> QED
  BY <1>2, <1>3, <1>9, <1>10, <1>11, <1>12, NothingMoves

LEMMA Limits ==
  ASSUME NEW me \in QPUs
  PROVE  /\ kernel = "hybrid" => Limit(me) = n - 1
         /\ kernel = "trivium" =>
              LET v == Quotient(n, Lanes)
              IN  Limit(me) = Quotient(v, NumQPUs) + (IF Remainder(v, NumQPUs) > me THEN 1 ELSE 0)
         /\ kernel \notin {"hybrid", "trivium"} => Limit(me) = n
<1>1. CASE kernel = "hybrid"
  BY <1>1 DEF Limit
<1>2. CASE kernel = "trivium"
  BY <1>2 DEF Limit, Quotient, Remainder
<1>3. CASE kernel \notin {"hybrid", "trivium"}
  BY <1>3 DEF Limit
<1> QED
  BY <1>1, <1>2, <1>3

LEMMA LimitType ==
  ASSUME Types, NEW me \in QPUs
  PROVE  Limit(me) \in Int
<1>1. n \in Nat
  BY DEF Types
<1>2. CASE kernel = "trivium"
  <2> DEFINE v == Quotient(n, Lanes)
             q == Quotient(v, NumQPUs)
             m == Remainder(v, NumQPUs)
  <2>1. v \in Nat
    BY <1>1, CountsArePositive, Division
  <2>2. q \in Nat
    BY <2>1, CountsArePositive, Division
  <2>3. Limit(me) = q + 1 \/ Limit(me) = q + 0
    BY <1>2, Limits
  <2> HIDE DEF q
  <2> QED
    BY <2>2, <2>3
<1>3. CASE kernel = "hybrid"
  BY <1>1, <1>3, Limits
<1>4. CASE kernel \notin {"hybrid", "trivium"}
  BY <1>1, <1>4, Limits
<1> QED
  BY <1>2, <1>3, <1>4

LEMMA FilledUp ==
  ASSUME NEW s \in Nat
  PROVE  LENVECTOR(s) \in Nat /\ Lanes * LENVECTOR(s) \in Nat
<1>1. Lanes \in Nat /\ Lanes > 0 /\ s + Lanes - 1 \in Nat
  BY CountsArePositive
<1>2. \A a, b \in Nat : b > 0 => a \div b \in Nat
  OBVIOUS
<1>3. LENVECTOR(s) \in Nat
  BY <1>1, <1>2 DEF LENVECTOR
<1>4. \A a, b \in Nat : a * b \in Nat
  OBVIOUS
<1> QED
  BY <1>1, <1>3, <1>4

LEMMA KeepsStore ==
  ASSUME IInv, NEW me \in QPUs, Store(me)
  PROVE  IInv'
<1>1. /\ Types /\ Local(me) /\ InStep(me) /\ TriviumSize /\ WordsStored /\ XorsItsOwn
  BY DEF IInv, Local
<1>2. /\ pc[me] = "store" /\ pc'[me] = "for" /\ pc' \in [QPUs -> Places]
      /\ \A q \in QPUs \ {me} : pc'[q] = pc[q]
  <2>1. Goto(me, "store", "for") /\ "for" \in Places
    BY DEF Store, Places
  <2> QED
    BY <1>1, <2>1, Went
<1>3. /\ r' = Update(r, Stored(me)) /\ UNCHANGED <<kernel, n, fifo, regs>>
      /\ at' = [at EXCEPT ![me] = @ + inc] /\ i' = [i EXCEPT ![me] = @ + Step]
  BY DEF Store, Step
<1>4. /\ at[me] \in Nat /\ at[me] + inc \in Nat /\ Row(at[me]) \in Nat
      /\ Me(at[me] + inc) = me /\ Row(at[me] + inc) = Row(at[me]) + 1 /\ Lane(at[me] + inc) = 0
  BY <1>1, Standing
<1>5. Step \in Nat
  BY CountsArePositive DEF Step
<1>6. /\ at' \in [QPUs -> Nat] /\ at'[me] = at[me] + inc
      /\ \A q \in QPUs \ {me} : at'[q] = at[q]
  BY <1>1, <1>3, <1>4 DEF Types
<1>7. i[me] \in Nat /\ i[me] + Step \in Nat
  BY <1>1, <1>5 DEF Types
<1>8. /\ i' \in [QPUs -> Nat] /\ i'[me] = i[me] + Step
      /\ \A q \in QPUs \ {me} : i'[q] = i[q]
  BY <1>1, <1>3, <1>7 DEF Types
<1>9. Types'
  BY <1>1, <1>2, <1>3, <1>6, <1>8 DEF Types
<1>10. Local(me)'
  <2>1. InStep(me)'
    <3>1. i[me] = Step * Row(at[me])
      BY <1>1 DEF InStep
    <3>2. \A a, b \in Nat : a * b + a = a * (b + 1)
      OBVIOUS
    <3>3. i'[me] = Step * Row(at'[me])
      BY <1>4, <1>5, <1>6, <1>8, <3>1, <3>2
    <3>4. Step' = Step
      BY <1>3, SameKernel
    <3> QED
      BY <1>4, <1>6, <3>3, <3>4 DEF InStep
  <2>2. fifo[me] = IF kernel = "V1" THEN <<>> ELSE Requests(at[me] + inc)
    BY <1>1, <1>2 DEF Local, Requested
  <2>3. Requested(me)'
    <3>1. fifo'[me] = IF kernel' = "V1" THEN <<>> ELSE Requests(at[me])'
      BY <1>3, <1>6, <2>2 DEF Requests, Arrays
    <3> QED
      BY <1>2, <3>1 DEF Requested
  <2>4. Received(me)'
    BY <1>2 DEF Received
  <2>5. Control(me)'
    <3>1. i[me] < Limit(me) /\ Limit(me)' = Limit(me) /\ Step' = Step
      BY <1>1, <1>2, <1>3, SameKernel DEF Local, Control
    <3>2. Limit(me) \in Int
      BY <1>1, LimitType
    <3>3. \A a, b \in Nat, c \in Int : a < c => a + b < c + b
      OBVIOUS
    <3>4. i'[me] < Limit(me)' + Step'
      BY <1>5, <1>7, <1>8, <3>1, <3>2, <3>3
    <3> QED
      BY <1>2, <3>4 DEF Control
  <2> QED
    BY <2>1, <2>3, <2>4, <2>5 DEF Local
<1>11. regs[me] = Requests(at[me])
  BY <1>1, <1>2 DEF Local, Received
<1>12. /\ Rows(me) = Row(at[me]) /\ Rows(me)' = Row(at[me]) + 1
       /\ \A q \in QPUs \ {me} : Rows(q)' = Rows(q)
  <2>1. \A a \in Nat : a + 0 = a
    OBVIOUS
  <2>2. Rows(me) = Row(at[me]) + 0
    BY <1>2 DEF Rows
  <2>3. Rows(me)' = Row(at[me]) + 1 + 0
    BY <1>2, <1>4, <1>6 DEF Rows
  <2>4. \A q \in QPUs \ {me} : Rows(q)' = Rows(q)
    BY <1>2, <1>3, <1>6 DEF Rows
  <2> QED
    BY <1>4, <2>1, <2>2, <2>3, <2>4
<1>13. WordsStored' /\ XorsItsOwn'
  BY <1>1, <1>3, <1>11, <1>12, RowStored
<1> QED
  BY <1>2, <1>3, <1>6, <1>8, <1>9, <1>10, <1>13, OneMoves

LEMMA KeepsLastStore ==
  ASSUME IInv, NEW me \in QPUs, LastStore(me)
  PROVE  IInv'
<1>1. /\ Types /\ Local(me) /\ InStep(me) /\ TriviumSize /\ WordsStored /\ XorsItsOwn
  BY DEF IInv, Local
<1>2. /\ pc[me] = "last store" /\ pc'[me] = "done" /\ pc' \in [QPUs -> Places]
      /\ \A q \in QPUs \ {me} : pc'[q] = pc[q]
  <2>1. Goto(me, "last store", "done") /\ "done" \in Places
    BY DEF LastStore, Places
  <2> QED
    BY <1>1, <2>1, Went
<1>3. r' = Update(r, Stored(me)) /\ UNCHANGED <<kernel, n, i, at, fifo, regs>>
  BY DEF LastStore
<1>4. kernel = "hybrid" /\ Row(at[me]) \in Nat
  BY <1>1, <1>2, Standing DEF Local, Control
<1>5. Types'
  BY <1>1, <1>2, <1>3 DEF Types
<1>6. Local(me)'
  <2>1. InStep(me)'
    BY <1>1, <1>3, SameKernel DEF InStep
  <2>2. Requested(me)'
    <3>1. fifo[me] = <<>>
      BY <1>1, <1>2 DEF Local, Requested
    <3> QED
      BY <1>2, <1>3, <3>1 DEF Requested
  <2>3. Received(me)'
    BY <1>2 DEF Received
  <2>4. Control(me)'
    BY <1>1, <1>2, <1>3, SameKernel DEF Local, Control
  <2> QED
    BY <2>1, <2>2, <2>3, <2>4 DEF Local
<1>7. regs[me] = Requests(at[me])
  BY <1>1, <1>2 DEF Local, Received
<1>8. /\ Rows(me) = Row(at[me]) /\ Rows(me)' = Row(at[me]) + 1
      /\ \A q \in QPUs \ {me} : Rows(q)' = Rows(q)
  <2>1. \A a \in Nat : a + 0 = a
    OBVIOUS
  <2>2. Rows(me) = Row(at[me]) + 0
    BY <1>2 DEF Rows
  <2>3. Rows(me)' = Row(at[me]) + 1
    BY <1>2, <1>3, <1>4 DEF Rows
  <2>4. \A q \in QPUs \ {me} : Rows(q)' = Rows(q)
    BY <1>2, <1>3 DEF Rows
  <2> QED
    BY <1>4, <2>1, <2>2, <2>3, <2>4
<1>9. WordsStored' /\ XorsItsOwn'
  BY <1>1, <1>3, <1>7, <1>8, RowStored
<1> QED
  BY <1>2, <1>3, <1>5, <1>6, <1>9, OneMoves

LEMMA InitIInv == Init => IInv
<1> SUFFICES ASSUME Init PROVE IInv
  OBVIOUS
<1>1. Types
  <2>1. \A s \in Nat : Lanes * LENVECTOR(s) \in Nat
    BY FilledUp
  <2>2. n \in Nat
    BY <2>1, KernelAssumption DEF Init
  <2>3. \A me \in QPUs : me * Lanes \in Nat
    <3>1. \A a, b \in Nat : a * b \in Nat
      OBVIOUS
    <3> QED
      BY <3>1, CountsArePositive DEF QPUs
  <2>4. at \in [QPUs -> Nat] /\ i \in [QPUs -> Nat]
    BY <2>3 DEF Init
  <2>5. pc \in [QPUs -> Places] /\ DOMAIN regs = QPUs
    BY DEF Init, Places
  <2>6. fifo \in [QPUs -> Seq({"p", "q", "r"} \X Nat)]
    BY NoneIsSeq DEF Init
  <2> QED
    BY <2>2, <2>4, <2>5, <2>6, KernelAssumption DEF Init, Types
<1>2. TriviumSize
  <2>1. \A s \in Nat : LENVECTOR(s) \in Nat
    BY FilledUp
  <2> QED
    BY <2>1, KernelAssumption DEF Init, TriviumSize
<1>3. ASSUME NEW me \in QPUs
      PROVE  Local(me) /\ Rows(me) = 0
  <2>1. pc[me] = IF kernel = "V1" THEN "for" ELSE "prologue"
    BY DEF Init
  <2>2. at[me] = Word(me, 0, 0)
    <3>1. Word(me, 0, 0) = me * Lanes + inc * 0
      BY RowWords
    <3>2. \A a, b, c \in Nat : a * b + c * 0 = a * b
      OBVIOUS
    <3>3. me \in Nat /\ Lanes \in Nat /\ inc \in Nat
      BY CountsArePositive DEF QPUs
    <3> QED
      BY <3>1, <3>2, <3>3 DEF Init
  <2>3. Me(at[me]) = me /\ Row(at[me]) = 0 /\ Lane(at[me]) = 0
    <3>1. 0 \in Nat /\ 0 \in 0..(Lanes - 1)
      BY CountsArePositive
    <3> QED
      BY <2>2, <3>1, WordPlace
  <2>4. InStep(me)
    <3>1. i[me] = 0 /\ Step \in Nat
      BY CountsArePositive DEF Init, Step
    <3>2. \A a \in Nat : a * 0 = 0
      OBVIOUS
    <3> QED
      BY <2>3, <3>1, <3>2 DEF InStep
  <2>5. Requested(me)
    <3>1. fifo[me] = <<>>
      BY DEF Init
    <3> QED
      BY <2>1, <3>1 DEF Requested
  <2>6. Received(me)
    BY <2>1 DEF Received
  <2>7. Control(me)
    BY <2>1, <2>3 DEF Control
  <2>8. Rows(me) = 0
    BY <2>1, <2>3 DEF Rows
  <2> QED
    BY <2>4, <2>5, <2>6, <2>7, <2>8 DEF Local
<1>4. WordsStored /\ XorsItsOwn
  <2>1. DOMAIN r = {}
    BY DEF Init
  <2>2. \A w \in Nat : ~ (Row(w) < Rows(Me(w)))
    <3> TAKE w \in Nat
    <3>1. Me(w) \in QPUs /\ Row(w) \in Nat
      BY PlaceWord
    <3>2. Rows(Me(w)) = 0
      BY <1>3, <3>1
    <3> QED
      BY <3>1, <3>2
  <2> QED
    BY <2>1, <2>2 DEF WordsStored, XorsItsOwn
<1> QED
  BY <1>1, <1>2, <1>3, <1>4 DEF IInv

LEMMA StepIInv == IInv /\ [Next]_vars => IInv'
<1> SUFFICES ASSUME IInv, [Next]_vars PROVE IInv'
  OBVIOUS
<1>1. ASSUME NEW me \in QPUs, QPU(me)
      PROVE  IInv'
  <2>1. CASE Prologue(me)
    BY <2>1, KeepsPrologue
  <2>2. CASE Enter(me)
    BY <2>2, KeepsEnter
  <2>3. CASE Leave(me)
    BY <2>3, KeepsLeave
  <2>4. CASE Load(me)
    BY <2>4, KeepsLoad
  <2>5. CASE Gather(me)
    BY <2>5, KeepsGather
  <2>6. CASE Receive(me)
    BY <2>6, KeepsReceive
  <2>7. CASE Store(me)
    BY <2>7, KeepsStore
  <2>8. CASE LastReceive(me)
    BY <2>8, KeepsLastReceive
  <2>9. CASE LastStore(me)
    BY <2>9, KeepsLastStore
  <2> QED
    BY <1>1, <2>1, <2>2, <2>3, <2>4, <2>5, <2>6, <2>7, <2>8, <2>9 DEF QPU
<1>2. CASE UNCHANGED vars
  <2>1. UNCHANGED <<kernel, n, pc, i, at, fifo, regs, r>>
    BY <1>2 DEF vars
  <2>2. Types' /\ TriviumSize'
    BY <2>1 DEF IInv, Types, TriviumSize
  <2>3. \A q \in QPUs : Local(q)'
    BY <2>1, Others DEF IInv
  <2>4. WordsStored' /\ XorsItsOwn'
    BY <2>1, NotStored DEF IInv
  <2> QED
    BY <2>2, <2>3, <2>4 DEF IInv
<1> QED
  BY <1>1, <1>2 DEF Next, Finished

LEMMA Invariant == Spec => []IInv
BY InitIInv, StepIInv, PTL DEF Spec

----------------------------------------------------------------------------
\* TypeOK: every QPU stays within the kernel, and r is touched at words only.
THEOREM TypesHold == Spec => []TypeOK
<1>1. IInv => TypeOK
  BY DEF IInv, Types, Places, WordsStored, TypeOK
<1> QED
  BY <1>1, Invariant, PTL

\* XorsItsOwn: each word stored is the XOR of that word of the message with that
\* word of the key, or with the integer of the key stream that the CPU's loop uses.
THEOREM NeverOutOfStep == Spec => []XorsItsOwn
<1>1. IInv => XorsItsOwn
  BY DEF IInv
<1> QED
  BY <1>1, Invariant, PTL

\* FifoBalanced: a QPU never has more than two rows on request, never waits for an
\* answer it has not asked for, and leaves none behind.
THEOREM NothingOverdue == Spec => []FifoBalanced
<1>1. IInv => FifoBalanced
  <2> SUFFICES ASSUME IInv, NEW me \in QPUs
               PROVE  /\ Len(fifo[me]) <= 2 * Len(Arrays)
                      /\ pc[me] \in {"receive", "last receive"} => Len(fifo[me]) >= Len(Arrays)
                      /\ pc[me] = "done" => fifo[me] = <<>>
    BY DEF FifoBalanced
  <2> DEFINE a == Requests(at[me])
             b == Requests(at[me] + inc)
  <2>1. Types /\ Local(me) /\ Len(Arrays) \in 1..3
    BY RequestTypes DEF IInv, Types
  <2>2. /\ a \in Seq(Request) /\ Len(a) = Len(Arrays)
        /\ b \in Seq(Request) /\ Len(b) = Len(Arrays)
    <3>1. InStep(me)
      BY <2>1 DEF Local
    <3> QED
      BY <2>1, <3>1, RequestTypes, Standing
  <2> HIDE DEF a, b
  <2>3. Len(a \o b) = Len(Arrays) + Len(Arrays)
    BY <2>2, Joined
  <2>4. /\ pc[me] = "done" => fifo[me] = <<>>
        /\ pc[me] = "receive" \/ pc[me] = "last receive" => fifo[me] # <<>>
        /\ fifo[me] \in {<<>>, a, a \o b, b}
    <3>1. pc[me] = "done" => fifo[me] = <<>>
      BY <2>1 DEF Local, Requested
    <3>2. fifo[me] \in {<<>>, a, a \o b, b}
      BY <2>1 DEF Local, Requested, a, b
    <3>3. pc[me] = "receive" => fifo[me] = a \o b
      BY <2>1 DEF Local, Requested, Control, a, b
    <3>4. pc[me] = "last receive" => fifo[me] = a
      BY <2>1 DEF Local, Requested, Control, a
    <3>5. a # <<>> /\ a \o b # <<>>
      <4>1. Len(<<>>) = 0
        OBVIOUS
      <4>2. \A l \in 1..3 : l # 0 /\ l + l # 0
        OBVIOUS
      <4> QED
        BY <2>1, <2>2, <2>3, <4>1, <4>2
    <3> QED
      BY <3>1, <3>2, <3>3, <3>4, <3>5
  <2>5. \A l \in 1..3 : 0 <= 2 * l /\ l <= 2 * l /\ l + l <= 2 * l /\ l <= l + l /\ l <= l
    OBVIOUS
  <2>6. /\ Len(fifo[me]) <= 2 * Len(Arrays)
        /\ fifo[me] # <<>> => Len(Arrays) <= Len(fifo[me])
    <3>1. Len(<<>>) = 0
      OBVIOUS
    <3> QED
      BY <2>1, <2>2, <2>3, <2>4, <2>5, <3>1
  <2> QED
    BY <2>4, <2>6
<1> QED
  BY <1>1, Invariant, PTL

\* StoredOnce: what a store writes has not been written before.
THEOREM NoWordTwice == Spec => StoredOnce
<1>1. ASSUME IInv, [Next]_vars, NEW me \in QPUs, Store(me) \/ LastStore(me)
      PROVE  DOMAIN r \cap DOMAIN Stored(me) = {}
  <2>1. Types /\ Local(me) /\ InStep(me) /\ WordsStored
    BY <1>1 DEF IInv, Local
  <2>2. pc[me] = "store" \/ pc[me] = "last store"
    BY <1>1 DEF Store, LastStore, Goto
  <2>3. regs[me] = Requests(at[me])
    BY <2>1, <2>2 DEF Local, Received
  <2>4. Rows(me) = Row(at[me]) /\ Row(at[me]) \in Nat
    <3>1. \A a \in Nat : a + 0 = a
      OBVIOUS
    <3>2. Row(at[me]) \in Nat
      BY <2>1, Standing
    <3>3. Rows(me) = Row(at[me]) + 0
      BY <2>2 DEF Rows
    <3> QED
      BY <3>1, <3>2, <3>3
  <2>5. \A w \in DOMAIN Stored(me) : w \in Nat /\ Me(w) = me /\ Row(w) = Row(at[me])
    BY <2>1, <2>3, StoresRow
  <2>6. \A w \in DOMAIN r : Row(w) < Rows(Me(w))
    BY <2>1 DEF WordsStored
  <2> QED
    BY <2>4, <2>5, <2>6
<1>2. IInv /\ [Next]_vars
        => [\A me \in QPUs : Store(me) \/ LastStore(me) => DOMAIN r \cap DOMAIN Stored(me) = {}]_vars
  BY <1>1
<1> QED
  BY <1>2, Invariant, PTL DEF Spec, StoredOnce

----------------------------------------------------------------------------
\* What has been stored in the end.

LEMMA Products ==
  ASSUME NEW a \in Nat, a > 0, NEW b \in Nat, NEW c \in Nat
  PROVE  /\ a * b \in Nat /\ a * c \in Nat
         /\ b < c => a * b + a <= a * c
         /\ b <= c => a * b <= a * c
<1>1. a * b \in Nat /\ a * c \in Nat
  OBVIOUS
<1>2. ASSUME b < c PROVE a * b + a <= a * c
  <2>1. PICK e \in Nat : c = b + 1 + e
    BY <1>2
  <2>2. a * c = a * b + a + a * e /\ a * e \in Nat
    BY <2>1
  <2> QED
    BY <1>1, <2>2
<1>3. ASSUME b <= c PROVE a * b <= a * c
  <2>1. PICK e \in Nat : c = b + e
    BY <1>3
  <2>2. a * c = a * b + a * e /\ a * e \in Nat
    BY <2>1
  <2> QED
    BY <1>1, <2>2
<1> QED
  BY <1>1, <1>2, <1>3

\* The words of row number r of all QPUs together are inc words in succession.
LEMMA RowBounds ==
  ASSUME NEW w \in Nat
  PROVE  /\ inc * Row(w) \in Nat /\ inc * Row(w) <= w /\ w <= inc * Row(w) + (inc - 1)
<1> DEFINE me == Me(w)
           row == Row(w)
           lane == Lane(w)
<1>1. me \in QPUs /\ row \in Nat /\ lane \in 0..(Lanes - 1) /\ w = Word(me, row, lane)
  BY PlaceWord
<1> HIDE DEF me, row, lane
<1>2. w = me * Lanes + inc * row + lane
  BY <1>1, RowWords
<1>3. inc \in Nat /\ inc > 0 /\ Lanes \in Nat /\ Lanes > 0 /\ me \in Nat /\ lane \in Nat /\ me < NumQPUs
      /\ NumQPUs \in Nat
  BY <1>1, CountsArePositive DEF QPUs
<1>4. inc * row \in Nat
  BY <1>1, <1>3, Products
<1>5. Lanes * me \in Nat /\ Lanes * me + Lanes <= Lanes * NumQPUs
  BY <1>3, Products
<1>6. Lanes * me = me * Lanes /\ Lanes * NumQPUs = inc
  <2>1. \A a, b \in Nat : a * b = b * a
    OBVIOUS
  <2> QED
    BY <1>3, <2>1 DEF inc
<1>7. me * Lanes + lane \in 0..(inc - 1)
  <2>1. \A x, l, k, m \in Nat : x + k <= m /\ l < k => x + l \in 0..(m - 1)
    OBVIOUS
  <2>2. lane < Lanes
    BY <1>1, <1>3
  <2> QED
    BY <1>3, <1>5, <1>6, <2>1, <2>2
<1>8. \A x, y, l, m \in Nat : x + l \in 0..(m - 1) => y <= x + y + l /\ x + y + l <= y + (m - 1)
  OBVIOUS
<1>9. inc * row <= w /\ w <= inc * row + (inc - 1)
  BY <1>2, <1>3, <1>4, <1>5, <1>6, <1>7, <1>8
<1> QED
  BY <1>4, <1>9 DEF row

LEMMA VectorBounds ==
  ASSUME NEW w \in Nat, NEW s \in Nat
  PROVE  /\ Vector(w) \in Nat
         /\ w < Lanes * s <=> Vector(w) < s
         /\ Vector(w) = NumQPUs * Row(w) + Me(w)
<1>1. Lanes \in Nat /\ Lanes > 0 /\ NumQPUs \in Nat /\ NumQPUs > 0
  BY CountsArePositive
<1>2. PICK v \in Nat : v = Vector(w)
  BY <1>1, Division DEF Vector
<1>3. PICK lane \in 0..(Lanes - 1) : w = Lanes * v + lane
  BY <1>1, <1>2, Division DEF Vector
<1>4. Lanes * v \in Nat /\ Lanes * s \in Nat
  BY <1>1, Products
<1>5. v < s => Lanes * v + Lanes <= Lanes * s
  BY <1>1, Products
<1>6. s <= v => Lanes * s <= Lanes * v
  BY <1>1, Products
<1>7. v < s => w < Lanes * s
  BY <1>1, <1>3, <1>4, <1>5
<1>8. ~ (v < s) => ~ (w < Lanes * s)
  <2>1. ~ (v < s) => s <= v
    OBVIOUS
  <2>2. s <= v => ~ (w < Lanes * s)
    BY <1>1, <1>3, <1>4, <1>6
  <2> QED
    BY <2>1, <2>2
<1>9. Vector(w) = NumQPUs * Row(w) + Me(w)
  BY <1>1, <1>2, Division DEF Row, Me
<1> QED
  BY <1>2, <1>7, <1>8, <1>9

\* The rows of QPU me of the Trivium kernel that have a vector of the message.
LEMMA TriviumRows ==
  ASSUME Types, TriviumSize, kernel = "trivium", NEW w \in Nat
  PROVE  w < n <=> Row(w) < Limit(Me(w))
<1>1. Lanes \in Nat /\ Lanes > 0 /\ NumQPUs \in Nat /\ NumQPUs > 0
  BY CountsArePositive
<1>2. PICK s \in Nat : n = Lanes * s
  BY DEF TriviumSize
<1>3. Quotient(n, Lanes) = s
  <2>1. 0 \in 0..(Lanes - 1)
    BY <1>1
  <2>2. Quotient(Lanes * s + 0, Lanes) = s
    BY <1>1, <2>1, Divided
  <2>3. \A a \in Nat : a + 0 = a
    OBVIOUS
  <2>4. Lanes * s + 0 = n
    BY <1>1, <1>2, <2>3, Products
  <2> QED
    BY <2>2, <2>4
<1>4. PICK q \in Nat, m \in 0..(NumQPUs - 1) :
         q = Quotient(s, NumQPUs) /\ m = Remainder(s, NumQPUs) /\ s = NumQPUs * q + m
  BY <1>1, Division
<1>5. PICK me \in QPUs, row \in Nat : me = Me(w) /\ row = Row(w)
  BY PlaceWord
<1>6. w < n <=> NumQPUs * row + me < s
  BY <1>2, <1>5, VectorBounds
<1>7. Limit(me) = q + (IF m > me THEN 1 ELSE 0)
  BY <1>3, <1>4, Limits
<1>8. me \in 0..(NumQPUs - 1)
  BY <1>5 DEF QPUs
<1>9. NumQPUs * row \in Nat /\ NumQPUs * q \in Nat
  BY <1>1, Products
<1>10. /\ row < q => NumQPUs * row + NumQPUs <= NumQPUs * q
       /\ q < row => NumQPUs * q + NumQPUs <= NumQPUs * row
  BY <1>1, Products
<1>11. CASE row < q
  <2>1. NumQPUs * row + me < s
    BY <1>1, <1>4, <1>8, <1>9, <1>10, <1>11
  <2>2. row < Limit(me)
    BY <1>7, <1>11
  <2> QED
    BY <1>5, <1>6, <2>1, <2>2
<1>12. CASE row = q
  <2>0. me \in Nat /\ m \in Nat
    BY <1>1, <1>8
  <2>1. NumQPUs * row + me < s <=> me < m
    <3>1. \A x, a, b \in Nat : x + a < x + b <=> a < b
      OBVIOUS
    <3>2. NumQPUs * row + me < NumQPUs * row + m <=> me < m
      BY <1>9, <2>0, <3>1
    <3> QED
      BY <1>4, <1>12, <3>2
  <2>2. row < Limit(me) <=> me < m
    <3>1. CASE me < m
      BY <1>7, <1>12, <2>0, <3>1
    <3>2. CASE ~ (me < m)
      BY <1>7, <1>12, <2>0, <3>2
    <3> QED
      BY <3>1, <3>2
  <2> QED
    BY <1>5, <1>6, <2>1, <2>2
<1>13. CASE q < row
  <2>1. ~ (NumQPUs * row + me < s)
    BY <1>1, <1>4, <1>8, <1>9, <1>10, <1>13
  <2>2. ~ (row < Limit(me))
    BY <1>7, <1>13
  <2> QED
    BY <1>5, <1>6, <2>1, <2>2
<1> QED
  BY <1>11, <1>12, <1>13

\* Complete: when all QPUs have finished no word of the message is left over.
THEOREM NoWordIsLeft == Spec => []Complete
<1>1. IInv => Complete
  <2> SUFFICES ASSUME IInv, Done, NEW w \in 0..(n - 1)
               PROVE  w \in DOMAIN r
    BY DEF Complete
  <2>1. n \in Nat /\ Types /\ TriviumSize /\ WordsStored
    BY DEF IInv, Types
  <2>2. w \in Nat /\ w < n
    BY <2>1
  <2>3. PICK me \in QPUs, row \in Nat : me = Me(w) /\ row = Row(w)
    BY <2>2, PlaceWord
  <2>4. Local(me) /\ pc[me] = "done" /\ i[me] \in Nat
    BY DEF IInv, Done, Types
  <2>5. PICK R \in Nat : R = Row(at[me])
    BY <2>1, <2>4, Standing DEF Local
  <2>6. i[me] = Step * R /\ i[me] >= Limit(me)
    BY <2>4, <2>5 DEF Local, InStep, Control
  <2>7. inc \in Nat /\ inc > 0 /\ inc * row \in Nat /\ inc * row <= w
    BY <2>2, <2>3, RowBounds, CountsArePositive
  <2>8. R <= row => inc * R <= inc * row
    BY <2>7, Products
  <2>9. inc * R \in Nat /\ (R < row => inc * R <= inc * row) /\ (row < R \/ row = R \/ R < row)
    BY <2>7, Products
  <2>10. row < Rows(me)
    <3>1. CASE kernel = "trivium"
      <4>1. row < Limit(me)
        BY <2>1, <2>2, <2>3, <3>1, TriviumRows
      <4>2. i[me] = R
        <5>1. \A a \in Nat : 1 * a = a
          OBVIOUS
        <5> QED
          BY <2>6, <3>1, <5>1 DEF Step
      <4>3. Rows(me) = R + 0
        BY <2>5, <3>1 DEF Rows
      <4>4. Limit(me) \in Int
        BY <2>1, LimitType
      <4> QED
        BY <2>6, <4>1, <4>2, <4>3, <4>4
    <3>2. CASE kernel = "hybrid"
      <4>1. inc * R >= n - 1
        BY <2>6, <3>2, Limits DEF Step
      <4>2. Rows(me) = R + 1
        BY <2>4, <2>5, <3>2 DEF Rows
      <4>3. R < row => inc * R + inc <= inc * row
        BY <2>7, Products
      <4>4. ~ (R < row)
        BY <2>1, <2>2, <2>7, <2>9, <4>1, <4>3
      <4> QED
        BY <2>9, <4>2, <4>4
    <3>3. CASE kernel \notin {"hybrid", "trivium"}
      <4>1. inc * R >= n
        BY <2>6, <3>3, Limits DEF Step
      <4>2. Rows(me) = R + 0
        BY <2>5, <3>3 DEF Rows
      <4>3. ~ (R <= row)
        BY <2>1, <2>2, <2>7, <2>8, <2>9, <4>1
      <4> QED
        BY <4>2, <4>3
    <3> QED
      BY <3>1, <3>2, <3>3
  <2> QED
    BY <2>1, <2>2, <2>3, <2>10 DEF WordsStored
<1> QED
  BY <1>1, Invariant, PTL

\* Overrun: how far behind the message the kernels write, for vectors of more than
\* one word (a single QPU with vectors of one word stores one row of an empty message,
\* too, which is one word more).
THEOREM NoFurther == Lanes > 1 => (Spec => []Overrun)
<1>1. ASSUME Lanes > 1, IInv PROVE Overrun
  <2>1. n \in Nat /\ Types /\ TriviumSize /\ WordsStored
    BY <1>1 DEF IInv, Types
  <2>2. inc \in Nat /\ inc > 1
    <3>1. \A a, b \in Nat : a > 0 /\ b > 1 => a * b > 1
      <4> TAKE a, b \in Nat
      <4>1. b > 1 /\ a > 0 => b * 1 <= b * a
        BY Products
      <4>2. a * b = b * a /\ b * 1 = b /\ a * b \in Nat
        OBVIOUS
      <4> QED
        BY <4>1, <4>2
    <3> QED
      BY <1>1, <3>1, CountsArePositive DEF inc
  <2>3. ASSUME NEW w \in DOMAIN r
        PROVE  w \in Nat /\ w <= CASE kernel = "trivium" -> n - 1
                                   [] kernel = "hybrid" -> n + 2 * inc - 3
                                   [] OTHER -> n + inc - 2
    <3>1. w \in Nat /\ Row(w) < Rows(Me(w))
      BY <2>1, <2>3 DEF WordsStored
    <3>2. PICK me \in QPUs, row \in Nat : me = Me(w) /\ row = Row(w)
      BY <3>1, PlaceWord
    <3>3. Local(me) /\ i[me] \in Nat
      BY <1>1 DEF IInv, Types
    <3>4. PICK R \in Nat : R = Row(at[me])
      BY <2>1, <3>3, Standing DEF Local
    <3>5. i[me] = Step * R /\ (R > 0 => i[me] < Limit(me) + Step)
      BY <3>3, <3>4 DEF Local, InStep, Control
    <3>6. inc * row \in Nat /\ w <= inc * row + (inc - 1)
      BY <3>1, <3>2, RowBounds
    <3>7. inc * R \in Nat /\ (row < R => inc * row + inc <= inc * R)
      BY <2>2, Products
    <3>8. CASE kernel = "trivium"
      <4>1. row < R
        BY <3>1, <3>2, <3>4, <3>8 DEF Rows
      <4>2. R < Limit(me) + 1
        <5>1. \A a \in Nat : 1 * a = a
          OBVIOUS
        <5> QED
          BY <3>5, <3>8, <4>1, <5>1 DEF Step
      <4>3. Limit(me) \in Int
        BY <2>1, LimitType
      <4>4. row < Limit(me)
        BY <4>1, <4>2, <4>3
      <4>5. w < n
        BY <2>1, <3>1, <3>2, <3>8, <4>4, TriviumRows
      <4> QED
        BY <2>1, <3>1, <3>8, <4>5
    <3>9. CASE kernel = "hybrid"
      <4>1. row < R + 1
        BY <3>1, <3>2, <3>4, <3>9 DEF Rows
      <4>2. R > 0 => inc * R < n - 1 + inc
        BY <3>5, <3>9, Limits DEF Step
      <4>3. w <= n + 2 * inc - 3
        <5>1. CASE R = 0
          <6>1. row = 0
            BY <4>1, <5>1
          <6>2. inc * row = 0
            BY <2>2, <6>1
          <6> QED
            BY <2>1, <2>2, <3>1, <3>6, <6>2
        <5>2. CASE R > 0
          <6>1. row <= R => inc * row <= inc * R
            BY <2>2, Products
          <6>2. inc * row <= inc * R
            BY <4>1, <6>1
          <6> QED
            BY <2>1, <2>2, <3>1, <3>6, <3>7, <4>2, <5>2, <6>2
        <5> QED
          BY <5>1, <5>2
      <4> QED
        BY <3>1, <3>9, <4>3
    <3>10. CASE kernel \notin {"hybrid", "trivium"}
      <4>1. row < R
        BY <3>1, <3>2, <3>4, <3>10 DEF Rows
      <4>2. inc * R < n + inc
        BY <3>5, <3>10, <4>1, Limits DEF Step
      <4>3. w <= n + inc - 2
        BY <2>1, <2>2, <3>1, <3>6, <3>7, <4>1, <4>2
      <4> QED
        BY <3>1, <3>10, <4>3
    <3> QED
      BY <3>8, <3>9, <3>10
  <2>4. \A w \in DOMAIN r : w \in Nat
    BY <2>3
  <2> QED
    BY <2>3, <2>4 DEF Overrun
<1>2. Lanes > 1 => (IInv => Overrun)
  BY <1>1
<1>3. CASE Lanes > 1
  <2>1. IInv => Overrun
    BY <1>2, <1>3
  <2> QED
    BY <2>1, Invariant, PTL
<1> QED
  BY <1>3
=============================================================================
