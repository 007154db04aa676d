------------------------ MODULE TriviumCypherProofs ------------------------
(***************************************************************************)
(* The invariants of TriviumCypher for integers and vectors of any size, a *)
(* text of any length and pieces of any sizes, and what they say of the    *)
(* cuts that the programs make.                                            *)
(***************************************************************************)
EXTENDS TriviumCypher, FiniteSetTheorems, SequenceTheorems, TLAPS

----------------------------------------------------------------------------
\* Induction, from the well-foundedness of the subsets of a finite set.
LEMMA LeastNumber ==
  ASSUME NEW T \in SUBSET Nat, T # {}
  PROVE  \E n \in T : \A m \in T : n <= m
<1> DEFINE F == {0 .. n : n \in T}
<1>1. IsWellFoundedOn(StrictSubsetOrdering(Nat), FiniteSubsetsOf(Nat))
  BY FS_StrictSubsetOrderingWellFounded
<1>2. F \subseteq FiniteSubsetsOf(Nat)
  <2>1. \A n \in Nat : 0 .. n \in SUBSET Nat /\ IsFiniteSet(0 .. n)
    BY FS_Interval
  <2> QED
    BY <2>1 DEF FiniteSubsetsOf
<1>3. F # {}
  OBVIOUS
<1> HIDE DEF F
<1>4. \E x \in F : \A y \in F : ~(<<y, x>> \in StrictSubsetOrdering(Nat))
  BY <1>1, <1>2, <1>3, WFMin
<1>5. PICK n \in T : \A y \in F : ~(<<y, 0 .. n>> \in StrictSubsetOrdering(Nat))
  BY <1>4 DEF F
<1>6. ASSUME NEW m \in T, m < n PROVE FALSE
  <2>1. 0 .. m \in F
    BY DEF F
  <2>2. 0 .. m \subseteq 0 .. n /\ n \in 0 .. n /\ n \notin 0 .. m
    BY <1>6
  <2>3. <<0 .. m, 0 .. n>> \in (SUBSET Nat) \X (SUBSET Nat)
    OBVIOUS
  <2>4. <<0 .. m, 0 .. n>> \in StrictSubsetOrdering(Nat)
    <3> DEFINE ss == <<0 .. m, 0 .. n>>
    <3>1. ss[1] \subseteq ss[2] /\ ss[1] # ss[2]
      BY <2>2, Zenon
    <3> HIDE DEF ss
    <3> QED
      BY <2>3, <3>1 DEF StrictSubsetOrdering, ss
  <2> QED
    BY <2>1, <2>4, <1>5
<1> QED
  BY <1>5, <1>6

LEMMA Induction ==
  ASSUME NEW S, 0 \in S, \A n \in Nat : n \in S => n + 1 \in S
  PROVE  Nat \subseteq S
<1> SUFFICES ASSUME Nat \ S # {} PROVE FALSE
  OBVIOUS
<1>1. PICK n \in Nat \ S : \A m \in Nat \ S : n <= m
  BY LeastNumber
<1>2. n # 0 /\ n - 1 \in Nat /\ ~(n <= n - 1)
  BY <1>1
<1>3. n - 1 \in S
  BY <1>1, <1>2
<1> QED
  BY <1>2, <1>3

----------------------------------------------------------------------------
\* Sums.  FoldSeq adds the elements of a sequence in an order that CHOOSE gives.
Pick(s) == CHOOSE x \in s : TRUE

Small(S, n) == {s \in SUBSET S : Cardinality(s) <= n}

\* g has the sum of f over each of the sets.
Adds(f, sets, g) ==
  g = [s \in sets |-> IF s = {} THEN 0 ELSE f[Pick(s)] + g[s \ {Pick(s)}]]

Sums(f, S, g) == Adds(f, SUBSET S, g)

LEMMA Smaller ==
  ASSUME NEW S, IsFiniteSet(S), NEW n \in Nat, NEW s \in Small(S, n + 1), s # {}
  PROVE  Pick(s) \in s /\ s \ {Pick(s)} \in Small(S, n) /\ s \ {Pick(s)} \in Small(S, n + 1)
<1>1. Pick(s) \in s
  BY DEF Pick
<1>2. IsFiniteSet(s) /\ s \in SUBSET S /\ Cardinality(s) <= n + 1
  BY FS_Subset DEF Small
<1>3. Cardinality(s) \in Nat
  BY <1>2, FS_CardinalityType
<1>4. Cardinality(s \ {Pick(s)}) = Cardinality(s) - 1
  BY <1>1, <1>2, FS_RemoveElement
<1> QED
  BY <1>1, <1>2, <1>3, <1>4 DEF Small

LEMMA SmallAll ==
  ASSUME NEW S, IsFiniteSet(S)
  PROVE  Cardinality(S) \in Nat /\ Small(S, Cardinality(S)) = SUBSET S
BY FS_CardinalityType, FS_Subset DEF Small

LEMMA SumsExist ==
  ASSUME NEW S, IsFiniteSet(S), NEW f
  PROVE  \E g : Adds(f, SUBSET S, g)
<1> DEFINE N == {n \in Nat : \E g : Adds(f, Small(S, n), g)}
<1>1. 0 \in N
  <2> DEFINE g == [s \in Small(S, 0) |-> 0]
  <2>1. \A s \in Small(S, 0) : s = {}
    <3> SUFFICES ASSUME NEW s \in SUBSET S, Cardinality(s) <= 0 PROVE s = {}
      BY DEF Small
    <3>1. IsFiniteSet(s) /\ Cardinality(s) \in Nat
      BY FS_Subset, FS_CardinalityType
    <3> QED
      BY <3>1, FS_EmptySet
  <2>2. g = [s \in Small(S, 0) |-> IF s = {} THEN 0 ELSE f[Pick(s)] + g[s \ {Pick(s)}]]
    BY <2>1
  <2> QED
    BY <2>2 DEF Adds
<1>2. ASSUME NEW n \in Nat, n \in N PROVE n + 1 \in N
  <2>1. PICK g : Adds(f, Small(S, n), g)
    BY <1>2
  <2> DEFINE h == [s \in Small(S, n + 1) |->
                     IF s = {} THEN 0 ELSE f[Pick(s)] + g[s \ {Pick(s)}]]
  <2>2. ASSUME NEW s \in Small(S, n + 1), s # {}
        PROVE  h[s \ {Pick(s)}] = g[s \ {Pick(s)}]
    <3> DEFINE t == s \ {Pick(s)}
    <3>1. t \in Small(S, n) /\ t \in Small(S, n + 1)
      BY <2>2, Smaller
    <3> HIDE DEF t
    <3>2. g[t] = IF t = {} THEN 0 ELSE f[Pick(t)] + g[t \ {Pick(t)}]
      BY <2>1, <3>1 DEF Adds
    <3>3. h[t] = IF t = {} THEN 0 ELSE f[Pick(t)] + g[t \ {Pick(t)}]
      BY <3>1
    <3> QED
      BY <3>2, <3>3 DEF t
  <2>3. Adds(f, Small(S, n + 1), h)
    <3> DEFINE k == [s \in Small(S, n + 1) |->
                       IF s = {} THEN 0 ELSE f[Pick(s)] + h[s \ {Pick(s)}]]
    <3>1. \A s \in Small(S, n + 1) : h[s] = k[s]
      <4> TAKE s \in Small(S, n + 1)
      <4>1. CASE s = {}
        BY <4>1
      <4>2. CASE s # {}
        BY <4>2, <2>2
      <4> QED
        BY <4>1, <4>2
    <3>2. h = k
      BY <3>1
    <3> QED
      BY <3>2 DEF Adds
  <2> HIDE DEF h
  <2> QED
    BY <2>3
<1> HIDE DEF N
<1>3. Cardinality(S) \in N
  BY <1>1, <1>2, Induction, SmallAll
<1> QED
  BY <1>3, SmallAll DEF N

\* The order does not matter.
LEMMA AnyOrder ==
  ASSUME NEW S, IsFiniteSet(S), NEW f, \A x \in S : f[x] \in Nat,
         NEW g, Sums(f, S, g)
  PROVE  /\ g[{}] = 0
         /\ \A s \in SUBSET S : /\ g[s] \in Nat
                                /\ \A y \in S \ s : g[s \cup {y}] = f[y] + g[s]
<1> DEFINE N == {n \in Nat : \A s \in Small(S, n) :
                   /\ g[s] \in Nat
                   /\ \A y \in S \ s : g[s \cup {y}] = f[y] + g[s]}
<1>1. \A s \in SUBSET S : g[s] = IF s = {} THEN 0 ELSE f[Pick(s)] + g[s \ {Pick(s)}]
  BY DEF Adds, Sums
<1>2. g[{}] = 0
  BY <1>1
<1>3. ASSUME NEW y \in S PROVE g[{} \cup {y}] = f[y] + g[{}]
  <2>1. Pick({y}) = y
    BY DEF Pick
  <2>2. g[{y}] = f[y] + g[{y} \ {y}]
    BY <2>1, <1>1
  <2>3. {y} \ {y} = {} /\ {} \cup {y} = {y}
    OBVIOUS
  <2> QED
    BY <2>2, <2>3
<1>4. ASSUME NEW s, s = {}
      PROVE  g[s] \in Nat /\ \A y \in S \ s : g[s \cup {y}] = f[y] + g[s]
  <2>1. g[s] = 0
    BY <1>2, <1>4
  <2>2. ASSUME NEW y \in S PROVE g[s \cup {y}] = f[y] + g[s]
    <3>1. s \cup {y} = {} \cup {y}
      BY <1>4
    <3>2. g[s \cup {y}] = g[{} \cup {y}]
      BY <3>1, Zenon
    <3> QED
      BY <3>2, <1>2, <1>3, <2>1
  <2> QED
    BY <2>1, <2>2
<1>5. 0 \in N
  <2>1. \A s \in Small(S, 0) : s = {}
    <3> SUFFICES ASSUME NEW s \in SUBSET S, Cardinality(s) <= 0 PROVE s = {}
      BY DEF Small
    <3>1. IsFiniteSet(s) /\ Cardinality(s) \in Nat
      BY FS_Subset, FS_CardinalityType
    <3> QED
      BY <3>1, FS_EmptySet
  <2> QED
    BY <2>1, <1>4
<1>6. ASSUME NEW n \in Nat, n \in N PROVE n + 1 \in N
  <2> SUFFICES ASSUME NEW s \in Small(S, n + 1), s # {}
               PROVE  /\ g[s] \in Nat
                      /\ \A y \in S \ s : g[s \cup {y}] = f[y] + g[s]
    BY <1>4
  <2>1. \A t \in Small(S, n) : /\ g[t] \in Nat
                               /\ \A y \in S \ t : g[t \cup {y}] = f[y] + g[t]
    BY <1>6
  <2>2. /\ s \in SUBSET S /\ IsFiniteSet(s) /\ Cardinality(s) \in Nat
        /\ Cardinality(s) <= n + 1
    BY FS_Subset, FS_CardinalityType DEF Small
  <2>3. ASSUME NEW z \in s PROVE s \ {z} \in Small(S, n)
    <3>1. Cardinality(s \ {z}) = Cardinality(s) - 1
      BY <2>2, FS_RemoveElement
    <3> QED
      BY <2>2, <3>1 DEF Small
  <2>4. g[s] \in Nat
    <3>1. Pick(s) \in s
      BY DEF Pick
    <3>2. g[s] = f[Pick(s)] + g[s \ {Pick(s)}]
      BY <1>1, <2>2
    <3>3. f[Pick(s)] \in Nat /\ g[s \ {Pick(s)}] \in Nat
      BY <3>1, <2>1, <2>2, <2>3
    <3> QED
      BY <3>2, <3>3
  <2>5. ASSUME NEW y \in S \ s PROVE g[s \cup {y}] = f[y] + g[s]
    <3> DEFINE t == s \cup {y}
               z == Pick(t)
    <3>1. z \in t /\ t \in SUBSET S /\ t # {}
      BY <2>2 DEF Pick
    <3>2. g[t] = f[z] + g[t \ {z}]
      BY <3>1, <1>1
    <3>3. CASE z = y
      <4>1. t \ {y} = s
        OBVIOUS
      <4> HIDE DEF t, z
      <4> QED
        BY <4>1, <3>2, <3>3 DEF t
    <3>4. CASE z # y
      <4>1. z \in s /\ z \in S
        BY <3>1, <3>4
      <4> HIDE DEF z
      <4>2. t \ {z} = (s \ {z}) \cup {y} /\ s = (s \ {z}) \cup {z}
        BY <4>1, <3>4
      <4> HIDE DEF t
      <4>3. s \ {z} \in Small(S, n)
        BY <2>3, <4>1
      <4>4. g[(s \ {z}) \cup {y}] = f[y] + g[s \ {z}]
        BY <2>1, <4>3
      <4>5. g[(s \ {z}) \cup {z}] = f[z] + g[s \ {z}]
        BY <2>1, <4>1, <4>3
      <4>6. g[s] = f[z] + g[s \ {z}] /\ g[t] = f[z] + (f[y] + g[s \ {z}])
        BY <4>2, <4>4, <4>5, <3>2
      <4>7. f[z] \in Nat /\ f[y] \in Nat /\ g[s \ {z}] \in Nat
        BY <2>1, <4>1, <4>3
      <4> QED
        BY <4>6, <4>7 DEF t
    <3> QED
      BY <3>3, <3>4
  <2> QED
    BY <2>4, <2>5
<1> HIDE DEF N
<1>7. Cardinality(S) \in N
  BY <1>5, <1>6, Induction, SmallAll
<1> QED
  BY <1>2, <1>7, SmallAll DEF N

\* Only what is added up matters.
LEMMA SumsAgree ==
  ASSUME NEW S, NEW f, NEW g, Sums(f, S, g),
         NEW R, NEW h, NEW k, Sums(h, R, k),
         NEW T, T \subseteq S, T \subseteq R, IsFiniteSet(T), \A x \in T : f[x] = h[x]
  PROVE  g[T] = k[T]
<1> DEFINE N == {n \in Nat : \A s \in Small(T, n) : g[s] = k[s]}
<1>1. \A s \in SUBSET T :
        /\ g[s] = IF s = {} THEN 0 ELSE f[Pick(s)] + g[s \ {Pick(s)}]
        /\ k[s] = IF s = {} THEN 0 ELSE h[Pick(s)] + k[s \ {Pick(s)}]
  BY DEF Adds, Sums
<1>2. 0 \in N
  <2> SUFFICES ASSUME NEW s \in SUBSET T, Cardinality(s) <= 0 PROVE g[s] = k[s]
    BY DEF Small
  <2>1. IsFiniteSet(s) /\ Cardinality(s) \in Nat
    BY FS_Subset, FS_CardinalityType
  <2>2. s = {}
    BY <2>1, FS_EmptySet
  <2> QED
    BY <2>2, <1>1
<1>3. ASSUME NEW n \in Nat, n \in N PROVE n + 1 \in N
  <2> SUFFICES ASSUME NEW s \in Small(T, n + 1), s # {} PROVE g[s] = k[s]
    <3>1. \A s \in Small(T, n + 1) : s = {} => g[s] = k[s]
      BY <1>1 DEF Small
    <3> QED
      BY <3>1
  <2>1. Pick(s) \in s /\ s \ {Pick(s)} \in Small(T, n)
    BY Smaller
  <2>2. s \in SUBSET T
    BY DEF Small
  <2>3. g[s \ {Pick(s)}] = k[s \ {Pick(s)}] /\ f[Pick(s)] = h[Pick(s)]
    BY <2>1, <2>2, <1>3
  <2> QED
    BY <2>2, <2>3, <1>1
<1> HIDE DEF N
<1>4. Cardinality(T) \in N
  BY <1>2, <1>3, Induction, SmallAll
<1> QED
  BY <1>4, SmallAll DEF N

LEMMA SumIs ==
  ASSUME NEW c, IsFiniteSet(DOMAIN c)
  PROVE  \E g : Sums(c, DOMAIN c, g) /\ Sum(c) = g[DOMAIN c]
<1> DEFINE Chosen == CHOOSE g : Adds(c, SUBSET DOMAIN c, g)
<1>1. Sums(c, DOMAIN c, Chosen)
  BY SumsExist DEF Sums
<1>2. Sum(c) = Chosen[DOMAIN c]
  BY DEF Sum, FoldSeq, FoldFunction, FoldFunctionOnSet, MapThenFoldSet, Adds, Pick
<1> QED
  BY <1>1, <1>2

\* What Sum returns for a sequence of natural numbers.
LEMMA SumEmpty == Sum(<<>>) = 0
<1>1. DOMAIN <<>> = {}
  OBVIOUS
<1>2. IsFiniteSet({})
  BY FS_EmptySet
<1>3. PICK g : Sums(<<>>, DOMAIN <<>>, g) /\ Sum(<<>>) = g[DOMAIN <<>>]
  BY <1>1, <1>2, SumIs
<1> QED
  BY <1>1, <1>3 DEF Adds, Sums

\* One element more.
LEMMA SumMore ==
  ASSUME NEW c, NEW d, NEW S, NEW R, NEW k, IsFiniteSet(S), k \notin S,
         DOMAIN c = S, R = S \cup {k}, DOMAIN d = R,
         \A x \in S : c[x] \in Nat /\ d[x] = c[x], d[k] \in Nat
  PROVE  Sum(c) \in Nat /\ Sum(d) = Sum(c) + d[k]
<1>1. IsFiniteSet(R)
  BY FS_AddElement
<1>2. PICK g : Sums(c, S, g) /\ Sum(c) = g[S]
  BY SumIs
<1>3. PICK h : Sums(d, R, h) /\ Sum(d) = h[R]
  BY <1>1, SumIs
<1>4. h[S] = g[S]
  <2>1. S \subseteq R /\ S \subseteq S /\ \A x \in S : d[x] = c[x]
    OBVIOUS
  <2>2. Sums(c, S, g) /\ Sums(d, R, h)
    BY <1>2, <1>3
  <2> QED
    BY ONLY IsFiniteSet(S), <2>1, <2>2, SumsAgree
<1>5. h[S] \in Nat /\ \A y \in R \ S : h[S \cup {y}] = d[y] + h[S]
  <2>1. (\A x \in R : d[x] \in Nat) /\ S \in SUBSET R
    OBVIOUS
  <2> QED
    BY ONLY <1>1, <1>3, <2>1, AnyOrder
<1>6. h[R] = d[k] + h[S]
  BY <1>5
<1> QED
  BY <1>2, <1>3, <1>4, <1>5, <1>6

LEMMA SumAppend ==
  ASSUME NEW c \in Seq(Nat), NEW n \in Nat
  PROVE  Sum(c) \in Nat /\ Sum(Append(c, n)) = Sum(c) + n
<1> DEFINE d == Append(c, n)
           k == Len(c) + 1
           S == 1 .. Len(c)
           R == 1 .. k
<1>1. /\ DOMAIN d = R /\ DOMAIN c = S /\ R = S \cup {k} /\ k \notin S /\ d[k] = n
      /\ \A x \in S : c[x] \in Nat /\ d[x] = c[x]
  OBVIOUS
<1>2. IsFiniteSet(S)
  BY FS_Interval
<1>3. d[k] \in Nat
  BY <1>1
<1> HIDE DEF d, k, S, R
<1>4. Sum(c) \in Nat /\ Sum(d) = Sum(c) + d[k]
  BY <1>1, <1>2, <1>3, SumMore
<1> QED
  BY <1>1, <1>4 DEF d

LEMMA SumPrefix ==
  ASSUME NEW c \in Seq(Nat), NEW k \in 0 .. Len(c) - 1
  PROVE  /\ SubSeq(c, 1, k) \in Seq(Nat) /\ Sum(SubSeq(c, 1, k)) \in Nat
         /\ c[k + 1] \in Nat
         /\ Sum(SubSeq(c, 1, k + 1)) = Sum(SubSeq(c, 1, k)) + c[k + 1]
<1> DEFINE b == SubSeq(c, 1, k)
<1>1. b \in Seq(Nat) /\ Len(b) = k /\ c[k + 1] \in Nat
  OBVIOUS
<1>2. SubSeq(c, 1, k + 1) = Append(b, c[k + 1])
  <2>1. \A i \in 1 .. k + 1 : SubSeq(c, 1, k + 1)[i] = Append(b, c[k + 1])[i]
    OBVIOUS
  <2>2. /\ SubSeq(c, 1, k + 1) \in Seq(Nat) /\ Len(SubSeq(c, 1, k + 1)) = k + 1
        /\ Append(b, c[k + 1]) \in Seq(Nat) /\ Len(Append(b, c[k + 1])) = k + 1
    OBVIOUS
  <2> QED
    BY <2>1, <2>2, SeqEqual
<1> HIDE DEF b
<1> QED
  BY <1>1, <1>2, SumAppend DEF b

----------------------------------------------------------------------------
\* The key stream as a sequence of bytes in the order in which the characters use them:
\* the integers of a vector are used last to first.
Quotient(a, b) == a \div b
Remainder(a, b) == a % b

Byte(p) == LET w == Quotient(p, CharsPerInt)
           IN  <<"key", KeyInteger(0, Quotient(w, IntsPerVector), Remainder(w, IntsPerVector)),
                 Remainder(p, CharsPerInt)>>

LEMMA Constants == /\ CharsPerInt \in Nat /\ CharsPerInt > 0
                   /\ IntsPerVector \in Nat /\ IntsPerVector > 0
                   /\ Pieces \subseteq Nat
BY CypherAssumption

LEMMA Division ==
  ASSUME NEW a \in Nat, NEW b \in Nat, b > 0
  PROVE  /\ Quotient(a, b) \in Nat /\ Remainder(a, b) \in 0 .. (b - 1)
         /\ a = b * Quotient(a, b) + Remainder(a, b)
<1>1. PICK q \in Nat : q = a \div b
  OBVIOUS
<1>2. PICK m \in 0 .. (b - 1) : m = a % b
  OBVIOUS
<1>3. a = b * q + m
  BY <1>1, <1>2
<1>4. q = Quotient(a, b) /\ m = Remainder(a, b)
  BY <1>1, <1>2 DEF Quotient, Remainder
<1> QED
  BY <1>2, <1>3, <1>4

LEMMA Divided ==
  ASSUME NEW b \in Nat, b > 0, NEW q \in Nat, NEW m \in 0 .. (b - 1)
  PROVE  Quotient(b * q + m, b) = q /\ Remainder(b * q + m, b) = m
<1>1. PICK a \in Nat : a = b * q + m
  OBVIOUS
<1>2. q = a \div b /\ m = a % b
  BY <1>1
<1> QED
  BY <1>1, <1>2 DEF Quotient, Remainder

\* The smallest number of units of b that hold a.
LEMMA RoundedUp ==
  ASSUME NEW a \in Nat, NEW b \in Nat, b > 0
  PROVE  /\ Quotient(a + b - 1, b) \in Nat /\ b * Quotient(a + b - 1, b) >= a
         /\ Quotient(b * a + b - 1, b) = a
<1>1. a + b - 1 \in Nat /\ b - 1 \in 0 .. (b - 1)
  OBVIOUS
<1>2. PICK q, m : q = Quotient(a + b - 1, b) /\ m = Remainder(a + b - 1, b)
  OBVIOUS
<1>3. q \in Nat /\ m \in 0 .. (b - 1) /\ a + b - 1 = b * q + m
  BY <1>1, <1>2, Division
<1>4. PICK p : p = b * q
  OBVIOUS
<1>5. p \in Nat
  BY <1>3, <1>4
<1>6. p >= a
  BY <1>3, <1>4, <1>5
<1>7. Quotient(b * a + (b - 1), b) = a
  BY <1>1, Divided
<1>8. b * a + (b - 1) = b * a + b - 1
  OBVIOUS
<1> QED
  BY <1>2, <1>3, <1>4, <1>6, <1>7, <1>8

LEMMA Vectors ==
  ASSUME NEW n \in Nat
  PROVE  /\ NbVector(n) \in Nat /\ NbVector(n) * IntsPerVector \in Nat
         /\ LEN(NbVector(n) * IntsPerVector * CharsPerInt) = NbVector(n) * IntsPerVector
         /\ NbVector(n) * IntsPerVector * CharsPerInt \in Nat
         /\ NbVector(n) * IntsPerVector * CharsPerInt >= n
<1>1. PICK C, V, l, v : /\ C = CharsPerInt /\ V = IntsPerVector /\ l = LEN(n)
                        /\ v = NbVector(n)
  OBVIOUS
<1>2. C \in Nat /\ C > 0 /\ V \in Nat /\ V > 0
  BY <1>1, Constants
<1>3. l \in Nat /\ C * l >= n
  BY <1>1, <1>2, RoundedUp DEF LEN, Quotient
<1>4. v \in Nat /\ V * v >= l
  BY <1>1, <1>2, <1>3, RoundedUp DEF NbVector, LENVECTOR, Quotient
<1>5. PICK u : u = v * V
  OBVIOUS
<1>6. u \in Nat /\ u >= l
  BY <1>2, <1>4, <1>5
<1>7. u * C \in Nat /\ u * C >= C * l
  BY <1>2, <1>3, <1>6
<1>8. u * C >= n
  BY <1>2, <1>3, <1>6, <1>7
<1>9. LEN(u * C) = u
  <2>1. u * C = C * u
    BY <1>2, <1>6
  <2> QED
    BY <1>1, <1>2, <1>6, <2>1, RoundedUp DEF LEN, Quotient
<1> QED
  BY <1>1, <1>4, <1>5, <1>6, <1>7, <1>8, <1>9

LEMMA ByteInjective ==
  ASSUME NEW p \in Nat, NEW q \in Nat, Byte(p) = Byte(q)
  PROVE  p = q
<1>1. PICK C, V : C = CharsPerInt /\ V = IntsPerVector
  OBVIOUS
<1>2. C \in Nat /\ C > 0 /\ V \in Nat /\ V > 0
  BY <1>1, Constants
<1>3. ASSUME NEW a \in Nat
      PROVE  \E w, b, x, y, key :
               /\ a = C * w + b /\ w = V * x + y /\ key = V * x + (V - 1 - y)
               /\ w \in Nat /\ x \in Nat /\ y \in 0 .. (V - 1) /\ b \in Nat
               /\ Byte(a) = <<"key", key, b>>
               /\ x = Quotient(key, V) /\ V - 1 - y = Remainder(key, V)
  <2>1. PICK w, b : w = Quotient(a, C) /\ b = Remainder(a, C)
    OBVIOUS
  <2>2. w \in Nat /\ b \in Nat /\ a = C * w + b
    BY <1>2, <2>1, Division
  <2>3. PICK x, y : x = Quotient(w, V) /\ y = Remainder(w, V)
    OBVIOUS
  <2>4. x \in Nat /\ y \in 0 .. (V - 1) /\ w = V * x + y
    BY <1>2, <2>2, <2>3, Division
  <2>5. PICK key : key = V * x + (V - 1 - y)
    OBVIOUS
  <2>6. V - 1 - y \in 0 .. (V - 1)
    BY <1>2, <2>4
  <2>7. x = Quotient(key, V) /\ V - 1 - y = Remainder(key, V)
    BY <1>2, <2>4, <2>5, <2>6, Divided
  <2>8. KeyInteger(0, x, y) = key
    BY <1>1, <1>2, <2>4, <2>5 DEF KeyInteger
  <2>9. Byte(a) = <<"key", key, b>>
    BY <1>1, <2>1, <2>3, <2>8 DEF Byte
  <2> QED
    BY <2>2, <2>4, <2>5, <2>7, <2>9
<1>4. PICK w, b, x, y, key : /\ p = C * w + b /\ w = V * x + y
                             /\ Byte(p) = <<"key", key, b>> /\ y \in 0 .. (V - 1)
                             /\ x = Quotient(key, V) /\ V - 1 - y = Remainder(key, V)
  BY <1>3
<1>5. PICK z, d, r, s, other : /\ q = C * z + d /\ z = V * r + s
                               /\ Byte(q) = <<"key", other, d>> /\ s \in 0 .. (V - 1)
                               /\ r = Quotient(other, V) /\ V - 1 - s = Remainder(other, V)
  BY <1>3
<1>6. key = other /\ b = d
  BY <1>4, <1>5
<1>7. x = r /\ y = s
  BY <1>2, <1>4, <1>5, <1>6
<1> QED
  BY <1>4, <1>5, <1>6, <1>7

\* cypher takes the next bytes of the key stream, one for each character.
Enciphered(data, n, first) == [c \in 1 .. n |-> data[c] ^^ {Byte(first + (c - 1))}]

LEMMA CypherIs ==
  ASSUME NEW n \in Nat, NEW data \in Seq(Char), Len(data) = n,
         NEW m \in Nat, NEW offset, offset = IntsPerVector * m
  PROVE  /\ offset \in Nat /\ offset * CharsPerInt \in Nat
         /\ cypher(data, n, offset) = Enciphered(data, n, offset * CharsPerInt)
<1>1. PICK C, V, size, first, all :
        /\ C = CharsPerInt /\ V = IntsPerVector /\ size = NbVector(n) * IntsPerVector
        /\ first = offset * C /\ all = NbVector(n) * IntsPerVector * CharsPerInt
  OBVIOUS
<1>2. C \in Nat /\ C > 0 /\ V \in Nat /\ V > 0
  BY <1>1, Constants
<1>3. offset \in Nat /\ first \in Nat /\ first = C * offset
  BY <1>1, <1>2
<1>4. size \in Nat /\ all \in Nat /\ all = size * C /\ all >= n /\ LEN(all) = size
  BY <1>1, Vectors
<1> DEFINE message == convert_to_integer(data, all)
           Key(j, b) == {<<"key", KeyInteger(offset, j \div V, j % V), b>>}
           res == [j \in 0 .. (size - 1) |-> [b \in 0 .. (C - 1) |-> message[j][b] ^^ Key(j, b)]]
<1>5. ASSUME NEW c \in 1 .. n
      PROVE  res[(c - 1) \div C][(c - 1) % C] = data[c] ^^ {Byte(first + (c - 1))}
  <2>1. PICK i, w, b : i = c - 1 /\ w = Quotient(c - 1, C) /\ b = Remainder(c - 1, C)
    OBVIOUS
  <2>2. i \in Nat /\ w \in Nat /\ b \in 0 .. (C - 1) /\ i = C * w + b
    <3>1. c - 1 \in Nat
      OBVIOUS
    <3> QED
      BY <1>2, <2>1, <3>1, Division
  <2>3. PICK x, y : x = Quotient(w, V) /\ y = Remainder(w, V)
    OBVIOUS
  <2>4. x \in Nat /\ y \in 0 .. (V - 1) /\ w = V * x + y
    BY <1>2, <2>2, <2>3, Division
  <2>5. w \in 0 .. (size - 1)
    <3>1. C * w < size * C
      <4>1. C * w \in Nat /\ i < n
        BY <1>2, <2>1, <2>2
      <4> QED
        BY <1>2, <1>4, <2>2, <4>1
    <3>2. w < size
      BY <1>2, <1>4, <2>2, <3>1
    <3> QED
      BY <1>4, <2>2, <3>2
  <2>6. message[w][b] = data[c]
    <3>1. w * C + b = i /\ i < all /\ i < n /\ i + 1 = c
      <4>1. i < n /\ i + 1 = c
        BY <2>1
      <4>2. w * C + b = i
        BY <1>2, <2>2
      <4> QED
        BY <1>4, <2>2, <4>1, <4>2
    <3>2. Peek(data, w * C + b) = data[c]
      BY <3>1 DEF Peek
    <3> QED
      BY <1>1, <1>4, <2>2, <2>5, <3>1, <3>2 DEF convert_to_integer
  <2>7. first + i = C * (offset + w) + b
    BY <1>2, <1>3, <2>2
  <2>8. Quotient(first + i, C) = offset + w /\ Remainder(first + i, C) = b
    <3>1. PICK z \in Nat : z = offset + w
      BY <1>3, <2>2
    <3>2. first + i = C * z + b
      BY <2>7, <3>1
    <3>3. Quotient(C * z + b, C) = z /\ Remainder(C * z + b, C) = b
      BY <1>2, <2>2, Divided
    <3> QED
      BY ONLY <3>1, <3>2, <3>3
  <2>9. offset + w = V * (m + x) + y
    BY <1>1, <1>2, <2>4
  <2>10. Quotient(offset + w, V) = m + x /\ Remainder(offset + w, V) = y
    <3>1. PICK z \in Nat : z = m + x
      BY <2>4
    <3>2. offset + w = V * z + y
      BY <2>9, <3>1
    <3>3. Quotient(V * z + y, V) = z /\ Remainder(V * z + y, V) = y
      BY <1>2, <2>4, Divided
    <3> QED
      BY ONLY <3>1, <3>2, <3>3
  <2>11. KeyInteger(offset, x, y) = KeyInteger(0, m + x, y)
    BY <1>1, <1>2, <2>4 DEF KeyInteger
  <2>12. Key(w, b) = {Byte(first + i)}
    BY <1>1, <2>3, <2>8, <2>10, <2>11 DEF Byte, Quotient, Remainder
  <2>13. res[w][b] = message[w][b] ^^ Key(w, b)
    BY <2>2, <2>5
  <2>14. res[w][b] = data[c] ^^ {Byte(first + i)}
    BY <2>6, <2>12, <2>13
  <2> QED
    BY <2>1, <2>14 DEF Quotient, Remainder
<1>6. cypher(data, n, offset) = convert_to_char(res, n)
  BY <1>1 DEF cypher
<1>7. convert_to_char(res, n) = [c \in 1 .. n |-> res[(c - 1) \div C][(c - 1) % C]]
  BY <1>1 DEF convert_to_char
<1> HIDE DEF res
<1>8. [c \in 1 .. n |-> res[(c - 1) \div C][(c - 1) % C]]
      = [c \in 1 .. n |-> data[c] ^^ {Byte(first + (c - 1))}]
  BY <1>5
<1> QED
  BY <1>1, <1>3, <1>6, <1>7, <1>8 DEF Enciphered

\* Characters of the key stream that the pieces so far have left unused.
AllSkipped(cuts) == Sum([k \in 1 .. Len(cuts) |-> Rest(cuts[k])])

LEMMA RestNat ==
  ASSUME NEW n \in Nat
  PROVE  Rest(n) \in Nat /\ NbVector(n) * IntsPerVector * CharsPerInt = n + Rest(n)
<1>1. PICK all : all = NbVector(n) * IntsPerVector * CharsPerInt
  OBVIOUS
<1>2. all \in Nat /\ all >= n
  BY <1>1, Vectors
<1> QED
  BY <1>1, <1>2 DEF Rest

LEMMA PieceSequence ==
  ASSUME NEW cuts \in Seq(Pieces)
  PROVE  cuts \in Seq(Nat)
<1>1. Pieces \subseteq Nat
  BY Constants
<1>2. Len(cuts) \in Nat /\ \A i \in 1 .. Len(cuts) : cuts[i] \in Pieces
  OBVIOUS
<1>3. \A i \in 1 .. Len(cuts) : cuts[i] \in Nat
  BY <1>1, <1>2
<1>4. cuts = [i \in 1 .. Len(cuts) |-> cuts[i]]
  OBVIOUS
<1> QED
  BY <1>2, <1>3, <1>4

\* The number of elements of an interval.
LEMMA UpTo ==
  ASSUME NEW n \in Nat
  PROVE  IsFiniteSet(1 .. n) /\ Cardinality(1 .. n) = n
<1>1. Cardinality(1 .. n) = IF 1 > n THEN 0 ELSE n - 1 + 1
  BY FS_Interval
<1> QED
  BY <1>1, FS_Interval

LEMMA Rests ==
  ASSUME NEW cuts \in Seq(Pieces)
  PROVE  [k \in 1 .. Len(cuts) |-> Rest(cuts[k])] \in Seq(Nat)
<1>1. ASSUME NEW k \in 1 .. Len(cuts) PROVE Rest(cuts[k]) \in Nat
  <2>1. cuts[k] \in Nat
    BY PieceSequence
  <2> QED
    BY <2>1, RestNat
<1> QED
  BY <1>1

\* What the first pieces sum up to.
LEMMA SumSmaller ==
  ASSUME NEW c \in Seq(Nat), NEW k \in 0 .. Len(c)
  PROVE  Sum(SubSeq(c, 1, k)) \in Nat /\ Sum(SubSeq(c, 1, k)) <= Sum(c)
<1> DEFINE S == {j \in Nat : j <= Len(c) => /\ Sum(SubSeq(c, 1, Len(c) - j)) \in Nat
                                            /\ Sum(SubSeq(c, 1, Len(c) - j)) <= Sum(c)}
<1>1. 0 \in S
  <2>1. SubSeq(c, 1, Len(c)) = c /\ Len(c) - 0 = Len(c)
    OBVIOUS
  <2>2. Sum(c) \in Nat
    BY SumAppend
  <2>3. Sum(SubSeq(c, 1, Len(c) - 0)) = Sum(c)
    BY <2>1, Zenon
  <2> QED
    BY <2>2, <2>3
<1>2. ASSUME NEW j \in Nat, j \in S PROVE j + 1 \in S
  <2> SUFFICES ASSUME j + 1 <= Len(c)
               PROVE  /\ Sum(SubSeq(c, 1, Len(c) - (j + 1))) \in Nat
                      /\ Sum(SubSeq(c, 1, Len(c) - (j + 1))) <= Sum(c)
    OBVIOUS
  <2>1. PICK i : i = Len(c) - (j + 1)
    OBVIOUS
  <2>2. i \in 0 .. Len(c) - 1 /\ i + 1 = Len(c) - j
    BY <2>1
  <2>3. /\ Sum(SubSeq(c, 1, i)) \in Nat /\ c[i + 1] \in Nat
        /\ Sum(SubSeq(c, 1, i + 1)) = Sum(SubSeq(c, 1, i)) + c[i + 1]
    BY <2>2, SumPrefix
  <2>4. Sum(SubSeq(c, 1, i + 1)) <= Sum(c)
    BY <1>2, <2>2
  <2>5. Sum(c) \in Nat
    BY SumAppend
  <2> QED
    BY <2>1, <2>3, <2>4, <2>5
<1> HIDE DEF S
<1>3. Len(c) - k \in S
  <2>1. Nat \subseteq S
    BY <1>1, <1>2, Induction
  <2> QED
    BY <2>1
<1>4. Len(c) - (Len(c) - k) = k
  OBVIOUS
<1> QED
  BY <1>3, <1>4 DEF S

Before(cuts, c) == {k \in DOMAIN cuts : Sum(SubSeq(cuts, 1, k)) < c}

LEMMA BeforeAppend ==
  ASSUME NEW cuts \in Seq(Pieces), NEW n \in Pieces, NEW c \in 1 .. Sum(cuts) + n
  PROVE  Before(Append(cuts, n), c) =
           IF c <= Sum(cuts) THEN Before(cuts, c) ELSE 1 .. Len(cuts)
<1> DEFINE more == Append(cuts, n)
           k == Len(cuts) + 1
<1>1. cuts \in Seq(Nat) /\ n \in Nat
  BY Constants, PieceSequence
<1>2. Sum(cuts) \in Nat /\ Sum(more) = Sum(cuts) + n
  BY <1>1, SumAppend
<1>3. DOMAIN more = 1 .. k /\ DOMAIN cuts = 1 .. Len(cuts) /\ 1 .. k = 1 .. Len(cuts) \cup {k}
  OBVIOUS
<1>4. SubSeq(more, 1, k) = more
  OBVIOUS
<1>5. k \notin Before(more, c)
  <2>1. ~(Sum(SubSeq(more, 1, k)) < c)
    <3>1. Sum(SubSeq(more, 1, k)) = Sum(more)
      BY <1>4, Zenon
    <3> HIDE DEF more, k
    <3> QED
      BY <1>1, <1>2, <3>1
  <2> QED
    BY <2>1 DEF Before
<1>6. ASSUME NEW i \in 1 .. Len(cuts)
      PROVE  /\ SubSeq(more, 1, i) = SubSeq(cuts, 1, i)
             /\ Sum(SubSeq(cuts, 1, i)) \in Nat /\ Sum(SubSeq(cuts, 1, i)) <= Sum(cuts)
  BY <1>1, SumSmaller
<1> HIDE DEF more
<1>7. Before(more, c) = {i \in 1 .. Len(cuts) : Sum(SubSeq(cuts, 1, i)) < c}
  BY <1>3, <1>5, <1>6 DEF Before
<1>8. CASE c <= Sum(cuts)
  BY <1>3, <1>7, <1>8 DEF Before, more
<1>9. CASE ~(c <= Sum(cuts))
  <2>1. \A i \in 1 .. Len(cuts) : Sum(SubSeq(cuts, 1, i)) < c
    BY <1>2, <1>6, <1>9
  <2> QED
    BY <1>7, <1>9, <2>1 DEF more
<1> QED
  BY <1>8, <1>9

\* A further piece changes nothing for the characters before it, and its own characters
\* have all the rest before them.
LEMMA SkippedAppend ==
  ASSUME NEW cuts \in Seq(Pieces), NEW n \in Pieces, NEW c \in 1 .. Sum(cuts) + n
  PROVE  Skipped(Append(cuts, n), c) =
           IF c <= Sum(cuts) THEN Skipped(cuts, c) ELSE AllSkipped(cuts)
<1> DEFINE more == Append(cuts, n)
           size == Cardinality(Before(more, c))
<1>1. Skipped(more, c) = Sum([k \in 1 .. size |-> Rest(more[k])])
  BY DEF Skipped, Before
<1>2. size \in 0 .. Len(cuts)
  <2>1. Before(more, c) \subseteq 1 .. Len(cuts)
    BY BeforeAppend DEF Before
  <2>2. IsFiniteSet(1 .. Len(cuts)) /\ Cardinality(1 .. Len(cuts)) = Len(cuts)
    BY UpTo
  <2>3. Cardinality(Before(more, c)) \in Nat /\ Cardinality(Before(more, c)) <= Len(cuts)
    BY <2>1, <2>2, FS_Subset, FS_CardinalityType
  <2> QED
    BY <2>3
<1>3. [k \in 1 .. size |-> Rest(more[k])] = [k \in 1 .. size |-> Rest(cuts[k])]
  BY <1>2
<1>4. CASE c <= Sum(cuts)
  <2>1. Before(more, c) = Before(cuts, c)
    BY <1>4, BeforeAppend
  <2> QED
    BY <1>1, <1>3, <1>4, <2>1 DEF Skipped, Before
<1>5. CASE ~(c <= Sum(cuts))
  <2>1. Before(more, c) = 1 .. Len(cuts)
    BY <1>5, BeforeAppend
  <2>2. size = Len(cuts)
    BY <2>1, UpTo
  <2> QED
    BY <1>1, <1>3, <1>5, <2>2 DEF AllSkipped
<1> QED
  BY <1>4, <1>5

LEMMA AllSkippedAppend ==
  ASSUME NEW cuts \in Seq(Pieces), NEW n \in Pieces
  PROVE  AllSkipped(cuts) \in Nat /\ AllSkipped(Append(cuts, n)) = AllSkipped(cuts) + Rest(n)
<1> DEFINE r == [k \in 1 .. Len(cuts) |-> Rest(cuts[k])]
           s == [k \in 1 .. Len(Append(cuts, n)) |-> Rest(Append(cuts, n)[k])]
<1>1. r \in Seq(Nat) /\ Rest(n) \in Nat
  BY Constants, Rests, RestNat
<1>2. s = Append(r, Rest(n))
  <2>1. Append(cuts, n) \in Seq(Pieces)
    OBVIOUS
  <2>2. s \in Seq(Nat) /\ Append(r, Rest(n)) \in Seq(Nat)
    BY <1>1, <2>1, Rests
  <2>3. Len(s) = Len(cuts) + 1 /\ Len(Append(r, Rest(n))) = Len(cuts) + 1
    BY <1>1
  <2>4. \A k \in 1 .. Len(cuts) + 1 : s[k] = Append(r, Rest(n))[k]
    BY <1>1
  <2> HIDE DEF r, s
  <2> QED
    BY <2>2, <2>3, <2>4, SeqEqual
<1> HIDE DEF r, s
<1>3. Sum(r) \in Nat /\ Sum(Append(r, Rest(n))) = Sum(r) + Rest(n)
  BY <1>1, SumAppend
<1> QED
  BY <1>2, <1>3 DEF AllSkipped, r, s

----------------------------------------------------------------------------
\* An object is at the start of a vector, behind what it has used and what it has skipped.
Positioned(offset, cuts) ==
  /\ cuts \in Seq(Pieces)
  /\ \E m \in Nat : offset = IntsPerVector * m
  /\ offset * CharsPerInt = Sum(cuts) + AllSkipped(cuts)

\* A character has no less skipped before it than the characters before it.
Ordered(cuts) ==
  \A c \in 1 .. Sum(cuts) :
    /\ Skipped(cuts, c) \in 0 .. AllSkipped(cuts)
    /\ \A d \in 1 .. c : Skipped(cuts, d) <= Skipped(cuts, c)

KeyOf(cuts, c) == {Byte(c - 1 + Skipped(cuts, c))}

IInv == /\ Positioned(encOffset, encCuts) /\ Ordered(encCuts)
        /\ Positioned(decOffset, decCuts) /\ Ordered(decCuts)
        /\ wire \in Seq(Char) /\ shown \in Seq(Char)
        /\ Len(shown) = Sum(decCuts) /\ Len(shown) + Len(wire) = Sum(encCuts)
        /\ \A i \in 1 .. Len(wire) :
             wire[i] = Text(Len(shown) + i) ^^ KeyOf(encCuts, Len(shown) + i)
        /\ \A c \in 1 .. Len(shown) :
             shown[c] = (Text(c) ^^ KeyOf(encCuts, c)) ^^ KeyOf(decCuts, c)

----------------------------------------------------------------------------
\* What a call of cypher with n characters does to the place of its object in the key
\* stream, and which byte it uses for which character.
LEMMA PieceUsed ==
  ASSUME NEW offset, NEW cuts, Positioned(offset, cuts), Ordered(cuts), NEW n \in Pieces
  PROVE  /\ Positioned(NextOffset(n, offset), Append(cuts, n)) /\ Ordered(Append(cuts, n))
         /\ Sum(cuts) \in Nat /\ n \in Nat /\ Sum(Append(cuts, n)) = Sum(cuts) + n
         /\ \A c \in 1 .. Sum(cuts) : KeyOf(Append(cuts, n), c) = KeyOf(cuts, c)
         /\ \A j \in 1 .. n : KeyOf(Append(cuts, n), Sum(cuts) + j)
                                = {Byte(offset * CharsPerInt + (j - 1))}
<1> DEFINE more == Append(cuts, n)
<1>1. cuts \in Seq(Pieces) /\ more \in Seq(Pieces) /\ cuts \in Seq(Nat) /\ n \in Nat
  BY Constants, PieceSequence DEF Positioned
<1>2. Sum(cuts) \in Nat /\ Sum(more) = Sum(cuts) + n
  BY <1>1, SumAppend
<1>3. /\ AllSkipped(cuts) \in Nat /\ AllSkipped(more) = AllSkipped(cuts) + Rest(n)
      /\ Rest(n) \in Nat
  BY <1>1, AllSkippedAppend, RestNat
<1>4. \A c \in 1 .. Sum(cuts) + n :
        Skipped(more, c) = IF c <= Sum(cuts) THEN Skipped(cuts, c) ELSE AllSkipped(cuts)
  BY <1>1, SkippedAppend
<1> HIDE DEF more
<1>5. PICK m \in Nat : offset = IntsPerVector * m
  BY DEF Positioned
<1>6. offset * CharsPerInt = Sum(cuts) + AllSkipped(cuts)
  BY DEF Positioned
<1>7. Positioned(NextOffset(n, offset), more)
  <2>1. PICK v, C, V : v = NbVector(n) /\ C = CharsPerInt /\ V = IntsPerVector
    OBVIOUS
  <2>2. v \in Nat /\ C \in Nat /\ V \in Nat /\ v * V * C = n + Rest(n)
    BY <1>1, <2>1, Constants, Vectors, RestNat
  <2>3. NextOffset(n, offset) = V * (m + v)
    BY <1>5, <2>1, <2>2 DEF NextOffset
  <2>4. NextOffset(n, offset) * C = offset * C + v * V * C
    BY <1>5, <2>1, <2>2 DEF NextOffset
  <2>5. NextOffset(n, offset) * C = Sum(more) + AllSkipped(more)
    BY <1>1, <1>2, <1>3, <1>6, <2>1, <2>2, <2>4
  <2>6. m + v \in Nat
    BY <2>2
  <2>7. \E k \in Nat : NextOffset(n, offset) = V * k
    BY <2>3, <2>6
  <2> QED
    BY <1>1, <2>1, <2>5, <2>7 DEF Positioned
<1>8. Ordered(more)
  <2> SUFFICES ASSUME NEW c \in 1 .. Sum(cuts) + n
               PROVE  /\ Skipped(more, c) \in 0 .. AllSkipped(more)
                      /\ \A d \in 1 .. c : Skipped(more, d) <= Skipped(more, c)
    BY <1>2 DEF Ordered
  <2>1. \A d \in 1 .. Sum(cuts) : /\ Skipped(cuts, d) \in 0 .. AllSkipped(cuts)
                                  /\ \A e \in 1 .. d : Skipped(cuts, e) <= Skipped(cuts, d)
    BY DEF Ordered
  <2>2. CASE c <= Sum(cuts)
    <3>1. c \in 1 .. Sum(cuts) /\ Skipped(more, c) = Skipped(cuts, c)
      BY <1>1, <1>2, <1>4, <2>2
    <3>2. \A d \in 1 .. c : Skipped(more, d) = Skipped(cuts, d)
      BY <1>1, <1>2, <1>4, <2>2
    <3> QED
      BY <1>3, <2>1, <3>1, <3>2
  <2>3. CASE ~(c <= Sum(cuts))
    <3>1. Skipped(more, c) = AllSkipped(cuts)
      BY <1>1, <1>2, <1>4, <2>3
    <3>2. ASSUME NEW d \in 1 .. c PROVE Skipped(more, d) <= AllSkipped(cuts)
      <4>1. d \in 1 .. Sum(cuts) + n
        BY <1>1, <1>2
      <4>2. CASE d <= Sum(cuts)
        BY <1>2, <1>3, <1>4, <2>1, <4>1, <4>2
      <4>3. CASE ~(d <= Sum(cuts))
        BY <1>3, <1>4, <4>1, <4>3
      <4> QED
        BY <4>2, <4>3
    <3> QED
      BY <1>3, <3>1, <3>2
  <2> QED
    BY <2>2, <2>3
<1>9. ASSUME NEW c \in 1 .. Sum(cuts) PROVE KeyOf(more, c) = KeyOf(cuts, c)
  <2>1. Skipped(more, c) = Skipped(cuts, c)
    BY <1>1, <1>2, <1>4
  <2> QED
    BY <2>1 DEF KeyOf
<1>10. ASSUME NEW j \in 1 .. n
       PROVE  KeyOf(more, Sum(cuts) + j) = {Byte(offset * CharsPerInt + (j - 1))}
  <2>1. PICK c : c = Sum(cuts) + j
    OBVIOUS
  <2>2. Skipped(more, c) = AllSkipped(cuts)
    BY <1>1, <1>2, <1>4, <2>1
  <2>3. c - 1 + Skipped(more, c) = offset * CharsPerInt + (j - 1)
    BY <1>1, <1>2, <1>3, <1>6, <2>1, <2>2
  <2> QED
    BY <2>1, <2>3 DEF KeyOf
<1> QED
  BY <1>1, <1>2, <1>7, <1>8, <1>9, <1>10 DEF more

LEMMA ByteIs ==
  ASSUME NEW p \in Nat
  PROVE  Byte(p) \in {"key"} \X Nat \X Nat
<1>1. PICK w, b : w = Quotient(p, CharsPerInt) /\ b = Remainder(p, CharsPerInt)
  OBVIOUS
<1>2. w \in Nat /\ b \in Nat
  BY <1>1, Constants, Division
<1>3. PICK x, y : x = Quotient(w, IntsPerVector) /\ y = Remainder(w, IntsPerVector)
  OBVIOUS
<1>4. x \in Nat /\ y \in 0 .. (IntsPerVector - 1)
  BY <1>2, <1>3, Constants, Division
<1>5. x * IntsPerVector \in Nat
  BY <1>4, Constants
<1>6. KeyInteger(0, x, y) \in Nat
  BY <1>4, <1>5, Constants DEF KeyInteger
<1> QED
  BY <1>1, <1>2, <1>3, <1>6 DEF Byte

LEMMA KeyIs ==
  ASSUME NEW cuts, Ordered(cuts), NEW c \in 1 .. Sum(cuts)
  PROVE  /\ c - 1 + Skipped(cuts, c) \in Nat
         /\ KeyOf(cuts, c) \subseteq {"key"} \X Nat \X Nat
<1>1. c - 1 + Skipped(cuts, c) \in Nat
  BY DEF Ordered
<1> QED
  BY <1>1, ByteIs DEF KeyOf

LEMMA TextIs ==
  ASSUME NEW c \in Nat
  PROVE  Text(c) \in Char
BY DEF Text, Char

LEMMA XorIs ==
  ASSUME NEW a \in Char, NEW b, b \subseteq {"key"} \X Nat \X Nat
  PROVE  a ^^ b \in Char
BY DEF Char, ^^

LEMMA Joined ==
  ASSUME NEW s \in Seq(Char), NEW t \in Seq(Char)
  PROVE  /\ s \o t \in Seq(Char) /\ Len(s \o t) = Len(s) + Len(t)
         /\ \A i \in 1 .. Len(s) : (s \o t)[i] = s[i]
         /\ \A j \in 1 .. Len(t) : (s \o t)[Len(s) + j] = t[j]
OBVIOUS

----------------------------------------------------------------------------
LEMMA InitIInv == Init => IInv
<1> SUFFICES ASSUME Init PROVE IInv
  OBVIOUS
<1>1. [k \in 1 .. 0 |-> Rest(<<>>[k])] = <<>>
  OBVIOUS
<1>2. Sum(<<>>) = 0 /\ AllSkipped(<<>>) = 0
  BY <1>1, SumEmpty DEF AllSkipped
<1>3. Positioned(0, <<>>)
  <2>1. 0 = IntsPerVector * 0 /\ 0 * CharsPerInt = 0
    BY Constants
  <2> QED
    BY <1>2, <2>1 DEF Positioned
<1>4. Ordered(<<>>)
  BY <1>2 DEF Ordered
<1> QED
  BY <1>2, <1>3, <1>4 DEF Init, IInv

LEMMA StepIInv == IInv /\ [Next]_vars => IInv'
<1> SUFFICES ASSUME IInv, [Next]_vars PROVE IInv'
  OBVIOUS
<1> USE DEF IInv
<1>1. ASSUME NEW n \in Pieces, Encrypt(n) PROVE IInv'
  <2> DEFINE first == encOffset * CharsPerInt
             text == [c \in 1 .. n |-> Text(Sum(encCuts) + c)]
             piece == [c \in 1 .. n |-> text[c] ^^ {Byte(first + (c - 1))}]
  <2>1. /\ Positioned(NextOffset(n, encOffset), Append(encCuts, n))
        /\ Ordered(Append(encCuts, n))
        /\ Sum(encCuts) \in Nat /\ n \in Nat /\ Sum(Append(encCuts, n)) = Sum(encCuts) + n
    BY PieceUsed
  <2>2. \A c \in 1 .. Sum(encCuts) : KeyOf(encCuts', c) = KeyOf(encCuts, c)
    BY <1>1, PieceUsed DEF Encrypt
  <2>3. \A j \in 1 .. n : KeyOf(encCuts', Sum(encCuts) + j) = {Byte(first + (j - 1))}
    BY <1>1, PieceUsed DEF Encrypt
  <2>4. Positioned(encOffset', encCuts') /\ Ordered(encCuts') /\ Sum(encCuts') = Sum(encCuts) + n
    BY <1>1, <2>1 DEF Encrypt
  <2>5. text \in Seq(Char) /\ Len(text) = n
    BY <2>1, TextIs
  <2>6. first \in Nat /\ cypher(text, n, encOffset) = piece
    <3>1. PICK m \in Nat : encOffset = IntsPerVector * m
      BY DEF Positioned
    <3> HIDE DEF text
    <3>2. /\ encOffset * CharsPerInt \in Nat
          /\ cypher(text, n, encOffset) = Enciphered(text, n, encOffset * CharsPerInt)
      BY ONLY <2>1, <2>5, <3>1, CypherIs
    <3> QED
      BY ONLY <3>2 DEF Enciphered
  <2>7. \A j \in 1 .. n : piece[j] = Text(Sum(encCuts) + j) ^^ KeyOf(encCuts', Sum(encCuts) + j)
    BY <2>3
  <2>8. piece \in Seq(Char) /\ Len(piece) = n
    <3>1. ASSUME NEW j \in 1 .. n PROVE piece[j] \in Char
      <4>1. Sum(encCuts) + j \in 1 .. Sum(encCuts') /\ Sum(encCuts) + j \in Nat
        BY <2>1, <2>4
      <4>2. KeyOf(encCuts', Sum(encCuts) + j) \subseteq {"key"} \X Nat \X Nat
        BY <2>4, <4>1, KeyIs
      <4> HIDE DEF piece
      <4> QED
        BY <2>7, <4>1, <4>2, TextIs, XorIs
    <3> QED
      BY <2>1, <3>1
  <2> HIDE DEF piece, text, first
  <2>9. wire' = wire \o piece
    BY <1>1, <2>6 DEF Encrypt, text
  <2>10. /\ wire' \in Seq(Char) /\ Len(wire') = Len(wire) + n
         /\ \A i \in 1 .. Len(wire) : wire'[i] = wire[i]
         /\ \A j \in 1 .. n : wire'[Len(wire) + j] = piece[j]
    BY <2>8, <2>9, Joined
  <2>11. UNCHANGED <<decOffset, decCuts, shown>>
    BY <1>1 DEF Encrypt
  <2>12. ASSUME NEW i \in 1 .. Len(wire')
         PROVE  wire'[i] = Text(Len(shown) + i) ^^ KeyOf(encCuts', Len(shown) + i)
    <3>1. CASE i <= Len(wire)
      <4>1. i \in 1 .. Len(wire) /\ Len(shown) + i \in 1 .. Sum(encCuts)
        BY <3>1
      <4> QED
        BY <2>2, <2>10, <4>1
    <3>2. CASE ~(i <= Len(wire))
      <4>1. PICK j \in 1 .. n : i = Len(wire) + j /\ Len(shown) + i = Sum(encCuts) + j
        <5>1. /\ i - Len(wire) \in 1 .. n /\ i = Len(wire) + (i - Len(wire))
              /\ Len(shown) + i = Sum(encCuts) + (i - Len(wire))
          BY <2>1, <2>10, <3>2
        <5> QED
          BY <5>1
      <4> QED
        BY <2>7, <2>10, <4>1
    <3> QED
      BY <3>1, <3>2
  <2>13. ASSUME NEW c \in 1 .. Len(shown)
         PROVE  shown[c] = (Text(c) ^^ KeyOf(encCuts', c)) ^^ KeyOf(decCuts, c)
    <3>1. c \in 1 .. Sum(encCuts)
      BY <2>1
    <3> QED
      BY <2>2, <3>1
  <2> QED
    BY <2>1, <2>4, <2>10, <2>11, <2>12, <2>13
<1>2. ASSUME NEW n \in Pieces, Decrypt(n) PROVE IInv'
  <2> DEFINE first == decOffset * CharsPerInt
             taken == SubSeq(wire, 1, n)
             piece == [c \in 1 .. n |-> taken[c] ^^ {Byte(first + (c - 1))}]
  <2>1. /\ Positioned(NextOffset(n, decOffset), Append(decCuts, n))
        /\ Ordered(Append(decCuts, n))
        /\ Sum(decCuts) \in Nat /\ n \in Nat /\ Sum(Append(decCuts, n)) = Sum(decCuts) + n
    BY PieceUsed
  <2>2. \A c \in 1 .. Sum(decCuts) : KeyOf(decCuts', c) = KeyOf(decCuts, c)
    BY <1>2, PieceUsed DEF Decrypt
  <2>3. \A j \in 1 .. n : KeyOf(decCuts', Sum(decCuts) + j) = {Byte(first + (j - 1))}
    BY <1>2, PieceUsed DEF Decrypt
  <2>4. Positioned(decOffset', decCuts') /\ Ordered(decCuts') /\ Sum(decCuts') = Sum(decCuts) + n
    BY <1>2, <2>1 DEF Decrypt
  <2>5. n <= Len(wire) /\ UNCHANGED <<encOffset, encCuts>>
    BY <1>2 DEF Decrypt
  <2>6. /\ taken \in Seq(Char) /\ Len(taken) = n /\ \A j \in 1 .. n : taken[j] = wire[j]
    BY <2>1, <2>5
  <2>7. first \in Nat /\ cypher(taken, n, decOffset) = piece
    <3>1. PICK m \in Nat : decOffset = IntsPerVector * m
      BY DEF Positioned
    <3> HIDE DEF taken
    <3>2. /\ decOffset * CharsPerInt \in Nat
          /\ cypher(taken, n, decOffset) = Enciphered(taken, n, decOffset * CharsPerInt)
      BY ONLY <2>1, <2>6, <3>1, CypherIs
    <3> QED
      BY ONLY <3>2 DEF Enciphered
  <2>8. \A j \in 1 .. n :
          piece[j] = (Text(Len(shown) + j) ^^ KeyOf(encCuts, Len(shown) + j))
                        ^^ KeyOf(decCuts', Len(shown) + j)
    <3> SUFFICES ASSUME NEW j \in 1 .. n
                 PROVE  piece[j] = (Text(Len(shown) + j) ^^ KeyOf(encCuts, Len(shown) + j))
                                      ^^ KeyOf(decCuts', Len(shown) + j)
      OBVIOUS
    <3> HIDE DEF taken
    <3>1. piece[j] = taken[j] ^^ KeyOf(decCuts', Len(shown) + j)
      BY <2>3
    <3>2. j \in 1 .. Len(wire) /\ taken[j] = wire[j]
      BY <2>1, <2>5, <2>6
    <3> QED
      BY <3>1, <3>2
  <2>9. piece \in Seq(Char) /\ Len(piece) = n
    <3>1. ASSUME NEW j \in 1 .. n PROVE piece[j] \in Char
      <4>1. Sum(decCuts) + j \in 1 .. Sum(decCuts')
        BY <2>1, <2>4
      <4>2. KeyOf(decCuts', Sum(decCuts) + j) \subseteq {"key"} \X Nat \X Nat
        BY <2>4, <4>1, KeyIs
      <4>3. taken[j] \in Char
        BY <2>6
      <4>4. piece[j] = taken[j] ^^ KeyOf(decCuts', Sum(decCuts) + j)
        BY <2>3
      <4> HIDE DEF piece, taken
      <4> QED
        BY <4>2, <4>3, <4>4, XorIs
    <3>2. piece = [j \in 1 .. n |-> piece[j]]
      OBVIOUS
    <3> HIDE DEF piece
    <3> QED
      BY ONLY <2>1, <3>1, <3>2
  <2>10. wire' = SubSeq(wire, n + 1, Len(wire))
    BY <1>2 DEF Decrypt
  <2> HIDE DEF piece, taken, first
  <2>11. shown' = shown \o piece
    BY <1>2, <2>7 DEF Decrypt, taken
  <2>12. /\ wire' \in Seq(Char) /\ Len(wire') = Len(wire) - n
         /\ \A i \in 1 .. Len(wire) - n : wire'[i] = wire[n + i]
    BY <2>1, <2>5, <2>10
  <2>13. /\ shown' \in Seq(Char) /\ Len(shown') = Len(shown) + n
         /\ \A c \in 1 .. Len(shown) : shown'[c] = shown[c]
         /\ \A j \in 1 .. n : shown'[Len(shown) + j] = piece[j]
    BY <2>9, <2>11, Joined
  <2>14. ASSUME NEW i \in 1 .. Len(wire')
         PROVE  wire'[i] = Text(Len(shown') + i) ^^ KeyOf(encCuts, Len(shown') + i)
    <3>1. /\ n + i \in 1 .. Len(wire) /\ i \in 1 .. Len(wire) - n
          /\ Len(shown') + i = Len(shown) + (n + i)
      BY <2>1, <2>5, <2>12, <2>13
    <3> QED
      BY <2>12, <3>1
  <2>15. ASSUME NEW c \in 1 .. Len(shown')
         PROVE  shown'[c] = (Text(c) ^^ KeyOf(encCuts, c)) ^^ KeyOf(decCuts', c)
    <3>1. CASE c <= Len(shown)
      BY <2>1, <2>2, <2>13, <3>1
    <3>2. CASE ~(c <= Len(shown))
      <4>1. PICK j \in 1 .. n : c = Len(shown) + j
        <5>1. c - Len(shown) \in 1 .. n /\ c = Len(shown) + (c - Len(shown))
          BY <2>1, <2>13, <3>2
        <5> QED
          BY <5>1
      <4> QED
        BY <2>8, <2>13, <4>1
    <3> QED
      BY <3>1, <3>2
  <2> QED
    BY <2>1, <2>4, <2>5, <2>12, <2>13, <2>14, <2>15
<1>3. CASE UNCHANGED vars
  BY <1>3 DEF vars
<1> QED
  BY <1>1, <1>2, <1>3 DEF Next

LEMMA Invariance == Spec => []IInv
BY InitIInv, StepIInv, PTL DEF Spec

----------------------------------------------------------------------------
\* The offsets of both objects stay integers, and what is sent and what is shown stay
\* characters, whatever pieces cypher is called with (trivium.cpp 83-112).
THEOREM TypeCorrect == Spec => []TypeOK
<1>1. IInv => TypeOK
  <2> SUFFICES ASSUME IInv PROVE TypeOK
    OBVIOUS
  <2>1. ASSUME NEW offset, NEW cuts, Positioned(offset, cuts)
        PROVE  offset \in Nat /\ cuts \in Seq(Pieces)
    BY <2>1, Constants DEF Positioned
  <2>2. (\A c \in DOMAIN wire : wire[c] \in Char) /\ (\A c \in DOMAIN shown : shown[c] \in Char)
    BY DEF IInv
  <2> QED
    BY <2>1, <2>2 DEF IInv, TypeOK
<1> QED
  BY <1>1, Invariance, PTL

LEMMA RecoveredByIInv == IInv => Recovered
<1> SUFFICES ASSUME IInv, NEW c \in 1 .. Len(shown)
             PROVE  shown[c] = Text(c) <=> Skipped(encCuts, c) = Skipped(decCuts, c)
  BY DEF Recovered
<1>1. PICK p, q : p = c - 1 + Skipped(encCuts, c) /\ q = c - 1 + Skipped(decCuts, c)
  OBVIOUS
<1>2. c \in 1 .. Sum(encCuts) /\ c \in 1 .. Sum(decCuts) /\ c \in Nat
  BY DEF IInv
<1>3. p \in Nat /\ q \in Nat
  BY <1>1, <1>2, KeyIs DEF IInv
<1>4. shown[c] = ({<<"text", c>>} ^^ {Byte(p)}) ^^ {Byte(q)}
  BY <1>1 DEF IInv, KeyOf, Text
<1>5. Byte(p) # <<"text", c>> /\ Byte(q) # <<"text", c>>
  <2>1. Byte(p) \in {"key"} \X Nat \X Nat /\ Byte(q) \in {"key"} \X Nat \X Nat
    BY <1>3, ByteIs
  <2> QED
    BY <2>1
<1>6. shown[c] = {<<"text", c>>} <=> Byte(p) = Byte(q)
  <2>1. PICK x, y, z : x = <<"text", c>> /\ y = Byte(p) /\ z = Byte(q)
    OBVIOUS
  <2>2. y # x /\ z # x /\ shown[c] = ({x} ^^ {y}) ^^ {z}
    BY ONLY <1>4, <1>5, <2>1
  <2>3. {x} ^^ {y} = {x, y}
    BY ONLY <2>2 DEF ^^
  <2>4. CASE y = z
    <3>1. {x, y} ^^ {z} = {x}
      BY ONLY <2>2, <2>4 DEF ^^
    <3> QED
      BY ONLY <2>1, <2>2, <2>3, <2>4, <3>1
  <2>5. CASE y # z
    <3>1. z \in {x, y} ^^ {z}
      BY ONLY <2>2, <2>5 DEF ^^
    <3> QED
      BY ONLY <2>1, <2>2, <2>3, <2>5, <3>1
  <2> QED
    BY ONLY <2>4, <2>5
<1>7. Byte(p) = Byte(q) <=> p = q
  BY <1>3, ByteInjective
<1>8. p = q <=> Skipped(encCuts, c) = Skipped(decCuts, c)
  <2>1. Skipped(encCuts, c) \in Nat /\ Skipped(decCuts, c) \in Nat
    BY <1>2 DEF IInv, Ordered
  <2> QED
    BY <1>1, <1>2, <2>1
<1> QED
  BY <1>6, <1>7, <1>8 DEF Text

\* A character is decrypted correctly exactly if both sides have left the same number of
\* characters of the key stream unused before it, whatever pieces cypher is called with
\* (trivium.cpp 83-112).
THEOREM RecoveredHolds == Spec => []Recovered
BY RecoveredByIInv, Invariance, PTL

LEMMA NotGarbage ==
  ASSUME NEW a, NEW b, Garbage \cap a = {}, Garbage \cap b = {}
  PROVE  Garbage \cap (a ^^ b) = {}
BY DEF ^^

\* What cypher reads behind its buffer gets neither into what is sent nor into the text
\* (trivium.cpp 83-112).
THEOREM NoGarbageHolds == Spec => []NoGarbage
<1>1. IInv => NoGarbage
  <2> SUFFICES ASSUME IInv PROVE NoGarbage
    OBVIOUS
  <2>1. ASSUME NEW cuts, Ordered(cuts), NEW c \in 1 .. Sum(cuts)
        PROVE  Garbage \cap KeyOf(cuts, c) = {}
    <3>1. KeyOf(cuts, c) \subseteq {"key"} \X Nat \X Nat
      BY <2>1, KeyIs
    <3>2. <<"garbage">> \notin {"key"} \X Nat \X Nat
      OBVIOUS
    <3> QED
      BY <3>1, <3>2 DEF Garbage
  <2>2. ASSUME NEW c PROVE Garbage \cap Text(c) = {}
    <3>1. <<"garbage">> # <<"text", c>>
      OBVIOUS
    <3> QED
      BY <3>1 DEF Garbage, Text
  <2>3. ASSUME NEW i \in 1 .. Len(wire) PROVE Garbage \cap wire[i] = {}
    <3>1. Len(shown) + i \in 1 .. Sum(encCuts)
      BY DEF IInv
    <3> QED
      BY <2>1, <2>2, <3>1, NotGarbage DEF IInv
  <2>4. ASSUME NEW c \in 1 .. Len(shown) PROVE Garbage \cap shown[c] = {}
    <3>1. c \in 1 .. Sum(encCuts) /\ c \in 1 .. Sum(decCuts)
      BY DEF IInv
    <3>2. Garbage \cap (Text(c) ^^ KeyOf(encCuts, c)) = {}
      BY <2>1, <2>2, <3>1, NotGarbage DEF IInv
    <3>3. Garbage \cap ((Text(c) ^^ KeyOf(encCuts, c)) ^^ KeyOf(decCuts, c)) = {}
      BY <2>1, <3>1, <3>2, NotGarbage DEF IInv
    <3> QED
      BY <3>3 DEF IInv
  <2>5. ASSUME NEW c \in Range(wire) \cup Range(shown) PROVE Garbage \cap c = {}
    <3>1. \/ \E i \in 1 .. Len(wire) : c = wire[i]
          \/ \E i \in 1 .. Len(shown) : c = shown[i]
      BY <2>5 DEF Range, IInv
    <3> QED
      BY <2>3, <2>4, <3>1
  <2> QED
    BY <2>5 DEF NoGarbage
<1> QED
  BY <1>1, Invariance, PTL

\* No byte of the key stream encrypts two characters (trivium.cpp 94-104).
THEOREM KeyUsedOnceHolds == Spec => []KeyUsedOnce
<1>1. IInv => KeyUsedOnce
  <2> SUFFICES ASSUME IInv PROVE KeyUsedOnce
    OBVIOUS
  <2>1. ASSUME NEW i \in 1 .. Len(wire), NEW j \in 1 .. Len(wire), i < j
        PROVE  wire[i] \cap wire[j] = {}
    <3>1. PICK c, d : c = Len(shown) + i /\ d = Len(shown) + j
      OBVIOUS
    <3>2. /\ c \in 1 .. Sum(encCuts) /\ d \in 1 .. Sum(encCuts)
          /\ c \in Nat /\ d \in Nat /\ c < d
      BY <2>1, <3>1 DEF IInv
    <3>3. PICK p, q : p = c - 1 + Skipped(encCuts, c) /\ q = d - 1 + Skipped(encCuts, d)
      OBVIOUS
    <3>4. Skipped(encCuts, c) \in Nat /\ Skipped(encCuts, d) \in Nat
      BY <3>2 DEF IInv, Ordered
    <3>5. Skipped(encCuts, c) <= Skipped(encCuts, d)
      BY <3>2 DEF IInv, Ordered
    <3>6. p \in Nat /\ q \in Nat /\ p < q
      BY <3>2, <3>3, <3>4, <3>5
    <3>7. Byte(p) # Byte(q)
      BY <3>6, ByteInjective
    <3>8. Byte(p) \in {"key"} \X Nat \X Nat /\ Byte(q) \in {"key"} \X Nat \X Nat
      BY <3>6, ByteIs
    <3>9. /\ Byte(p) # <<"text", d>> /\ Byte(q) # <<"text", c>>
          /\ <<"text", c>> # <<"text", d>>
      BY <3>2, <3>8
    <3>10. /\ wire[i] = {<<"text", c>>} ^^ {Byte(p)}
           /\ wire[j] = {<<"text", d>>} ^^ {Byte(q)}
      BY <3>1, <3>3 DEF IInv, KeyOf, Text
    <3>11. \A u, v, x, y : u # v /\ u # y /\ x # v /\ x # y =>
                             ({u} ^^ {x}) \cap ({v} ^^ {y}) = {}
      BY DEF ^^
    <3> QED
      BY <3>7, <3>9, <3>10, <3>11
  <2>2. ASSUME NEW c \in DOMAIN wire, NEW d \in DOMAIN wire, c # d
        PROVE  wire[c] \cap wire[d] = {}
    <3>1. c \in 1 .. Len(wire) /\ d \in 1 .. Len(wire)
      BY DEF IInv
    <3>2. CASE c < d
      BY <2>1, <3>1, <3>2
    <3>3. CASE d < c
      BY <2>1, <3>1, <3>3
    <3> QED
      BY <2>2, <3>1, <3>2, <3>3
  <2> QED
    BY <2>2 DEF KeyUsedOnce
<1> QED
  BY <1>1, Invariance, PTL

----------------------------------------------------------------------------
\* What later pieces do not change: what is skipped before a character of the first k.
LEMMA SkippedPrefix ==
  ASSUME NEW cuts \in Seq(Pieces), NEW k \in 0 .. Len(cuts),
         NEW c \in 1 .. Sum(SubSeq(cuts, 1, k))
  PROVE  Skipped(cuts, c) = Skipped(SubSeq(cuts, 1, k), c)
<1> DEFINE b(j) == SubSeq(cuts, 1, k + j)
           S == {j \in Nat : k + j <= Len(cuts) => /\ c \in 1 .. Sum(b(j))
                                                   /\ Skipped(b(j), c) = Skipped(b(0), c)}
<1>1. \A j \in Nat : k + j <= Len(cuts) => b(j) \in Seq(Pieces) /\ Len(b(j)) = k + j
  OBVIOUS
<1>2. ASSUME NEW j \in Nat, k + j + 1 <= Len(cuts)
      PROVE  cuts[k + j + 1] \in Pieces /\ b(j + 1) = Append(b(j), cuts[k + j + 1])
  <2>1. cuts[k + j + 1] \in Pieces
    BY <1>2
  <2>2. /\ b(j + 1) \in Seq(Pieces) /\ Len(b(j + 1)) = k + j + 1
        /\ Append(b(j), cuts[k + j + 1]) \in Seq(Pieces)
        /\ Len(Append(b(j), cuts[k + j + 1])) = k + j + 1
    BY <1>2, <2>1
  <2>3. \A i \in 1 .. k + j + 1 : b(j + 1)[i] = Append(b(j), cuts[k + j + 1])[i]
    BY <1>2, <2>1
  <2> QED
    BY <2>1, <2>2, <2>3, SeqEqual
<1>3. b(0) = SubSeq(cuts, 1, k) /\ b(Len(cuts) - k) = cuts
  <2>1. k + 0 = k /\ k + (Len(cuts) - k) = Len(cuts) /\ SubSeq(cuts, 1, Len(cuts)) = cuts
    OBVIOUS
  <2> QED
    BY <2>1, Zenon
<1> HIDE DEF b
<1>4. 0 \in S
  BY <1>3
<1>5. ASSUME NEW j \in Nat, j \in S PROVE j + 1 \in S
  <2> SUFFICES ASSUME k + (j + 1) <= Len(cuts)
               PROVE  /\ c \in 1 .. Sum(b(j + 1))
                      /\ Skipped(b(j + 1), c) = Skipped(b(0), c)
    OBVIOUS
  <2>1. k + j + 1 <= Len(cuts) /\ k + j <= Len(cuts)
    OBVIOUS
  <2>2. PICK n \in Pieces : b(j + 1) = Append(b(j), n)
    BY <1>2, <2>1
  <2>3. c \in 1 .. Sum(b(j)) /\ Skipped(b(j), c) = Skipped(b(0), c)
    BY <1>5, <2>1
  <2>4. b(j) \in Seq(Pieces) /\ b(j) \in Seq(Nat) /\ n \in Nat
    BY <1>1, <2>1, PieceSequence, Constants
  <2>5. Sum(b(j)) \in Nat /\ Sum(b(j + 1)) = Sum(b(j)) + n
    BY <2>2, <2>4, SumAppend
  <2>6. c \in 1 .. Sum(b(j)) + n /\ c <= Sum(b(j)) /\ c \in 1 .. Sum(b(j + 1))
    BY <2>3, <2>4, <2>5
  <2>7. Skipped(b(j + 1), c) = Skipped(b(j), c)
    BY <2>2, <2>4, <2>6, SkippedAppend
  <2> QED
    BY <2>3, <2>6, <2>7
<1> HIDE DEF S
<1>6. Len(cuts) - k \in S
  <2>1. Nat \subseteq S
    BY <1>4, <1>5, Induction
  <2>2. Len(cuts) - k \in Nat
    OBVIOUS
  <2> QED
    BY <2>1, <2>2
<1>7. k + (Len(cuts) - k) <= Len(cuts)
  OBVIOUS
<1> QED
  BY <1>3, <1>6, <1>7 DEF S

\* All that has been decrypted is the text.
Clear == \A c \in 1 .. Len(shown) : shown[c] = Text(c)

\* A text that is decrypted in the pieces it was encrypted in is clear, whatever their
\* sizes: so are the two calls of crypt.cpp and decrypt.cpp (lines 26 and 42 of both).
THEOREM CutAlikeIsClear == Spec => [](IsPrefix(decCuts, encCuts) => Clear)
<1>1. IInv /\ IsPrefix(decCuts, encCuts) => Clear
  <2> SUFFICES ASSUME IInv, IsPrefix(decCuts, encCuts), NEW c \in 1 .. Len(shown)
               PROVE  shown[c] = Text(c)
    BY DEF Clear
  <2>1. encCuts \in Seq(Pieces) /\ decCuts \in Seq(Pieces) /\ Len(shown) = Sum(decCuts)
    BY DEF IInv, Positioned
  <2>2. PICK k \in 0 .. Len(encCuts) : k = Len(decCuts)
    BY <2>1 DEF IsPrefix
  <2>3. decCuts = SubSeq(encCuts, 1, k)
    <3>1. SubSeq(decCuts, 1, k) = SubSeq(encCuts, 1, k)
      BY <2>2 DEF IsPrefix
    <3>2. SubSeq(decCuts, 1, Len(decCuts)) = decCuts
      BY <2>1
    <3> QED
      BY <2>2, <3>1, <3>2
  <2>4. c \in 1 .. Sum(SubSeq(encCuts, 1, k))
    BY <2>1, <2>3
  <2>5. Skipped(encCuts, c) = Skipped(decCuts, c)
    BY <2>1, <2>3, <2>4, SkippedPrefix
  <2> QED
    BY <2>5, RecoveredByIInv DEF Recovered
<1> QED
  BY <1>1, Invariance, PTL

\* If all pieces are whole vectors, as the 2048 characters of a block of the video are
\* (camera/encryption.cpp 10, tcpserverstreaming.cpp 30), both sides can cut the text as
\* they like.
THEOREM WholeVectorsAreClear ==
  ASSUME \A n \in Pieces : Rest(n) = 0
  PROVE  Spec => []Clear
<1> DEFINE NoneSkipped(cuts) == AllSkipped(cuts) = 0
<1>1. Init => NoneSkipped(encCuts) /\ NoneSkipped(decCuts)
  <2>1. [k \in 1 .. 0 |-> Rest(<<>>[k])] = <<>>
    OBVIOUS
  <2>2. AllSkipped(<<>>) = 0
    BY <2>1, SumEmpty DEF AllSkipped
  <2> QED
    BY <2>2 DEF Init
<1>2. ASSUME IInv, NoneSkipped(encCuts) /\ NoneSkipped(decCuts), [Next]_vars
      PROVE  (NoneSkipped(encCuts) /\ NoneSkipped(decCuts))'
  <2>1. ASSUME NEW cuts, cuts \in Seq(Pieces), NEW n \in Pieces, NoneSkipped(cuts)
        PROVE  NoneSkipped(Append(cuts, n))
    BY <2>1, AllSkippedAppend
  <2>2. encCuts \in Seq(Pieces) /\ decCuts \in Seq(Pieces)
    BY <1>2 DEF IInv, Positioned
  <2>3. /\ encCuts' = encCuts \/ \E n \in Pieces : encCuts' = Append(encCuts, n)
        /\ decCuts' = decCuts \/ \E n \in Pieces : decCuts' = Append(decCuts, n)
    BY <1>2 DEF Next, Encrypt, Decrypt, vars
  <2> HIDE DEF NoneSkipped
  <2>4. NoneSkipped(encCuts')
    BY <1>2, <2>1, <2>2, <2>3
  <2>5. NoneSkipped(decCuts')
    BY <1>2, <2>1, <2>2, <2>3
  <2> QED
    BY <2>4, <2>5 DEF NoneSkipped
<1>3. IInv /\ NoneSkipped(encCuts) /\ NoneSkipped(decCuts) => Clear
  <2> SUFFICES ASSUME IInv, NoneSkipped(encCuts), NoneSkipped(decCuts),
                      NEW c \in 1 .. Len(shown)
               PROVE  shown[c] = Text(c)
    BY DEF Clear
  <2>1. c \in 1 .. Sum(encCuts) /\ c \in 1 .. Sum(decCuts)
    BY DEF IInv
  <2>2. Skipped(encCuts, c) = 0 /\ Skipped(decCuts, c) = 0
    BY <2>1 DEF IInv, Ordered
  <2> QED
    BY <2>2, RecoveredByIInv DEF Recovered
<1> QED
  BY <1>1, <1>2, <1>3, Invariance, PTL DEF Spec
=============================================================================
