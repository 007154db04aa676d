---------------------------- MODULE CameraProofs ----------------------------
(***************************************************************************)
(* The invariants of CameraStream for any sizes of blocks, vectors, lines  *)
(* and pipe, any length of the video and any number of sessions, restarts  *)
(* and short reads.                                                        *)
(*                                                                         *)
(* What the client has received and not decrypted and what is under way to *)
(* it make one line.  A position on the line is the number of lost         *)
(* positions before it, plus the characters decrypted, plus the place on   *)
(* the line: that is why a loss is never made good, and why without one    *)
(* everything fits.                                                        *)
(***************************************************************************)
EXTENDS CameraStream, FunctionTheorems, FiniteSetTheorems, TLAPS

Char == Encrypted
Text == Plain \X Nat \X Nat

\* The lost positions before p, of those in D.
Below(D, p) == {q \in D : q < p}

\* The position in the key stream is that in the video, or behind it after a short read.
Keyed(c, short) == c[2] >= c[1] /\ (~short => c[2] = c[1])

\* A character shown is readable if and only if nothing before it is lost.
ShownRight(c, D, short) == /\ Below(D, c[1]) = {} /\ ~short => Readable(c)
                           /\ Below(D, c[1]) # {} => ~Readable(c)

\* s characters have left the pipe: those in D are lost, d were decrypted, L is the
\* line, and sh was shown.
Increasing(L) == \A m, n \in 1..Len(L) : m < n => L[m][1] < L[n][1]

OnLine(s, L, D, d, short) ==
  /\ D \subseteq 1..s
  /\ \A n \in 1..Len(L) : /\ L[n][1] \in (1..s) \ D
                          /\ L[n][1] = Cardinality(Below(D, L[n][1])) + d + n
                          /\ Keyed(L[n], short)
  /\ Increasing(L)
  /\ s = Cardinality(D) + d + Len(L)

Shown(s, L, D, short, sh) ==
  \A n \in 1..Len(sh) : /\ sh[n][1] <= s
                        /\ \A m \in 1..Len(L) : sh[n][1] < L[m][1]
                        /\ ShownRight(sh[n], D, short)

InPipe(s, P, short) == \A n \in 1..Len(P) : P[n][1] = s + n /\ Keyed(P[n], short)

----------------------------------------------------------------------------
\* The characters that have left the pipe, the line, and what was decrypted of it.
Sent      == taken - Len(pipe)
Line      == buffer \o wire
Decrypted == VectorSize * decVectors
Short     == shortReads # 0

CameraTypes == /\ encryption \in {"running", "ended"}
               /\ taken \in 0..VideoLength
               /\ encVectors \in Nat /\ shortReads \in Nat
               /\ pipe \in Seq(Char)

ClientTypes == /\ wire \in Seq(Char) /\ buffer \in Seq(Char)
               /\ Len(buffer) < BlockSize
               /\ shown \in Seq(Text)
               /\ decVectors \in Nat /\ restarts \in Nat
               /\ listening \in BOOLEAN /\ viewer \in BOOLEAN

SessionTypes == /\ server \in {"accept", "serve"}
                /\ served \in Sessions \cup {0} /\ socket \in Sessions \cup {0}
                /\ server = "serve" => served \in Sessions
                /\ link \in [Sessions -> {"unused", "backlog", "left backlog", "open", "left",
                                          "dropped", "closed"}]
                /\ button \in {"Connexion", "Deconnexion"}

\* Something is under way only to a client that is connected.
WireConnected == wire # <<>> => /\ server = "serve" /\ served = socket
                                /\ socket # 0 /\ link[served] = "open"

KeysUsed == /\ Len(pipe) <= taken
            /\ taken <= VectorSize * encVectors
            /\ ~Short /\ encryption = "running" => taken = VectorSize * encVectors

Data == /\ KeysUsed
        /\ InPipe(Sent, pipe, Short)
        /\ OnLine(Sent, Line, lost, Decrypted, Short)
        /\ Shown(Sent, Line, lost, Short, shown)

Session == SessionTypes /\ NoSessionLeftBehind /\ WireConnected

IInv == CameraTypes /\ ClientTypes /\ Session /\ Data

----------------------------------------------------------------------------
\* Vectors of key.
LEMMA Vectors ==
  ASSUME NEW chars \in Nat
  PROVE  /\ LENVECTOR(chars) \in Nat
         /\ VectorSize * LENVECTOR(chars) \in Nat
         /\ VectorSize * LENVECTOR(chars) >= chars
<1>1. VectorSize \in Nat /\ VectorSize > 0
  BY StreamAssumption
<1>2. \A a \in Nat, b \in Nat : b > 0 =>
        /\ (a + b - 1) \div b \in Nat
        /\ b * ((a + b - 1) \div b) >= a
  OBVIOUS
<1> QED
  BY <1>1, <1>2 DEF LENVECTOR

LEMMA WholeBlocks == VectorSize * LENVECTOR(BlockSize) = BlockSize
<1>1. /\ VectorSize \in Nat /\ VectorSize > 0 /\ BlockSize \in Nat /\ BlockSize > 0
      /\ BlockSize % VectorSize = 0
  BY StreamAssumption
<1>2. PICK k \in Nat : BlockSize = VectorSize * k
  <2>1. /\ BlockSize = VectorSize * (BlockSize \div VectorSize)
        /\ BlockSize \div VectorSize \in Nat
    BY <1>1
  <2> QED
    BY <2>1
<1>3. BlockSize + VectorSize - 1 = VectorSize * k + (VectorSize - 1)
  BY <1>1, <1>2
<1>4. (VectorSize * k + (VectorSize - 1)) \div VectorSize = k
  BY <1>1
<1> QED
  BY <1>2, <1>3, <1>4 DEF LENVECTOR

----------------------------------------------------------------------------
\* The line, as data.

\* What is lost is a finite set, and so is what is lost before a character.
LEMMA LostFinite ==
  ASSUME NEW s \in Nat, NEW D \in SUBSET (1..s)
  PROVE  /\ IsFiniteSet(D) /\ Cardinality(D) \in Nat
         /\ \A p : /\ IsFiniteSet(Below(D, p)) /\ Cardinality(Below(D, p)) \in Nat
                   /\ Cardinality(Below(D, p)) = 0 <=> Below(D, p) = {}
<1>1. IsFiniteSet(1..s)
  BY FS_Interval
<1>2. IsFiniteSet(D)
  BY <1>1, FS_Subset
<1>3. \A p : IsFiniteSet(Below(D, p))
  <2> TAKE p
  <2>1. Below(D, p) \subseteq D
    BY DEF Below
  <2> QED
    BY <1>2, <2>1, FS_Subset
<1> QED
  BY <1>2, <1>3, FS_CardinalityType, FS_EmptySet

LEMMA FirstNumbers ==
  ASSUME NEW n \in Nat
  PROVE  IsFiniteSet(1..n) /\ Cardinality(1..n) = n
<1>1. 1 \in Int /\ n \in Int
  OBVIOUS
<1>2. IsFiniteSet(1..n) /\ Cardinality(1..n) = IF 1 > n THEN 0 ELSE n - 1 + 1
  BY <1>1, FS_Interval
<1>3. (IF 1 > n THEN 0 ELSE n - 1 + 1) = n
  OBVIOUS
<1> QED
  BY <1>2, <1>3

LEMMA Joined ==
  ASSUME NEW S, NEW a \in Seq(S), NEW b \in Seq(S)
  PROVE  /\ a \o b \in Seq(S) /\ Len(a \o b) = Len(a) + Len(b) /\ Len(a) \in Nat
         /\ \A n \in 1..Len(a) : (a \o b)[n] = a[n]
         /\ \A n \in (Len(a) + 1)..(Len(a) + Len(b)) : (a \o b)[n] = b[n - Len(a)]
OBVIOUS

LEMMA RestOfJoined ==
  ASSUME NEW S, NEW a \in Seq(S), NEW b \in Seq(S), NEW k \in Nat, k <= Len(a)
  PROVE  /\ k <= Len(a \o b)
         /\ SubSeq(a \o b, k + 1, Len(a \o b)) = SubSeq(a, k + 1, Len(a)) \o b
         /\ \A n \in 1..k : (a \o b)[n] = a[n]
<1> DEFINE c == a \o b
           l == SubSeq(c, k + 1, Len(c))
           p == SubSeq(a, k + 1, Len(a))
           r == p \o b
<1>1. /\ c \in Seq(S) /\ Len(c) = Len(a) + Len(b) /\ Len(a) \in Nat /\ Len(b) \in Nat
      /\ \A n \in 1..Len(a) : c[n] = a[n]
      /\ \A n \in (Len(a) + 1)..(Len(a) + Len(b)) : c[n] = b[n - Len(a)]
  BY Joined
<1>2. /\ p \in Seq(S) /\ Len(p) = Len(a) - k
      /\ \A n \in 1..Len(p) : p[n] = a[n + k]
  OBVIOUS
<1> HIDE DEF p
<1>3. /\ r \in Seq(S) /\ Len(r) = Len(p) + Len(b)
      /\ \A n \in 1..Len(p) : r[n] = p[n]
      /\ \A n \in (Len(p) + 1)..(Len(p) + Len(b)) : r[n] = b[n - Len(p)]
  BY <1>2, Joined
<1> HIDE DEF c, r
<1>4. /\ l \in Seq(S) /\ Len(l) = Len(c) - k
      /\ \A n \in 1..Len(l) : l[n] = c[n + k]
  BY <1>1
<1> HIDE DEF l
<1>5. Len(l) = Len(r)
  BY <1>1, <1>2, <1>3, <1>4
<1>6. \A n \in 1..Len(l) : l[n] = r[n]
  <2> TAKE n \in 1..Len(l)
  <2>1. CASE n \in 1..Len(p)
    BY <2>1, <1>1, <1>2, <1>3, <1>4
  <2>2. CASE n \in (Len(p) + 1)..(Len(p) + Len(b))
    <3>1. r[n] = b[n - Len(p)] /\ l[n] = c[n + k]
      BY <2>2, <1>3, <1>4
    <3>2. n + k \in (Len(a) + 1)..(Len(a) + Len(b)) /\ n + k - Len(a) = n - Len(p)
      BY <2>2, <1>1, <1>2
    <3> QED
      BY <3>1, <3>2, <1>1
  <2> QED
    BY <2>1, <2>2, <1>1, <1>2, <1>4
<1>7. l = r
  BY <1>3, <1>4, <1>5, <1>6
<1>8. k <= Len(c) /\ \A n \in 1..k : c[n] = a[n]
  BY <1>1
<1>9. c = a \o b
  BY DEF c
<1>10. SubSeq(c, k + 1, Len(c)) = SubSeq(a, k + 1, Len(a)) \o b
  BY <1>7 DEF l, r, p
<1> QED
  BY <1>8, <1>9, <1>10

\* Characters that follow in the video are sent.
LEMMA LineGrows ==
  ASSUME NEW s \in Nat, NEW d \in Nat, NEW short \in BOOLEAN, NEW D,
         NEW L \in Seq(Char), NEW N \in Seq(Char), NEW sh \in Seq(Text),
         OnLine(s, L, D, d, short), Shown(s, L, D, short, sh), InPipe(s, N, short)
  PROVE  /\ OnLine(s + Len(N), L \o N, D, d, short)
         /\ Shown(s + Len(N), L \o N, D, short, sh)
<1> DEFINE M == L \o N
<1>1. /\ M \in Seq(Char) /\ Len(M) = Len(L) + Len(N) /\ Len(L) \in Nat /\ Len(N) \in Nat
      /\ \A n \in 1..Len(L) : M[n] = L[n]
      /\ \A n \in (Len(L) + 1)..Len(M) : M[n] = N[n - Len(L)]
  OBVIOUS
<1>2. D \subseteq 1..s /\ s = Cardinality(D) + d + Len(L) /\ Cardinality(D) \in Nat
  BY LostFinite DEF OnLine
<1>3. \A n \in 1..Len(M) : \/ n \in 1..Len(L)
                           \/ n \in (Len(L) + 1)..Len(M) /\ n - Len(L) \in 1..Len(N)
  BY <1>1
<1>4. \A n \in (Len(L) + 1)..Len(M) : M[n][1] = s + (n - Len(L)) /\ Keyed(M[n], short)
  BY <1>1 DEF InPipe
<1>5. \A n \in 1..Len(L) : M[n][1] \in 1..s
  BY <1>1 DEF OnLine
<1>6. \A p \in Nat : p > s => p \notin D /\ Below(D, p) = D
  <2>1. \A q \in D : q \in Nat /\ q <= s
    BY <1>2
  <2> QED
    BY <2>1 DEF Below
<1>7. ASSUME NEW n \in 1..Len(M)
      PROVE  /\ M[n][1] \in (1..(s + Len(N))) \ D
             /\ M[n][1] = Cardinality(Below(D, M[n][1])) + d + n
             /\ Keyed(M[n], short)
  <2>1. CASE n \in 1..Len(L)
    BY <2>1, <1>1, <1>2 DEF OnLine
  <2>2. CASE n \in (Len(L) + 1)..Len(M) /\ n - Len(L) \in 1..Len(N)
    <3>1. M[n][1] = s + (n - Len(L)) /\ Keyed(M[n], short)
      BY <2>2, <1>4
    <3>2. s + (n - Len(L)) \in Nat /\ s + (n - Len(L)) > s
      BY <2>2, <1>1
    <3>3. M[n][1] \notin D /\ Below(D, M[n][1]) = D
      BY <3>1, <3>2, <1>6
    <3>4. s + (n - Len(L)) \in 1..(s + Len(N))
      BY <3>2, <2>2, <1>1
    <3>5. s + (n - Len(L)) = Cardinality(D) + d + n
      BY <2>2, <1>1, <1>2
    <3> QED
      BY <3>1, <3>3, <3>4, <3>5
  <2> QED
    BY <2>1, <2>2, <1>3
<1>8. Increasing(M)
  <2> SUFFICES ASSUME NEW m \in 1..Len(M), NEW n \in 1..Len(M), m < n
               PROVE  M[m][1] < M[n][1]
    BY DEF Increasing
  <2>1. CASE n \in 1..Len(L)
    BY <2>1, <1>1 DEF OnLine, Increasing
  <2>2. CASE n \in (Len(L) + 1)..Len(M) /\ m \in 1..Len(L)
    BY <2>2, <1>1, <1>4, <1>5
  <2>3. CASE n \in (Len(L) + 1)..Len(M) /\ m \in (Len(L) + 1)..Len(M)
    BY <2>3, <1>1, <1>4
  <2> QED
    BY <2>1, <2>2, <2>3, <1>3
<1>9. \A n \in 1..Len(sh), m \in 1..Len(M) : sh[n][1] < M[m][1]
  <2> SUFFICES ASSUME NEW n \in 1..Len(sh), NEW m \in 1..Len(M)
               PROVE  sh[n][1] < M[m][1]
    OBVIOUS
  <2>1. sh[n][1] <= s /\ sh[n][1] \in Nat
    BY DEF Shown, Text, Plain
  <2>2. CASE m \in 1..Len(L)
    BY <2>2, <1>1 DEF Shown
  <2>3. CASE m \in (Len(L) + 1)..Len(M)
    BY <2>1, <2>3, <1>1, <1>4
  <2> QED
    BY <2>2, <2>3, <1>3
<1>10. \A n \in 1..Len(sh) : sh[n][1] <= s + Len(N) /\ ShownRight(sh[n], D, short)
  <2> TAKE n \in 1..Len(sh)
  <2>1. sh[n][1] <= s /\ sh[n][1] \in Nat
    BY DEF Shown, Text, Plain
  <2> QED
    BY <2>1, <1>1 DEF Shown
<1>11. D \subseteq 1..(s + Len(N)) /\ s + Len(N) = Cardinality(D) + d + Len(M)
  BY <1>1, <1>2
<1> HIDE DEF M
<1>12. OnLine(s + Len(N), M, D, d, short)
  BY <1>7, <1>8, <1>11 DEF OnLine
<1>13. Shown(s + Len(N), M, D, short, sh)
  BY <1>9, <1>10 DEF Shown
<1> QED
  BY <1>12, <1>13 DEF M

\* The line L ends with B, and what is lost besides D, when t characters have left the
\* pipe, is E: characters of L behind B, and such as have not been on it.
CutBehind(s, t, L, B, D, E) ==
  /\ s <= t /\ E \subseteq 1..t /\ D \cap E = {}
  /\ Len(B) <= Len(L) /\ \A n \in 1..Len(B) : B[n] = L[n]
  /\ \A e \in E : \/ e > s
                  \/ /\ \A n \in 1..Len(B) : L[n][1] < e
                     /\ \E n \in 1..Len(L) : L[n][1] = e

\* The line does not change with what is lost behind it.
LEMMA LossBehind ==
  ASSUME NEW s \in Nat, NEW t \in Nat, NEW d \in Nat, NEW short \in BOOLEAN,
         NEW D, NEW E, NEW L \in Seq(Char), NEW B \in Seq(Char), NEW sh \in Seq(Text),
         CutBehind(s, t, L, B, D, E), t = Cardinality(D \cup E) + d + Len(B),
         OnLine(s, L, D, d, short), Shown(s, L, D, short, sh)
  PROVE  /\ OnLine(t, B, D \cup E, d, short)
         /\ Shown(t, B, D \cup E, short, sh)
<1>0. /\ s <= t /\ E \subseteq 1..t /\ D \cap E = {}
      /\ Len(B) <= Len(L) /\ \A n \in 1..Len(B) : B[n] = L[n]
      /\ \A e \in E : e > s \/ (\A n \in 1..Len(B) : L[n][1] < e)
      /\ \A e \in E : e > s \/ (\E n \in 1..Len(L) : L[n][1] = e)
  BY DEF CutBehind
<1>1. Len(B) \in Nat /\ Len(L) \in Nat /\ \A n \in 1..Len(B) : n \in 1..Len(L)
  BY <1>0
<1>2. D \subseteq 1..s /\ \A n \in 1..Len(L) : L[n][1] \in 1..s
  BY DEF OnLine
<1>3. \A n \in 1..Len(sh) : sh[n][1] \in Nat /\ sh[n][1] <= s
  <2> TAKE n \in 1..Len(sh)
  <2>1. sh[n] \in Text
    OBVIOUS
  <2>2. sh[n][1] \in Nat
    BY <2>1 DEF Text, Plain
  <2> QED
    BY <2>2 DEF Shown
<1>4. \A e \in E : e \in Nat /\ e \in 1..t
  <2>1. \A e \in 1..t : e \in Nat
    OBVIOUS
  <2> QED
    BY <1>0, <2>1
<1>5. ASSUME NEW p \in Nat, \A e \in E : ~(e < p)
      PROVE  Below(D \cup E, p) = Below(D, p)
  BY <1>5 DEF Below
<1>6. \A n \in 1..Len(B) : Below(D \cup E, B[n][1]) = Below(D, B[n][1])
  <2> TAKE n \in 1..Len(B)
  <2>1. B[n] = L[n] /\ L[n][1] \in Nat /\ L[n][1] <= s
    BY <1>0, <1>1, <1>2
  <2>2. \A e \in E : ~(e < B[n][1])
    <3> SUFFICES ASSUME NEW e \in E PROVE ~(e < L[n][1])
      BY <2>1
    <3>1. e > s \/ L[n][1] < e
      BY <1>0
    <3> QED
      BY <1>4, <2>1, <3>1
  <2> QED
    BY <1>5, <2>1, <2>2
<1>7. \A n \in 1..Len(sh) : Below(D \cup E, sh[n][1]) = Below(D, sh[n][1])
  <2> TAKE n \in 1..Len(sh)
  <2>1. \A e \in E : ~(e < sh[n][1])
    <3> SUFFICES ASSUME NEW e \in E PROVE ~(e < sh[n][1])
      OBVIOUS
    <3>1. CASE e > s
      BY <3>1, <1>3, <1>4
    <3>2. CASE \E m \in 1..Len(L) : L[m][1] = e
      <4>1. PICK m \in 1..Len(L) : L[m][1] = e
        BY <3>2
      <4>2. sh[n][1] < L[m][1]
        BY DEF Shown
      <4> QED
        BY <4>1, <4>2, <1>3, <1>4
    <3> QED
      BY <1>0, <3>1, <3>2
  <2> QED
    BY <1>3, <1>5, <2>1
<1>8. ASSUME NEW n \in 1..Len(B)
      PROVE  /\ B[n][1] \in (1..t) \ (D \cup E)
             /\ B[n][1] = Cardinality(Below(D \cup E, B[n][1])) + d + n
             /\ Keyed(B[n], short)
  <2>1. /\ B[n] = L[n]
        /\ L[n][1] \in (1..s) \ D
        /\ L[n][1] = Cardinality(Below(D, L[n][1])) + d + n
        /\ Keyed(L[n], short)
    BY <1>0, <1>1 DEF OnLine
  <2>2. L[n][1] \notin E
    <3> SUFFICES ASSUME L[n][1] \in E PROVE FALSE
      OBVIOUS
    <3>1. L[n][1] > s \/ L[n][1] < L[n][1]
      BY <1>0
    <3>2. L[n][1] \in Nat /\ L[n][1] <= s
      BY <2>1
    <3> QED
      BY <3>1, <3>2
  <2>3. L[n][1] \in 1..t
    BY <1>0, <2>1
  <2> QED
    BY <2>1, <2>2, <2>3, <1>6
<1>9. D \cup E \subseteq 1..t
  <2>1. \A q \in 1..s : q \in 1..t
    BY <1>0
  <2> QED
    BY <1>2, <1>4, <2>1
<1>10. Increasing(B)
  BY <1>0, <1>1 DEF OnLine, Increasing
<1>11. OnLine(t, B, D \cup E, d, short)
  BY <1>8, <1>9, <1>10 DEF OnLine
<1>12. ASSUME NEW n \in 1..Len(sh)
       PROVE  /\ sh[n][1] <= t
              /\ \A m \in 1..Len(B) : sh[n][1] < B[m][1]
              /\ ShownRight(sh[n], D \cup E, short)
  <2>1. /\ \A m \in 1..Len(L) : sh[n][1] < L[m][1]
        /\ ShownRight(sh[n], D, short)
    BY DEF Shown
  <2>2. sh[n][1] <= t
    BY <1>0, <1>3
  <2>3. \A m \in 1..Len(B) : sh[n][1] < B[m][1]
    BY <1>0, <1>1, <2>1
  <2>4. ShownRight(sh[n], D \cup E, short)
    BY <1>7, <2>1 DEF ShownRight
  <2> QED
    BY <2>2, <2>3, <2>4
<1> QED
  BY <1>11, <1>12 DEF Shown

\* Characters are taken from the pipe and do not reach the client.
LEMMA LineMisses ==
  ASSUME NEW s \in Nat, NEW n \in Nat, NEW d \in Nat, NEW short \in BOOLEAN, NEW D,
         NEW L \in Seq(Char), NEW sh \in Seq(Text),
         OnLine(s, L, D, d, short), Shown(s, L, D, short, sh)
  PROVE  /\ OnLine(s + n, L, D \cup ((s + 1)..(s + n)), d, short)
         /\ Shown(s + n, L, D \cup ((s + 1)..(s + n)), short, sh)
<1> DEFINE E == (s + 1)..(s + n)
<1>1. D \subseteq 1..s /\ s = Cardinality(D) + d + Len(L)
  BY DEF OnLine
<1>2. IsFiniteSet(D) /\ Cardinality(D) \in Nat
  BY <1>1, LostFinite
<1>3. IsFiniteSet(E) /\ Cardinality(E) = n
  BY FS_Interval
<1>4. D \cap E = {}
  BY <1>1
<1>5. Cardinality(D \cup E) = Cardinality(D) + n
  <2>1. Cardinality(D \cup E) = Cardinality(D) + Cardinality(E) - Cardinality(D \cap E)
    BY <1>2, <1>3, FS_Union
  <2>2. Cardinality(D \cap E) = 0
    BY <1>4, FS_EmptySet
  <2> QED
    BY <2>1, <2>2, <1>2, <1>3
<1>6. Len(L) \in Nat /\ s + n = Cardinality(D \cup E) + d + Len(L)
  BY <1>1, <1>2, <1>5
<1>7. s <= s + n /\ E \subseteq 1..(s + n) /\ \A e \in E : e > s
  OBVIOUS
<1> HIDE DEF E
<1>8. s + n \in Nat /\ CutBehind(s, s + n, L, L, D, E)
  BY <1>4, <1>6, <1>7 DEF CutBehind
<1>9. /\ OnLine(s + n, L, D \cup E, d, short)
      /\ Shown(s + n, L, D \cup E, short, sh)
  BY <1>6, <1>8, LossBehind
<1> QED
  BY <1>9 DEF E

\* The end of the line is lost.
LEMMA LineIsCut ==
  ASSUME NEW s \in Nat, NEW d \in Nat, NEW short \in BOOLEAN, NEW D,
         NEW B \in Seq(Char), NEW W \in Seq(Char), NEW sh \in Seq(Text),
         OnLine(s, B \o W, D, d, short), Shown(s, B \o W, D, short, sh)
  PROVE  /\ OnLine(s, B, D \cup Positions(W), d, short)
         /\ Shown(s, B, D \cup Positions(W), short, sh)
<1> DEFINE L == B \o W
           E == Positions(W)
           f == [n \in 1..Len(W) |-> W[n][1]]
<1>1. /\ L \in Seq(Char) /\ Len(L) = Len(B) + Len(W) /\ Len(B) \in Nat /\ Len(W) \in Nat
      /\ \A n \in 1..Len(B) : L[n] = B[n]
      /\ \A n \in 1..Len(W) : W[n] = L[Len(B) + n] /\ Len(B) + n \in 1..Len(L)
  OBVIOUS
<1> HIDE DEF L
<1>2. /\ D \subseteq 1..s /\ s = Cardinality(D) + d + Len(L)
      /\ \A n \in 1..Len(L) : L[n][1] \in (1..s) \ D
      /\ \A m, n \in 1..Len(L) : m < n => L[m][1] < L[n][1]
  BY DEF OnLine, Increasing, L
<1>3. E = {W[n][1] : n \in 1..Len(W)}
  <2>1. DOMAIN W = 1..Len(W)
    OBVIOUS
  <2> QED
    BY <2>1 DEF Positions
<1>4. E \subseteq 1..s /\ D \cap E = {}
  BY <1>1, <1>2, <1>3
<1>5. IsFiniteSet(E) /\ Cardinality(E) = Len(W)
  <2>1. \A m, n \in 1..Len(W) : m < n => W[m][1] < W[n][1]
    <3> TAKE m, n \in 1..Len(W)
    <3>1. m < n => Len(B) + m < Len(B) + n
      BY <1>1
    <3> QED
      BY <3>1, <1>1, <1>2
  <2>2. \A n \in 1..Len(W) : W[n][1] \in Nat
    BY <1>1, <1>2
  <2>3. \A m, n \in 1..Len(W) : W[m][1] = W[n][1] => m = n
    BY <2>1, <2>2, <1>1
  <2>4. f \in Bijection(1..Len(W), E)
    <3>1. f \in [1..Len(W) -> E] /\ \A e \in E : \E n \in 1..Len(W) : f[n] = e
      BY <1>3
    <3>2. \A m, n \in 1..Len(W) : f[m] = f[n] => m = n
      BY <2>3
    <3> QED
      BY <3>1, <3>2, Fun_IsBij
  <2>5. IsFiniteSet(1..Len(W)) /\ Cardinality(1..Len(W)) = Len(W)
    BY <1>1, FirstNumbers
  <2>6. ExistsBijection(1..Len(W), E)
    BY <2>4 DEF ExistsBijection
  <2> QED
    BY <2>5, <2>6, FS_Bijection
<1>6. IsFiniteSet(D) /\ Cardinality(D) \in Nat
  BY <1>2, LostFinite
<1>7. Cardinality(D \cup E) = Cardinality(D) + Len(W)
  <2>1. Cardinality(D \cup E) = Cardinality(D) + Cardinality(E) - Cardinality(D \cap E)
    BY <1>5, <1>6, FS_Union
  <2>2. Cardinality(D \cap E) = 0
    BY <1>4, FS_EmptySet
  <2> QED
    BY <2>1, <2>2, <1>1, <1>5, <1>6
<1>8. s = Cardinality(D \cup E) + d + Len(B) /\ Len(B) <= Len(L) /\ s <= s
  BY <1>1, <1>2, <1>6, <1>7
<1>9. \A e \in E : \A n \in 1..Len(B) : L[n][1] < e
  <2> SUFFICES ASSUME NEW m \in 1..Len(W), NEW n \in 1..Len(B) PROVE L[n][1] < W[m][1]
    BY <1>3
  <2>1. n \in 1..Len(L) /\ Len(B) + m \in 1..Len(L) /\ n < Len(B) + m
    BY <1>1
  <2> QED
    BY <2>1, <1>1, <1>2
<1>10. \A e \in E : \E n \in 1..Len(L) : L[n][1] = e
  BY <1>1, <1>3
<1>11. OnLine(s, L, D, d, short) /\ Shown(s, L, D, short, sh)
  BY DEF L
<1> HIDE DEF E
<1>12. CutBehind(s, s, L, B, D, E)
  BY <1>1, <1>4, <1>8, <1>9, <1>10 DEF CutBehind
<1>13. OnLine(s, B, D \cup E, d, short) /\ Shown(s, B, D \cup E, short, sh)
  BY <1>1, <1>8, <1>11, <1>12, LossBehind
<1> QED
  BY <1>13 DEF E

\* The first k characters of the line are decrypted: that is T.
FirstDecrypted(T, L, d, k) ==
  /\ k <= Len(L) /\ Len(T) = k
  /\ \A n \in 1..k : T[n][1] = L[n][1] /\ T[n][2] = L[n][2] /\ T[n][3] = d + n

LEMMA LineDecrypted ==
  ASSUME NEW s \in Nat, NEW d \in Nat, NEW short \in BOOLEAN, NEW D,
         NEW L \in Seq(Char), NEW sh \in Seq(Text), NEW k \in Nat,
         NEW T \in Seq(Text), FirstDecrypted(T, L, d, k),
         OnLine(s, L, D, d, short), Shown(s, L, D, short, sh)
  PROVE  LET R == SubSeq(L, k + 1, Len(L)) IN
         /\ OnLine(s, R, D, d + k, short)
         /\ Shown(s, R, D, short, sh)
         /\ Shown(s, R, D, short, sh \o T)
<1> DEFINE R == SubSeq(L, k + 1, Len(L))
<1>0. /\ k <= Len(L) /\ Len(T) = k
      /\ \A n \in 1..k : T[n][1] = L[n][1] /\ T[n][2] = L[n][2] /\ T[n][3] = d + n
  BY DEF FirstDecrypted
<1>1. /\ R \in Seq(Char) /\ Len(R) = Len(L) - k /\ Len(L) \in Nat
      /\ \A n \in 1..Len(R) : R[n] = L[n + k] /\ n + k \in 1..Len(L)
      /\ \A n \in 1..k : n \in 1..Len(L)
  BY <1>0
<1> HIDE DEF R
<1>2. /\ D \subseteq 1..s /\ s = Cardinality(D) + d + Len(L)
      /\ \A n \in 1..Len(L) : /\ L[n][1] \in (1..s) \ D
                              /\ L[n][1] = Cardinality(Below(D, L[n][1])) + d + n
                              /\ Keyed(L[n], short)
      /\ \A m, n \in 1..Len(L) : m < n => L[m][1] < L[n][1]
  BY DEF OnLine, Increasing
<1>3. /\ Cardinality(D) \in Nat
      /\ \A p : /\ Cardinality(Below(D, p)) \in Nat
                /\ Cardinality(Below(D, p)) = 0 <=> Below(D, p) = {}
  BY <1>2, LostFinite
<1>4. \A n \in 1..Len(L) : L[n][1] \in Nat /\ L[n][2] \in Nat
  <2> TAKE n \in 1..Len(L)
  <2>1. L[n] \in Char
    OBVIOUS
  <2> QED
    BY <2>1 DEF Char, Encrypted, Plain
<1>5. OnLine(s, R, D, d + k, short)
  <2>1. ASSUME NEW n \in 1..Len(R)
        PROVE  /\ R[n][1] \in (1..s) \ D
               /\ R[n][1] = Cardinality(Below(D, R[n][1])) + (d + k) + n
               /\ Keyed(R[n], short)
    <3>1. /\ R[n] = L[n + k]
          /\ L[n + k][1] \in (1..s) \ D
          /\ L[n + k][1] = Cardinality(Below(D, L[n + k][1])) + d + (n + k)
          /\ Keyed(L[n + k], short)
      BY <1>1, <1>2
    <3>2. \A a, b, c, e \in Nat : a + b + (c + e) = a + (b + e) + c
      OBVIOUS
    <3>3. n \in Nat /\ Cardinality(Below(D, L[n + k][1])) \in Nat
      BY <1>3
    <3> QED
      BY <3>1, <3>2, <3>3
  <2>2. Increasing(R)
    <3> SUFFICES ASSUME NEW m \in 1..Len(R), NEW n \in 1..Len(R), m < n
                 PROVE  R[m][1] < R[n][1]
      BY DEF Increasing
    <3>1. m + k \in 1..Len(L) /\ n + k \in 1..Len(L) /\ m + k < n + k
      BY <1>1
    <3> QED
      BY <3>1, <1>1, <1>2
  <2>3. s = Cardinality(D) + (d + k) + Len(R)
    BY <1>1, <1>2, <1>3
  <2> QED
    BY <1>2, <2>1, <2>2, <2>3 DEF OnLine
<1>6. \A n \in 1..Len(sh) : \A m \in 1..Len(R) : sh[n][1] < R[m][1]
  BY <1>1 DEF Shown
<1>7. Shown(s, R, D, short, sh)
  BY <1>6 DEF Shown
<1>8. ASSUME NEW n \in 1..k
      PROVE  /\ T[n][1] <= s
             /\ \A m \in 1..Len(R) : T[n][1] < R[m][1]
             /\ ShownRight(T[n], D, short)
  <2>1. /\ n \in 1..Len(L)
        /\ T[n][1] = L[n][1] /\ T[n][2] = L[n][2] /\ T[n][3] = d + n
    BY <1>0, <1>1
  <2>2. \A m \in 1..Len(R) : T[n][1] < R[m][1]
    <3> TAKE m \in 1..Len(R)
    <3>1. R[m] = L[m + k] /\ m + k \in 1..Len(L)
      BY <1>1
    <3>2. n < m + k
      OBVIOUS
    <3> QED
      BY <3>1, <3>2, <2>1, <1>2
  <2>3. L[n][1] = Cardinality(Below(D, L[n][1])) + (d + n) /\ Keyed(L[n], short)
    <3>1. L[n][1] = Cardinality(Below(D, L[n][1])) + d + n /\ Keyed(L[n], short)
      BY <1>2, <2>1
    <3>2. \A a, b, c \in Nat : a + b + c = a + (b + c)
      OBVIOUS
    <3>3. n \in Nat /\ Cardinality(Below(D, L[n][1])) \in Nat
      BY <1>3
    <3> QED
      BY <3>1, <3>2, <3>3
  <2>4. ShownRight(T[n], D, short)
    <3> DEFINE b == Cardinality(Below(D, L[n][1]))
    <3>1. b \in Nat /\ (b = 0 <=> Below(D, T[n][1]) = {})
      BY <1>3, <2>1
    <3>2. L[n][1] = b + T[n][3] /\ T[n][3] \in Nat
      BY <2>1, <2>3
    <3>3. T[n][2] >= b + T[n][3] /\ (~short => T[n][2] = b + T[n][3])
      BY <2>1, <2>3, <3>2 DEF Keyed
    <3>4. T[n][2] \in Nat
      BY <1>4, <2>1
    <3> HIDE DEF b
    <3>5. b = 0 /\ ~short => T[n][2] = T[n][3]
      BY <3>2, <3>3
    <3>6. b # 0 => T[n][2] # T[n][3]
      BY <3>1, <3>2, <3>3, <3>4
    <3> QED
      BY <3>1, <3>5, <3>6 DEF ShownRight, Readable
  <2> QED
    BY <1>2, <2>1, <2>2, <2>4
<1>9. /\ Len(sh \o T) = Len(sh) + k /\ Len(sh) \in Nat
      /\ \A n \in 1..Len(sh) : (sh \o T)[n] = sh[n]
      /\ \A n \in (Len(sh) + 1)..(Len(sh) + k) : (sh \o T)[n] = T[n - Len(sh)]
  <2>1. /\ Len(sh \o T) = Len(sh) + Len(T) /\ Len(sh) \in Nat
        /\ \A n \in 1..Len(sh) : (sh \o T)[n] = sh[n]
        /\ \A n \in (Len(sh) + 1)..(Len(sh) + Len(T)) : (sh \o T)[n] = T[n - Len(sh)]
    BY Joined
  <2> QED
    BY <1>0, <2>1
<1>10. ASSUME NEW n \in 1..Len(sh \o T)
       PROVE  /\ (sh \o T)[n][1] <= s
              /\ \A m \in 1..Len(R) : (sh \o T)[n][1] < R[m][1]
              /\ ShownRight((sh \o T)[n], D, short)
  <2>1. CASE n \in 1..Len(sh)
    BY <2>1, <1>7, <1>9 DEF Shown
  <2>2. CASE n \in (Len(sh) + 1)..(Len(sh) + k)
    <3>1. n - Len(sh) \in 1..k /\ (sh \o T)[n] = T[n - Len(sh)]
      BY <2>2, <1>9
    <3> QED
      BY <3>1, <1>8
  <2> QED
    BY <2>1, <2>2, <1>9
<1>11. Shown(s, R, D, short, sh \o T)
  BY <1>10 DEF Shown
<1> QED
  BY <1>5, <1>7, <1>11 DEF R

\* A client that is started has missed all there was, and nothing is on the line.
LEMMA LineIsNew ==
  ASSUME NEW s \in Nat, NEW short
  PROVE  /\ OnLine(s, <<>>, 1..s, 0, short)
         /\ Shown(s, <<>>, 1..s, short, <<>>)
<1>1. Cardinality(1..s) = s
  BY FirstNumbers
<1>2. s = s + 0 + Len(<<>>) /\ 1..Len(<<>>) = {}
  OBVIOUS
<1> QED
  BY <1>1, <1>2 DEF OnLine, Shown, Increasing

\* After a short read less is said of the keys.
LEMMA MoreShortReads ==
  ASSUME NEW s, NEW d, NEW D, NEW L, NEW P, NEW sh, NEW short, NEW later, short => later,
         InPipe(s, P, short), OnLine(s, L, D, d, short), Shown(s, L, D, short, sh)
  PROVE  InPipe(s, P, later) /\ OnLine(s, L, D, d, later) /\ Shown(s, L, D, later, sh)
<1>1. \A c : Keyed(c, short) => Keyed(c, later)
  BY DEF Keyed
<1>2. \A c : ShownRight(c, D, short) => ShownRight(c, D, later)
  BY DEF ShownRight
<1> QED
  BY <1>1, <1>2 DEF InPipe, OnLine, Shown

\* The pipe, as data: a block is put in behind, a line is taken in front.
NewBlock(t, v, bytes) == [n \in 1..bytes |-> <<t + n, v + n>>]

Room(s, t, v, bytes, P, short) ==
  /\ t = s + Len(P) /\ t + bytes <= VideoLength
  /\ v >= t /\ (~short => v = t)

LEMMA PipeGrows ==
  ASSUME NEW s \in Nat, NEW t \in Nat, NEW v \in Nat, NEW bytes \in Nat, NEW short \in BOOLEAN,
         NEW P \in Seq(Char), Room(s, t, v, bytes, P, short), InPipe(s, P, short)
  PROVE  LET Q == P \o NewBlock(t, v, bytes) IN
         /\ Q \in Seq(Char) /\ Len(Q) = Len(P) + bytes
         /\ InPipe(s, Q, short)
<1> DEFINE N == NewBlock(t, v, bytes)
           Q == P \o N
<1>1. VideoLength \in Nat
  BY StreamAssumption
<1>2. \A n \in 1..bytes : N[n] = <<t + n, v + n>> /\ <<t + n, v + n>> \in Char
  BY <1>1 DEF Room, Char, Encrypted, Plain, NewBlock
<1>3. N \in Seq(Char) /\ Len(N) = bytes
  <2>1. N \in [1..bytes -> Char]
    BY <1>2 DEF NewBlock
  <2> HIDE DEF N
  <2>2. \A f \in [1..bytes -> Char] : f \in Seq(Char) /\ Len(f) = bytes
    OBVIOUS
  <2> QED
    BY <2>1, <2>2
<1> HIDE DEF N
<1>4. /\ Q \in Seq(Char) /\ Len(Q) = Len(P) + Len(N) /\ Len(P) \in Nat
      /\ \A n \in 1..Len(P) : Q[n] = P[n]
      /\ \A n \in (Len(P) + 1)..(Len(P) + Len(N)) : Q[n] = N[n - Len(P)]
  <2>1. N \in Seq(Char)
    BY <1>3
  <2>2. /\ P \o N \in Seq(Char) /\ Len(P \o N) = Len(P) + Len(N) /\ Len(P) \in Nat
        /\ \A n \in 1..Len(P) : (P \o N)[n] = P[n]
        /\ \A n \in (Len(P) + 1)..(Len(P) + Len(N)) : (P \o N)[n] = N[n - Len(P)]
    BY <2>1, Joined
  <2> QED
    BY <2>2
<1> HIDE DEF Q
<1>5. ASSUME NEW n \in 1..Len(Q)
      PROVE  Q[n][1] = s + n /\ Keyed(Q[n], short)
  <2>1. CASE n \in 1..Len(P)
    BY <2>1, <1>4 DEF InPipe
  <2>2. CASE n \in (Len(P) + 1)..(Len(P) + bytes)
    <3> DEFINE m == n - Len(P)
    <3>1. m \in 1..bytes /\ m \in Nat /\ Q[n] = N[m] /\ s + n = t + m
      BY <2>2, <1>3, <1>4 DEF Room
    <3> HIDE DEF m
    <3>2. Q[n][1] = t + m /\ Q[n][2] = v + m
      <4>1. Q[n] = <<t + m, v + m>>
        BY <3>1, <1>2
      <4> QED
        BY <4>1
    <3>3. v + m >= t + m /\ (~short => v + m = t + m)
      BY <3>1 DEF Room
    <3> QED
      BY <3>1, <3>2, <3>3 DEF Keyed
  <2> QED
    BY <2>1, <2>2, <1>3, <1>4
<1>6. InPipe(s, Q, short)
  BY <1>5 DEF InPipe
<1> QED
  BY <1>3, <1>4, <1>6 DEF Q, N

LEMMA PipeGives ==
  ASSUME NEW s \in Nat, NEW n \in Nat, NEW short, NEW P \in Seq(Char), n <= Len(P),
         InPipe(s, P, short)
  PROVE  LET N == SubSeq(P, 1, n)
             R == SubSeq(P, n + 1, Len(P))
         IN /\ N \in Seq(Char) /\ Len(N) = n /\ R \in Seq(Char) /\ Len(R) = Len(P) - n
            /\ InPipe(s, N, short) /\ InPipe(s + n, R, short)
            /\ Positions(N) = (s + 1)..(s + n)
<1> DEFINE N == SubSeq(P, 1, n)
           R == SubSeq(P, n + 1, Len(P))
<1>1. /\ N \in Seq(Char) /\ Len(N) = n /\ DOMAIN N = 1..n
      /\ \A m \in 1..n : N[m] = P[m] /\ m \in 1..Len(P)
  OBVIOUS
<1>2. /\ R \in Seq(Char) /\ Len(R) = Len(P) - n /\ Len(P) \in Nat
      /\ \A m \in 1..Len(R) : R[m] = P[m + n] /\ m + n \in 1..Len(P)
  OBVIOUS
<1> HIDE DEF N
<1> HIDE DEF R
<1>3. InPipe(s, N, short)
  BY <1>1 DEF InPipe
<1>4. InPipe(s + n, R, short)
  <2> SUFFICES ASSUME NEW m \in 1..Len(R) PROVE R[m][1] = s + n + m /\ Keyed(R[m], short)
    BY DEF InPipe
  <2>1. P[m + n][1] = s + (m + n) /\ Keyed(P[m + n], short) /\ R[m] = P[m + n]
    BY <1>2 DEF InPipe
  <2> QED
    BY <2>1
<1>5. Positions(N) = (s + 1)..(s + n)
  <2>1. \A m \in 1..n : N[m][1] = s + m
    BY <1>1 DEF InPipe
  <2>2. \A p \in (s + 1)..(s + n) : p - s \in 1..n /\ s + (p - s) = p
    OBVIOUS
  <2>3. Positions(N) = {N[m][1] : m \in 1..n}
    BY <1>1 DEF Positions
  <2>4. \A m \in 1..n : s + m \in (s + 1)..(s + n)
    OBVIOUS
  <2> QED
    BY <2>1, <2>2, <2>3, <2>4
<1> QED
  BY <1>1, <1>2, <1>3, <1>4, <1>5 DEF N, R

\* Division with a remainder; the provers use the two numbers best by their names.
Quotient(a, b)  == a \div b
Remainder(a, b) == a % b

LEMMA Division ==
  ASSUME NEW a \in Nat, NEW b \in Nat, b > 0
  PROVE  /\ Quotient(a, b) \in Nat /\ Remainder(a, b) \in Nat /\ Remainder(a, b) < b
         /\ a = b * Quotient(a, b) + Remainder(a, b)
<1>1. PICK q \in Nat : q = a \div b
  OBVIOUS
<1>2. PICK m \in Nat : m = a % b /\ m < b
  OBVIOUS
<1>3. a = b * q + m
  BY <1>1, <1>2
<1>4. q = Quotient(a, b) /\ m = Remainder(a, b)
  BY <1>1, <1>2 DEF Quotient, Remainder
<1> QED
  BY <1>2, <1>3, <1>4

\* sendData decrypts whole blocks, each character with the key character that its place
\* gives it, and leaves less than a block.
LEMMA DecryptedText ==
  ASSUME NEW chars \in Seq(Char), NEW vectors \in Nat
  PROVE  LET T == Decrypt(chars, vectors)
             k == BlockSize * Blocks(chars)
         IN /\ k \in Nat /\ k <= Len(chars) /\ Len(chars) - k < BlockSize
            /\ Blocks(chars) \in Nat /\ LENVECTOR(BlockSize) * Blocks(chars) \in Nat
            /\ VectorSize * (vectors + LENVECTOR(BlockSize) * Blocks(chars))
                 = VectorSize * vectors + k
            /\ T \in Seq(Text) /\ Len(T) = k
            /\ \A n \in 1..k : /\ T[n][1] = chars[n][1] /\ T[n][2] = chars[n][2]
                               /\ T[n][3] = VectorSize * vectors + n
<1> DEFINE T == Decrypt(chars, vectors)
           k == BlockSize * Blocks(chars)
           v == VectorSize * vectors
           l == LENVECTOR(BlockSize)
<1>1. /\ BlockSize \in Nat /\ BlockSize > 0 /\ VectorSize \in Nat /\ l \in Nat
      /\ VectorSize * l = BlockSize /\ v \in Nat
  <2>1. BlockSize \in Nat /\ BlockSize > 0 /\ VectorSize \in Nat
    BY StreamAssumption
  <2>2. l \in Nat /\ VectorSize * l = BlockSize
    BY <2>1, Vectors, WholeBlocks
  <2>3. \A a, b \in Nat : a * b \in Nat
    OBVIOUS
  <2> QED
    BY <2>1, <2>2, <2>3
<1>3. \A a, b, c, e \in Nat : a * (b + c * e) = a * b + (a * c) * e /\ c * e \in Nat
  <2>1. \A a, b \in Nat : a * b \in Nat
    OBVIOUS
  <2>2. \A a, b, p \in Nat : a * (b + p) = a * b + a * p
    OBVIOUS
  <2>3. \A a, c, e \in Nat : a * (c * e) = (a * c) * e
    OBVIOUS
  <2> QED
    BY <2>1, <2>2, <2>3
<1>4. /\ k \in Nat /\ k <= Len(chars) /\ Len(chars) - k < BlockSize /\ Blocks(chars) \in Nat
  <2>1. Len(chars) \in Nat
    OBVIOUS
  <2> DEFINE q == Quotient(Len(chars), BlockSize)
             m == Remainder(Len(chars), BlockSize)
  <2>2. q \in Nat /\ m \in Nat /\ m < BlockSize /\ Len(chars) = BlockSize * q + m
    <3>1. BlockSize \in Nat /\ BlockSize > 0
      BY <1>1
    <3> QED
      BY <2>1, <3>1, Division
  <2>3. Blocks(chars) = q /\ k = BlockSize * q
    BY DEF Blocks, Quotient
  <2> HIDE DEF q
  <2> HIDE DEF m
  <2> HIDE DEF k
  <2>4. BlockSize * q \in Nat
    BY <1>1, <2>2
  <2> QED
    BY <1>1, <2>1, <2>2, <2>3, <2>4
<1> HIDE DEF l
<1> HIDE DEF v
<1>5. /\ l * Blocks(chars) \in Nat
      /\ VectorSize * (vectors + l * Blocks(chars)) = VectorSize * vectors + k
  <2>1. /\ l * Blocks(chars) \in Nat
        /\ VectorSize * (vectors + l * Blocks(chars))
             = VectorSize * vectors + (VectorSize * l) * Blocks(chars)
    BY <1>1, <1>3, <1>4
  <2> QED
    BY <1>1, <2>1
<1> HIDE DEF k
<1>6. ASSUME NEW n \in 1..k
      PROVE  /\ T[n] \in Text
             /\ T[n][1] = chars[n][1] /\ T[n][2] = chars[n][2] /\ T[n][3] = v + n
  <2> DEFINE b == (n - 1) \div BlockSize
             m == (n - 1) % BlockSize
             c == <<chars[n][1], chars[n][2], VectorSize * (vectors + l * b) + m + 1>>
  <2>1. T[n] = c
    BY DEF Decrypt, k, l
  <2>2. n - 1 \in Nat /\ n \in 1..Len(chars)
    BY <1>4
  <2>3. b \in Nat /\ m \in Nat /\ n - 1 = BlockSize * b + m
    <3>1. b = Quotient(n - 1, BlockSize) /\ m = Remainder(n - 1, BlockSize)
      BY DEF Quotient, Remainder
    <3> HIDE DEF b
    <3> HIDE DEF m
    <3> QED
      BY <1>1, <2>2, <3>1, Division
  <2> HIDE DEF b
  <2> HIDE DEF m
  <2>4. VectorSize * (vectors + l * b) = v + BlockSize * b
    BY <1>1, <1>3, <2>3 DEF v
  <2>5. BlockSize * b \in Nat
    BY <1>1, <1>3, <2>3
  <2>6. VectorSize * (vectors + l * b) + m + 1 = v + n
    BY <1>1, <2>2, <2>3, <2>4, <2>5
  <2>7. chars[n] \in Char /\ chars[n][1] \in Plain /\ chars[n][2] \in Nat
    <3>1. chars[n] \in Char
      BY <2>2
    <3> QED
      BY <3>1 DEF Char, Encrypted
  <2>8. c = <<chars[n][1], chars[n][2], v + n>>
    BY <2>6
  <2>9. v + n \in Nat
    BY <1>1
  <2> HIDE DEF c
  <2> HIDE DEF T
  <2> QED
    BY <2>1, <2>7, <2>8, <2>9 DEF Text
<1>7. T \in Seq(Text) /\ Len(T) = k
  <2>1. T \in [1..k -> Text]
    <3>1. T = [n \in 1..k |-> T[n]]
      BY DEF Decrypt, k
    <3> HIDE DEF T
    <3> QED
      BY <3>1, <1>6
  <2> HIDE DEF T
  <2>2. \A f \in [1..k -> Text] : f \in Seq(Text) /\ Len(f) = k
    BY <1>4
  <2> QED
    BY <2>1, <2>2
<1> HIDE DEF T
<1> QED
  BY <1>4, <1>5, <1>6, <1>7 DEF T, k, v, l

----------------------------------------------------------------------------
\* The data of a state.
LEMMA Numbers ==
  ASSUME CameraTypes, ClientTypes, Data
  PROVE  /\ Sent \in Nat /\ Len(pipe) \in Nat /\ taken \in Nat /\ taken = Sent + Len(pipe)
         /\ taken <= VideoLength
         /\ Decrypted \in Nat /\ VectorSize * encVectors \in Nat /\ Short \in BOOLEAN
         /\ Line \in Seq(Char) /\ Len(Line) = Len(buffer) + Len(wire)
         /\ buffer \in Seq(Char) /\ wire \in Seq(Char) /\ pipe \in Seq(Char)
         /\ shown \in Seq(Text)
<1>1. buffer \in Seq(Char) /\ wire \in Seq(Char) /\ shown \in Seq(Text) /\ decVectors \in Nat
  BY DEF ClientTypes
<1>2. pipe \in Seq(Char) /\ taken \in 0..VideoLength /\ encVectors \in Nat
  BY DEF CameraTypes
<1>3. Line \in Seq(Char) /\ Len(Line) = Len(buffer) + Len(wire)
  BY <1>1, Joined DEF Line
<1>4. VectorSize \in Nat /\ VideoLength \in Nat
  BY StreamAssumption
<1>5. \A a, b \in Nat : a * b \in Nat
  OBVIOUS
<1>6. Decrypted \in Nat /\ VectorSize * encVectors \in Nat
  BY <1>1, <1>2, <1>4, <1>5 DEF Decrypted
<1>7. Len(pipe) \in Nat /\ taken \in Nat /\ taken <= VideoLength
  BY <1>2, <1>4
<1>8. Sent \in Nat /\ taken = Sent + Len(pipe)
  BY <1>7 DEF Sent, Data, KeysUsed
<1>9. Short \in BOOLEAN
  BY DEF Short
<1> QED
  BY <1>1, <1>2, <1>3, <1>6, <1>7, <1>8, <1>9

\* A block of the video is encrypted.
LEMMA EncryptData ==
  ASSUME CameraTypes, ClientTypes, Data, NEW bytes \in Nat, taken + bytes <= VideoLength,
         Encrypt(bytes), encryption' \in {"running", "ended"},
         shortReads' \in Nat, Short => Short',
         ~Short' /\ encryption' = "running" => bytes = BlockSize
  PROVE  CameraTypes' /\ Data'
<1>1. /\ pipe' = pipe \o [n \in 1..bytes |-> <<taken + n, VectorSize * encVectors + n>>]
      /\ taken' = taken + bytes /\ encVectors' = encVectors + LENVECTOR(bytes)
      /\ encryption = "running"
      /\ UNCHANGED <<lost, buffer, wire, decVectors, shown>>
  BY DEF Encrypt, clientVars, cipherVars, viewVars, netVars
<1>2. /\ Sent \in Nat /\ Len(pipe) \in Nat /\ taken \in Nat /\ taken = Sent + Len(pipe)
      /\ VectorSize * encVectors \in Nat /\ Short \in BOOLEAN /\ pipe \in Seq(Char)
  BY Numbers
<1>3. /\ taken <= VectorSize * encVectors
      /\ ~Short => taken = VectorSize * encVectors
  BY <1>1 DEF Data, KeysUsed
<1>4. InPipe(Sent, pipe, Short)
  BY DEF Data
<1>5. pipe' \in Seq(Char) /\ Len(pipe') = Len(pipe) + bytes /\ InPipe(Sent, pipe', Short)
  <2> DEFINE v == VectorSize * encVectors
  <2>1. v \in Nat /\ v >= taken /\ (~Short => v = taken)
    BY <1>2, <1>3
  <2>2. pipe' = pipe \o NewBlock(taken, v, bytes)
    BY <1>1 DEF NewBlock
  <2> HIDE DEF v
  <2> QED
    <3>1. Room(Sent, taken, v, bytes, pipe, Short)
      BY <1>2, <2>1 DEF Room
    <3>2. LET Q == pipe \o NewBlock(taken, v, bytes)
          IN  Q \in Seq(Char) /\ Len(Q) = Len(pipe) + bytes /\ InPipe(Sent, Q, Short)
      BY <1>2, <1>4, <2>1, <3>1, PipeGrows
    <3> QED
      BY <2>2, <3>2
<1>6. Line' = Line /\ Decrypted' = Decrypted
  BY <1>1 DEF Line, Decrypted
<1>7. Sent' = Sent
  <2>1. taken' - Len(pipe') = taken - Len(pipe)
    BY <1>1, <1>2, <1>5
  <2> QED
    BY <2>1 DEF Sent
<1>8. OnLine(Sent, Line, lost, Decrypted, Short) /\ Shown(Sent, Line, lost, Short, shown)
  BY DEF Data
<1>9. /\ InPipe(Sent, pipe', Short') /\ OnLine(Sent, Line, lost, Decrypted, Short')
      /\ Shown(Sent, Line, lost, Short', shown)
  BY <1>5, <1>8, MoreShortReads
<1>10. /\ LENVECTOR(bytes) \in Nat /\ VectorSize * LENVECTOR(bytes) \in Nat
       /\ VectorSize * LENVECTOR(bytes) >= bytes
  BY Vectors
<1>11. encVectors' \in Nat
       /\ VectorSize * encVectors' = VectorSize * encVectors + VectorSize * LENVECTOR(bytes)
  <2>1. VectorSize \in Nat /\ encVectors \in Nat
    BY StreamAssumption DEF CameraTypes
  <2>2. \A a, b, c \in Nat : a * (b + c) = a * b + a * c /\ b + c \in Nat
    OBVIOUS
  <2> QED
    BY <1>1, <1>10, <2>1, <2>2
<1>12. KeysUsed'
  <2>1. Len(pipe') <= taken' /\ taken' <= VectorSize * encVectors'
    BY <1>1, <1>2, <1>3, <1>5, <1>10, <1>11
  <2>2. ASSUME ~Short', encryption' = "running"
        PROVE  taken' = VectorSize * encVectors'
    <3>1. bytes = BlockSize /\ VectorSize * LENVECTOR(bytes) = bytes /\ ~Short
      BY <2>2, WholeBlocks
    <3> QED
      BY <1>1, <1>3, <1>11, <3>1
  <2> QED
    BY <2>1, <2>2 DEF KeysUsed
<1>13. Data'
  BY <1>1, <1>6, <1>7, <1>9, <1>12 DEF Data
<1>14. taken' \in 0..VideoLength
  <2>1. VideoLength \in Nat
    BY StreamAssumption
  <2> QED
    BY <1>1, <1>2, <2>1
<1> QED
  BY <1>5, <1>11, <1>13, <1>14 DEF CameraTypes

\* A line leaves the pipe.
LEMMA PipeData ==
  ASSUME CameraTypes, ClientTypes, Data, UNCHANGED camVars, NEW n \in Nat, n <= Len(pipe),
         pipe' = SubSeq(pipe, n + 1, Len(pipe))
  PROVE  /\ CameraTypes' /\ KeysUsed' /\ Short' = Short /\ Sent' = Sent + n
         /\ InPipe(Sent', pipe', Short')
         /\ SubSeq(pipe, 1, n) \in Seq(Char) /\ Len(SubSeq(pipe, 1, n)) = n
         /\ InPipe(Sent, SubSeq(pipe, 1, n), Short)
         /\ Positions(SubSeq(pipe, 1, n)) = (Sent + 1)..(Sent + n)
<1>1. UNCHANGED <<encryption, taken, encVectors, shortReads>>
  BY DEF camVars
<1>2. /\ Sent \in Nat /\ Len(pipe) \in Nat /\ taken \in Nat /\ taken = Sent + Len(pipe)
      /\ pipe \in Seq(Char)
  BY Numbers
<1>3. InPipe(Sent, pipe, Short)
  BY DEF Data
<1>4. LET N == SubSeq(pipe, 1, n)
          R == SubSeq(pipe, n + 1, Len(pipe))
      IN /\ N \in Seq(Char) /\ Len(N) = n /\ R \in Seq(Char) /\ Len(R) = Len(pipe) - n
         /\ InPipe(Sent, N, Short) /\ InPipe(Sent + n, R, Short)
         /\ Positions(N) = (Sent + 1)..(Sent + n)
  BY <1>2, <1>3, PipeGives
<1>5. Short' = Short
  BY <1>1 DEF Short
<1>6. pipe' \in Seq(Char) /\ Len(pipe') = Len(pipe) - n /\ InPipe(Sent + n, pipe', Short)
  BY <1>4
<1>7. Sent' = Sent + n
  <2>1. \A t, l, m \in Nat : t - (l - m) = t - l + m
    OBVIOUS
  <2>2. taken - (Len(pipe) - n) = taken - Len(pipe) + n
    BY <1>2, <2>1
  <2> QED
    BY <1>1, <1>6, <2>2 DEF Sent
<1>8. KeysUsed'
  <2>1. Len(pipe') <= taken'
    BY <1>1, <1>2, <1>6
  <2>2. KeysUsed
    BY DEF Data
  <2> QED
    BY <1>1, <1>5, <2>1, <2>2 DEF KeysUsed
<1>9. CameraTypes'
  BY <1>1, <1>6 DEF CameraTypes
<1> QED
  BY <1>4, <1>5, <1>6, <1>7, <1>8, <1>9

\* The part of a line that send takes, and the rest.
LEMMA LineParts ==
  ASSUME NEW s \in Nat, NEW n \in Nat, NEW sent \in 0..n, NEW short, NEW P \in Seq(Char),
         n <= Len(P), InPipe(s, P, short)
  PROVE  LET N == SubSeq(P, 1, sent)
         IN /\ N \in Seq(Char) /\ Len(N) = sent /\ InPipe(s, N, short)
            /\ Positions(SubSeq(P, sent + 1, n)) = (s + sent + 1)..(s + n)
<1> DEFINE N == SubSeq(P, 1, sent)
           R == SubSeq(P, sent + 1, Len(P))
           m == n - sent
<1>1. sent \in Nat /\ sent <= Len(P) /\ m \in Nat /\ s + sent \in Nat /\ Len(P) \in Nat
  OBVIOUS
<1>2. /\ N \in Seq(Char) /\ Len(N) = sent /\ InPipe(s, N, short)
      /\ R \in Seq(Char) /\ Len(R) = Len(P) - sent /\ InPipe(s + sent, R, short)
  BY <1>1, PipeGives
<1>3. SubSeq(R, 1, m) = SubSeq(P, sent + 1, n)
  BY <1>1, <1>2
<1>4. PICK u \in Nat : u = s + sent
  BY <1>1
<1>5. m <= Len(R) /\ InPipe(u, R, short) /\ u + m = s + n
  BY <1>1, <1>2, <1>4
<1> HIDE DEF R
<1> HIDE DEF m
<1>6. Positions(SubSeq(R, 1, m)) = (u + 1)..(u + m)
  <2>1. u \in Nat /\ m \in Nat /\ R \in Seq(Char) /\ m <= Len(R) /\ InPipe(u, R, short)
    BY <1>1, <1>2, <1>4, <1>5
  <2>2. LET A == SubSeq(R, 1, m)
            B == SubSeq(R, m + 1, Len(R))
        IN /\ A \in Seq(Char) /\ Len(A) = m /\ B \in Seq(Char) /\ Len(B) = Len(R) - m
           /\ InPipe(u, A, short) /\ InPipe(u + m, B, short)
           /\ Positions(A) = (u + 1)..(u + m)
    BY ONLY <2>1, PipeGives
  <2> QED
    BY <2>2
<1> QED
  BY <1>2, <1>3, <1>4, <1>5, <1>6

\* A line is taken, and the first part of it is sent.
LEMMA SendLineData ==
  ASSUME CameraTypes, ClientTypes, Data, UNCHANGED <<camVars, clientVars>>,
         NEW n \in Nat, NEW sent \in 1..n, TakeLine(n),
         wire' = wire \o SubSeq(pipe, 1, sent),
         lost' = lost \cup Positions(SubSeq(pipe, sent + 1, n))
  PROVE  CameraTypes' /\ ClientTypes' /\ Data'
<1> DEFINE N == SubSeq(pipe, 1, sent)
           u == Sent + sent
           m == n - sent
           E == (u + 1)..(u + m)
<1>1. UNCHANGED <<buffer, decVectors, restarts, listening, viewer, shown>>
  BY DEF clientVars, cipherVars, viewVars
<1>2. n <= Len(pipe) /\ pipe' = SubSeq(pipe, n + 1, Len(pipe))
  BY DEF TakeLine
<1>3. /\ CameraTypes' /\ KeysUsed' /\ Short' = Short /\ Sent' = Sent + n
      /\ InPipe(Sent', pipe', Short')
  BY <1>2, PipeData
<1>4. /\ Sent \in Nat /\ Decrypted \in Nat /\ Short \in BOOLEAN
      /\ Line \in Seq(Char) /\ buffer \in Seq(Char) /\ wire \in Seq(Char) /\ shown \in Seq(Text)
  BY Numbers
<1>5. /\ OnLine(Sent, Line, lost, Decrypted, Short) /\ Shown(Sent, Line, lost, Short, shown)
      /\ InPipe(Sent, pipe, Short)
  BY DEF Data
<1>6. sent \in 0..n /\ u \in Nat /\ m \in Nat /\ u + m = Sent + n
  BY <1>4
<1>7. /\ N \in Seq(Char) /\ Len(N) = sent /\ InPipe(Sent, N, Short)
      /\ lost' = lost \cup E
  <2>1. pipe \in Seq(Char)
    BY DEF CameraTypes
  <2>2. /\ N \in Seq(Char) /\ Len(N) = sent /\ InPipe(Sent, N, Short)
        /\ Positions(SubSeq(pipe, sent + 1, n)) = (Sent + sent + 1)..(Sent + n)
    BY <1>2, <1>4, <1>5, <1>6, <2>1, LineParts
  <2> QED
    BY <1>6, <2>2
<1>8. wire' = wire \o N
  OBVIOUS
<1> HIDE DEF N
<1>9. OnLine(u, Line \o N, lost, Decrypted, Short) /\ Shown(u, Line \o N, lost, Short, shown)
  <2>1. /\ OnLine(Sent + Len(N), Line \o N, lost, Decrypted, Short)
        /\ Shown(Sent + Len(N), Line \o N, lost, Short, shown)
    BY <1>4, <1>5, <1>7, LineGrows
  <2> QED
    BY <1>7, <2>1
<1> HIDE DEF u
<1> HIDE DEF m
<1>10. /\ OnLine(u + m, Line \o N, lost \cup E, Decrypted, Short)
       /\ Shown(u + m, Line \o N, lost \cup E, Short, shown)
  <2>1. Line \o N \in Seq(Char)
    BY <1>4, <1>7, Joined
  <2> QED
    BY <1>4, <1>6, <1>9, <2>1, LineMisses
<1> HIDE DEF E
<1>11. Line' = Line \o N
  <2>1. buffer' \o wire' = buffer \o (wire \o N)
    BY <1>1, <1>8
  <2>2. buffer \o (wire \o N) = (buffer \o wire) \o N
    <3>1. \A a, b, c \in Seq(Char) : a \o (b \o c) = (a \o b) \o c
      OBVIOUS
    <3> QED
      BY <1>4, <1>7, <3>1
  <2> QED
    BY <2>1, <2>2 DEF Line
<1>12. Decrypted' = Decrypted
  BY <1>1 DEF Decrypted
<1>13. OnLine(Sent', Line', lost', Decrypted', Short') /\ Shown(Sent', Line', lost', Short', shown')
  <2>1. Sent' = u + m /\ shown' = shown
    BY <1>1, <1>3, <1>6
  <2> QED
    BY <1>3, <1>7, <1>10, <1>11, <1>12, <2>1
<1>14. Data'
  BY <1>3, <1>13 DEF Data
<1>15. wire' \in Seq(Char)
  BY <1>4, <1>7, <1>8, Joined
<1>16. ClientTypes'
  BY <1>1, <1>15 DEF ClientTypes
<1> QED
  BY <1>3, <1>14, <1>16

\* A line is taken and does not reach the client, nor does what is under way to it.
LEMMA DropData ==
  ASSUME CameraTypes, ClientTypes, Data, DropLine, UNCHANGED <<camVars, clientVars>>
  PROVE  CameraTypes' /\ ClientTypes' /\ Data'
<1>1. PICK n \in 1..MaxLine :
        /\ TakeLine(n)
        /\ lost' = lost \cup Positions(wire) \cup Positions(SubSeq(pipe, 1, n))
  BY DEF DropLine
<1>2. UNCHANGED <<buffer, decVectors, restarts, listening, viewer, shown>> /\ wire' = <<>>
  BY DEF clientVars, cipherVars, viewVars, DropLine
<1>3. n \in Nat /\ n <= Len(pipe) /\ pipe' = SubSeq(pipe, n + 1, Len(pipe))
  BY <1>1, StreamAssumption DEF TakeLine
<1>4. /\ CameraTypes' /\ KeysUsed' /\ Short' = Short /\ Sent' = Sent + n
      /\ InPipe(Sent', pipe', Short')
      /\ Positions(SubSeq(pipe, 1, n)) = (Sent + 1)..(Sent + n)
  BY <1>3, PipeData
<1>5. /\ Sent \in Nat /\ Decrypted \in Nat /\ Short \in BOOLEAN
      /\ buffer \in Seq(Char) /\ wire \in Seq(Char) /\ shown \in Seq(Text)
  BY Numbers
<1>6. PICK D : D = lost \cup Positions(wire)
  OBVIOUS
<1>7. OnLine(Sent, buffer, D, Decrypted, Short) /\ Shown(Sent, buffer, D, Short, shown)
  <2>1. /\ OnLine(Sent, buffer \o wire, lost, Decrypted, Short)
        /\ Shown(Sent, buffer \o wire, lost, Short, shown)
    BY DEF Data, Line
  <2> QED
    BY <1>5, <1>6, <2>1, LineIsCut
<1>8. /\ OnLine(Sent + n, buffer, D \cup ((Sent + 1)..(Sent + n)), Decrypted, Short)
      /\ Shown(Sent + n, buffer, D \cup ((Sent + 1)..(Sent + n)), Short, shown)
  BY <1>3, <1>5, <1>7, LineMisses
<1>9. Line' = buffer /\ Decrypted' = Decrypted
  <2>1. buffer \o <<>> = buffer
    BY <1>5
  <2> QED
    BY <1>2, <2>1 DEF Line, Decrypted
<1>10. lost' = D \cup ((Sent + 1)..(Sent + n))
  BY <1>1, <1>4, <1>6
<1>11. Data'
  BY <1>2, <1>4, <1>8, <1>9, <1>10 DEF Data
<1>12. <<>> \in Seq(Char)
  OBVIOUS
<1>13. ClientTypes'
  BY <1>2, <1>12 DEF ClientTypes
<1> QED
  BY <1>4, <1>11, <1>13

\* The camera's side does not move.
LEMMA CameraStays ==
  ASSUME CameraTypes, ClientTypes, Data, UNCHANGED <<camVars, pipe>>
  PROVE  CameraTypes' /\ KeysUsed' /\ Short' = Short /\ Sent' = Sent /\ InPipe(Sent', pipe', Short')
<1>1. UNCHANGED <<encryption, taken, encVectors, shortReads, pipe>>
  BY DEF camVars
<1>2. Short' = Short /\ Sent' = Sent
  BY <1>1 DEF Short, Sent
<1>3. KeysUsed /\ InPipe(Sent, pipe, Short)
  BY DEF Data
<1>4. KeysUsed' /\ CameraTypes'
  BY <1>1, <1>2, <1>3 DEF KeysUsed, CameraTypes
<1>5. InPipe(Sent', pipe', Short')
  BY <1>1, <1>2, <1>3
<1> QED
  BY <1>2, <1>4, <1>5

\* Nothing moves.
LEMMA StillData ==
  ASSUME CameraTypes, ClientTypes, Data,
         UNCHANGED <<camVars, pipe, wire, buffer, decVectors, shown, lost>>,
         restarts' = restarts, listening' \in BOOLEAN, viewer' \in BOOLEAN
  PROVE  CameraTypes' /\ ClientTypes' /\ Data'
<1>1. CameraTypes' /\ KeysUsed' /\ Short' = Short /\ Sent' = Sent /\ InPipe(Sent', pipe', Short')
  BY CameraStays
<1>2. Line' = Line /\ Decrypted' = Decrypted
  BY DEF Line, Decrypted
<1>3. OnLine(Sent, Line, lost, Decrypted, Short) /\ Shown(Sent, Line, lost, Short, shown)
  BY DEF Data
<1>4. Data'
  BY <1>1, <1>2, <1>3 DEF Data
<1>5. ClientTypes'
  BY DEF ClientTypes
<1> QED
  BY <1>1, <1>4, <1>5

\* What is under way is lost.
LEMMA CutData ==
  ASSUME CameraTypes, ClientTypes, Data,
         UNCHANGED <<camVars, pipe, buffer, decVectors, restarts, listening, viewer, shown>>,
         wire' = <<>>, lost' = lost \cup Positions(wire)
  PROVE  CameraTypes' /\ ClientTypes' /\ Data'
<1>1. CameraTypes' /\ KeysUsed' /\ Short' = Short /\ Sent' = Sent /\ InPipe(Sent', pipe', Short')
  BY CameraStays
<1>2. /\ Sent \in Nat /\ Decrypted \in Nat /\ Short \in BOOLEAN
      /\ buffer \in Seq(Char) /\ wire \in Seq(Char) /\ shown \in Seq(Text)
  BY Numbers
<1>3. /\ OnLine(Sent, buffer \o wire, lost, Decrypted, Short)
      /\ Shown(Sent, buffer \o wire, lost, Short, shown)
  BY DEF Data, Line
<1>4. /\ OnLine(Sent, buffer, lost \cup Positions(wire), Decrypted, Short)
      /\ Shown(Sent, buffer, lost \cup Positions(wire), Short, shown)
  BY <1>2, <1>3, LineIsCut
<1>5. Line' = buffer /\ Decrypted' = Decrypted
  <2>1. buffer \o <<>> = buffer
    BY <1>2
  <2> QED
    BY <2>1 DEF Line, Decrypted
<1>6. Data'
  BY <1>1, <1>4, <1>5 DEF Data
<1>7. <<>> \in Seq(Char)
  OBVIOUS
<1>8. ClientTypes'
  BY <1>7 DEF ClientTypes
<1> QED
  BY <1>1, <1>6, <1>8

\* The client program is started again.
LEMMA RestartData ==
  ASSUME CameraTypes, ClientTypes, Data, UNCHANGED <<camVars, pipe>>,
         wire' = <<>>, buffer' = <<>>, shown' = <<>>, decVectors' = 0, lost' = 1..Sent,
         restarts' \in Nat, listening' \in BOOLEAN, viewer' \in BOOLEAN
  PROVE  CameraTypes' /\ ClientTypes' /\ Data'
<1>1. CameraTypes' /\ KeysUsed' /\ Short' = Short /\ Sent' = Sent /\ InPipe(Sent', pipe', Short')
  BY CameraStays
<1>2. Sent \in Nat
  BY Numbers
<1>3. OnLine(Sent, <<>>, 1..Sent, 0, Short) /\ Shown(Sent, <<>>, 1..Sent, Short, <<>>)
  BY <1>2, LineIsNew
<1>4. Line' = <<>>
  BY DEF Line
<1>5. Decrypted' = 0
  <2>1. VectorSize * 0 = 0 /\ 0 \in Nat
    BY StreamAssumption
  <2> QED
    BY <2>1 DEF Decrypted
<1>6. Data'
  BY <1>1, <1>3, <1>4, <1>5 DEF Data
<1>7. ClientTypes'
  BY StreamAssumption DEF ClientTypes
<1> QED
  BY <1>1, <1>6, <1>7

\* What has arrived is handed over, and decrypted as far as it fills blocks.
LEMMA ReadData ==
  ASSUME CameraTypes, ClientTypes, Data,
         UNCHANGED <<camVars, pipe, restarts, listening, viewer, lost>>,
         NEW n \in 1..Len(wire),
         SendData(SubSeq(wire, 1, n)), wire' = SubSeq(wire, n + 1, Len(wire))
  PROVE  CameraTypes' /\ ClientTypes' /\ Data'
<1> DEFINE W == SubSeq(wire, 1, n)
           R == SubSeq(wire, n + 1, Len(wire))
           A == buffer \o W
           k == BlockSize * Blocks(A)
           T == Decrypt(A, decVectors)
<1>1. CameraTypes' /\ KeysUsed' /\ Short' = Short /\ Sent' = Sent /\ InPipe(Sent', pipe', Short')
  BY CameraStays
<1>2. /\ Sent \in Nat /\ Decrypted \in Nat /\ Short \in BOOLEAN
      /\ buffer \in Seq(Char) /\ wire \in Seq(Char) /\ shown \in Seq(Text) /\ decVectors \in Nat
      /\ Line \in Seq(Char)
  BY Numbers DEF ClientTypes
<1>3. W \in Seq(Char) /\ R \in Seq(Char) /\ wire = W \o R
  <2>1. wire \in Seq(Char)
    BY <1>2
  <2> QED
    BY <2>1
<1>4. /\ buffer' = SubSeq(A, k + 1, Len(A))
      /\ decVectors' = decVectors + LENVECTOR(BlockSize) * Blocks(A)
      /\ shown' = IF viewer THEN shown \o T ELSE shown
      /\ wire' = R
  BY DEF SendData
<1> HIDE DEF W, R
<1>5. A \in Seq(Char)
  BY <1>2, <1>3, Joined
<1>6. Line = A \o R
  <2>1. \A a, b, c \in Seq(Char) : a \o (b \o c) = (a \o b) \o c
    OBVIOUS
  <2> QED
    BY <1>2, <1>3, <2>1 DEF Line
<1> HIDE DEF A
<1>7. /\ k \in Nat /\ k <= Len(A) /\ Len(A) - k < BlockSize
      /\ Blocks(A) \in Nat /\ LENVECTOR(BlockSize) * Blocks(A) \in Nat
      /\ VectorSize * (decVectors + LENVECTOR(BlockSize) * Blocks(A)) = Decrypted + k
      /\ T \in Seq(Text) /\ Len(T) = k
      /\ \A m \in 1..k : /\ T[m][1] = A[m][1] /\ T[m][2] = A[m][2]
                         /\ T[m][3] = Decrypted + m
  BY <1>2, <1>5, DecryptedText DEF Decrypted
<1> HIDE DEF k, T
<1>8. /\ decVectors' \in Nat /\ Decrypted' = Decrypted + k
  <2>1. decVectors + LENVECTOR(BlockSize) * Blocks(A) \in Nat
    BY <1>2, <1>7
  <2> QED
    BY <1>4, <1>7, <2>1 DEF Decrypted
<1>9. /\ k <= Len(Line) /\ SubSeq(Line, k + 1, Len(Line)) = SubSeq(A, k + 1, Len(A)) \o R
      /\ \A m \in 1..k : Line[m] = A[m]
  <2>1. R \in Seq(Char) /\ A \in Seq(Char) /\ k \in Nat /\ k <= Len(A)
    BY <1>3, <1>5, <1>7
  <2> QED
    BY <1>6, <2>1, RestOfJoined
<1>10. Line' = SubSeq(Line, k + 1, Len(Line))
  BY <1>4, <1>9 DEF Line
<1>11. OnLine(Sent, Line, lost, Decrypted, Short) /\ Shown(Sent, Line, lost, Short, shown)
  BY DEF Data
<1>12. /\ OnLine(Sent, Line', lost, Decrypted + k, Short)
       /\ Shown(Sent, Line', lost, Short, shown)
       /\ Shown(Sent, Line', lost, Short, shown \o T)
  <2>1. \A m \in 1..k : /\ T[m][1] = Line[m][1] /\ T[m][2] = Line[m][2]
                        /\ T[m][3] = Decrypted + m
    BY <1>7, <1>9
  <2> QED
    <3>1. FirstDecrypted(T, Line, Decrypted, k)
      BY <1>7, <1>9, <2>1 DEF FirstDecrypted
    <3>2. LET S == SubSeq(Line, k + 1, Len(Line)) IN
          /\ OnLine(Sent, S, lost, Decrypted + k, Short)
          /\ Shown(Sent, S, lost, Short, shown)
          /\ Shown(Sent, S, lost, Short, shown \o T)
      BY <1>2, <1>7, <1>11, <3>1, LineDecrypted
    <3> QED
      BY <1>10, <3>2
<1>13. Shown(Sent, Line', lost, Short, shown')
  BY <1>4, <1>12
<1>14. Data'
  BY <1>1, <1>8, <1>12, <1>13 DEF Data
<1>15. buffer' \in Seq(Char) /\ Len(buffer') < BlockSize
  <2>1. ASSUME NEW a \in Seq(Char), NEW j \in Nat, j <= Len(a)
        PROVE  SubSeq(a, j + 1, Len(a)) \in Seq(Char) /\ Len(SubSeq(a, j + 1, Len(a))) = Len(a) - j
    BY <2>1
  <2> QED
    BY <1>4, <1>5, <1>7, <2>1
<1>16. shown' \in Seq(Text)
  BY <1>2, <1>4, <1>7, Joined
<1>17. ClientTypes'
  BY <1>3, <1>4, <1>8, <1>15, <1>16 DEF ClientTypes
<1> QED
  BY <1>1, <1>14, <1>17

----------------------------------------------------------------------------
\* The sessions.

\* What closing the client's socket leaves: no session that is alive.
LEMMA NoneLeft ==
  ASSUME Session
  PROVE  /\ Left \in [Sessions -> {"unused", "backlog", "left backlog", "open", "left",
                                   "dropped", "closed"}]
         /\ \A s \in Sessions : Left[s] \notin {"backlog", "open"}
<1>1. /\ socket \in Sessions \cup {0}
      /\ link \in [Sessions -> {"unused", "backlog", "left backlog", "open", "left",
                                "dropped", "closed"}]
      /\ \A s \in Sessions : link[s] \in {"backlog", "open"} => s = socket
  BY DEF Session, SessionTypes, NoSessionLeftBehind
<1>2. 0 \notin Sessions
  BY DEF Sessions
<1>3. CASE socket = 0
  BY <1>1, <1>2, <1>3 DEF Left
<1>4. CASE socket # 0
  BY <1>1, <1>4 DEF Left
<1> QED
  BY <1>3, <1>4

LEMMA AcceptSession == Session /\ Accept => Session'
<1> SUFFICES ASSUME Session, Accept PROVE Session'
  OBVIOUS
<1>1. PICK s \in Waiting : /\ served' = s
                           /\ link' = [link EXCEPT ![s] = IF @ = "backlog" THEN "open" ELSE "left"]
  BY DEF Accept
<1>2. s \in Sessions /\ link[s] \in {"backlog", "left backlog"}
  BY DEF Waiting
<1>3. wire' = <<>> /\ server' = "serve" /\ UNCHANGED <<socket, button>>
  BY DEF Accept, clientVars
<1>4. SessionTypes'
  BY <1>1, <1>2, <1>3 DEF Session, SessionTypes
<1>5. NoSessionLeftBehind'
  BY <1>1, <1>2, <1>3 DEF Session, SessionTypes, NoSessionLeftBehind
<1> QED
  BY <1>3, <1>4, <1>5 DEF Session, WireConnected

LEMMA SendLineSession == Session /\ SendLine => Session'
<1> SUFFICES ASSUME Session, SendLine PROVE Session'
  OBVIOUS
<1>1. UNCHANGED <<server, served, link, button, socket>>
  BY DEF SendLine, serverVars, clientVars
<1>2. server = "serve" /\ link[served] = "open" /\ served \in Sessions
  BY DEF SendLine, Session, SessionTypes
<1>3. served = socket /\ socket # 0
  BY <1>2 DEF Session, NoSessionLeftBehind, Sessions
<1> QED
  BY <1>1, <1>2, <1>3 DEF Session, SessionTypes, NoSessionLeftBehind, WireConnected

LEMMA SendFailsSession == Session /\ SendFails => Session'
<1> SUFFICES ASSUME Session, SendFails PROVE Session'
  OBVIOUS
<1>1. /\ UNCHANGED <<served, button, socket>> /\ server' = "accept" /\ wire' = <<>>
      /\ link' = [s \in Sessions |->
                    CASE link[s] \in {"open", "backlog"} -> "dropped"
                      [] link[s] \in {"left", "left backlog"} -> "closed"
                      [] OTHER -> link[s]]
  BY DEF SendFails, DropLine, clientVars
<1>2. /\ \A s \in Sessions : link'[s] \in {"unused", "dropped", "closed"}
      /\ link' \in [Sessions -> {"unused", "dropped", "closed"}]
  BY <1>1 DEF Session, SessionTypes
<1>3. SessionTypes'
  BY <1>1, <1>2 DEF Session, SessionTypes
<1>4. NoSessionLeftBehind'
  BY <1>2 DEF NoSessionLeftBehind
<1> QED
  BY <1>1, <1>3, <1>4 DEF Session, WireConnected

LEMMA UnnoticedSession == Session /\ SendUnnoticed => Session'
BY DEF SendUnnoticed, DropLine, serverVars, clientVars, Session, SessionTypes,
       NoSessionLeftBehind, WireConnected

LEMMA StartSession == Session /\ StartStreaming => Session'
<1> SUFFICES ASSUME Session, StartStreaming PROVE Session'
  OBVIOUS
<1>1. PICK s \in Sessions : Connect(s)
  BY DEF StartStreaming
<1>2. /\ socket' = s /\ button = "Connexion" /\ button' = "Deconnexion"
      /\ UNCHANGED <<server, served, wire>>
  BY <1>1 DEF StartStreaming, Connect, serverVars
<1>3. \/ link' = [link EXCEPT ![s] = "backlog"]
      \/ link' = [link EXCEPT ![s] = "closed"]
  BY <1>1 DEF Connect
<1>4. \A r \in Sessions : link[r] \notin {"backlog", "open"}
  BY <1>2 DEF Session, NoSessionLeftBehind
<1>5. wire = <<>>
  BY <1>4 DEF Session, SessionTypes, WireConnected
<1>6. SessionTypes'
  BY <1>2, <1>3 DEF Session, SessionTypes
<1>7. NoSessionLeftBehind'
  BY <1>2, <1>3, <1>4 DEF Session, SessionTypes, NoSessionLeftBehind
<1> QED
  BY <1>2, <1>5, <1>6, <1>7 DEF Session, WireConnected

LEMMA StopSession == Session /\ StopStreaming => Session'
<1> SUFFICES ASSUME Session, StopStreaming PROVE Session'
  OBVIOUS
<1>1. /\ link' = Left /\ button' = "Connexion" /\ UNCHANGED <<server, served, socket>>
  BY DEF StopStreaming, serverVars
<1>2. wire' = <<>>
  <2>1. CASE InSession
    BY <2>1 DEF StopStreaming
  <2>2. CASE ~InSession
    BY <2>2 DEF StopStreaming, InSession, Session, WireConnected
  <2> QED
    BY <2>1, <2>2
<1> QED
  BY <1>1, <1>2, NoneLeft DEF Session, SessionTypes, NoSessionLeftBehind, WireConnected

LEMMA DisconnectedSession == Session /\ Disconnected => Session'
<1> SUFFICES ASSUME Session, Disconnected PROVE Session'
  OBVIOUS
<1>1. /\ socket # 0 /\ link[socket] = "dropped" /\ link' = [link EXCEPT ![socket] = "closed"]
      /\ button' = "Connexion" /\ UNCHANGED <<server, served, socket, wire>>
  BY DEF Disconnected, serverVars
<1>2. wire = <<>>
  BY <1>1 DEF Session, WireConnected
<1>3. SessionTypes'
  BY <1>1 DEF Session, SessionTypes
<1>4. NoSessionLeftBehind'
  BY <1>1 DEF Session, SessionTypes, NoSessionLeftBehind
<1> QED
  BY <1>1, <1>2, <1>3, <1>4 DEF Session, WireConnected

LEMMA ReadSession == Session /\ ReadyRead => Session'
<1> SUFFICES ASSUME Session, ReadyRead PROVE Session'
  OBVIOUS
<1>1. /\ UNCHANGED <<server, served, link, button, socket>>
      /\ socket # 0 /\ socket = served /\ link[socket] = "open"
  BY DEF ReadyRead, serverVars
<1>2. server = "serve"
  <2>1. PICK n \in 1..Len(wire) : TRUE
    BY DEF ReadyRead
  <2>2. Len(<<>>) = 0 /\ 1..0 = {}
    OBVIOUS
  <2> QED
    BY <2>1, <2>2 DEF Session, WireConnected
<1> QED
  BY <1>1, <1>2 DEF Session, SessionTypes, NoSessionLeftBehind, WireConnected

LEMMA RestartSession == Session /\ Restart => Session'
<1> SUFFICES ASSUME Session, Restart PROVE Session'
  OBVIOUS
<1>1. /\ link' = Left /\ wire' = <<>> /\ button' = "Connexion" /\ socket' = 0
      /\ UNCHANGED <<server, served>>
  BY DEF Restart, serverVars
<1> QED
  BY <1>1, NoneLeft DEF Session, SessionTypes, NoSessionLeftBehind, WireConnected

LEMMA SameSession == Session /\ UNCHANGED <<server, served, link, button, socket, wire>> => Session'
BY DEF Session, SessionTypes, NoSessionLeftBehind, WireConnected

----------------------------------------------------------------------------
LEMMA InitIInv == Init => IInv
<1> SUFFICES ASSUME Init PROVE IInv
  OBVIOUS
<1>1. /\ taken = 0 /\ encVectors = 0 /\ decVectors = 0 /\ shortReads = 0 /\ restarts = 0
      /\ pipe = <<>> /\ wire = <<>> /\ buffer = <<>> /\ shown = <<>> /\ lost = {}
      /\ encryption = "running" /\ listening = FALSE /\ viewer = FALSE
  BY DEF Init
<1>2. CameraTypes
  BY <1>1, StreamAssumption DEF CameraTypes
<1>3. ClientTypes
  <2>1. Len(<<>>) = 0 /\ 0 \in Nat /\ <<>> \in Seq(Char) /\ <<>> \in Seq(Text)
    OBVIOUS
  <2>2. 0 < BlockSize
    BY StreamAssumption
  <2>3. Len(buffer) < BlockSize
    BY <1>1, <2>1, <2>2
  <2> QED
    BY <1>1, <2>1, <2>3 DEF ClientTypes
<1>4. Session
  BY DEF Init, Session, SessionTypes, NoSessionLeftBehind, WireConnected
<1>5. VectorSize * 0 = 0
  BY StreamAssumption
<1>6. Sent = 0 /\ Line = <<>> /\ Decrypted = 0 /\ Short = FALSE
  <2>1. Len(<<>>) = 0 /\ <<>> \o <<>> = <<>> /\ 0 - 0 = 0
    OBVIOUS
  <2>2. Sent = 0
    BY <1>1, <2>1 DEF Sent
  <2>3. Line = <<>>
    BY <1>1, <2>1 DEF Line
  <2> QED
    BY <1>1, <1>5, <2>2, <2>3 DEF Decrypted, Short
<1>7. KeysUsed
  BY <1>1, <1>5 DEF KeysUsed
<1>8. 1..0 = {} /\ 0 \in Nat
  OBVIOUS
<1>9. OnLine(0, <<>>, {}, 0, FALSE) /\ Shown(0, <<>>, {}, FALSE, <<>>)
  <2>1. OnLine(0, <<>>, 1..0, 0, FALSE) /\ Shown(0, <<>>, 1..0, FALSE, <<>>)
    BY <1>8, LineIsNew
  <2> QED
    BY <1>8, <2>1
<1>10. InPipe(0, <<>>, FALSE)
  BY DEF InPipe
<1>11. Data
  BY <1>1, <1>6, <1>7, <1>9, <1>10 DEF Data
<1> QED
  BY <1>2, <1>3, <1>4, <1>11 DEF IInv

LEMMA StepIInv == IInv /\ [Next]_vars => IInv'
<1> SUFFICES ASSUME IInv, [Next]_vars PROVE IInv'
  OBVIOUS
<1>0. CameraTypes /\ ClientTypes /\ Session /\ Data
  BY DEF IInv
<1>1. /\ encryption \in {"running", "ended"} /\ shortReads \in Nat /\ BlockSize \in Nat
      /\ listening \in BOOLEAN /\ viewer \in BOOLEAN /\ restarts \in Nat /\ Sent \in Nat
      /\ wire \in Seq(Char)
  BY <1>0, Numbers, StreamAssumption DEF CameraTypes, ClientTypes
\* The camera's encryption touches neither the sessions nor the client.
<1>2. ASSUME NEW bytes \in Nat, taken + bytes <= VideoLength, Encrypt(bytes),
             encryption' \in {"running", "ended"}, shortReads' \in Nat, Short => Short',
             ~Short' /\ encryption' = "running" => bytes = BlockSize
      PROVE  IInv'
  <2>1. CameraTypes' /\ Data'
    BY <1>0, <1>2, EncryptData
  <2>2. UNCHANGED <<server, served, link, wire, button, socket, buffer, decVectors, restarts,
                    listening, viewer, shown>>
    BY <1>2 DEF Encrypt, serverVars, netVars, clientVars, cipherVars, viewVars
  <2>3. ClientTypes'
    BY <1>0, <2>2 DEF ClientTypes
  <2> QED
    BY <1>0, <2>1, <2>2, <2>3, SameSession DEF IInv
<1>3. CASE EncryptBlock
  <2>1. taken + BlockSize <= VideoLength /\ Encrypt(BlockSize)
        /\ UNCHANGED <<encryption, shortReads>>
    BY <1>3 DEF EncryptBlock
  <2>2. Short' = Short
    BY <2>1 DEF Short
  <2> QED
    BY <1>1, <1>2, <2>1, <2>2
<1>4. CASE EncryptShort
  <2>1. PICK bytes \in 0..(BlockSize - 1) : taken + bytes <= VideoLength /\ Encrypt(bytes)
    BY <1>4 DEF EncryptShort
  <2>2. shortReads' = shortReads + 1 /\ encryption' = encryption
    BY <1>4 DEF EncryptShort
  <2>3. bytes \in Nat /\ shortReads' \in Nat /\ shortReads' # 0
    BY <1>1, <2>1, <2>2
  <2>4. Short'
    BY <2>3 DEF Short
  <2> QED
    BY <1>1, <1>2, <2>1, <2>2, <2>3, <2>4
<1>5. CASE EncryptLast
  <2>1. PICK bytes \in 0..(BlockSize - 1) : taken + bytes <= VideoLength /\ Encrypt(bytes)
    BY <1>5 DEF EncryptLast
  <2>2. shortReads' = shortReads /\ encryption' = "ended"
    BY <1>5 DEF EncryptLast
  <2>3. bytes \in Nat
    BY <1>1, <2>1
  <2>4. Short' = Short
    BY <2>2 DEF Short
  <2> QED
    BY <1>1, <1>2, <2>1, <2>2, <2>3, <2>4
<1>6. CASE Accept
  <2>1. UNCHANGED <<camVars, pipe, buffer, decVectors, restarts, listening, viewer, shown, lost>>
        /\ wire' = <<>>
    BY <1>6 DEF Accept, clientVars, cipherVars, viewVars
  <2>2. wire = <<>>
    BY <1>0, <1>6 DEF Accept, Session, WireConnected
  <2>3. CameraTypes' /\ ClientTypes' /\ Data'
    BY <1>0, <1>1, <2>1, <2>2, StillData
  <2> QED
    BY <1>0, <1>6, <2>3, AcceptSession DEF IInv
<1>7. CASE SendLine
  <2>1. PICK n \in 1..MaxLine : \E sent \in 1..n :
          /\ TakeLine(n)
          /\ wire' = wire \o SubSeq(pipe, 1, sent)
          /\ lost' = lost \cup Positions(SubSeq(pipe, sent + 1, n))
    BY <1>7 DEF SendLine
  <2>2. PICK sent \in 1..n :
          /\ TakeLine(n)
          /\ wire' = wire \o SubSeq(pipe, 1, sent)
          /\ lost' = lost \cup Positions(SubSeq(pipe, sent + 1, n))
    BY <2>1
  <2>3. n \in Nat
    BY StreamAssumption
  <2>4. UNCHANGED <<camVars, clientVars>>
    BY <1>7 DEF SendLine
  <2>5. CameraTypes' /\ ClientTypes' /\ Data'
    BY <1>0, <2>2, <2>3, <2>4, SendLineData
  <2> QED
    BY <1>0, <1>7, <2>5, SendLineSession DEF IInv
<1>8. CASE SendUnnoticed
  <2>1. DropLine /\ UNCHANGED <<camVars, clientVars>>
    BY <1>8 DEF SendUnnoticed
  <2>2. CameraTypes' /\ ClientTypes' /\ Data'
    BY <1>0, <2>1, DropData
  <2> QED
    BY <1>0, <1>8, <2>2, UnnoticedSession DEF IInv
<1>9. CASE SendFails
  <2>1. DropLine /\ UNCHANGED <<camVars, clientVars>>
    BY <1>9 DEF SendFails
  <2>2. CameraTypes' /\ ClientTypes' /\ Data'
    BY <1>0, <2>1, DropData
  <2> QED
    BY <1>0, <1>9, <2>2, SendFailsSession DEF IInv
<1>10. CASE StartStreaming
  <2>1. UNCHANGED <<camVars, pipe, wire, buffer, decVectors, shown, lost>>
        /\ restarts' = restarts /\ listening' \in BOOLEAN /\ viewer' \in BOOLEAN
    BY <1>1, <1>10 DEF StartStreaming, cipherVars
  <2>2. CameraTypes' /\ ClientTypes' /\ Data'
    BY <1>0, <2>1, StillData
  <2> QED
    BY <1>0, <1>10, <2>2, StartSession DEF IInv
<1>11. CASE StopStreaming
  <2>1. UNCHANGED <<camVars, pipe, buffer, decVectors, restarts, listening, viewer, shown>>
    BY <1>11 DEF StopStreaming, cipherVars, viewVars
  <2>2. CASE InSession
    <3>1. wire' = <<>> /\ lost' = lost \cup Positions(wire)
      BY <1>11, <2>2 DEF StopStreaming
    <3>2. CameraTypes' /\ ClientTypes' /\ Data'
      BY <1>0, <2>1, <3>1, CutData
    <3> QED
      BY <1>0, <1>11, <3>2, StopSession DEF IInv
  <2>3. CASE ~InSession
    <3>1. UNCHANGED <<lost, wire>>
      BY <1>11, <2>3 DEF StopStreaming
    <3>2. CameraTypes' /\ ClientTypes' /\ Data'
      BY <1>0, <1>1, <2>1, <3>1, StillData
    <3> QED
      BY <1>0, <1>11, <3>2, StopSession DEF IInv
  <2> QED
    BY <2>2, <2>3
<1>12. CASE Disconnected
  <2>1. UNCHANGED <<camVars, pipe, wire, buffer, decVectors, shown, lost>>
        /\ restarts' = restarts /\ listening' \in BOOLEAN /\ viewer' \in BOOLEAN
    BY <1>1, <1>12 DEF Disconnected, cipherVars, viewVars
  <2>2. CameraTypes' /\ ClientTypes' /\ Data'
    BY <1>0, <2>1, StillData
  <2> QED
    BY <1>0, <1>12, <2>2, DisconnectedSession DEF IInv
<1>13. CASE ReadyRead
  <2>1. PICK n \in 1..Len(wire) : /\ SendData(SubSeq(wire, 1, n))
                                  /\ wire' = SubSeq(wire, n + 1, Len(wire))
    BY <1>13 DEF ReadyRead
  <2>2. UNCHANGED <<camVars, pipe, restarts, listening, viewer, lost>>
    BY <1>13 DEF ReadyRead
  <2>3. CameraTypes' /\ ClientTypes' /\ Data'
    BY <1>0, <2>1, <2>2, ReadData
  <2> QED
    BY <1>0, <1>13, <2>3, ReadSession DEF IInv
<1>14. CASE ViewerConnects \/ ViewerLeaves
  <2>1. UNCHANGED <<camVars, pipe, wire, buffer, decVectors, shown, lost>>
        /\ UNCHANGED <<server, served, link, button, socket, wire>>
        /\ restarts' = restarts /\ listening' \in BOOLEAN /\ viewer' \in BOOLEAN
    BY <1>1, <1>14 DEF ViewerConnects, ViewerLeaves, cipherVars, serverVars, netVars
  <2>2. CameraTypes' /\ ClientTypes' /\ Data'
    BY <1>0, <2>1, StillData
  <2>3. Session'
    BY <1>0, <2>1, SameSession
  <2> QED
    BY <2>2, <2>3 DEF IInv
<1>15. CASE Restart
  <2>1. /\ UNCHANGED <<camVars, pipe>> /\ wire' = <<>> /\ buffer' = <<>> /\ shown' = <<>>
        /\ decVectors' = 0 /\ lost' = 1..Sent /\ restarts' \in Nat
        /\ listening' \in BOOLEAN /\ viewer' \in BOOLEAN
    <3>1. restarts + 1 \in Nat
      BY <1>1
    <3> QED
      BY <1>15, <3>1 DEF Restart, Sent
  <2>2. CameraTypes' /\ ClientTypes' /\ Data'
    BY <1>0, <2>1, RestartData
  <2> QED
    BY <1>0, <1>15, <2>2, RestartSession DEF IInv
<1>16. CASE UNCHANGED vars
  <2>1. UNCHANGED <<camVars, pipe, wire, buffer, decVectors, shown, lost>>
        /\ UNCHANGED <<server, served, link, button, socket, wire>>
        /\ restarts' = restarts /\ listening' \in BOOLEAN /\ viewer' \in BOOLEAN
    BY <1>1, <1>16 DEF vars, clientVars, cipherVars, viewVars, serverVars, netVars
  <2>2. CameraTypes' /\ ClientTypes' /\ Data'
    BY <1>0, <2>1, StillData
  <2>3. Session'
    BY <1>0, <2>1, SameSession
  <2> QED
    BY <2>2, <2>3 DEF IInv
<1> QED
  BY <1>3, <1>4, <1>5, <1>6, <1>7, <1>8, <1>9, <1>10, <1>11, <1>12, <1>13, <1>14, <1>15, <1>16
  DEF Next, Encryption

----------------------------------------------------------------------------
LEMMA IInvAlways == Spec => []IInv
<1>1. Init => IInv
  BY InitIInv
<1>2. IInv /\ [Next]_vars => IInv'
  BY StepIInv
<1> QED
  BY <1>1, <1>2, PTL DEF Spec

LEMMA ShownFacts ==
  ASSUME IInv, NEW n \in DOMAIN shown
  PROVE  /\ shortReads = 0 => LossBefore(shown[n]) \/ Readable(shown[n])
         /\ LossBefore(shown[n]) => ~Readable(shown[n])
<1>1. CameraTypes /\ ClientTypes /\ Data
  BY DEF IInv
<1>2. n \in 1..Len(shown)
  BY <1>1 DEF ClientTypes
<1>3. ShownRight(shown[n], lost, Short)
  BY <1>1, <1>2 DEF Data, Shown
<1>4. LossBefore(shown[n]) <=> Below(lost, shown[n][1]) # {}
  BY DEF LossBefore, Below
<1> QED
  BY <1>3, <1>4 DEF ShownRight, Short

\* Every variable keeps its type, the client's buffer less than a block, and only what
\* the encryption has read can be lost.
THEOREM TypesHold == Spec => []TypeOK
<1>1. IInv => TypeOK
  <2> SUFFICES ASSUME IInv PROVE TypeOK
    OBVIOUS
  <2>1. CameraTypes /\ ClientTypes /\ SessionTypes /\ Data
    BY DEF IInv, Session
  <2>2. lost \subseteq 1..taken
    <3>1. Sent \in Nat /\ Len(pipe) \in Nat /\ taken = Sent + Len(pipe)
      BY <2>1, Numbers
    <3>2. \A p \in 1..Sent : p \in 1..taken
      BY <3>1
    <3> QED
      BY <2>1, <3>2 DEF Data, OnLine
  <2>3. /\ \A n \in DOMAIN pipe : pipe[n] \in Encrypted
        /\ \A n \in DOMAIN wire : wire[n] \in Encrypted
        /\ \A n \in DOMAIN buffer : buffer[n] \in Encrypted
        /\ \A n \in DOMAIN shown : shown[n] \in Plain \X Nat \X Nat
    <3>1. pipe \in Seq(Encrypted) /\ wire \in Seq(Encrypted) /\ buffer \in Seq(Encrypted)
          /\ shown \in Seq(Plain \X Nat \X Nat)
      BY <2>1 DEF CameraTypes, ClientTypes, Char, Text
    <3>2. ASSUME NEW S, NEW f \in Seq(S) PROVE \A n \in DOMAIN f : f[n] \in S
      OBVIOUS
    <3> QED
      BY <3>1, <3>2
  <2>4. /\ encryption \in {"running", "ended"} /\ taken \in 0..VideoLength
        /\ {encVectors, decVectors, shortReads, restarts} \subseteq Nat
        /\ Len(buffer) < BlockSize /\ {listening, viewer} \subseteq BOOLEAN
    BY <2>1 DEF CameraTypes, ClientTypes
  <2> QED
    BY <2>1, <2>2, <2>3, <2>4 DEF TypeOK, SessionTypes
<1> QED
  BY <1>1, IInvAlways, PTL

\* Whatever connections come and go: with the text "Connexion" on the button no session of
\* the client is alive, so connect() never replaces a socket that is connected.
THEOREM ButtonTellsTheSession == Spec => []NoSessionLeftBehind
<1>1. IInv => NoSessionLeftBehind
  BY DEF IInv, Session
<1> QED
  BY <1>1, IInvAlways, PTL

\* Over any sequence of connections, failed sends and restarts each character of the video
\* is lost, decrypted or on the way, once and in its place.
THEOREM EachCharacterOnce == Spec => []NothingDuplicated
<1>1. IInv => NothingDuplicated
  <2> SUFFICES ASSUME IInv PROVE NothingDuplicated
    OBVIOUS
  <2>1. CameraTypes /\ ClientTypes /\ Data
    BY DEF IInv
  <2>2. /\ Sent \in Nat /\ Len(pipe) \in Nat /\ taken = Sent + Len(pipe) /\ Decrypted \in Nat
        /\ Line \in Seq(Char) /\ pipe \in Seq(Char) /\ Short \in BOOLEAN
    BY <2>1, Numbers
  <2>3. OnLine(Sent, Line, lost, Decrypted, Short) /\ InPipe(Sent, pipe, Short)
    BY <2>1 DEF Data
  <2>4. /\ OnTheWay = Line \o pipe /\ Len(OnTheWay) = Len(Line) + Len(pipe)
        /\ Len(Line) \in Nat
        /\ \A n \in 1..Len(Line) : OnTheWay[n] = Line[n]
        /\ \A n \in (Len(Line) + 1)..(Len(Line) + Len(pipe)) : OnTheWay[n] = pipe[n - Len(Line)]
    <3>1. OnTheWay = Line \o pipe
      BY DEF OnTheWay, Line
    <3> QED
      BY <2>2, <3>1, Joined
  <2>5. Cardinality(lost) \in Nat
    BY <2>2, <2>3, LostFinite DEF OnLine
  <2>6. taken = Cardinality(lost) + Decrypted + Len(OnTheWay)
    <3>1. Sent = Cardinality(lost) + Decrypted + Len(Line)
      BY <2>3 DEF OnLine
    <3> QED
      BY <2>2, <2>4, <2>5, <3>1
  <2>7. ASSUME NEW n \in 1..(Len(OnTheWay) - 1)
        PROVE  OnTheWay[n][1] < OnTheWay[n + 1][1]
    <3>1. CASE n + 1 \in 1..Len(Line)
      BY <3>1, <2>3, <2>4 DEF OnLine, Increasing
    <3>2. CASE n = Len(Line)
      <4>1. OnTheWay[n + 1] = pipe[1] /\ 1 \in 1..Len(pipe) /\ n \in 1..Len(Line)
        BY <3>2, <2>2, <2>4
      <4>2. pipe[1][1] = Sent + 1
        BY <4>1, <2>3 DEF InPipe
      <4>3. Line[n][1] \in 1..Sent /\ OnTheWay[n] = Line[n]
        BY <4>1, <2>3, <2>4 DEF OnLine
      <4> QED
        BY <4>1, <4>2, <4>3, <2>2
    <3>3. CASE n > Len(Line)
      <4>1. /\ OnTheWay[n] = pipe[n - Len(Line)] /\ n - Len(Line) \in 1..Len(pipe)
            /\ OnTheWay[n + 1] = pipe[n + 1 - Len(Line)] /\ n + 1 - Len(Line) \in 1..Len(pipe)
        BY <3>3, <2>2, <2>4
      <4>2. /\ OnTheWay[n][1] = Sent + (n - Len(Line))
            /\ OnTheWay[n + 1][1] = Sent + (n + 1 - Len(Line))
        BY <4>1, <2>3 DEF InPipe
      <4> QED
        BY <4>2, <2>2, <2>4
    <3> QED
      BY <3>1, <3>2, <3>3, <2>2, <2>4
  <2> QED
    BY <2>6, <2>7 DEF NothingDuplicated, Decrypted
<1> QED
  BY <1>1, IInvAlways, PTL

\* As long as encryption reads full blocks, a character in front of which nothing is lost
\* is decrypted with the key character it was encrypted with, however lines, network and
\* readyRead cut the stream up.
THEOREM VideoIsSeen == Spec => []SeesTheVideo
<1>1. IInv => SeesTheVideo
  BY ShownFacts DEF SeesTheVideo
<1> QED
  BY <1>1, IInvAlways, PTL

\* Behind the first lost character nothing that is shown is readable, on this connection
\* and on every later one.
THEOREM NothingHealsALoss == Spec => []LossIsForever
<1>1. IInv => LossIsForever
  BY ShownFacts DEF LossIsForever
<1> QED
  BY <1>1, IInvAlways, PTL
=============================================================================
