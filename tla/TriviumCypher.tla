--------------------------- MODULE TriviumCypher ---------------------------
(***************************************************************************)
(* Trivium::cypher of hybrid/trivium.cpp, copied in camera/ and Client/,   *)
(* with the conversions between characters and integers it calls.  Two     *)
(* objects with the same key and vector are at work: one encrypts a text   *)
(* piece by piece, the other decrypts what it has written, in pieces of    *)
(* its own choice.                                                         *)
(*                                                                         *)
(* A character is the set of what has been XORed to get it: <<"text", c>>  *)
(* is the c-th character of the text, <<"key", k, b>> byte b of the k-th   *)
(* integer of the key stream; {} is 0.                                     *)
(***************************************************************************)
EXTENDS Integers, Sequences, FiniteSets, SequencesExt

CONSTANTS CharsPerInt,   \* 4
          IntsPerVector, \* 16
          Pieces,        \* the sizes cypher is called with
          MaxText,       \* bound: characters of the text
          MaxPieces      \* bound: calls of cypher on each side

ASSUME CypherAssumption == /\ {CharsPerInt, IntsPerVector} \subseteq Nat \ {0}
                           /\ Pieces \subseteq Nat
                           /\ {MaxText, MaxPieces} \subseteq Nat

VARIABLES encOffset, decOffset, \* offset_integer of the two objects
          encCuts, decCuts,     \* history: the sizes of the pieces so far
          wire,                 \* what has been encrypted and not decrypted
          shown                 \* what has been decrypted

vars == <<encOffset, decOffset, encCuts, decCuts, wire, shown>>

Text(c) == {<<"text", c>>}

a ^^ b == (a \ b) \cup (b \ a)

LEN(n) == (n + CharsPerInt - 1) \div CharsPerInt

LENVECTOR(n) == (n + IntsPerVector - 1) \div IntsPerVector

\* What buff[c] reads: behind the buffer stands whatever stands there.
Garbage == {<<"garbage">>}
Peek(buff, c) == IF c < Len(buff) THEN buff[c + 1] ELSE Garbage

\* The bytes of the integers, highest first, of the first n characters at buff; the
\* last integer is filled with zeros.
convert_to_integer(buff, n) ==
  [w \in 0..(LEN(n) - 1) |-> [b \in 0..(CharsPerInt - 1) |->
     LET c == w * CharsPerInt + b IN IF c < n THEN Peek(buff, c) ELSE {}]]

\* Mutant: the characters of the last, incomplete integer are taken from its low end.
convert_to_char_low(buff, n) ==
  [c \in 1..n |-> LET w == (c - 1) \div CharsPerInt
                      b == (c - 1) % CharsPerInt
                  IN  buff[w][IF w < n \div CharsPerInt
                              THEN b ELSE b + CharsPerInt - (n % CharsPerInt)]]

convert_to_char(buff, n) ==
  [c \in 1..n |-> buff[(c - 1) \div CharsPerInt][(c - 1) % CharsPerInt]]

\* Mutant: vector[14-k] = get_integer().
KeyIntegerBefore(offset, v, k) == offset + v * IntsPerVector + (IntsPerVector - 2 - k)

\* Mutant: the registers are not kept from one call of cypher to the next.
KeyIntegerAnew(offset, v, k) == v * IntsPerVector + (IntsPerVector - 1 - k)

\* vector[15-k] = get_integer(): the integer of the key stream in place k of vector v.
KeyInteger(offset, v, k) == offset + v * IntsPerVector + (IntsPerVector - 1 - k)

NbVector(n) == LENVECTOR(LEN(n))

\* The result of cypher; offset_integer becomes NextOffset.
cypher(data, n, offset) ==
  LET message == convert_to_integer(data, NbVector(n) * IntsPerVector * CharsPerInt)
      res == [j \in 0..(NbVector(n) * IntsPerVector - 1) |->
                [b \in 0..(CharsPerInt - 1) |->
                   message[j][b]
                   ^^ {<<"key", KeyInteger(offset, j \div IntsPerVector, j % IntsPerVector), b>>}]]
  IN  convert_to_char(res, n)

\* Mutant: the integers of the characters are counted, not those of the vectors.
NextOffsetLEN(n, offset) == offset + LEN(n)

NextOffset(n, offset) == offset + NbVector(n) * IntsPerVector

Init == /\ encOffset = 0 /\ decOffset = 0
        /\ encCuts = <<>> /\ decCuts = <<>>
        /\ wire = <<>>
        /\ shown = <<>>

Sum(cuts) == FoldSeq(LAMBDA n, sum : n + sum, 0, cuts)

Encrypt(n) ==
  /\ Len(encCuts) < MaxPieces /\ Sum(encCuts) + n <= MaxText
  /\ LET text == [c \in 1..n |-> Text(Sum(encCuts) + c)]
     IN  wire' = wire \o cypher(text, n, encOffset)
  /\ encOffset' = NextOffset(n, encOffset)
  /\ encCuts' = Append(encCuts, n)
  /\ UNCHANGED <<decOffset, decCuts, shown>>

Decrypt(n) ==
  /\ Len(decCuts) < MaxPieces /\ n <= Len(wire)
  /\ shown' = shown \o cypher(SubSeq(wire, 1, n), n, decOffset)
  /\ wire' = SubSeq(wire, n + 1, Len(wire))
  /\ decOffset' = NextOffset(n, decOffset)
  /\ decCuts' = Append(decCuts, n)
  /\ UNCHANGED <<encOffset, encCuts>>

Next == \E n \in Pieces : Encrypt(n) \/ Decrypt(n)

Spec == Init /\ [][Next]_vars

----------------------------------------------------------------------------
Char == SUBSET (({"text"} \X Nat) \cup ({"key"} \X Nat \X Nat) \cup Garbage)

TypeOK == /\ encOffset \in Nat /\ decOffset \in Nat
          /\ encCuts \in Seq(Pieces) /\ decCuts \in Seq(Pieces)
          /\ \A c \in DOMAIN wire : wire[c] \in Char
          /\ \A c \in DOMAIN shown : shown[c] \in Char

\* Characters of the key stream that a piece of n characters makes and leaves unused.
Rest(n) == NbVector(n) * IntsPerVector * CharsPerInt - n

\* Those left unused before character c of the text.
Skipped(cuts, c) ==
  LET before == {k \in DOMAIN cuts : Sum(SubSeq(cuts, 1, k)) < c}
  IN  Sum([k \in 1..Cardinality(before) |-> Rest(cuts[k])])

\* A character is decrypted correctly exactly if both sides have left the same number of
\* characters of the key stream unused before it: however the text is cut, with pieces
\* of whole vectors or with the same pieces on both sides all is well, and a piece that
\* is cut otherwise spoils whatever comes behind it (trivium.cpp 83-112).
Recovered == \A c \in 1..Len(shown) :
               shown[c] = Text(c) <=> Skipped(encCuts, c) = Skipped(decCuts, c)

\* cypher converts whole vectors and so reads behind its buffer (trivium.cpp 88); what
\* stands there never gets into the text or into what is sent.
NoGarbage == \A c \in Range(wire) \cup Range(shown) : Garbage \cap c = {}

\* No byte of the key stream encrypts two characters.
KeyUsedOnce == \A c, d \in DOMAIN wire :
                 c # d => wire[c] \cap wire[d] = {}
=============================================================================
