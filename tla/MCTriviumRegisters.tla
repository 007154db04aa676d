------------------------- MODULE MCTriviumRegisters -------------------------
(***************************************************************************)
(* TriviumRegisters with the key and the initialization vector that the    *)
(* constructor sets, and with the key and the vector whose bits are all 1. *)
(***************************************************************************)
EXTENDS TriviumRegisters

\* An integer from its bits that are 1.
FromBits(ones) == [b \in 0..31 |-> IF b \in ones THEN 1 ELSE 0]

\* 3861042005, 1559349736, 777729657
m_key == <<FromBits({0, 2, 4, 6, 8, 9, 12, 14, 15, 17, 21, 25, 26, 29, 30, 31}),
           FromBits({3, 5, 6, 7, 8, 11, 14, 15, 16, 20, 21, 22, 23, 26, 27, 28, 30}),
           FromBits({0, 3, 4, 5, 6, 9, 10, 12, 13, 16, 17, 19, 20, 22, 25, 26, 27, 29})>>

\* 873716055, 1559349736, 3547487477
m_init == <<FromBits({0, 1, 2, 4, 6, 8, 11, 12, 14, 15, 16, 17, 20, 26, 28, 29}),
            FromBits({3, 5, 6, 7, 8, 11, 14, 15, 16, 20, 21, 22, 23, 26, 27, 28, 30}),
            FromBits({0, 2, 4, 5, 6, 7, 10, 11, 12, 14, 17, 20, 21, 22, 24, 25, 28, 30, 31})>>

Array(words) == [w \in 0..2 |-> words[w + 1]]

AllOnes == [w \in 0..2 |-> FromBits(0..31)]

MCKeys == {<<Array(m_key), Array(m_init)>>, <<AllOnes, AllOnes>>}
=============================================================================
