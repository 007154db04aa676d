-------------------------- MODULE QpuInstructions --------------------------
(***************************************************************************)
(* The target language of QPULib's compiler (hybrid/Lib/Target): its       *)
(* instructions as records, the registers they read and write, the         *)
(* conditions, the operations on the lanes of a vector, and what the       *)
(* encoder accepts.  Integers only; a word is WordSize bits wide.          *)
(***************************************************************************)
EXTENDS Integers, FiniteSetsExt, SequencesExt

CONSTANTS NumLanes,  \* NUM_LANES, 16 in the code
          WordSize   \* 32 in the code

ASSUME WordAssumption == {NumLanes, WordSize} \subseteq Nat \ {0}

Lanes == 0..(NumLanes - 1)

\* A register or, with the tag IMM, a small immediate.
Operand(tag, id) == [tag |-> tag, id |-> id]

None    == Operand("NONE", 0)
RegA(n) == Operand("REG_A", n)
RegB(n) == Operand("REG_B", n)
Acc(n)  == Operand("ACC", n)
Imm(n)  == Operand("IMM", n)
Uniform == Operand("SPECIAL", 0)
ElemNum == Operand("SPECIAL", 1)
QpuNum  == Operand("SPECIAL", 2)

Operands == [tag : {"NONE", "REG_A", "REG_B", "ACC", "IMM", "SPECIAL"}, id : Int]

Flags == {"ZS", "ZC", "NS", "NC"}

Instructions ==
  [tag : {"LI", "ALU", "BRL", "BR", "LAB", "PRI", "END", "NO_OP"},
   op : {"", "ADD", "SUB", "MIN", "MAX", "BOR", "ROTATE"},
   cond : Flags \cup {"ALWAYS", "NEVER"},   \* of an assignment, or the flag of a branch
   reduce : {"", "ANY", "ALL"},             \* of a branch
   setFlags : BOOLEAN,
   dest : Operands, srcA : Operands, srcB : Operands,
   label : Int]                             \* of LAB and BRL; immOffset of BR

nop == [tag |-> "NO_OP", op |-> "", cond |-> "ALWAYS", reduce |-> "", setFlags |-> FALSE,
        dest |-> None, srcA |-> None, srcB |-> None, label |-> 0]

LI(cond, dest, n) == [nop EXCEPT !.tag = "LI", !.cond = cond, !.dest = dest, !.srcA = Imm(n)]

ALU(op, setFlags, cond, dest, a, b) ==
  [nop EXCEPT !.tag = "ALU", !.op = op, !.setFlags = setFlags, !.cond = cond,
              !.dest = dest, !.srcA = a, !.srcB = b]

Move(setFlags, cond, dest, src) == ALU("BOR", setFlags, cond, dest, src, src)

BRL(reduce, cond, label) ==
  [nop EXCEPT !.tag = "BRL", !.reduce = reduce, !.cond = cond, !.label = label]

LAB(label) == [nop EXCEPT !.tag = "LAB", !.label = label]
PRI(src)   == [nop EXCEPT !.tag = "PRI", !.srcA = src]
END        == [nop EXCEPT !.tag = "END"]

----------------------------------------------------------------------------
\* What an instruction reads and writes (useDefReg).

Sources(instr) == {instr.srcA, instr.srcB}

\* Mutant of UsesReg: the old value of a conditional assignment is not read.
UsesRegOfSources(instr) ==
  CASE instr.tag = "ALU" -> {r \in Sources(instr) : r.tag # "IMM"}
    [] instr.tag = "PRI" -> {instr.srcA}
    [] OTHER -> {}

UsesReg(instr) ==
  (CASE instr.tag = "ALU" -> {r \in Sources(instr) : r.tag # "IMM"}
     [] instr.tag = "PRI" -> {instr.srcA}
     [] OTHER -> {})
  \cup (IF instr.tag \in {"LI", "ALU"} /\ instr.cond # "ALWAYS" THEN {instr.dest} ELSE {})

DefsReg(instr) == IF instr.tag \in {"LI", "ALU"} THEN {instr.dest} ELSE {}

\* Only the variables, which are in register file A until they are allocated.
VarsIn(regs) == {r.id : r \in {s \in regs : s.tag = "REG_A"}}

Uses(instr) == VarsIn(UsesReg(instr))
Defs(instr) == VarsIn(DefsReg(instr))

\* renameDest and renameUses.
Replace(r, old, new) == IF r = old THEN new ELSE r

RenameDest(instr, old, new) == [instr EXCEPT !.dest = Replace(@, old, new)]

RenameUses(instr, old, new) ==
  [instr EXCEPT !.srcA = Replace(@, old, new), !.srcB = Replace(@, old, new)]

----------------------------------------------------------------------------
\* The register file an operand is read from.
RegFileOf(r) == CASE r.tag \in {"REG_A", "REG_B"} -> r.tag
                  [] r = ElemNum -> "REG_A"
                  [] r = QpuNum  -> "REG_B"
                  [] OTHER       -> "NONE"

\* What the assertions of encodeInstr let pass.  Two different registers must not
\* come from the same file; beside an immediate, which takes the place of a
\* register of file B, none must come from B; a rotated vector is in ACC0.  (An
\* amount in a register is refused: Encode.cpp:297 asks for srcA to be ACC5, too.)
Encodes(instr) ==
  LET a == instr.srcA
      b == instr.srcB
  IN instr.tag = "ALU" =>
       IF instr.op = "ROTATE" THEN a = Acc(0) /\ b.tag = "IMM"
       ELSE /\ {a.tag, b.tag} # {"IMM"}
            /\ b.tag = "IMM" => RegFileOf(a) # "REG_B"
            /\ a.tag = "IMM" => RegFileOf(b) # "REG_B"
            /\ a # b => RegFileOf(a) = "NONE" \/ RegFileOf(a) # RegFileOf(b)

----------------------------------------------------------------------------
\* Words and vectors.

Wrap(n) == ((n + 2^(WordSize - 1)) % 2^WordSize) - 2^(WordSize - 1)

Bit(n, k) == ((n % 2^WordSize) \div 2^k) % 2

BitOr(x, y) ==
  IF x = y THEN x
  ELSE Wrap(SumSet({2^k : k \in {j \in 0..(WordSize - 1) : Bit(x, j) + Bit(y, j) > 0}}))

Eval(op, x, y) == CASE op = "ADD" -> Wrap(x + y)
                    [] op = "SUB" -> Wrap(x - y)
                    [] op = "MIN" -> IF x < y THEN x ELSE y
                    [] op = "MAX" -> IF x > y THEN x ELSE y
                    [] op = "BOR" -> BitOr(x, y)

\* An operation on vectors; a rotation takes its amount from the first lane.
EvalVec(op, v, w) ==
  IF op = "ROTATE" THEN [k \in Lanes |-> v[(k - w[0]) % NumLanes]]
  ELSE [k \in Lanes |-> Eval(op, v[k], w[k])]

Const(n) == [k \in Lanes |-> n]
Index    == [k \in Lanes |-> k]

\* The condition on a word that was compared with zero.
Holds(cond, n) == CASE cond = "ALWAYS" -> TRUE
                    [] cond = "NEVER"  -> FALSE
                    [] cond = "ZS"     -> n = 0
                    [] cond = "ZC"     -> n # 0
                    [] cond = "NS"     -> n < 0
                    [] cond = "NC"     -> n >= 0
=============================================================================
