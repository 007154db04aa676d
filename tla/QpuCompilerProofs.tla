------------------------- MODULE QpuCompilerProofs -------------------------
(***************************************************************************)
(* The invariants of QpuCompiler, for any programs and any number of       *)
(* registers: first what liveness and register allocation keep (IInv),     *)
(* then what the passes make of the code and where the QPU gets to in it   *)
(* (FlowInv).                                                              *)
(***************************************************************************)
EXTENDS QpuCompiler, FiniteSetTheorems, SequenceTheorems, TLAPS

\* The phases that analyse the code and allocate its registers.
Analysis == {"liveness", "accumulate", "prefer", "allocate"}

\* What the code may mention.
Known == /\ code \in Seq(Instructions)
         /\ Len(code) = Len(program.code)
         /\ \A i \in 1..Len(code) : Uses(code[i]) \cup Defs(code[i]) \subseteq Vars
         /\ live \in [1..Len(code) -> SUBSET Vars]

\* Where the loops are.
Shape ==
  /\ program \in Programs
  /\ phase \in Phases
  /\ phase = "liveness" => code = program.code
  /\ phase \in Analysis => Known
  /\ phase = "liveness" => at \in 0..Len(code)
  /\ phase = "accumulate" => at \in 2..Len(code)
  /\ phase = "prefer" => at \in 1..Len(code)
  /\ phase = "allocate" => at \in 0..program.vars
  /\ changed \in BOOLEAN

\* A sweep that has changed nothing yet has found nothing wrong behind its place.
Swept == phase = "liveness" /\ ~changed =>
           \A i \in 1..Len(code) : i > at => LiveIn(i) \subseteq live[i]

\* Liveness has come to a fixed point when it ends.
LiveEnough == phase = "accumulate" /\ at = 2 =>
                \A i \in 1..Len(code) : LiveIn(i) \subseteq live[i]

\* The registers given so far.
Given == alloc \in [Vars -> [tag : Files \cup {"NONE"}, id : Nat]]

IInv == Shape /\ Swept /\ LiveEnough /\ Given /\ AllocatedApart

----------------------------------------------------------------------------
\* Replacing a variable by an accumulator adds no variable to an instruction.
LEMMA RenamedUses ==
  ASSUME NEW instr \in Instructions, NEW old
  PROVE  /\ RenameUses(instr, old, Acc(1)) \in Instructions
         /\ Uses(RenameUses(instr, old, Acc(1))) \subseteq Uses(instr)
         /\ Defs(RenameUses(instr, old, Acc(1))) \subseteq Defs(instr)
<1> DEFINE new == RenameUses(instr, old, Acc(1))
<1>1. Acc(1) \in Operands /\ Acc(1).tag = "ACC"
  BY DEF Acc, Operand, Operands
<1>2. /\ new \in Instructions
      /\ new.tag = instr.tag /\ new.cond = instr.cond /\ new.dest = instr.dest
      /\ new.srcA \in {instr.srcA, Acc(1)} /\ new.srcB \in {instr.srcB, Acc(1)}
  BY <1>1 DEF RenameUses, Replace, Instructions
<1>3. UsesReg(new) \subseteq UsesReg(instr) \cup {Acc(1)}
  BY <1>2 DEF UsesReg, Sources
<1>4. DefsReg(new) \subseteq DefsReg(instr)
  BY <1>2 DEF DefsReg
<1> QED
  BY <1>1, <1>2, <1>3, <1>4 DEF Uses, Defs, VarsIn

LEMMA RenamedDest ==
  ASSUME NEW instr \in Instructions, NEW old, instr.cond = "ALWAYS"
  PROVE  /\ RenameDest(instr, old, Acc(1)) \in Instructions
         /\ Uses(RenameDest(instr, old, Acc(1))) \subseteq Uses(instr)
         /\ Defs(RenameDest(instr, old, Acc(1))) \subseteq Defs(instr)
<1> DEFINE new == RenameDest(instr, old, Acc(1))
<1>1. Acc(1) \in Operands /\ Acc(1).tag = "ACC"
  BY DEF Acc, Operand, Operands
<1>2. /\ new \in Instructions
      /\ new.tag = instr.tag /\ new.cond = instr.cond
      /\ new.srcA = instr.srcA /\ new.srcB = instr.srcB
      /\ new.dest \in {instr.dest, Acc(1)}
  BY <1>1 DEF RenameDest, Replace, Instructions
<1>3. UsesReg(new) \subseteq UsesReg(instr)
  BY <1>2 DEF UsesReg, Sources
<1>4. DefsReg(new) \subseteq DefsReg(instr) \cup {Acc(1)}
  BY <1>2 DEF DefsReg
<1> QED
  BY <1>1, <1>2, <1>3, <1>4 DEF Uses, Defs, VarsIn

\* What is live is a set of variables.
LEMMA LiveVars ==
  ASSUME Shape, phase \in Analysis, NEW i \in 1..Len(code)
  PROVE  LiveOut(i) \subseteq Vars /\ LiveIn(i) \subseteq Vars
<1>1. Succs(i) \subseteq 1..Len(code)
  BY DEF Succs, FallsThrough, Labelled, Shape, Known
<1>2. LiveOut(i) \subseteq Vars
  BY <1>1 DEF LiveOut, Shape, Known
<1> QED
  BY <1>2 DEF LiveIn, Shape, Known

----------------------------------------------------------------------------
\* The variables in any place of an instruction.
Mentions(instr) == VarsIn({instr.dest, instr.srcA, instr.srcB})

LEMMA Mentioned ==
  ASSUME NEW instr
  PROVE  Uses(instr) \cup Defs(instr) \subseteq Mentions(instr)
BY DEF Uses, Defs, Mentions, VarsIn, UsesReg, DefsReg, Sources

\* An operation on two immediates.
NoRegister(instr) == instr.tag = "ALU" /\ instr.srcA.tag = "IMM" /\ instr.srcB.tag = "IMM"

\* What translateStmt returns.
LEMMA SourceCode ==
  ASSUME NEW p \in Programs
  PROVE  /\ p.code \in Seq(Instructions) /\ Len(p.code) > 1 /\ p.vars \in Nat /\ p.vars > 0
         /\ p.code[Len(p.code)].tag = "END"
         /\ \A i \in 1..Len(p.code) :
              /\ Mentions(p.code[i]) \subseteq 0..(p.vars - 1)
              /\ p.code[i].tag # "BR"
              /\ p.code[i].tag = "BRL" =>
                   \E j \in 1..Len(p.code) : /\ p.code[j].tag = "LAB"
                                             /\ p.code[j].label = p.code[i].label
              /\ ~NoRegister(p.code[i])
<1>1. /\ p.code \in Seq(Instructions) /\ Len(p.code) > 1 /\ p.vars \in Nat /\ p.vars > 0
      /\ p.code[Len(p.code)].tag = "END"
  BY ProgramAssumption
<1>2. DOMAIN p.code = 1..Len(p.code)
  BY <1>1
<1>3. ASSUME NEW i \in 1..Len(p.code)
      PROVE  /\ Mentions(p.code[i]) \subseteq 0..(p.vars - 1)
             /\ p.code[i].tag # "BR"
             /\ p.code[i].tag = "BRL" =>
                  \E j \in 1..Len(p.code) : /\ p.code[j].tag = "LAB"
                                            /\ p.code[j].label = p.code[i].label
             /\ ~NoRegister(p.code[i])
  <2> DEFINE instr == p.code[i]
  <2>1. /\ VarsIn({instr.dest, instr.srcA, instr.srcB}) \subseteq 0..(p.vars - 1)
        /\ instr.tag # "BR"
        /\ instr.tag = "BRL" => \E j \in DOMAIN p.code : p.code[j] = LAB(instr.label)
        /\ instr.tag = "ALU" => {instr.srcA.tag, instr.srcB.tag} # {"IMM"}
    BY <1>2, ProgramAssumption, Zenon
  <2>2. Mentions(instr) \subseteq 0..(p.vars - 1)
    BY <2>1, Zenon DEF Mentions
  <2>3. \A n : LAB(n).tag = "LAB" /\ LAB(n).label = n
    BY DEF LAB, nop
  <2>4. instr.tag = "BRL" => \E j \in 1..Len(p.code) : /\ p.code[j].tag = "LAB"
                                                       /\ p.code[j].label = instr.label
    BY <1>2, <2>1, <2>3, Zenon
  <2>5. ~NoRegister(instr)
    BY <2>1 DEF NoRegister
  <2> QED
    BY <2>1, <2>2, <2>4, <2>5
<1> QED
  BY <1>1, <1>3

LEMMA InitIInv == Init => IInv
<1> SUFFICES ASSUME Init PROVE IInv
  OBVIOUS
<1> USE ProgramAssumption
<1>1. Shape
  <2>1. /\ program \in Programs /\ phase = "liveness" /\ code = program.code
        /\ code \in Seq(Instructions) /\ at = Len(code) /\ changed = FALSE
    BY DEF Init
  <2>2. ASSUME NEW j \in 1..Len(code) PROVE Uses(code[j]) \cup Defs(code[j]) \subseteq Vars
    <3>1. Mentions(code[j]) \subseteq Vars
      BY <2>1, SourceCode DEF Vars
    <3> QED
      BY <3>1, Mentioned
  <2>3. live \in [1..Len(code) -> SUBSET Vars]
    BY <2>1 DEF Init
  <2>4. Known
    BY <2>1, <2>2, <2>3 DEF Known
  <2>5. at \in 0..Len(code)
    BY <2>1
  <2> QED
    BY <2>1, <2>4, <2>5 DEF Shape, Phases
<1>2. Swept
  BY DEF Init, Swept
<1>3. LiveEnough
  BY DEF Init, LiveEnough
<1>4. Given
  BY DEF Init, Given, None, Operand
<1>5. AllocatedApart
  BY DEF Init, AllocatedApart
<1> QED
  BY <1>1, <1>2, <1>3, <1>4, <1>5 DEF IInv

\* Steps that leave the code, what is live and the registers alone.
LEMMA SameLive ==
  ASSUME code' = code, live' = live, NEW i
  PROVE  LiveIn(i)' = LiveIn(i) /\ LiveOut(i)' = LiveOut(i)
BY DEF LiveIn, LiveOut, Succs, FallsThrough, Labelled

LEMMA PropagateIInv == IInv /\ Propagate => IInv'
<1> SUFFICES ASSUME IInv, Propagate PROVE IInv'
  OBVIOUS
<1> USE DEF IInv, Propagate
<1>1. /\ phase = "liveness" /\ phase' = phase /\ code' = code /\ program' = program
      /\ at \in 1..Len(code) /\ at' = at - 1
  BY DEF Shape
<1>2. LiveIn(at) \subseteq Vars
  BY <1>1, LiveVars DEF Analysis
<1>3. Shape'
  BY <1>1, <1>2 DEF Shape, Known, Analysis, Vars, allocVars
<1>4. Swept'
  <2> SUFFICES ASSUME ~changed', NEW i \in 1..Len(code), i > at'
               PROVE  LiveIn(i)' \subseteq live'[i]
    BY <1>1 DEF Swept
  <2>1. ~changed /\ LiveIn(at) \subseteq live[at]
    OBVIOUS
  <2>2. live' = live
    BY <2>1, <1>1 DEF Shape, Known, Analysis
  <2>3. LiveIn(i)' = LiveIn(i)
    BY <2>2, <1>1, SameLive
  <2>4. i = at \/ i > at
    BY <1>1
  <2> QED
    BY <2>1, <2>2, <2>3, <2>4, <1>1 DEF Swept
<1>5. LiveEnough' /\ AllocatedApart'
  BY <1>1 DEF LiveEnough, AllocatedApart
<1>6. Given'
  BY <1>1 DEF Given, Vars
<1> QED
  BY <1>3, <1>4, <1>5, <1>6

LEMMA SweepEndsIInv == IInv /\ SweepEnds => IInv'
<1> SUFFICES ASSUME IInv, SweepEnds PROVE IInv'
  OBVIOUS
<1> USE DEF IInv, SweepEnds
<1>1. /\ phase = "liveness" /\ at = 0 /\ code' = code /\ live' = live /\ program' = program
      /\ changed' = FALSE /\ alloc' = alloc
  OBVIOUS
<1>2. Len(code) \in Nat /\ Len(code) > 1
  BY <1>1, ProgramAssumption DEF Shape
<1>3. Shape'
  <2>1. Known
    BY <1>1 DEF Shape, Analysis
  <2>2. Known'
    BY <1>1, <2>1 DEF Known, Vars
  <2>3. \/ phase' = "liveness" /\ at' = Len(code')
        \/ phase' = "accumulate" /\ at' = 2
    BY <1>1
  <2>4. program' \in Programs /\ code' = program'.code /\ Len(code') \in Nat /\ Len(code') > 1
    BY <1>1, <1>2 DEF Shape
  <2>5. (changed \in BOOLEAN)'
    BY <1>1
  <2> HIDE DEF IInv, SweepEnds
  <2> QED
    BY <2>2, <2>3, <2>4, <2>5 DEF Shape, Phases
<1>4. Swept'
  BY <1>1, <1>2 DEF Swept, Shape
<1>5. LiveEnough'
  <2> SUFFICES ASSUME phase' = "accumulate", NEW i \in 1..Len(code)
               PROVE  LiveIn(i)' \subseteq live'[i]
    BY <1>1 DEF LiveEnough
  <2>1. ~changed
    BY <1>1
  <2>2. LiveIn(i) \subseteq live[i]
    BY <1>1, <2>1 DEF Swept
  <2> QED
    BY <2>2, <1>1, SameLive
<1>6. Given' /\ AllocatedApart'
  BY <1>1 DEF Given, Vars, AllocatedApart
<1> QED
  BY <1>3, <1>4, <1>5, <1>6

LEMMA IntroduceAccumIInv == IInv /\ IntroduceAccum => IInv'
<1> SUFFICES ASSUME IInv, IntroduceAccum PROVE IInv'
  OBVIOUS
<1> USE DEF IInv
<1>1. /\ phase = "accumulate" /\ program' = program /\ live' = live /\ changed' = changed
      /\ alloc' = alloc /\ Vars' = Vars
  BY DEF IntroduceAccum, allocVars, Vars
<1>2. /\ at \in 2..Len(code) /\ code \in Seq(Instructions)
      /\ \A i \in 1..Len(code) : Uses(code[i]) \cup Defs(code[i]) \subseteq Vars
  BY <1>1 DEF Shape, Known, Analysis
<1>3. /\ phase' \in {"accumulate", "prefer"}
      /\ phase' = "accumulate" => at' \in 3..Len(code)
      /\ phase' = "prefer" => at' = 1
  BY <1>1, <1>2 DEF IntroduceAccum, Advance
<1>4. /\ code' \in Seq(Instructions) /\ Len(code') = Len(code)
      /\ \A i \in 1..Len(code) : /\ Uses(code'[i]) \subseteq Uses(code[i])
                                 /\ Defs(code'[i]) \subseteq Defs(code[i])
  <2> DEFINE old == code[at - 1].dest
  <2>1. CASE code' = code
    BY <2>1, <1>2
  <2>2. CASE /\ code[at - 1].cond = "ALWAYS"
             /\ code' = [code EXCEPT ![at - 1] = RenameDest(@, old, Acc(1)),
                                     ![at] = RenameUses(@, old, Acc(1))]
    <3>1. at - 1 \in 1..Len(code) /\ at \in 1..Len(code) /\ at # at - 1
      BY <1>2
    <3>2. /\ code'[at - 1] = RenameDest(code[at - 1], old, Acc(1))
          /\ code'[at] = RenameUses(code[at], old, Acc(1))
          /\ \A i \in 1..Len(code) : i \notin {at - 1, at} => code'[i] = code[i]
          /\ DOMAIN code' = 1..Len(code)
      BY <2>2, <3>1, <1>2
    <3>3. code[at - 1] \in Instructions /\ code[at] \in Instructions
      BY <3>1, <1>2
    <3>4. /\ code'[at - 1] \in Instructions
          /\ Uses(code'[at - 1]) \subseteq Uses(code[at - 1])
          /\ Defs(code'[at - 1]) \subseteq Defs(code[at - 1])
      BY <2>2, <3>2, <3>3, RenamedDest
    <3>5. /\ code'[at] \in Instructions
          /\ Uses(code'[at]) \subseteq Uses(code[at])
          /\ Defs(code'[at]) \subseteq Defs(code[at])
      BY <3>2, <3>3, RenamedUses
    <3>6. \A i \in 1..Len(code) : /\ code'[i] \in Instructions
                                  /\ Uses(code'[i]) \subseteq Uses(code[i])
                                  /\ Defs(code'[i]) \subseteq Defs(code[i])
      BY <3>2, <3>4, <3>5, <1>2
    <3>7. code' \in [1..Len(code) -> Instructions]
      BY <2>2, <3>2, <3>6
    <3> QED
      BY <3>6, <3>7, <1>2
  <2> QED
    BY <2>1, <2>2 DEF IntroduceAccum
<1>5. Shape'
  <2>1. Known' /\ Shape
    BY <1>1, <1>2, <1>4 DEF Shape, Analysis, Known
  <2>2. Len(code') = Len(code) /\ Len(code) \in Nat /\ Len(code) > 1
    BY <1>2, <1>4
  <2> QED
    BY <1>1, <1>3, <2>1, <2>2 DEF Shape, Phases
<1>6. Swept' /\ LiveEnough' /\ AllocatedApart'
  BY <1>3 DEF Swept, LiveEnough, AllocatedApart
<1>7. Given'
  BY <1>1 DEF Given
<1> QED
  BY <1>5, <1>6, <1>7

LEMMA PreferIInv == IInv /\ Prefer => IInv'
<1> SUFFICES ASSUME IInv, Prefer PROVE IInv'
  OBVIOUS
<1> USE DEF IInv
<1>1. /\ phase = "prefer" /\ program' = program /\ code' = code /\ live' = live
      /\ changed' = changed /\ alloc' = alloc /\ Vars' = Vars
  BY DEF Prefer, Vars
<1>2. Known /\ at \in 1..Len(code) /\ Len(code) \in Nat
  BY <1>1 DEF Shape, Known, Analysis
<1>3. Known'
  BY <1>1, <1>2 DEF Known
<1>4. \/ phase' = "prefer" /\ at' \in 1..Len(code')
      \/ phase' = "allocate" /\ at' = 0
  BY <1>1, <1>2 DEF Prefer, Advance
<1>5. program.vars \in Nat
  BY ProgramAssumption DEF Shape
<1>6. Shape'
  BY <1>1, <1>3, <1>4, <1>5 DEF Shape, Phases
<1>7. Swept' /\ LiveEnough'
  BY <1>4 DEF Swept, LiveEnough
<1>8. AllocatedApart'
  <2> SUFFICES ASSUME at' = 0, NEW i \in 1..Len(code),
                      NEW x \in LiveOut(i)', NEW y \in (LiveOut(i) \cup Defs(code[i]))',
                      x # y, x < at', y < at'
               PROVE  FALSE
    BY <1>1, <1>2, <1>4 DEF AllocatedApart, Known
  <2>1. x \in Vars
    BY <1>1, <1>2, SameLive, LiveVars DEF Analysis
  <2> QED
    BY <2>1, <1>5 DEF Vars
<1>9. Given'
  BY <1>1 DEF Given
<1> QED
  BY <1>6, <1>7, <1>8, <1>9

----------------------------------------------------------------------------
\* The register a variable gets is none that one it meets has got.
LEMMA ChosenIsPossible ==
  ASSUME NEW x, \E file \in Files : Possible(file, x) # {}
  PROVE  ChosenRegFile(x) \in Files /\ Possible(ChosenRegFile(x), x) # {}
<1>1. Possible("REG_A", x) # {} \/ Possible("REG_B", x) # {}
  BY DEF Files
<1>2. ASSUME Possible("REG_A", x) = {} PROVE ChosenRegFile(x) = "REG_B"
  BY <1>2, Zenon DEF ChosenRegFile
<1>3. ASSUME Possible("REG_A", x) # {}, Possible("REG_B", x) = {}
      PROVE  ChosenRegFile(x) = "REG_A"
  BY <1>3, Zenon DEF ChosenRegFile
<1>4. ASSUME Possible("REG_A", x) # {}, Possible("REG_B", x) # {}
      PROVE  ChosenRegFile(x) \in Files
  <2>1. OtherFile(lastFile) \in Files
    BY DEF OtherFile, Files
  <2>2. ChosenRegFile(x) \in {"REG_A", "REG_B", OtherFile(lastFile)}
    BY <1>4, Zenon DEF ChosenRegFile
  <2> QED
    BY <2>1, <2>2 DEF Files
<1> QED
  BY <1>1, <1>2, <1>3, <1>4 DEF Files

LEMMA AllocateIInv == IInv /\ Allocate => IInv'
<1> SUFFICES ASSUME IInv, Allocate PROVE IInv'
  OBVIOUS
<1> USE DEF IInv
<1>1. /\ phase = "allocate" /\ phase' = phase /\ program' = program /\ code' = code
      /\ live' = live /\ changed' = changed /\ at < program.vars /\ at' = at + 1 /\ Vars' = Vars
  BY DEF Allocate, Vars
<1>2. Known /\ at \in 0..program.vars /\ program.vars \in Nat
  BY <1>1, ProgramAssumption DEF Shape, Analysis
<1>3. Known'
  BY <1>1, <1>2 DEF Known
<1>4. Shape'
  BY <1>1, <1>2, <1>3 DEF Shape, Phases
<1>5. PICK file \in Files, r \in RegIds :
        r \in Possible(file, at) /\ alloc' = [alloc EXCEPT ![at] = Operand(file, r)]
  BY ChosenIsPossible DEF Allocate, Possible
<1>6. at \in Vars /\ r \in RegIds
  BY <1>1, <1>2, <1>5 DEF Vars, Possible
<1>7. Given'
  <2>1. Operand(file, r) \in [tag : Files \cup {"NONE"}, id : Nat]
    BY <1>5, <1>6, ProgramAssumption DEF Operand, RegIds
  <2> QED
    BY <1>1, <1>5, <1>6, <2>1 DEF Given
<1>8. \A y \in LiveWith(at) : alloc[y] # Operand(file, r)
  BY <1>5 DEF Possible
<1>9. AllocatedApart'
  <2> SUFFICES ASSUME NEW i \in 1..Len(code),
                      NEW x \in LiveOut(i), NEW y \in LiveOut(i) \cup Defs(code[i]),
                      x # y, x < at + 1, y < at + 1
               PROVE  alloc'[x] # alloc'[y]
    BY <1>1, <1>2, SameLive DEF AllocatedApart, Known
  <2>1. x \in Vars /\ y \in Vars
    BY <1>1, <1>2, LiveVars DEF Analysis, Known
  <2>2. Meet(i, x, y) /\ Meet(i, y, x)
    BY DEF Meet
  <2>3. y \in LiveWith(x) /\ x \in LiveWith(y)
    BY <2>1, <2>2, <1>2 DEF LiveWith, Known
  <2>4. CASE x = at
    BY <2>1, <2>3, <2>4, <1>5, <1>6, <1>8 DEF Given
  <2>5. CASE y = at
    BY <2>1, <2>3, <2>5, <1>5, <1>6, <1>8 DEF Given
  <2>6. CASE x # at /\ y # at
    <3>1. x < at /\ y < at
      BY <2>1, <2>6, <1>2 DEF Vars
    <3>2. alloc[x] # alloc[y]
      BY <3>1, <1>1, <1>2 DEF AllocatedApart, Known
    <3> QED
      BY <3>2, <2>1, <2>6, <1>5 DEF Given
  <2> QED
    BY <2>4, <2>5, <2>6
<1>10. Swept' /\ LiveEnough'
  BY <1>1 DEF Swept, LiveEnough
<1> QED
  BY <1>4, <1>7, <1>9, <1>10

\* The phases behind the allocation.
LEMMA LaterIInv ==
  ASSUME IInv, program' = program, changed' = changed, alloc' = alloc,
         phase' \in Phases \ Analysis
  PROVE  IInv'
<1>1. Shape'
  BY DEF IInv, Shape, Analysis
<1>2. Given'
  BY DEF IInv, Given, Vars
<1>3. Swept' /\ LiveEnough' /\ AllocatedApart'
  BY DEF Swept, LiveEnough, AllocatedApart, Analysis
<1> QED
  BY <1>1, <1>2, <1>3 DEF IInv

LEMMA StepIInv == IInv /\ [Next]_vars => IInv'
<1> SUFFICES ASSUME IInv, [Next]_vars PROVE IInv'
  OBVIOUS
<1> USE DEF allocVars, runVars
<1>1. CASE Propagate
  BY <1>1, PropagateIInv
<1>2. CASE SweepEnds
  BY <1>2, SweepEndsIInv
<1>3. CASE IntroduceAccum
  BY <1>3, IntroduceAccumIInv
<1>4. CASE Prefer
  BY <1>4, PreferIInv
<1>5. CASE Allocate
  BY <1>5, AllocateIInv
<1>6. CASE OutOfRegisters
  BY <1>6, LaterIInv DEF OutOfRegisters, Phases, Analysis
<1>7. CASE Apply
  BY <1>7, LaterIInv DEF Apply, Phases, Analysis
<1>8. CASE InsertMoves
  BY <1>8, LaterIInv DEF InsertMoves, Rewrite, Advance, Phases, Analysis
<1>9. CASE InsertNops
  BY <1>9, LaterIInv DEF InsertNops, Rewrite, Advance, Phases, Analysis
<1>10. CASE RemoveLabels
  BY <1>10, LaterIInv DEF RemoveLabels, Phases, Analysis
<1>11. CASE Encode
  BY <1>11, LaterIInv DEF Encode, Phases, Analysis
<1>12. CASE Step
  BY <1>12, LaterIInv DEF Step, Phases, Analysis
<1>13. CASE Halt
  BY <1>13, LaterIInv DEF Halt, Phases, Analysis
<1>14. CASE UNCHANGED vars
  <2>1. /\ Known' = Known /\ Vars' = Vars /\ Phases' = Phases
        /\ \A i : LiveIn(i)' = LiveIn(i) /\ LiveOut(i)' = LiveOut(i)
    BY <1>14, SameLive DEF vars, Known, Vars
  <2> QED
    BY <1>14, <2>1 DEF vars, IInv, Shape, Swept, LiveEnough, Given, AllocatedApart
<1> QED
  BY <1>1, <1>2, <1>3, <1>4, <1>5, <1>6, <1>7, <1>8, <1>9, <1>10, <1>11, <1>12, <1>13, <1>14
  DEF Next

LEMMA Invariance == Spec => []IInv
BY InitIInv, StepIInv, PTL DEF Spec

----------------------------------------------------------------------------
\* Whatever the program and however few the registers, two variables of which one is
\* needed while the other is written or needed never share a register (RegAlloc.cpp,
\* lines 111 to 180, with the live sets that Liveness.cpp has found).
THEOREM RegistersApart == Spec => []AllocatedApart
BY Invariance, PTL DEF IInv

\* The sweeps over the code end with live sets that no further sweep would change, in
\* whatever order loops and branches connect the instructions (Liveness.cpp, line 172):
\* every variable an instruction or one of its successors needs is known to be live.
THEOREM LivenessIsFixed == Spec => []LiveEnough
BY Invariance, PTL DEF IInv

----------------------------------------------------------------------------
(***************************************************************************)
(* Types, what the encoder accepts, and where the QPU gets to.             *)
(***************************************************************************)

\* Nothing is refused but what Encodable names.
Accepted(c) == \/ \E k \in 1..Len(c) : RotatedByRegister(c[k])
               \/ \A k \in 1..Len(c) : Encodes(c[k]) \/ MissedConflict(c[k])

\* Every branch has its label, and none is linked yet.
Closed(c) == \A k \in 1..Len(c) :
               /\ c[k].tag # "BR"
               /\ c[k].tag = "BRL" =>
                    \E j \in 1..Len(c) : c[j].tag = "LAB" /\ c[j].label = c[k].label

LastIsEnd(c) == Len(c) > 0 /\ c[Len(c)].tag = "END"

\* The delay slots of a branch.
Idle(c, k) == k + 3 <= Len(c) /\ \A d \in 1..3 : c[k + d].tag = "NO_OP"

Slotted(c) == \A k \in 1..Len(c) : c[k].tag = "BRL" => Idle(c, k)

Ended(c, e) == /\ e \in 1..Len(c) /\ c[e].tag = "END"
               /\ \A k \in 1..Len(c) : k > e => c[k].tag = "NO_OP"

\* Every branch leads to an instruction, none behind the end.
Bounded(c, e) == \A k \in 1..Len(c) :
                   c[k].tag = "BR" => k + 4 + c[k].label \in 1..e /\ k < e /\ Idle(c, k)

\* What a pass has done with the first n instructions of c: s has all of them but those
\* with a tag in lost, and besides them only instructions with a tag in new.
Rewritten(s, c, n, new, lost) ==
  /\ \A k \in 1..Len(s) : s[k].tag \in new \/ \E j \in 1..Len(c) : s[k] = c[j]
  /\ \A j \in 1..n : c[j].tag \notin lost => \E k \in 1..Len(s) : s[k] = c[j]

Typed == /\ code \in Seq(Instructions)
         /\ out \in Seq(Instructions)
         /\ at \in Nat
         /\ live \in [1..Len(program.code) -> SUBSET Vars]
         /\ prefer \in [Files -> [Vars -> Nat]]
         /\ lastFile \in Files

\* Up to the allocation, the instructions are those of the program with other operands.
Before == /\ phase \in Analysis \cup {"moves"} =>
               /\ Len(code) = Len(program.code)
               /\ \A i \in 1..Len(code) : /\ code[i].tag = program.code[i].tag
                                          /\ code[i].label = program.code[i].label
                                          /\ ~NoRegister(code[i])
          /\ phase \in Analysis =>
               out = <<>> /\ \A i \in 1..Len(code) : Mentions(code[i]) \subseteq Vars

Moving == phase = "moves" =>
            /\ at \in 1..Len(code)
            /\ Rewritten(out, code, at - 1, {"ALU", "NO_OP"}, {"ALU"})
            /\ Accepted(out)

Padding == phase = "nops" =>
             /\ at \in 1..Len(code)
             /\ Rewritten(out, code, at - 1, {"NO_OP"}, {})
             /\ Closed(code) /\ LastIsEnd(code) /\ Accepted(code)
             /\ Slotted(out)

Linking == phase = "link" => /\ Closed(code) /\ Accepted(code) /\ Slotted(code)
                             /\ \E e \in 1..Len(code) : Ended(code, e)

\* The QPU is on its way to the end, through the delay slots of a branch or not.
OnTrack(e) == /\ qpu.pc \in 1..e
              /\ qpu.slots \in 0..3
              /\ qpu.slots > 0 =>
                   /\ qpu.target \in 1..e
                   /\ \A d \in 0..2 : d < qpu.slots => code[qpu.pc + d].tag = "NO_OP"

Running == /\ {"pc", "slots", "target"} \subseteq DOMAIN qpu
           /\ phase \in {"encode", "run", "halted", "aborted"} => Accepted(code)
           /\ phase = "aborted" => \E k \in 1..Len(code) : ~Encodes(code[k])
           /\ phase \notin {"run", "halted", "aborted"} => qpu.pc = 1 /\ qpu.slots = 0
           /\ phase \in {"encode", "run"} =>
                \E e \in 1..Len(code) : Ended(code, e) /\ Bounded(code, e) /\ OnTrack(e)

FlowInv == Typed /\ Before /\ Moving /\ Padding /\ Linking /\ Running

----------------------------------------------------------------------------
\* Sequences of instructions one behind the other.
LEMMA Joined ==
  ASSUME NEW s \in Seq(Instructions), NEW t \in Seq(Instructions)
  PROVE  /\ s \o t \in Seq(Instructions) /\ Len(s \o t) = Len(s) + Len(t)
         /\ Len(s) \in Nat /\ Len(t) \in Nat
         /\ \A i \in 1..Len(s) : (s \o t)[i] = s[i]
         /\ \A j \in 1..Len(t) : (s \o t)[Len(s) + j] = t[j]
OBVIOUS

LEMMA JoinedFrom ==
  ASSUME NEW s \in Seq(Instructions), NEW t \in Seq(Instructions), NEW k \in 1..Len(s \o t)
  PROVE  \/ k \in 1..Len(s) /\ (s \o t)[k] = s[k]
         \/ \E j \in 1..Len(t) : k = Len(s) + j /\ (s \o t)[k] = t[j]
<1>1. CASE k <= Len(s)
  BY <1>1, Joined
<1>2. CASE ~(k <= Len(s))
  <2>1. k - Len(s) \in 1..Len(t) /\ k = Len(s) + (k - Len(s))
    BY <1>2, Joined
  <2> QED
    BY <2>1, Joined
<1> QED
  BY <1>1, <1>2

LEMMA JoinedTo ==
  ASSUME NEW s \in Seq(Instructions), NEW t \in Seq(Instructions)
  PROVE  /\ \A k \in 1..Len(s) : k \in 1..Len(s \o t) /\ (s \o t)[k] = s[k]
         /\ \A k \in 1..Len(t) : /\ Len(s) + k \in 1..Len(s \o t)
                                 /\ (s \o t)[Len(s) + k] = t[k]
BY Joined

LEMMA JoinedAccepted ==
  ASSUME NEW s \in Seq(Instructions), NEW t \in Seq(Instructions), Accepted(s), Accepted(t)
  PROVE  Accepted(s \o t)
<1> DEFINE c == s \o t
<1> SUFFICES Accepted(c)
  OBVIOUS
<1>1. /\ \A k \in 1..Len(s) : k \in 1..Len(c) /\ c[k] = s[k]
      /\ \A k \in 1..Len(t) : Len(s) + k \in 1..Len(c) /\ c[Len(s) + k] = t[k]
  BY JoinedTo
<1>2. \A k \in 1..Len(c) : \/ k \in 1..Len(s) /\ c[k] = s[k]
                           \/ \E j \in 1..Len(t) : k = Len(s) + j /\ c[k] = t[j]
  BY JoinedFrom
<1> HIDE DEF c
<1>3. CASE \E k \in 1..Len(s) : RotatedByRegister(s[k])
  BY <1>1, <1>3 DEF Accepted
<1>4. CASE \E k \in 1..Len(t) : RotatedByRegister(t[k])
  <2>1. PICK k \in 1..Len(t) : RotatedByRegister(t[k])
    BY <1>4
  <2>2. Len(s) + k \in 1..Len(c) /\ c[Len(s) + k] = t[k]
    BY <1>1
  <2>3. \E i \in 1..Len(c) : c[i] = t[k]
    BY <2>2
  <2>4. PICK i \in 1..Len(c) : c[i] = t[k]
    BY <2>3
  <2>5. RotatedByRegister(c[i])
    BY <2>1, <2>4
  <2> QED
    BY <2>4, <2>5 DEF Accepted
<1>5. CASE /\ ~ \E k \in 1..Len(s) : RotatedByRegister(s[k])
           /\ ~ \E k \in 1..Len(t) : RotatedByRegister(t[k])
  BY <1>2, <1>5 DEF Accepted
<1> QED
  BY <1>3, <1>4, <1>5 DEF c

LEMMA JoinedSlotted ==
  ASSUME NEW s \in Seq(Instructions), NEW t \in Seq(Instructions), Slotted(s), Slotted(t)
  PROVE  Slotted(s \o t)
<1> DEFINE c == s \o t
<1> SUFFICES ASSUME NEW k \in 1..Len(c), c[k].tag = "BRL" PROVE Idle(c, k)
  BY DEF Slotted
<1>1. /\ \A i \in 1..Len(s) : c[i] = s[i]
      /\ \A j \in 1..Len(t) : c[Len(s) + j] = t[j]
      /\ Len(c) = Len(s) + Len(t) /\ Len(s) \in Nat /\ Len(t) \in Nat
  BY Joined
<1>2. CASE k \in 1..Len(s) /\ c[k] = s[k]
  <2>1. Idle(s, k)
    BY <1>2 DEF Slotted
  <2> HIDE DEF c
  <2>2. \A d \in 1..3 : k + d \in 1..Len(s) /\ c[k + d] = s[k + d]
    <3> TAKE d \in 1..3
    <3>1. k + d \in 1..Len(s)
      BY <1>1, <1>2, <2>1 DEF Idle
    <3> QED
      BY <1>1, <3>1
  <2> QED
    BY <1>1, <1>2, <2>1, <2>2 DEF Idle
<1>3. CASE \E j \in 1..Len(t) : k = Len(s) + j /\ c[k] = t[j]
  <2>1. PICK j \in 1..Len(t) : k = Len(s) + j /\ c[k] = t[j]
    BY <1>3
  <2>2. Idle(t, j)
    BY <2>1 DEF Slotted
  <2> HIDE DEF c
  <2>3. \A d \in 1..3 : j + d \in 1..Len(t) /\ c[k + d] = t[j + d]
    <3> TAKE d \in 1..3
    <3>1. j + d \in 1..Len(t) /\ k + d = Len(s) + (j + d)
      BY <1>1, <2>1, <2>2 DEF Idle
    <3> QED
      BY <1>1, <3>1
  <2> QED
    BY <1>1, <2>1, <2>2, <2>3 DEF Idle
<1> QED
  BY <1>2, <1>3, JoinedFrom

----------------------------------------------------------------------------
LEMMA nopIs == nop \in Instructions /\ nop.tag = "NO_OP" /\ Encodes(nop)
<1>1. nop \in Instructions /\ nop.tag = "NO_OP"
  BY DEF nop, Instructions, None, Operand, Operands
<1> QED
  BY <1>1 DEF Encodes

\* What insertMoves puts for an instruction.
LEMMA MovesAre ==
  ASSUME NEW dest \in Operands, NEW src \in Operands
  PROVE  /\ Move(FALSE, "ALWAYS", dest, src) \in Instructions
         /\ Move(FALSE, "ALWAYS", dest, src).tag = "ALU"
         /\ src.tag # "IMM" => Encodes(Move(FALSE, "ALWAYS", dest, src))
<1> DEFINE m == Move(FALSE, "ALWAYS", dest, src)
<1>1. m \in Instructions /\ m.tag = "ALU" /\ m.op = "BOR" /\ m.srcA = src /\ m.srcB = src
  BY nopIs DEF Move, ALU, Instructions
<1>2. src.tag # "IMM" => Encodes(m)
  <2> HIDE DEF m
  <2> QED
    BY <1>1 DEF Encodes
<1> QED
  BY <1>1, <1>2

LEMMA AccIs ==
  ASSUME NEW n \in Int
  PROVE  Acc(n) \in Operands /\ Acc(n).tag = "ACC" /\ Acc(n).id = n /\ RegFileOf(Acc(n)) = "NONE"
<1>1. Acc(n) \in Operands /\ Acc(n).tag = "ACC" /\ Acc(n).id = n
  BY DEF Acc, Operand, Operands
<1>2. Acc(n) # ElemNum /\ Acc(n) # QpuNum
  BY DEF Acc, Operand, ElemNum, QpuNum
<1> QED
  BY <1>1, <1>2 DEF RegFileOf

LEMMA FileOf ==
  ASSUME NEW r
  PROVE  /\ r.tag \in {"REG_A", "REG_B"} => RegFileOf(r) = r.tag
         /\ r.tag \in {"IMM", "ACC"} => RegFileOf(r) = "NONE"
         /\ RegFileOf(r) # "NONE" => r.tag \in {"REG_A", "REG_B"} \/ r \in {ElemNum, QpuNum}
<1>1. ElemNum.tag = "SPECIAL" /\ QpuNum.tag = "SPECIAL"
  BY DEF ElemNum, QpuNum, Operand
<1>2. r.tag \in {"REG_A", "REG_B"} => r # ElemNum /\ r # QpuNum
  BY <1>1
<1>3. r.tag \in {"IMM", "ACC"} => r # ElemNum /\ r # QpuNum
  BY <1>1
<1> QED
  BY <1>2, <1>3 DEF RegFileOf

\* Another operand in an instruction.
LEMMA Operated ==
  ASSUME NEW instr \in Instructions, NEW r \in Operands
  PROVE  /\ [instr EXCEPT !.srcA = r] \in Instructions
         /\ [instr EXCEPT !.srcA = r].tag = instr.tag /\ [instr EXCEPT !.srcA = r].op = instr.op
         /\ [instr EXCEPT !.srcA = r].srcA = r
         /\ [instr EXCEPT !.srcA = r].srcB = instr.srcB
         /\ [instr EXCEPT !.srcB = r] \in Instructions
         /\ [instr EXCEPT !.srcB = r].tag = instr.tag /\ [instr EXCEPT !.srcB = r].op = instr.op
         /\ [instr EXCEPT !.srcB = r].srcA = instr.srcA
         /\ [instr EXCEPT !.srcB = r].srcB = r
         /\ instr.srcA \in Operands /\ instr.srcB \in Operands
BY DEF Instructions

LEMMA ConflictIs ==
  ASSUME NEW instr \in Instructions, instr.tag = "ALU", instr.op # "ROTATE",
         ~NoRegister(instr),
         ~(instr.srcA.tag = "IMM" /\ RegFileOf(instr.srcB) = "REG_B"), ~NeedsMove(instr)
  PROVE  Encodes(instr) \/ MissedConflict(instr)
<1> SUFFICES ASSUME ~Encodes(instr) PROVE MissedConflict(instr)
  OBVIOUS
<1>1. PICK a, b \in Operands : a = instr.srcA /\ b = instr.srcB
  BY DEF Instructions
<1>2. a # b /\ RegFileOf(a) # "NONE" /\ RegFileOf(a) = RegFileOf(b)
  BY <1>1 DEF Encodes, NeedsMove, NoRegister
<1>3. a.id = b.id
  BY <1>1, <1>2 DEF NeedsMove, Conflict
<1>4. a.tag # b.tag
  BY <1>2, <1>3 DEF Operands
<1>5. {a, b} \cap {ElemNum, QpuNum} # {}
  <2>1. \A r \in {a, b} : r.tag \in {"REG_A", "REG_B"} \/ r \in {ElemNum, QpuNum}
    BY <1>2, FileOf
  <2>2. \A r \in {a, b} : r.tag \in {"REG_A", "REG_B"} => RegFileOf(r) = r.tag
    BY FileOf
  <2> QED
    BY <1>2, <1>4, <2>1, <2>2
<1> QED
  BY <1>1, <1>3, <1>4, <1>5 DEF MissedConflict

\* What the sequence that stands for an instruction has to be.
Stands(w, instr) ==
  /\ w \in Seq(Instructions) /\ Len(w) \in 1..4
  /\ w[Len(w)].tag = instr.tag
  /\ instr.tag # "ALU" => w = <<instr>>
  /\ instr.tag = "ALU" => \A k \in 1..Len(w) : w[k].tag \in {"ALU", "NO_OP"}
  /\ Accepted(w)

LEMMA Moved ==
  ASSUME NEW instr \in Instructions, ~NoRegister(instr)
  PROVE  Stands(WithMoves(instr), instr)
<1>1. PICK a, b, acc, five : /\ a = instr.srcA /\ b = instr.srcB
                             /\ acc = Acc(0) /\ five = Acc(5)
  OBVIOUS
<1>2. /\ {a, b, acc, five} \subseteq Operands /\ acc.tag = "ACC" /\ five.tag = "ACC"
      /\ RegFileOf(acc) = "NONE"
  <2>1. a \in Operands /\ b \in Operands
    BY <1>1 DEF Instructions
  <2>2. acc \in Operands /\ acc.tag = "ACC" /\ RegFileOf(acc) = "NONE"
    BY <1>1, AccIs
  <2>3. five \in Operands /\ five.tag = "ACC"
    BY <1>1, AccIs
  <2> QED
    BY <2>1, <2>2, <2>3
<1>3. PICK m, n, f : /\ m = Move(FALSE, "ALWAYS", acc, a) /\ n = Move(FALSE, "ALWAYS", acc, b)
                     /\ f = Move(FALSE, "ALWAYS", five, b)
  OBVIOUS
<1>4. /\ m \in Instructions /\ m.tag = "ALU" /\ (a.tag # "IMM" => Encodes(m))
      /\ n \in Instructions /\ n.tag = "ALU" /\ (b.tag # "IMM" => Encodes(n))
      /\ f \in Instructions /\ f.tag = "ALU"
  BY <1>2, <1>3, MovesAre
<1>5. PICK x, y : x = [instr EXCEPT !.srcA = acc] /\ y = [instr EXCEPT !.srcB = acc]
  OBVIOUS
<1>6. /\ x \in Instructions /\ x.tag = instr.tag /\ x.op = instr.op
      /\ x.srcA = acc /\ x.srcB = b
      /\ y \in Instructions /\ y.tag = instr.tag /\ y.op = instr.op
      /\ y.srcA = a /\ y.srcB = acc
  BY <1>1, <1>2, <1>5, Operated
<1>7. PICK z : z = [x EXCEPT !.srcB = five]
  OBVIOUS
<1>8. z \in Instructions /\ z.tag = instr.tag /\ z.op = instr.op /\ z.srcB = five
  BY <1>2, <1>6, <1>7, Operated
<1>9. /\ a.tag \in {"IMM", "ACC"} => RegFileOf(a) = "NONE"
      /\ b.tag \in {"IMM", "ACC"} => RegFileOf(b) = "NONE"
  BY FileOf
<1>10. CASE instr.tag # "ALU"
  <2>1. WithMoves(instr) = <<instr>>
    BY <1>10 DEF WithMoves
  <2>2. Stands(<<instr>>, instr)
    BY <1>10 DEF Stands, Accepted, Encodes
  <2> QED
    BY <2>1, <2>2
<1>11. CASE instr.tag = "ALU" /\ instr.op = "ROTATE" /\ b.tag = "IMM"
  <2>1. WithMoves(instr) = <<m, nop, x>>
    BY <1>1, <1>3, <1>5, <1>11 DEF WithMoves, Rotation, ToAccumA
  <2>2. Encodes(m)
    BY <1>1, <1>4, <1>11 DEF NoRegister
  <2>3. Encodes(x)
    BY <1>1, <1>6, <1>11 DEF Encodes
  <2>4. Accepted(<<m, nop, x>>)
    BY <2>2, <2>3, nopIs DEF Accepted
  <2>5. Stands(<<m, nop, x>>, instr)
    BY <1>4, <1>6, <1>11, <2>4, nopIs DEF Stands
  <2> QED
    BY <2>1, <2>5
<1>12. CASE instr.tag = "ALU" /\ instr.op = "ROTATE" /\ b.tag # "IMM"
  <2>1. WithMoves(instr) = <<m, f, nop, z>>
    BY <1>1, <1>3, <1>5, <1>7, <1>12 DEF WithMoves, Rotation, ToAccumA
  <2>2. RotatedByRegister(z)
    BY <1>2, <1>8, <1>12 DEF RotatedByRegister
  <2>3. Accepted(<<m, f, nop, z>>)
    BY <2>2 DEF Accepted
  <2>4. Stands(<<m, f, nop, z>>, instr)
    BY <1>4, <1>8, <1>12, <2>3, nopIs DEF Stands
  <2> QED
    BY <2>1, <2>4
<1>13. CASE /\ instr.tag = "ALU" /\ instr.op # "ROTATE"
            /\ a.tag = "IMM" /\ RegFileOf(b) = "REG_B"
  <2>1. WithMoves(instr) = <<n, y>>
    BY <1>1, <1>3, <1>5, <1>13 DEF WithMoves, ToAccumB
  <2>2. Encodes(n)
    BY <1>1, <1>4, <1>13 DEF NoRegister
  <2>3. Encodes(y)
    BY <1>2, <1>6, <1>9, <1>13 DEF Encodes
  <2>4. Accepted(<<n, y>>)
    BY <2>2, <2>3 DEF Accepted
  <2>5. Stands(<<n, y>>, instr)
    BY <1>4, <1>6, <1>13, <2>4 DEF Stands
  <2> QED
    BY <2>1, <2>5
<1>14. CASE /\ instr.tag = "ALU" /\ instr.op # "ROTATE" /\ NeedsMove(instr)
            /\ ~(a.tag = "IMM" /\ RegFileOf(b) = "REG_B")
  <2>1. WithMoves(instr) = <<m, x>>
    BY <1>1, <1>3, <1>5, <1>14 DEF WithMoves, ToAccumA
  <2>2. RegFileOf(a) # "NONE"
    BY <1>1, <1>14 DEF NeedsMove, Conflict
  <2>3. Encodes(m) /\ Encodes(x)
    BY <1>2, <1>4, <1>6, <1>9, <1>14, <2>2 DEF Encodes
  <2>4. Accepted(<<m, x>>)
    BY <2>3 DEF Accepted
  <2>5. Stands(<<m, x>>, instr)
    BY <1>4, <1>6, <1>14, <2>4 DEF Stands
  <2> QED
    BY <2>1, <2>5
<1>15. CASE /\ instr.tag = "ALU" /\ instr.op # "ROTATE" /\ ~NeedsMove(instr)
            /\ ~(a.tag = "IMM" /\ RegFileOf(b) = "REG_B")
  <2>1. WithMoves(instr) = <<instr>>
    BY <1>1, <1>15 DEF WithMoves
  <2>2. Encodes(instr) \/ MissedConflict(instr)
    BY <1>1, <1>15, ConflictIs
  <2>3. Accepted(<<instr>>)
    BY <2>2 DEF Accepted
  <2>4. Stands(<<instr>>, instr)
    BY <1>15, <2>3 DEF Stands
  <2> QED
    BY <2>1, <2>4
<1> QED
  BY <1>10, <1>11, <1>12, <1>13, <1>14, <1>15

\* What insertNops puts for an instruction.
Padded(w, instr) ==
  /\ w \in Seq(Instructions) /\ Len(w) \in 1..5
  /\ \A k \in 1..Len(w) : w[k] = instr \/ w[k].tag = "NO_OP"
  /\ \E k \in 1..Len(w) : w[k] = instr
  /\ Slotted(w)
  /\ instr.tag = "END" => \E e \in 1..Len(w) : Ended(w, e)

LEMMA PaddedSequences ==
  ASSUME NEW instr \in Instructions
  PROVE  /\ Padded(<<instr, nop, nop, nop>>, instr)
         /\ Padded(<<nop, instr, nop, nop, nop>>, instr)
         /\ instr.tag \notin {"BRL", "END"} => /\ Padded(<<instr>>, instr)
                                               /\ Padded(<<nop, instr>>, instr)
<1> USE nopIs
<1>1. Padded(<<instr, nop, nop, nop>>, instr)
  <2> DEFINE w == <<instr, nop, nop, nop>>
  <2>1. /\ w \in Seq(Instructions) /\ Len(w) = 4
        /\ w[1] = instr /\ w[2] = nop /\ w[3] = nop /\ w[4] = nop
    OBVIOUS
  <2> HIDE DEF w
  <2>2. Idle(w, 1)
    BY <2>1 DEF Idle
  <2>3. \A k \in 1..Len(w) : k = 1 \/ w[k].tag = "NO_OP"
    BY <2>1
  <2>4. Slotted(w)
    BY <2>2, <2>3 DEF Slotted
  <2>5. instr.tag = "END" => Ended(w, 1)
    BY <2>1, <2>3 DEF Ended
  <2>6. Padded(w, instr)
    BY <2>1, <2>3, <2>4, <2>5 DEF Padded
  <2> QED
    BY <2>6 DEF w
<1>2. Padded(<<nop, instr, nop, nop, nop>>, instr)
  <2> DEFINE w == <<nop, instr, nop, nop, nop>>
  <2>1. /\ w \in Seq(Instructions) /\ Len(w) = 5
        /\ w[1] = nop /\ w[2] = instr /\ w[3] = nop /\ w[4] = nop /\ w[5] = nop
    OBVIOUS
  <2> HIDE DEF w
  <2>2. Idle(w, 2)
    BY <2>1 DEF Idle
  <2>3. \A k \in 1..Len(w) : k = 2 \/ w[k].tag = "NO_OP"
    BY <2>1
  <2>4. Slotted(w)
    BY <2>2, <2>3 DEF Slotted
  <2>5. instr.tag = "END" => Ended(w, 2)
    BY <2>1, <2>3 DEF Ended
  <2>6. Padded(w, instr)
    BY <2>1, <2>3, <2>4, <2>5 DEF Padded
  <2> QED
    BY <2>6 DEF w
<1>3. ASSUME instr.tag \notin {"BRL", "END"}
      PROVE  Padded(<<instr>>, instr) /\ Padded(<<nop, instr>>, instr)
  <2>1. Slotted(<<instr>>) /\ Slotted(<<nop, instr>>)
    BY <1>3 DEF Slotted
  <2> QED
    BY <1>3, <2>1 DEF Padded
<1> QED
  BY <1>1, <1>2, <1>3

LEMMA Concatenated ==
  ASSUME NEW x \in Instructions, NEW y \in Instructions
  PROVE  /\ <<>> \o <<x>> = <<x>> /\ <<y>> \o <<x>> = <<y, x>>
         /\ <<x>> \o <<>> = <<x>> /\ <<y, x>> \o <<>> = <<y, x>>
         /\ <<x>> \o <<y, y, y>> = <<x, y, y, y>>
         /\ <<y, x>> \o <<y, y, y>> = <<y, x, y, y, y>>
<1>1. <<y>> \o <<x>> = <<y, x>>
  <2> DEFINE a == <<y>>
             b == <<x>>
             c == <<y, x>>
  <2>1. a \o b \in Seq(Instructions) /\ Len(a \o b) = 2 /\ c \in Seq(Instructions) /\ Len(c) = 2
    OBVIOUS
  <2>2. \A i \in 1..2 : (a \o b)[i] = c[i]
    OBVIOUS
  <2> HIDE DEF a, b, c
  <2>3. a \o b = c
    BY <2>1, <2>2, SeqEqual
  <2> QED
    BY <2>3 DEF a, b, c
<1>2. <<x>> \o <<y, y, y>> = <<x, y, y, y>>
  <2> DEFINE a == <<x>>
             b == <<y, y, y>>
             c == <<x, y, y, y>>
  <2>1. a \o b \in Seq(Instructions) /\ Len(a \o b) = 4 /\ c \in Seq(Instructions) /\ Len(c) = 4
    OBVIOUS
  <2>2. \A i \in 1..4 : (a \o b)[i] = c[i]
    OBVIOUS
  <2> HIDE DEF a, b, c
  <2>3. a \o b = c
    BY <2>1, <2>2, SeqEqual
  <2> QED
    BY <2>3 DEF a, b, c
<1>3. <<y, x>> \o <<y, y, y>> = <<y, x, y, y, y>>
  <2> DEFINE a == <<y, x>>
             b == <<y, y, y>>
             c == <<y, x, y, y, y>>
  <2>1. a \o b \in Seq(Instructions) /\ Len(a \o b) = 5 /\ c \in Seq(Instructions) /\ Len(c) = 5
    OBVIOUS
  <2>2. \A i \in 1..5 : (a \o b)[i] = c[i]
    OBVIOUS
  <2> HIDE DEF a, b, c
  <2>3. a \o b = c
    BY <2>1, <2>2, SeqEqual
  <2> QED
    BY <2>3 DEF a, b, c
<1> QED
  BY <1>1, <1>2, <1>3

LEMMA PaddedIs ==
  ASSUME NEW i, code[i] \in Instructions
  PROVE  Padded(WithNops(i), code[i])
<1> DEFINE instr == code[i]
<1>1. <<>> \o <<instr>> = <<instr>> /\ <<nop>> \o <<instr>> = <<nop, instr>>
  BY nopIs, Concatenated
<1>2. /\ <<instr>> \o <<>> = <<instr>> /\ <<nop, instr>> \o <<>> = <<nop, instr>>
      /\ <<instr>> \o <<nop, nop, nop>> = <<instr, nop, nop, nop>>
      /\ <<nop, instr>> \o <<nop, nop, nop>> = <<nop, instr, nop, nop, nop>>
  BY nopIs, Concatenated
<1>3. CASE instr.tag \in {"BRL", "END"}
  <2>1. WithNops(i) \in {<<instr, nop, nop, nop>>, <<nop, instr, nop, nop, nop>>}
    BY <1>1, <1>2, <1>3 DEF WithNops
  <2> QED
    BY <2>1, PaddedSequences
<1>4. CASE instr.tag \notin {"BRL", "END"}
  <2>1. WithNops(i) \in {<<instr>>, <<nop, instr>>}
    BY <1>1, <1>2, <1>4 DEF WithNops
  <2> QED
    BY <1>4, <2>1, PaddedSequences
<1> QED
  BY <1>3, <1>4

----------------------------------------------------------------------------
LEMMA InitFlow == Init => FlowInv
<1> SUFFICES ASSUME Init PROVE FlowInv
  OBVIOUS
<1>1. /\ program \in Programs /\ phase = "liveness" /\ code = program.code
      /\ at = Len(code) /\ out = <<>>
  BY DEF Init
<1>2. /\ code \in Seq(Instructions)
      /\ \A i \in 1..Len(code) : Mentions(code[i]) \subseteq Vars /\ ~NoRegister(code[i])
  BY <1>1, SourceCode DEF Vars
<1>3. Typed
  <2>1. live \in [1..Len(program.code) -> SUBSET Vars]
    BY <1>1, <1>2 DEF Init
  <2>2. prefer \in [Files -> [Vars -> Nat]]
    BY DEF Init
  <2>3. lastFile \in Files
    BY DEF Init, Files
  <2> QED
    BY <1>1, <1>2, <2>1, <2>2, <2>3 DEF Typed
<1>4. Before
  BY <1>1, <1>2 DEF Before
<1>5. Moving /\ Padding /\ Linking
  BY <1>1 DEF Moving, Padding, Linking
<1>6. Running
  <2>1. qpu.pc = 1 /\ qpu.slots = 0 /\ {"pc", "slots", "target"} \subseteq DOMAIN qpu
    BY DEF Init
  <2> QED
    BY <1>1, <2>1 DEF Running
<1> QED
  BY <1>3, <1>4, <1>5, <1>6 DEF FlowInv

\* A step of the analysis, which changes at most operands.
LEMMA AnalysisFlow ==
  ASSUME FlowInv, phase \in Analysis, phase' \in Analysis, Typed',
         program' = program, out' = out, qpu' = qpu, Len(code') = Len(code),
         \A i \in 1..Len(code) : /\ code'[i].tag = code[i].tag /\ code'[i].label = code[i].label
                                 /\ NoRegister(code'[i]) => NoRegister(code[i])
                                 /\ Mentions(code'[i]) \subseteq Mentions(code[i])
  PROVE  FlowInv'
<1>1. Vars' = Vars
  BY DEF Vars
<1>2. Before'
  BY <1>1 DEF FlowInv, Before
<1>3. Moving' /\ Padding' /\ Linking'
  BY DEF Analysis, Moving, Padding, Linking
<1>4. Running'
  BY DEF FlowInv, Running, Analysis
<1> QED
  BY <1>2, <1>3, <1>4 DEF FlowInv

\* One that leaves the code alone.
LEMMA SameCodeFlow ==
  ASSUME FlowInv, phase \in Analysis, phase' \in Analysis, Typed',
         program' = program, out' = out, qpu' = qpu, code' = code
  PROVE  FlowInv'
BY AnalysisFlow

LEMMA PropagateFlow == IInv /\ IInv' /\ FlowInv /\ Propagate => FlowInv'
<1> SUFFICES ASSUME IInv, IInv', FlowInv, Propagate PROVE FlowInv'
  OBVIOUS
<1>1. /\ phase = "liveness" /\ phase' = phase /\ program' = program /\ out' = out
      /\ qpu' = qpu /\ code' = code /\ prefer' = prefer /\ lastFile' = lastFile
      /\ live' = [live EXCEPT ![at] = @ \cup LiveIn(at)] /\ at > 0
  BY DEF Propagate, runVars
<1>2. at \in 1..Len(code) /\ code = program.code /\ Shape
  BY <1>1 DEF IInv, Shape
<1>3. LiveIn(at) \subseteq Vars
  BY <1>1, <1>2, LiveVars DEF Analysis
<1>4. live' \in [1..Len(program.code) -> SUBSET Vars]
  BY <1>1, <1>2, <1>3 DEF FlowInv, Typed
<1>5. at' \in Nat
  BY <1>1 DEF IInv, Shape
<1>6. Typed'
  BY <1>1, <1>4, <1>5 DEF FlowInv, Typed, Vars
<1> QED
  BY <1>1, <1>6, SameCodeFlow DEF Analysis

LEMMA SweepEndsFlow == IInv /\ FlowInv /\ SweepEnds => FlowInv'
<1> SUFFICES ASSUME IInv, FlowInv, SweepEnds PROVE FlowInv'
  OBVIOUS
<1>1. /\ phase = "liveness" /\ phase' \in {"liveness", "accumulate"} /\ program' = program
      /\ out' = out /\ qpu' = qpu /\ code' = code /\ prefer' = prefer
      /\ lastFile' = lastFile /\ live' = live /\ at' \in {2, Len(code)}
  BY DEF SweepEnds, runVars
<1>2. Typed'
  BY <1>1 DEF FlowInv, Typed, Vars
<1> QED
  BY <1>1, <1>2, SameCodeFlow DEF Analysis

LEMMA AccumKeeps ==
  ASSUME NEW instr \in Instructions, NEW old,
         NEW new \in {RenameUses(instr, old, Acc(1)), RenameDest(instr, old, Acc(1))}
  PROVE  /\ new.tag = instr.tag /\ new.label = instr.label
         /\ NoRegister(new) => NoRegister(instr)
         /\ Mentions(new) \subseteq Mentions(instr)
<1>1. Acc(1).tag = "ACC"
  BY AccIs
<1>2. /\ new.tag = instr.tag /\ new.label = instr.label
      /\ new.dest \in {instr.dest, Acc(1)}
      /\ new.srcA \in {instr.srcA, Acc(1)} /\ new.srcB \in {instr.srcB, Acc(1)}
  BY DEF RenameUses, RenameDest, Replace, Instructions
<1>3. NoRegister(new) => NoRegister(instr)
  BY <1>1, <1>2 DEF NoRegister
<1>4. Mentions(new) \subseteq Mentions(instr)
  BY <1>1, <1>2 DEF Mentions, VarsIn
<1> QED
  BY <1>2, <1>3, <1>4

LEMMA IntroduceAccumFlow == IInv /\ IInv' /\ FlowInv /\ IntroduceAccum => FlowInv'
<1> SUFFICES ASSUME IInv, IInv', FlowInv, IntroduceAccum PROVE FlowInv'
  OBVIOUS
<1>1. /\ phase = "accumulate" /\ phase' \in {"accumulate", "prefer"} /\ program' = program
      /\ out' = out /\ qpu' = qpu /\ prefer' = prefer /\ lastFile' = lastFile /\ live' = live
  BY DEF IntroduceAccum, Advance, allocVars, runVars
<1>2. /\ at \in 2..Len(code) /\ code \in Seq(Instructions) /\ Len(code) = Len(program.code)
      /\ code' \in Seq(Instructions) /\ Len(code') = Len(code) /\ at' \in Nat
  BY <1>1 DEF IInv, Shape, Known, Analysis
<1>3. ASSUME NEW i \in 1..Len(code)
      PROVE  /\ code'[i].tag = code[i].tag /\ code'[i].label = code[i].label
             /\ NoRegister(code'[i]) => NoRegister(code[i])
             /\ Mentions(code'[i]) \subseteq Mentions(code[i])
  <2> DEFINE old == code[at - 1].dest
  <2>1. \/ code'[i] = code[i]
        \/ code'[i] = RenameDest(code[i], old, Acc(1))
        \/ code'[i] = RenameUses(code[i], old, Acc(1))
    BY <1>2 DEF IntroduceAccum
  <2>2. code[i] \in Instructions
    BY <1>2
  <2> HIDE DEF old
  <2> QED
    BY <2>1, <2>2, AccumKeeps
<1>4. Typed'
  BY <1>1, <1>2 DEF FlowInv, Typed, Vars
<1> QED
  BY <1>1, <1>2, <1>3, <1>4, AnalysisFlow DEF Analysis

LEMMA PreferFlow == IInv /\ IInv' /\ FlowInv /\ Prefer => FlowInv'
<1> SUFFICES ASSUME IInv, IInv', FlowInv, Prefer PROVE FlowInv'
  OBVIOUS
<1>1. /\ phase = "prefer" /\ phase' \in {"prefer", "allocate"} /\ program' = program
      /\ out' = out /\ qpu' = qpu /\ code' = code /\ lastFile' = lastFile /\ live' = live
      /\ prefer' = Preferred(code[at])
  BY DEF Prefer, Advance, runVars
<1>2. at \in 1..Len(code) /\ code[at] \in Instructions /\ Uses(code[at]) \subseteq Vars
  BY <1>1 DEF IInv, Shape, Known, Analysis
<1>3. at' \in Nat
  BY <1>1, SourceCode DEF IInv, Shape, Known, Analysis
<1>4. prefer' \in [Files -> [Vars -> Nat]]
  <2> DEFINE instr == code[at]
             a == instr.srcA
             b == instr.srcB
  <2>1. prefer \in [Files -> [Vars -> Nat]]
    BY DEF FlowInv, Typed
  <2>2. instr.tag = "ALU" => /\ a.tag = "REG_A" => a.id \in Vars
                             /\ b.tag = "REG_A" => b.id \in Vars
    BY <1>2 DEF Uses, UsesReg, Sources, VarsIn
  <2>3. ASSUME NEW x \in Vars, NEW y \in Vars PROVE Favour(x, y) \in [Files -> [Vars -> Nat]]
    BY <2>1 DEF Favour, Files
  <2>4. ASSUME NEW x \in Vars
        PROVE  [prefer EXCEPT !["REG_A"][x] = @ + 1] \in [Files -> [Vars -> Nat]]
    BY <2>1 DEF Files
  <2>5. CASE instr.tag = "ALU" /\ a.tag = "REG_A" /\ b.tag = "REG_A"
    <3>1. Preferred(instr) \in {Favour(a.id, b.id), Favour(b.id, a.id)}
      BY <2>5 DEF Preferred
    <3> QED
      BY <1>1, <2>2, <2>3, <2>5, <3>1
  <2>6. CASE instr.tag = "ALU" /\ a.tag = "REG_A" /\ b.tag = "IMM"
    <3>1. Preferred(instr) = [prefer EXCEPT !["REG_A"][a.id] = @ + 1]
      BY <2>6 DEF Preferred
    <3> QED
      BY <1>1, <2>2, <2>4, <2>6, <3>1
  <2>7. CASE instr.tag = "ALU" /\ b.tag = "REG_A" /\ a.tag = "IMM"
    <3>1. Preferred(instr) = [prefer EXCEPT !["REG_A"][b.id] = @ + 1]
      BY <2>7 DEF Preferred
    <3> QED
      BY <1>1, <2>2, <2>4, <2>7, <3>1
  <2>8. CASE /\ ~(instr.tag = "ALU" /\ a.tag = "REG_A" /\ b.tag = "REG_A")
             /\ ~(instr.tag = "ALU" /\ a.tag = "REG_A" /\ b.tag = "IMM")
             /\ ~(instr.tag = "ALU" /\ b.tag = "REG_A" /\ a.tag = "IMM")
    <3>1. Preferred(instr) = prefer
      BY <2>8 DEF Preferred
    <3> QED
      BY <1>1, <2>1, <3>1
  <2> QED
    BY <2>5, <2>6, <2>7, <2>8
<1>5. Typed'
  BY <1>1, <1>3, <1>4 DEF FlowInv, Typed, Vars
<1> QED
  BY <1>1, <1>5, SameCodeFlow DEF Analysis

LEMMA AllocateFlow == IInv /\ FlowInv /\ Allocate => FlowInv'
<1> SUFFICES ASSUME IInv, FlowInv, Allocate PROVE FlowInv'
  OBVIOUS
<1>1. /\ phase = "allocate" /\ phase' = phase /\ program' = program /\ out' = out
      /\ qpu' = qpu /\ code' = code /\ live' = live /\ prefer' = prefer /\ at' = at + 1
  BY DEF Allocate, runVars
<1>2. lastFile' \in Files
  BY ChosenIsPossible DEF Allocate
<1>3. Typed'
  BY <1>1, <1>2 DEF FlowInv, Typed, Vars
<1> QED
  BY <1>1, <1>3, SameCodeFlow DEF Analysis

----------------------------------------------------------------------------
LEMMA OutOfRegistersFlow == FlowInv /\ OutOfRegisters => FlowInv'
<1> SUFFICES ASSUME FlowInv, OutOfRegisters PROVE FlowInv'
  OBVIOUS
<1>1. /\ phase = "allocate" /\ phase' = "failed" /\ UNCHANGED <<program, at, code, out, qpu>>
      /\ UNCHANGED <<live, prefer, lastFile>>
  BY DEF OutOfRegisters, allocVars, runVars
<1>2. Typed'
  BY <1>1 DEF FlowInv, Typed, Vars
<1>3. Before' /\ Moving' /\ Padding' /\ Linking'
  BY <1>1 DEF Before, Moving, Padding, Linking, Analysis
<1>4. Running'
  BY <1>1 DEF FlowInv, Running
<1> QED
  BY <1>2, <1>3, <1>4 DEF FlowInv

\* The operands become registers.
LEMMA ApplyFlow == IInv /\ FlowInv /\ Apply => FlowInv'
<1> SUFFICES ASSUME IInv, FlowInv, Apply PROVE FlowInv'
  OBVIOUS
<1>1. /\ phase = "allocate" /\ phase' = "moves" /\ at' = 1
      /\ UNCHANGED <<program, out, live, prefer, lastFile, qpu>>
  BY DEF Apply, allocVars, runVars
<1>2. /\ code \in Seq(Instructions) /\ Len(code) = Len(program.code) /\ out = <<>>
      /\ program \in Programs
      /\ \A i \in 1..Len(code) : /\ code[i].tag = program.code[i].tag
                                 /\ code[i].label = program.code[i].label
                                 /\ ~NoRegister(code[i])
                                 /\ Mentions(code[i]) \subseteq Vars
  BY <1>1 DEF FlowInv, Typed, Before, Analysis, IInv, Shape
<1> DEFINE New(i) == [code[i] EXCEPT !.dest = Allocated(@), !.srcA = Allocated(@),
                                     !.srcB = Allocated(@)]
<1>11. code' = [i \in DOMAIN code |-> New(i)]
  BY DEF Apply
<1> HIDE DEF New
<1>12. DOMAIN code = 1..Len(code) /\ Len(code) \in Nat
  BY <1>2
<1>13. code' = [i \in 1..Len(code) |-> New(i)]
  BY <1>11, <1>12
<1>3. ASSUME NEW instr \in Instructions, NEW r \in {instr.dest, instr.srcA, instr.srcB},
             Mentions(instr) \subseteq Vars
      PROVE  /\ Allocated(r) \in Operands
             /\ Allocated(r).tag = "IMM" => r.tag = "IMM"
  <2>1. r \in Operands
    BY DEF Instructions
  <2>2. CASE r.tag = "REG_A"
    <3>1. r.id \in Vars
      BY <1>3, <2>2 DEF Mentions, VarsIn
    <3>2. alloc[r.id] \in [tag : Files \cup {"NONE"}, id : Nat]
      BY <3>1 DEF IInv, Given
    <3>3. alloc[r.id] \in Operands /\ alloc[r.id].tag # "IMM"
      BY <3>2 DEF Operands, Files
    <3> QED
      BY <2>2, <3>3 DEF Allocated
  <2>3. CASE r.tag # "REG_A"
    BY <2>1, <2>3 DEF Allocated
  <2> QED
    BY <2>2, <2>3
<1>4. ASSUME NEW i \in 1..Len(code)
      PROVE  /\ code'[i] \in Instructions
             /\ code'[i].tag = code[i].tag /\ code'[i].label = code[i].label
             /\ ~NoRegister(code'[i])
  <2>1. PICK instr \in Instructions : instr = code[i]
    BY <1>2
  <2>2. code'[i] = [instr EXCEPT !.dest = Allocated(@), !.srcA = Allocated(@),
                                 !.srcB = Allocated(@)]
    <3>1. code'[i] = New(i)
      BY <1>13
    <3> QED
      BY <2>1, <3>1 DEF New
  <2>3. PICK d, a, b \in Operands : /\ d = Allocated(instr.dest) /\ a = Allocated(instr.srcA)
                                    /\ b = Allocated(instr.srcB)
                                    /\ a.tag = "IMM" => instr.srcA.tag = "IMM"
                                    /\ b.tag = "IMM" => instr.srcB.tag = "IMM"
    BY <1>2, <1>3, <2>1
  <2>4. code'[i] = [instr EXCEPT !.dest = d, !.srcA = a, !.srcB = b]
    BY <2>2, <2>3
  <2>5. /\ code'[i] \in Instructions
        /\ code'[i].tag = instr.tag /\ code'[i].label = instr.label
        /\ code'[i].srcA = a /\ code'[i].srcB = b
    BY <2>4 DEF Instructions
  <2> QED
    BY <1>2, <2>1, <2>3, <2>5 DEF NoRegister
<1>5. code' \in Seq(Instructions) /\ Len(code') = Len(code)
  <2>1. \A i \in 1..Len(code) : New(i) \in Instructions
    BY <1>4, <1>13
  <2>2. code' \in [1..Len(code) -> Instructions]
    BY <1>13, <2>1
  <2> QED
    BY <1>12, <2>2
<1>6. Typed'
  BY <1>1, <1>5 DEF FlowInv, Typed, Vars
<1>7. Before'
  BY <1>1, <1>2, <1>4, <1>5 DEF Before, Analysis
<1>8. Moving'
  <2>1. 1 \in 1..Len(code')
    BY <1>2, <1>5, SourceCode
  <2>2. Rewritten(<<>>, code', 0, {"ALU", "NO_OP"}, {"ALU"})
    BY DEF Rewritten
  <2>3. Accepted(<<>>)
    BY DEF Accepted
  <2>4. Rewritten(out', code', at' - 1, {"ALU", "NO_OP"}, {"ALU"})
    <3>1. out' = <<>> /\ at' - 1 = 0
      BY <1>1, <1>2
    <3> QED
      BY <2>2, <3>1
  <2>5. Accepted(out')
    BY <1>1, <1>2, <2>3
  <2>6. at' \in 1..Len(code')
    BY <1>1, <2>1
  <2> QED
    BY <2>4, <2>5, <2>6 DEF Moving
<1>9. Padding' /\ Linking'
  BY <1>1 DEF Padding, Linking
<1>10. Running'
  BY <1>1 DEF FlowInv, Running
<1> QED
  BY <1>6, <1>7, <1>8, <1>9, <1>10 DEF FlowInv

----------------------------------------------------------------------------
\* One more instruction has been rewritten.
LEMMA RewrittenMore ==
  ASSUME NEW s \in Seq(Instructions), NEW w \in Seq(Instructions), NEW c \in Seq(Instructions),
         NEW n \in 1..Len(c), NEW new, NEW lost, Rewritten(s, c, n - 1, new, lost),
         \A k \in 1..Len(w) : w[k].tag \in new \/ w[k] = c[n],
         c[n].tag \notin lost => \E k \in 1..Len(w) : w[k] = c[n]
  PROVE  Rewritten(s \o w, c, n, new, lost)
<1> DEFINE t == s \o w
<1> SUFFICES Rewritten(t, c, n, new, lost)
  OBVIOUS
<1>1. \A k \in 1..Len(t) : \/ k \in 1..Len(s) /\ t[k] = s[k]
                           \/ \E j \in 1..Len(w) : k = Len(s) + j /\ t[k] = w[j]
  BY JoinedFrom
<1>2. /\ \A k \in 1..Len(s) : k \in 1..Len(t) /\ t[k] = s[k]
      /\ \A k \in 1..Len(w) : Len(s) + k \in 1..Len(t) /\ t[Len(s) + k] = w[k]
  BY JoinedTo
<1> HIDE DEF t
<1>3. ASSUME NEW k \in 1..Len(t)
      PROVE  t[k].tag \in new \/ \E j \in 1..Len(c) : t[k] = c[j]
  BY <1>1 DEF Rewritten
<1>4. ASSUME NEW j \in 1..n, c[j].tag \notin lost
      PROVE  \E k \in 1..Len(t) : t[k] = c[j]
  <2>1. CASE j = n
    <3>1. PICK k \in 1..Len(w) : w[k] = c[n]
      BY <1>4, <2>1
    <3>2. Len(s) + k \in 1..Len(t) /\ t[Len(s) + k] = c[n]
      BY <1>2, <3>1
    <3> QED
      BY <2>1, <3>2
  <2>2. CASE j # n
    <3>1. j \in 1..n - 1
      BY <2>2
    <3>2. PICK k \in 1..Len(s) : s[k] = c[j]
      BY <1>4, <3>1 DEF Rewritten
    <3> QED
      BY <1>2, <3>2
  <2> QED
    BY <2>1, <2>2
<1> QED
  BY <1>3, <1>4 DEF Rewritten

\* What a finished pass has kept of its code.
LEMMA RewrittenClosed ==
  ASSUME NEW s \in Seq(Instructions), NEW c \in Seq(Instructions), NEW new, NEW lost,
         Rewritten(s, c, Len(c), new, lost), Closed(c),
         new \subseteq {"ALU", "NO_OP"}, lost \subseteq {"ALU"}
  PROVE  Closed(s)
<1> SUFFICES ASSUME NEW k \in 1..Len(s)
             PROVE  /\ s[k].tag # "BR"
                    /\ s[k].tag = "BRL" =>
                         \E j \in 1..Len(s) : s[j].tag = "LAB" /\ s[j].label = s[k].label
  BY DEF Closed
<1>1. CASE s[k].tag \in new
  BY <1>1
<1>2. CASE \E j \in 1..Len(c) : s[k] = c[j]
  <2>1. PICK j \in 1..Len(c) : s[k] = c[j]
    BY <1>2
  <2>2. s[k].tag # "BR"
    BY <2>1 DEF Closed
  <2>3. ASSUME s[k].tag = "BRL"
        PROVE  \E i \in 1..Len(s) : s[i].tag = "LAB" /\ s[i].label = s[k].label
    <3>1. PICK l \in 1..Len(c) : c[l].tag = "LAB" /\ c[l].label = c[j].label
      BY <2>1, <2>3 DEF Closed
    <3>2. PICK i \in 1..Len(s) : s[i] = c[l]
      BY <3>1 DEF Rewritten
    <3> QED
      BY <2>1, <3>1, <3>2
  <2> QED
    BY <2>2, <2>3
<1> QED
  BY <1>1, <1>2 DEF Rewritten

LEMMA InsertMovesFlow == IInv /\ FlowInv /\ InsertMoves => FlowInv'
<1> SUFFICES ASSUME IInv, FlowInv, InsertMoves PROVE FlowInv'
  OBVIOUS
<1>1. PICK s, w : s = out \o w /\ w = WithMoves(code[at])
  OBVIOUS
<1>2. /\ phase = "moves" /\ UNCHANGED <<program, live, prefer, lastFile, qpu>>
      /\ \/ /\ at < Len(code) /\ at' = at + 1 /\ phase' = "moves"
            /\ out' = s /\ code' = code
         \/ /\ ~(at < Len(code)) /\ at' = 1 /\ phase' = "nops"
            /\ out' = <<>> /\ code' = s
  BY <1>1 DEF InsertMoves, Rewrite, Advance, allocVars, runVars
<1>3. /\ code \in Seq(Instructions) /\ out \in Seq(Instructions) /\ program \in Programs
      /\ at \in 1..Len(code) /\ Len(code) = Len(program.code) /\ Len(code) \in Nat
      /\ Rewritten(out, code, at - 1, {"ALU", "NO_OP"}, {"ALU"}) /\ Accepted(out)
  BY <1>2 DEF FlowInv, Typed, Before, Moving, IInv, Shape
<1>4. \A i \in 1..Len(code) : /\ code[i].tag = program.code[i].tag
                              /\ code[i].label = program.code[i].label
                              /\ ~NoRegister(code[i])
  BY <1>2 DEF FlowInv, Before
<1>5. code[at] \in Instructions /\ Stands(w, code[at])
  BY <1>1, <1>3, <1>4, Moved
<1>6. /\ w \in Seq(Instructions) /\ Len(w) \in 1..4 /\ w[Len(w)].tag = code[at].tag
      /\ Accepted(w)
  BY <1>5 DEF Stands
<1>7. /\ s \in Seq(Instructions) /\ Len(s) = Len(out) + Len(w) /\ Len(out) \in Nat
      /\ s[Len(s)] = w[Len(w)] /\ Accepted(s)
  <2>1. out \in Seq(Instructions) /\ w \in Seq(Instructions) /\ Accepted(out) /\ Accepted(w)
    BY <1>3, <1>6
  <2>2. s \in Seq(Instructions) /\ Len(s) = Len(out) + Len(w) /\ Len(out) \in Nat
    BY <1>1, <2>1, Joined
  <2>3. \A k \in 1..Len(w) : s[Len(out) + k] = w[k]
    BY <1>1, <2>1, Joined
  <2>4. Accepted(s)
    BY <1>1, <2>1, JoinedAccepted
  <2>5. Len(w) \in 1..Len(w)
    BY <1>6
  <2>6. s[Len(out) + Len(w)] = w[Len(w)]
    BY <2>3, <2>5
  <2>7. Len(s) = Len(out) + Len(w)
    BY <2>2
  <2>8. s[Len(s)] = w[Len(w)]
    BY <2>6, <2>7
  <2> QED
    BY <2>2, <2>4, <2>8
<1>8. Rewritten(s, code, at, {"ALU", "NO_OP"}, {"ALU"})
  <2>1. \A k \in 1..Len(w) : w[k].tag \in {"ALU", "NO_OP"} \/ w[k] = code[at]
    BY <1>5 DEF Stands
  <2>2. code[at].tag \notin {"ALU"} => \E k \in 1..Len(w) : w[k] = code[at]
    <3>1. code[at].tag # "ALU" => w = <<code[at]>>
      BY <1>5 DEF Stands
    <3>2. w = <<code[at]>> => Len(w) = 1 /\ w[1] = code[at]
      OBVIOUS
    <3>3. 1 \in 1..1
      OBVIOUS
    <3> QED
      BY <3>1, <3>2, <3>3
  <2>3. Rewritten(out \o w, code, at, {"ALU", "NO_OP"}, {"ALU"})
    BY <1>3, <1>6, <2>1, <2>2, RewrittenMore
  <2> QED
    BY <1>1, <2>3
<1>9. Typed'
  <2>1. out' \in Seq(Instructions) /\ code' \in Seq(Instructions) /\ at' \in Nat
    <3>1. <<>> \in Seq(Instructions)
      OBVIOUS
    <3>2. out' \in {<<>>, s} /\ code' \in {code, s} /\ at' \in {1, at + 1}
      BY <1>2
    <3>3. at + 1 \in Nat
      BY <1>3
    <3>4. out' \in Seq(Instructions)
      BY <1>7, <3>1, <3>2
    <3>5. code' \in Seq(Instructions)
      BY <1>3, <1>7, <3>2
    <3> QED
      BY <3>2, <3>3, <3>4, <3>5
  <2> QED
    BY <1>2, <2>1 DEF FlowInv, Typed, Vars
<1>10. Linking' /\ Running'
  BY <1>2 DEF FlowInv, Linking, Running
<1>11. CASE at < Len(code)
  <2>1. Before'
    BY <1>2, <1>11 DEF FlowInv, Before, Analysis
  <2>2. Rewritten(out', code', at' - 1, {"ALU", "NO_OP"}, {"ALU"})
    <3>1. out' = s /\ code' = code /\ at' - 1 = at
      BY <1>2, <1>3, <1>11
    <3> QED
      BY <1>8, <3>1
  <2>3. at' \in 1..Len(code') /\ Accepted(out')
    BY <1>2, <1>3, <1>7, <1>11
  <2>4. Moving'
    BY <2>2, <2>3 DEF Moving
  <2>5. Padding'
    BY <1>2, <1>11 DEF Padding
  <2> QED
    BY <1>9, <1>10, <2>1, <2>4, <2>5 DEF FlowInv
<1>12. CASE ~(at < Len(code))
  <2>1. Before' /\ Moving'
    BY <1>2, <1>12 DEF Before, Moving, Analysis
  <2>2. Closed(code)
    <3>1. \A i \in 1..Len(code) :
             /\ program.code[i].tag # "BR"
             /\ program.code[i].tag = "BRL" =>
                  \E j \in 1..Len(code) : /\ program.code[j].tag = "LAB"
                                          /\ program.code[j].label = program.code[i].label
      <4>1. program \in Programs /\ Len(code) = Len(program.code)
        BY <1>3
      <4> QED
        BY <4>1, SourceCode
    <3>2. ASSUME NEW k \in 1..Len(code)
          PROVE  /\ code[k].tag # "BR"
                 /\ code[k].tag = "BRL" =>
                      \E j \in 1..Len(code) : code[j].tag = "LAB" /\ code[j].label = code[k].label
      <4>1. \A i \in 1..Len(code) : /\ code[i].tag = program.code[i].tag
                                    /\ code[i].label = program.code[i].label
        BY <1>4
      <4>2. code[k].tag # "BR"
        BY <3>1, <4>1
      <4>3. ASSUME code[k].tag = "BRL"
            PROVE  \E j \in 1..Len(code) : code[j].tag = "LAB" /\ code[j].label = code[k].label
        <5>1. PICK j \in 1..Len(code) : /\ program.code[j].tag = "LAB"
                                       /\ program.code[j].label = program.code[k].label
          BY <3>1, <4>1, <4>3
        <5>2. code[j].tag = "LAB" /\ code[j].label = code[k].label
          BY <4>1, <5>1
        <5> QED
          BY <5>2
      <4> QED
        BY <4>2, <4>3
    <3> QED
      BY <3>2 DEF Closed
  <2>3. Closed(s)
    <3>1. Rewritten(s, code, Len(code), {"ALU", "NO_OP"}, {"ALU"})
      <4>1. at = Len(code)
        BY <1>3, <1>12
      <4> QED
        BY <1>8, <4>1
    <3> QED
      BY <1>3, <1>7, <2>2, <3>1, RewrittenClosed
  <2>4. LastIsEnd(s)
    <3>1. code[at].tag = "END"
      <4>1. program.code[Len(program.code)].tag = "END" /\ at = Len(program.code)
        BY <1>3, <1>12, SourceCode
      <4> QED
        BY <1>3, <1>4, <4>1
    <3>2. Len(w) \in 1..4 /\ Len(s) = Len(out) + Len(w) /\ Len(out) \in Nat
      BY <1>6, <1>7
    <3>3. s[Len(s)].tag = "END"
      BY <1>6, <1>7, <3>1
    <3> QED
      BY <3>2, <3>3 DEF LastIsEnd
  <2>5. Rewritten(out', code', at' - 1, {"NO_OP"}, {}) /\ Slotted(out')
    <3>1. Rewritten(<<>>, s, 0, {"NO_OP"}, {}) /\ Slotted(<<>>)
      BY DEF Rewritten, Slotted
    <3>2. out' = <<>> /\ code' = s /\ at' - 1 = 0
      BY <1>2, <1>12
    <3> QED
      BY <3>1, <3>2
  <2>6. /\ at' \in 1..Len(code') /\ Closed(code') /\ LastIsEnd(code') /\ Accepted(code')
    <3>1. code' = s /\ at' = 1
      BY <1>2, <1>12
    <3>2. Len(s) > 0
      BY <2>4 DEF LastIsEnd
    <3>3. Len(s) \in Nat
      BY <1>7
    <3>4. 1 \in 1..Len(s)
      BY <3>2, <3>3
    <3> QED
      BY <1>7, <2>3, <2>4, <3>1, <3>4
  <2>7. Padding'
    BY <2>5, <2>6 DEF Padding
  <2> QED
    BY <1>9, <1>10, <2>1, <2>7 DEF FlowInv
<1> QED
  BY <1>11, <1>12

LEMMA RewrittenAccepted ==
  ASSUME NEW s \in Seq(Instructions), NEW c \in Seq(Instructions),
         Rewritten(s, c, Len(c), {"NO_OP"}, {}), Accepted(c)
  PROVE  Accepted(s)
<1>1. /\ \A k \in 1..Len(s) : s[k].tag = "NO_OP" \/ \E j \in 1..Len(c) : s[k] = c[j]
      /\ \A j \in 1..Len(c) : \E k \in 1..Len(s) : s[k] = c[j]
  BY DEF Rewritten
<1>2. CASE \E j \in 1..Len(c) : RotatedByRegister(c[j])
  <2>1. PICK j \in 1..Len(c) : RotatedByRegister(c[j])
    BY <1>2
  <2>2. PICK k \in 1..Len(s) : s[k] = c[j]
    BY <1>1, <2>1
  <2>3. RotatedByRegister(s[k])
    BY <2>1, <2>2
  <2> QED
    BY <2>2, <2>3 DEF Accepted
<1>3. CASE \A j \in 1..Len(c) : Encodes(c[j]) \/ MissedConflict(c[j])
  <2> SUFFICES ASSUME NEW k \in 1..Len(s) PROVE Encodes(s[k]) \/ MissedConflict(s[k])
    BY DEF Accepted
  <2>1. CASE s[k].tag = "NO_OP"
    BY <2>1 DEF Encodes
  <2>2. CASE \E j \in 1..Len(c) : s[k] = c[j]
    BY <1>3, <2>2
  <2> QED
    BY <1>1, <2>1, <2>2
<1> QED
  BY <1>2, <1>3 DEF Accepted

LEMMA JoinedEnded ==
  ASSUME NEW s \in Seq(Instructions), NEW t \in Seq(Instructions), NEW e, Ended(t, e)
  PROVE  Ended(s \o t, Len(s) + e)
<1>1. PICK c : c = s \o t
  OBVIOUS
<1>2. /\ Len(c) = Len(s) + Len(t) /\ Len(s) \in Nat /\ Len(t) \in Nat
      /\ \A j \in 1..Len(t) : c[Len(s) + j] = t[j]
  BY <1>1, Joined
<1>3. e \in 1..Len(t) /\ t[e].tag = "END"
  BY DEF Ended
<1>4. Len(s) + e \in 1..Len(c) /\ c[Len(s) + e].tag = "END"
  BY <1>2, <1>3
<1>5. ASSUME NEW k \in 1..Len(c), k > Len(s) + e PROVE c[k].tag = "NO_OP"
  <2>1. k - Len(s) \in 1..Len(t) /\ k - Len(s) > e /\ k = Len(s) + (k - Len(s))
    BY <1>2, <1>3, <1>5
  <2>2. PICK j \in 1..Len(t) : j > e /\ k = Len(s) + j
    BY <2>1
  <2>3. t[j].tag = "NO_OP"
    BY <2>2 DEF Ended
  <2> QED
    BY <1>2, <2>2, <2>3
<1> QED
  BY <1>1, <1>4, <1>5 DEF Ended

LEMMA InsertNopsFlow == IInv /\ FlowInv /\ InsertNops => FlowInv'
<1> SUFFICES ASSUME IInv, FlowInv, InsertNops PROVE FlowInv'
  OBVIOUS
<1>1. PICK s, w : s = out \o w /\ w = WithNops(at)
  OBVIOUS
<1>2. /\ phase = "nops" /\ UNCHANGED <<program, live, prefer, lastFile, qpu>>
      /\ \/ /\ at < Len(code) /\ at' = at + 1 /\ phase' = "nops"
            /\ out' = s /\ code' = code
         \/ /\ ~(at < Len(code)) /\ at' = 1 /\ phase' = "link"
            /\ out' = <<>> /\ code' = s
  BY <1>1 DEF InsertNops, Rewrite, Advance, allocVars, runVars
<1>3. /\ code \in Seq(Instructions) /\ out \in Seq(Instructions) /\ Len(code) \in Nat
      /\ at \in 1..Len(code) /\ Rewritten(out, code, at - 1, {"NO_OP"}, {})
      /\ Closed(code) /\ LastIsEnd(code) /\ Accepted(code) /\ Slotted(out)
  BY <1>2 DEF FlowInv, Typed, Padding
<1>4. code[at] \in Instructions /\ Padded(w, code[at])
  BY <1>1, <1>3, PaddedIs
<1>5. w \in Seq(Instructions) /\ Slotted(w)
  BY <1>4 DEF Padded
<1>6. s \in Seq(Instructions) /\ Slotted(s)
  BY <1>1, <1>3, <1>5, Joined, JoinedSlotted
<1>7. Rewritten(s, code, at, {"NO_OP"}, {})
  <2>1. \A k \in 1..Len(w) : w[k].tag \in {"NO_OP"} \/ w[k] = code[at]
    BY <1>4 DEF Padded
  <2>2. \E k \in 1..Len(w) : w[k] = code[at]
    BY <1>4 DEF Padded
  <2>3. Rewritten(out \o w, code, at, {"NO_OP"}, {})
    BY <1>3, <1>5, <2>1, <2>2, RewrittenMore
  <2> QED
    BY <1>1, <2>3
<1>8. Typed'
  <2>1. out' \in {<<>>, s} /\ code' \in {code, s} /\ at' \in {1, at + 1}
    BY <1>2
  <2>2. at + 1 \in Nat /\ <<>> \in Seq(Instructions)
    BY <1>3
  <2>3. at' \in Nat
    BY <2>1, <2>2
  <2>4. out' \in Seq(Instructions)
    BY <1>6, <2>1, <2>2
  <2>5. code' \in Seq(Instructions)
    BY <1>3, <1>6, <2>1
  <2> QED
    BY <1>2, <2>3, <2>4, <2>5 DEF FlowInv, Typed, Vars
<1>9. Before' /\ Moving' /\ Running'
  BY <1>2 DEF FlowInv, Before, Moving, Running, Analysis
<1>10. CASE at < Len(code)
  <2>1. Rewritten(out', code', at' - 1, {"NO_OP"}, {})
    <3>1. out' = s /\ code' = code /\ at' - 1 = at
      BY <1>2, <1>3, <1>10
    <3> QED
      BY <1>7, <3>1
  <2>2. /\ at' \in 1..Len(code') /\ Closed(code') /\ LastIsEnd(code') /\ Accepted(code')
        /\ Slotted(out')
    BY <1>2, <1>3, <1>6, <1>10
  <2>3. Padding'
    BY <2>1, <2>2 DEF Padding
  <2>4. Linking'
    BY <1>2, <1>10 DEF Linking
  <2> QED
    BY <1>8, <1>9, <2>3, <2>4 DEF FlowInv
<1>11. CASE ~(at < Len(code))
  <2>1. at = Len(code)
    BY <1>3, <1>11
  <2>2. Rewritten(s, code, Len(code), {"NO_OP"}, {})
    BY <1>7, <2>1
  <2>3. Closed(s)
    BY <1>3, <1>6, <2>2, RewrittenClosed
  <2>4. Accepted(s)
    BY <1>3, <1>6, <2>2, RewrittenAccepted
  <2>5. \E e \in 1..Len(s) : Ended(s, e)
    <3>1. code[at].tag = "END"
      BY <1>3, <2>1 DEF LastIsEnd
    <3>2. PICK e \in 1..Len(w) : Ended(w, e)
      BY <1>4, <3>1 DEF Padded
    <3>3. Ended(s, Len(out) + e)
      BY <1>1, <1>3, <1>5, <3>2, JoinedEnded
    <3> QED
      BY <3>3 DEF Ended
  <2>6. Linking'
    <3>1. code' = s
      BY <1>2, <1>11
    <3> QED
      BY <1>6, <2>3, <2>4, <2>5, <3>1 DEF Linking
  <2>7. Padding'
    BY <1>2, <1>11 DEF Padding
  <2> QED
    BY <1>8, <1>9, <2>6, <2>7 DEF FlowInv
<1> QED
  BY <1>10, <1>11

----------------------------------------------------------------------------
\* From the well-foundedness of the subsets of a finite set.
LEMMA LeastNumber ==
  ASSUME NEW T \in SUBSET Nat, T # {}
  PROVE  \E n \in T : \A m \in T : n <= m
<1> DEFINE F == {0 .. n : n \in T}
<1>1. IsWellFoundedOn(StrictSubsetOrdering(Nat), FiniteSubsetsOf(Nat))
  BY FS_StrictSubsetOrderingWellFounded
<1>2. F \subseteq FiniteSubsetsOf(Nat)
  <2>1. \A n \in Nat : 0 .. n \in SUBSET Nat /\ IsFiniteSet(0 .. n)
    BY FS_Interval
  <2> QED
    BY <2>1 DEF FiniteSubsetsOf
<1>3. F # {}
  OBVIOUS
<1> HIDE DEF F
<1>4. \E x \in F : \A y \in F : ~(<<y, x>> \in StrictSubsetOrdering(Nat))
  BY <1>1, <1>2, <1>3, WFMin
<1>5. PICK n \in T : \A y \in F : ~(<<y, 0 .. n>> \in StrictSubsetOrdering(Nat))
  BY <1>4 DEF F
<1>6. ASSUME NEW m \in T, m < n PROVE FALSE
  <2>1. 0 .. m \in F
    BY DEF F
  <2>2. 0 .. m \subseteq 0 .. n /\ n \in 0 .. n /\ n \notin 0 .. m
    BY <1>6
  <2>3. <<0 .. m, 0 .. n>> \in (SUBSET Nat) \X (SUBSET Nat)
    OBVIOUS
  <2>4. <<0 .. m, 0 .. n>> \in StrictSubsetOrdering(Nat)
    <3> DEFINE ss == <<0 .. m, 0 .. n>>
    <3>1. ss[1] \subseteq ss[2] /\ ss[1] # ss[2]
      BY <2>2, Zenon
    <3> HIDE DEF ss
    <3> QED
      BY <2>3, <3>1 DEF StrictSubsetOrdering, ss
  <2> QED
    BY <2>1, <2>4, <1>5
<1> QED
  BY <1>5, <1>6

\* The place of an instruction when the labels are gone.
Counted(i) == {j \in 1..i : NotLabel(code[j])}

LEMMA PlaceIs ==
  ASSUME NEW i \in Nat
  PROVE  Place(i) \in Nat /\ Place(i) = Cardinality(Counted(i)) /\ IsFiniteSet(Counted(i))
<1>1. IsFiniteSet(1..i) /\ Counted(i) \in SUBSET (1..i)
  BY FS_Interval DEF Counted
<1>2. IsFiniteSet(Counted(i))
  BY <1>1, FS_Subset
<1>3. Place(i) = Cardinality(Counted(i))
  BY DEF Place, Counted
<1> QED
  BY <1>2, <1>3, FS_CardinalityType

LEMMA PlaceNext ==
  ASSUME NEW i \in Nat
  PROVE  Place(i + 1) = IF NotLabel(code[i + 1]) THEN Place(i) + 1 ELSE Place(i)
<1>1. i + 1 \in Nat /\ i + 1 \notin Counted(i)
  BY DEF Counted
<1>2. CASE NotLabel(code[i + 1])
  <2>1. Counted(i + 1) = Counted(i) \cup {i + 1}
    BY <1>2 DEF Counted
  <2>2. Cardinality(Counted(i) \cup {i + 1}) = Cardinality(Counted(i)) + 1
    BY <1>1, PlaceIs, FS_AddElement
  <2> QED
    BY <1>1, <1>2, <2>1, <2>2, PlaceIs
<1>3. CASE ~NotLabel(code[i + 1])
  <2>1. Counted(i + 1) = Counted(i)
    BY <1>3 DEF Counted
  <2> QED
    BY <1>1, <1>3, <2>1, PlaceIs
<1> QED
  BY <1>2, <1>3

LEMMA PlaceZero == Place(0) = 0
<1>1. Counted(0) = {}
  BY DEF Counted
<1> QED
  BY <1>1, PlaceIs, FS_EmptySet

LEMMA PlaceMonotone ==
  ASSUME NEW i \in Nat, NEW j \in Nat, i <= j
  PROVE  Place(i) <= Place(j)
<1>1. Counted(i) \in SUBSET Counted(j)
  BY DEF Counted
<1> QED
  BY <1>1, PlaceIs, FS_Subset

LEMMA PlaceBefore ==
  ASSUME NEW i \in Nat, NEW j \in Nat, i < j, NotLabel(code[j])
  PROVE  Place(i) < Place(j)
<1>1. PICK k \in Nat : j = k + 1 /\ i <= k
  <2>1. j - 1 \in Nat /\ j = (j - 1) + 1 /\ i <= j - 1
    OBVIOUS
  <2> QED
    BY <2>1
<1>2. Place(j) = Place(k) + 1
  BY <1>1, PlaceNext
<1>3. Place(i) <= Place(k) /\ Place(i) \in Nat /\ Place(k) \in Nat
  BY <1>1, PlaceMonotone, PlaceIs
<1> QED
  BY <1>2, <1>3

LEMMA PlaceOnto ==
  ASSUME NEW n \in Nat, NEW k \in 1..Place(n)
  PROVE  \E i \in 1..n : NotLabel(code[i]) /\ Place(i) = k
<1> DEFINE T == {m \in Nat : k <= Place(m)}
<1>1. n \in T /\ Place(n) \in Nat
  BY PlaceIs
<1>2. PICK m \in T : \A l \in T : m <= l
  <2>1. T \in SUBSET Nat /\ T # {}
    BY <1>1
  <2> HIDE DEF T
  <2> QED
    BY <2>1, LeastNumber
<1>3. m \in Nat /\ k <= Place(m) /\ m <= n
  BY <1>1, <1>2
<1>4. m # 0
  BY <1>1, <1>3, PlaceZero
<1>5. PICK l \in Nat : m = l + 1
  <2>1. m - 1 \in Nat /\ m = (m - 1) + 1
    BY <1>3, <1>4
  <2> QED
    BY <2>1
<1>6. Place(l) < k /\ Place(l) \in Nat
  BY <1>1, <1>2, <1>5, PlaceIs
<1>7. Place(m) = IF NotLabel(code[m]) THEN Place(l) + 1 ELSE Place(l)
  BY <1>5, PlaceNext
<1>8. NotLabel(code[m]) /\ Place(m) = k
  BY <1>1, <1>3, <1>6, <1>7
<1>9. m \in 1..n
  BY <1>3, <1>4
<1> QED
  BY <1>8, <1>9

\* The instruction whose place it is.
Kept(k) == CHOOSE i \in DOMAIN code : NotLabel(code[i]) /\ Place(i) = k

LEMMA KeptIs ==
  ASSUME code \in Seq(Instructions), NEW k \in 1..Place(Len(code))
  PROVE  Kept(k) \in 1..Len(code) /\ NotLabel(code[Kept(k)]) /\ Place(Kept(k)) = k
<1>1. DOMAIN code = 1..Len(code) /\ Len(code) \in Nat
  OBVIOUS
<1>2. \E i \in DOMAIN code : NotLabel(code[i]) /\ Place(i) = k
  BY <1>1, PlaceOnto
<1>3. Kept(k) \in DOMAIN code /\ NotLabel(code[Kept(k)]) /\ Place(Kept(k)) = k
  BY <1>2, Zenon DEF Kept
<1> QED
  BY <1>1, <1>3

LEMMA KeptAt ==
  ASSUME code \in Seq(Instructions), NEW i \in 1..Len(code), NotLabel(code[i])
  PROVE  Place(i) \in 1..Place(Len(code)) /\ Kept(Place(i)) = i
<1>1. i \in Nat /\ Len(code) \in Nat /\ 0 < i /\ i <= Len(code) /\ 0 \in Nat
  OBVIOUS
<1>2. Place(0) < Place(i) /\ Place(i) <= Place(Len(code))
  BY <1>1, PlaceBefore, PlaceMonotone
<1>3. Place(i) \in Nat /\ Place(Len(code)) \in Nat
  BY <1>1, PlaceIs
<1>4. Place(i) \in 1..Place(Len(code))
  BY <1>2, <1>3, PlaceZero
<1>5. PICK j : j = Kept(Place(i))
  OBVIOUS
<1>6. j \in 1..Len(code) /\ NotLabel(code[j]) /\ Place(j) = Place(i)
  BY <1>4, <1>5, KeptIs
<1>7. j \in Nat
  BY <1>6
<1>8. ~(i < j)
  <2> SUFFICES ASSUME i < j PROVE FALSE
    OBVIOUS
  <2>1. Place(i) < Place(j)
    BY <1>1, <1>6, <1>7, PlaceBefore
  <2> QED
    BY <1>3, <1>6, <2>1
<1>9. ~(j < i)
  <2> SUFFICES ASSUME j < i PROVE FALSE
    OBVIOUS
  <2>1. Place(j) < Place(i)
    BY <1>1, <1>6, <1>7, PlaceBefore
  <2> QED
    BY <1>3, <1>6, <2>1
<1>10. i = j
  BY <1>1, <1>7, <1>8, <1>9
<1> QED
  BY <1>4, <1>5, <1>10

LEMMA LinkedIs ==
  ASSUME code \in Seq(Instructions), Closed(code), NEW i \in 1..Len(code)
  PROVE  /\ Linked(i) \in Instructions
         /\ code[i].tag # "BRL" => Linked(i) = code[i]
         /\ code[i].tag = "BRL" =>
              /\ Linked(i).tag = "BR"
              /\ \E b \in 1..Len(code) : /\ code[b].tag = "LAB"
                                         /\ Linked(i).label = Place(b) + 1 - 4 - Place(i)
<1>1. PICK instr \in Instructions : instr = code[i]
  OBVIOUS
<1>2. CASE instr.tag # "BRL"
  BY <1>1, <1>2 DEF Linked
<1>3. CASE instr.tag = "BRL"
  <2>1. PICK b : b = BranchTo(i)
    OBVIOUS
  <2>2. b \in 1..Len(code) /\ code[b].tag = "LAB"
    <3>1. \E j \in 1..Len(code) : code[j].tag = "LAB" /\ code[j].label = code[i].label
      BY <1>1, <1>3 DEF Closed
    <3>2. Labelled(code[i].label) # {}
      BY <3>1 DEF Labelled
    <3>3. b \in Labelled(code[i].label)
      BY <2>1, <3>2 DEF BranchTo
    <3> QED
      BY <3>3 DEF Labelled
  <2>3. PICK l : l = Place(b) + 1 - 4 - Place(i)
    OBVIOUS
  <2>4. l \in Int
    <3>1. b \in Nat /\ i \in Nat
      BY <2>2
    <3>2. Place(b) \in Nat /\ Place(i) \in Nat
      BY <3>1, PlaceIs
    <3> QED
      BY <2>3, <3>2
  <2>5. Linked(i) = [instr EXCEPT !.tag = "BR", !.label = l]
    BY <1>1, <1>3, <2>1, <2>3 DEF Linked
  <2>6. Linked(i) \in Instructions /\ Linked(i).tag = "BR" /\ Linked(i).label = l
    BY <2>4, <2>5 DEF Instructions
  <2> QED
    BY <1>1, <1>3, <2>2, <2>3, <2>6
<1> QED
  BY <1>2, <1>3

\* The delay slots of a branch stay behind it.
LEMMA IdleKept ==
  ASSUME code \in Seq(Instructions), NEW i \in 1..Len(code), Idle(code, i), NEW d \in 1..3
  PROVE  /\ Place(i) + d \in 1..Place(Len(code))
         /\ Kept(Place(i) + d) \in 1..Len(code)
         /\ code[Kept(Place(i) + d)].tag = "NO_OP"
<1>1. /\ i \in Nat /\ i + 1 \in 1..Len(code) /\ i + 2 \in 1..Len(code) /\ i + 3 \in 1..Len(code)
      /\ i + 1 \in Nat /\ i + 2 \in Nat /\ (i + 1) + 1 = i + 2 /\ (i + 2) + 1 = i + 3
      /\ code[i + 1].tag = "NO_OP" /\ code[i + 2].tag = "NO_OP" /\ code[i + 3].tag = "NO_OP"
  BY DEF Idle
<1>2. NotLabel(code[i + 1]) /\ NotLabel(code[i + 2]) /\ NotLabel(code[i + 3])
  BY <1>1 DEF NotLabel
<1>3. /\ Place(i + 1) = Place(i) + 1 /\ Place(i + 2) = Place(i + 1) + 1
      /\ Place(i + 3) = Place(i + 2) + 1 /\ Place(i) \in Nat
  BY <1>1, <1>2, PlaceNext, PlaceIs
<1>4. Place(i + d) = Place(i) + d /\ i + d \in 1..Len(code) /\ code[i + d].tag = "NO_OP"
  BY <1>1, <1>3
<1>5. NotLabel(code[i + d])
  BY <1>4 DEF NotLabel
<1>6. Place(i + d) \in 1..Place(Len(code)) /\ Kept(Place(i + d)) = i + d
  BY <1>4, <1>5, KeptAt
<1> QED
  BY <1>4, <1>6

\* What removeLabels makes of the code.
Unlabelled(c) == /\ c \in Seq(Instructions) /\ Len(c) = Place(Len(code))
                 /\ \A k \in 1..Len(c) : c[k] = Linked(Kept(k))

LEMMA UnlabelledAccepted ==
  ASSUME code \in Seq(Instructions), Closed(code), Accepted(code), NEW c, Unlabelled(c)
  PROVE  Accepted(c)
<1>1. CASE \E i \in 1..Len(code) : RotatedByRegister(code[i])
  <2>1. PICK i \in 1..Len(code) : RotatedByRegister(code[i])
    BY <1>1
  <2>2. code[i].tag = "ALU"
    BY <2>1 DEF RotatedByRegister
  <2>3. Place(i) \in 1..Len(c) /\ Kept(Place(i)) = i
    BY <2>2, KeptAt DEF NotLabel, Unlabelled
  <2>4. c[Place(i)] = code[i]
    BY <2>2, <2>3, LinkedIs DEF Unlabelled
  <2>5. RotatedByRegister(c[Place(i)])
    BY <2>1, <2>4
  <2> QED
    BY <2>3, <2>5 DEF Accepted
<1>2. CASE \A i \in 1..Len(code) : Encodes(code[i]) \/ MissedConflict(code[i])
  <2> SUFFICES ASSUME NEW k \in 1..Len(c) PROVE Encodes(c[k]) \/ MissedConflict(c[k])
    BY DEF Accepted
  <2>1. PICK i \in 1..Len(code) : i = Kept(k)
    BY KeptIs DEF Unlabelled
  <2>2. c[k] = Linked(i)
    BY <2>1 DEF Unlabelled
  <2>3. CASE code[i].tag = "BRL"
    <3>1. c[k].tag = "BR"
      BY <2>2, <2>3, LinkedIs
    <3> QED
      BY <3>1 DEF Encodes
  <2>4. CASE code[i].tag # "BRL"
    <3>1. c[k] = code[i]
      BY <2>2, <2>4, LinkedIs
    <3> QED
      BY <1>2, <3>1
  <2> QED
    BY <2>3, <2>4
<1> QED
  BY <1>1, <1>2 DEF Accepted

LEMMA UnlabelledEnded ==
  ASSUME code \in Seq(Instructions), Closed(code), NEW c, Unlabelled(c),
         NEW e \in 1..Len(code), Ended(code, e)
  PROVE  Place(e) \in 1..Len(c) /\ Ended(c, Place(e))
<1>1. code[e].tag = "END"
  BY DEF Ended
<1>2. Place(e) \in 1..Len(c) /\ Kept(Place(e)) = e
  BY <1>1, KeptAt DEF NotLabel, Unlabelled
<1>3. c[Place(e)].tag = "END"
  BY <1>1, <1>2, LinkedIs DEF Unlabelled
<1>4. ASSUME NEW k \in 1..Len(c), k > Place(e) PROVE c[k].tag = "NO_OP"
  <2>1. PICK i \in 1..Len(code) : i = Kept(k) /\ Place(i) = k
    BY KeptIs DEF Unlabelled
  <2>2. i > e
    <3>1. e \in Nat /\ i \in Nat /\ Place(i) \in Nat /\ Place(e) \in Nat
      BY PlaceIs
    <3>2. ~(i <= e)
      <4> SUFFICES ASSUME i <= e PROVE FALSE
        OBVIOUS
      <4>1. Place(i) <= Place(e)
        BY <3>1, PlaceMonotone
      <4> QED
        BY <1>4, <2>1, <3>1, <4>1
    <3> QED
      BY <3>1, <3>2
  <2>3. code[i].tag = "NO_OP"
    BY <2>2 DEF Ended
  <2>4. c[k] = code[i]
    BY <2>1, <2>3, LinkedIs DEF Unlabelled
  <2> QED
    BY <2>3, <2>4
<1> QED
  BY <1>2, <1>3, <1>4 DEF Ended

LEMMA UnlabelledBounded ==
  ASSUME code \in Seq(Instructions), Closed(code), Slotted(code), NEW c, Unlabelled(c),
         NEW e \in 1..Len(code), Ended(code, e)
  PROVE  Bounded(c, Place(e))
<1>1. code[e].tag = "END" /\ \A i \in 1..Len(code) : i > e => code[i].tag = "NO_OP"
  BY DEF Ended
<1>2. Place(e) \in 1..Len(c) /\ NotLabel(code[e]) /\ e \in Nat /\ Place(e) \in Nat
  BY <1>1, UnlabelledEnded, PlaceIs DEF NotLabel
<1> SUFFICES ASSUME NEW k \in 1..Len(c), c[k].tag = "BR"
             PROVE  k + 4 + c[k].label \in 1..Place(e) /\ k < Place(e) /\ Idle(c, k)
  BY DEF Bounded
<1>3. PICK i \in 1..Len(code) : i = Kept(k) /\ Place(i) = k
  BY KeptIs DEF Unlabelled
<1>4. c[k] = Linked(i)
  BY <1>3 DEF Unlabelled
<1>5. code[i].tag = "BRL"
  <2> SUFFICES ASSUME code[i].tag # "BRL" PROVE FALSE
    OBVIOUS
  <2>1. code[i].tag = "BR"
    BY <1>4, LinkedIs
  <2> QED
    BY <2>1 DEF Closed
<1>6. PICK b \in 1..Len(code) : code[b].tag = "LAB" /\ c[k].label = Place(b) + 1 - 4 - k
  BY <1>3, <1>4, <1>5, LinkedIs
<1>7. b < e /\ i < e /\ b \in Nat /\ i \in Nat
  <2>1. b # e /\ ~(b > e) /\ i # e /\ ~(i > e)
    BY <1>1, <1>5, <1>6
  <2> QED
    BY <2>1
<1>8. Place(b) < Place(e) /\ Place(b) \in Nat
  BY <1>2, <1>7, PlaceBefore, PlaceIs
<1>9. k < Place(e)
  BY <1>2, <1>3, <1>7, PlaceBefore
<1>10. k + 4 + c[k].label \in 1..Place(e)
  <2>1. k + 4 + (Place(b) + 1 - 4 - k) = Place(b) + 1
    BY <1>8
  <2>2. Place(b) + 1 \in 1..Place(e)
    BY <1>2, <1>8
  <2> QED
    BY <1>6, <2>1, <2>2
<1>11. Idle(code, i)
  BY <1>5 DEF Slotted
<1>12. ASSUME NEW d \in 1..3 PROVE k + d \in 1..Len(c) /\ c[k + d].tag = "NO_OP"
  <2>1. /\ k + d \in 1..Len(c) /\ Kept(k + d) \in 1..Len(code)
        /\ code[Kept(k + d)].tag = "NO_OP"
    BY <1>3, <1>11, IdleKept DEF Unlabelled
  <2>2. c[k + d] = Linked(Kept(k + d))
    BY <2>1 DEF Unlabelled
  <2>3. c[k + d] = code[Kept(k + d)]
    BY <2>1, <2>2, LinkedIs
  <2> QED
    BY <2>1, <2>3
<1>13. Idle(c, k)
  <2>1. 3 \in 1..3
    OBVIOUS
  <2>2. k + 3 \in 1..Len(c)
    BY <1>12, <2>1
  <2>3. k + 3 <= Len(c)
    BY <2>2
  <2> QED
    BY <1>12, <2>3 DEF Idle
<1> QED
  BY <1>9, <1>10, <1>13

LEMMA RemoveLabelsFlow == FlowInv /\ RemoveLabels => FlowInv'
<1> SUFFICES ASSUME FlowInv, RemoveLabels PROVE FlowInv'
  OBVIOUS
<1>1. /\ phase = "link" /\ phase' = "encode" /\ at' = 1
      /\ UNCHANGED <<program, out, live, prefer, lastFile, qpu>>
  BY DEF RemoveLabels, allocVars, runVars
<1>2. /\ code \in Seq(Instructions) /\ Closed(code) /\ Accepted(code) /\ Slotted(code)
      /\ \E e \in 1..Len(code) : Ended(code, e)
  BY <1>1 DEF FlowInv, Typed, Linking
<1>3. PICK c : c = code'
  OBVIOUS
<1>4. c = [k \in 1..Place(Len(code)) |-> Linked(Kept(k))]
  BY <1>3 DEF RemoveLabels, Kept
<1>5. Unlabelled(c)
  <2>1. Place(Len(code)) \in Nat
    <3>1. Len(code) \in Nat
      BY <1>2
    <3> QED
      BY <3>1, PlaceIs
  <2>2. \A k \in 1..Place(Len(code)) : Linked(Kept(k)) \in Instructions
    BY <1>2, KeptIs, LinkedIs
  <2>3. c \in [1..Place(Len(code)) -> Instructions]
    BY <1>4, <2>2
  <2>4. c \in Seq(Instructions) /\ Len(c) = Place(Len(code))
    BY <2>1, <2>3
  <2>5. \A k \in 1..Place(Len(code)) : c[k] = Linked(Kept(k))
    BY <1>4
  <2> QED
    BY <2>4, <2>5 DEF Unlabelled
<1>6. PICK e \in 1..Len(c) : Ended(c, e) /\ Bounded(c, e)
  BY <1>2, <1>5, UnlabelledEnded, UnlabelledBounded
<1>7. Accepted(c) /\ c \in Seq(Instructions)
  BY <1>2, <1>5, UnlabelledAccepted DEF Unlabelled
<1>8. Typed'
  BY <1>1, <1>3, <1>7 DEF FlowInv, Typed, Vars
<1>9. Before' /\ Moving' /\ Padding' /\ Linking'
  BY <1>1 DEF Before, Moving, Padding, Linking, Analysis
<1>10. Running'
  <2>1. {"pc", "slots", "target"} \subseteq DOMAIN qpu /\ qpu.pc = 1 /\ qpu.slots = 0
    BY <1>1 DEF FlowInv, Running
  <2>2. qpu'.pc = 1 /\ qpu'.slots = 0 /\ {"pc", "slots", "target"} \subseteq DOMAIN qpu'
    BY <1>1, <2>1
  <2>3. e \in 1..Len(code') /\ Ended(code', e) /\ Bounded(code', e) /\ Accepted(code')
    BY <1>3, <1>6, <1>7
  <2>4. 1 \in 1..e
    BY <1>6
  <2>5. OnTrack(e)'
    BY <2>2, <2>4 DEF OnTrack
  <2> QED
    BY <1>1, <2>2, <2>3, <2>5 DEF Running
<1> QED
  BY <1>8, <1>9, <1>10 DEF FlowInv

LEMMA EncodeFlow == FlowInv /\ Encode => FlowInv'
<1> SUFFICES ASSUME FlowInv, Encode PROVE FlowInv'
  OBVIOUS
<1>1. /\ phase = "encode" /\ UNCHANGED <<program, at, code, out, qpu>>
      /\ UNCHANGED <<live, prefer, lastFile>>
      /\ \/ phase' = "run"
         \/ phase' = "aborted" /\ \E i \in DOMAIN code : ~Encodes(code[i])
  BY DEF Encode, allocVars, runVars
<1>2. code \in Seq(Instructions) /\ DOMAIN code = 1..Len(code)
  BY DEF FlowInv, Typed
<1>3. Typed'
  BY <1>1 DEF FlowInv, Typed, Vars
<1>4. Before' /\ Moving' /\ Padding' /\ Linking'
  BY <1>1 DEF Before, Moving, Padding, Linking, Analysis
<1>5. Running'
  <2>1. PICK e \in 1..Len(code) : Ended(code, e) /\ Bounded(code, e) /\ OnTrack(e)
    BY <1>1 DEF FlowInv, Running
  <2>2. {"pc", "slots", "target"} \subseteq DOMAIN qpu /\ Accepted(code)
    BY <1>1 DEF FlowInv, Running
  <2>3. OnTrack(e)'
    BY <1>1, <2>1 DEF OnTrack
  <2> QED
    BY <1>1, <1>2, <2>1, <2>2, <2>3 DEF Running
<1> QED
  BY <1>3, <1>4, <1>5 DEF FlowInv

----------------------------------------------------------------------------
\* What an instruction writes is not where the QPU goes.
SamePlace(q) == /\ {"pc", "slots", "target"} \subseteq DOMAIN q
                /\ q.pc = qpu.pc /\ q.slots = qpu.slots /\ q.target = qpu.target

LEMMA OtherField ==
  ASSUME NEW q, SamePlace(q), NEW v,
         NEW field \in {"uniform", "written", "before", "flags", "acc", "regs"}
  PROVE  SamePlace([q EXCEPT ![field] = v])
BY DEF SamePlace

LEMMA WriteSamePlace ==
  ASSUME NEW q, SamePlace(q), NEW instr, NEW v
  PROVE  SamePlace(Write(q, instr, v))
<1>1. PICK r : r = instr.dest
  OBVIOUS
<1>2. PICK old : old = CASE r.tag = "ACC" -> q.acc[r.id]
                         [] r.tag \in Files -> q.regs[r.tag][r.id]
                         [] OTHER -> Junk
  OBVIOUS
<1>3. PICK new : new = Assigned(instr, old, v)
  OBVIOUS
<1>4. PICK w : w = [q EXCEPT !.written = r, !.before = old,
                             !.flags = IF instr.setFlags THEN Assigned(instr, @, v) ELSE @]
  OBVIOUS
<1>5. SamePlace(w)
  BY <1>4 DEF SamePlace
<1>6. Write(q, instr, v) = CASE r.tag = "ACC" -> [w EXCEPT !.acc[r.id] = new]
                             [] r.tag \in Files -> [w EXCEPT !.regs[r.tag][r.id] = new]
                             [] OTHER -> w
  BY <1>1, <1>2, <1>3, <1>4 DEF Write
<1>7. SamePlace([w EXCEPT !.acc[r.id] = new])
  BY <1>5 DEF SamePlace
<1>8. SamePlace([w EXCEPT !.regs[r.tag][r.id] = new])
  BY <1>5 DEF SamePlace
<1>9. CASE r.tag = "ACC"
  BY <1>6, <1>7, <1>9 DEF Files
<1>10. CASE r.tag \in Files
  BY <1>6, <1>8, <1>10 DEF Files
<1>11. CASE r.tag # "ACC" /\ r.tag \notin Files
  BY <1>5, <1>6, <1>11
<1> QED
  BY <1>9, <1>10, <1>11

LEMMA ExecutedIs ==
  ASSUME NEW instr, {"pc", "slots", "target"} \subseteq DOMAIN qpu
  PROVE  \E m : SamePlace(m) /\ Executed(instr) = Follow(m)
<1>1. SamePlace(qpu)
  BY DEF SamePlace
<1>2. PICK q : q = [qpu EXCEPT !.uniform = IF Uniform \in UsesReg(instr) THEN @ + 1 ELSE @]
  OBVIOUS
<1>3. SamePlace(q)
  BY <1>1, <1>2 DEF SamePlace
<1>4. PICK quiet : quiet = [qpu EXCEPT !.written = None]
  OBVIOUS
<1>5. SamePlace(quiet)
  BY <1>1, <1>4, OtherField
<1>6. PICK m : m = IF instr.tag \in {"LI", "ALU"} THEN Write(q, instr, Result(instr)) ELSE quiet
  OBVIOUS
<1>7. SamePlace(m)
  BY <1>3, <1>5, <1>6, WriteSamePlace
<1>8. Executed(instr) = Follow(m)
  BY <1>2, <1>4, <1>6 DEF Executed
<1> QED
  BY <1>7, <1>8

LEMMA FollowIs ==
  ASSUME NEW m, SamePlace(m)
  PROVE  /\ {"pc", "slots", "target"} \subseteq DOMAIN Follow(m)
         /\ Follow(m).pc = IF qpu.slots = 1 THEN qpu.target ELSE qpu.pc + 1
         /\ Follow(m).slots = IF qpu.slots = 0 THEN 0 ELSE qpu.slots - 1
         /\ Follow(m).target = qpu.target
BY DEF Follow, SamePlace

\* The QPU stays on its way to the end.
LEMMA StepOnTrack ==
  ASSUME FlowInv, Step
  PROVE  /\ {"pc", "slots", "target"} \subseteq DOMAIN qpu'
         /\ \E e \in 1..Len(code') : Ended(code', e) /\ Bounded(code', e) /\ OnTrack(e)'
<1>1. phase = "run" /\ code' = code /\ code[qpu.pc].tag # "END"
  BY DEF Step
<1>2. {"pc", "slots", "target"} \subseteq DOMAIN qpu
  BY DEF FlowInv, Running
<1>3. PICK e \in 1..Len(code) : Ended(code, e) /\ Bounded(code, e) /\ OnTrack(e)
  BY <1>1 DEF FlowInv, Running
<1>4. PICK instr : instr = code[qpu.pc]
  OBVIOUS
<1>5. PICK pc, slots, target : pc = qpu.pc /\ slots = qpu.slots /\ target = qpu.target
  OBVIOUS
<1>6. PICK x : x = Executed(instr)
  OBVIOUS
<1>7. /\ {"pc", "slots", "target"} \subseteq DOMAIN x
      /\ x.pc = IF slots = 1 THEN target ELSE pc + 1
      /\ x.slots = IF slots = 0 THEN 0 ELSE slots - 1
      /\ x.target = target
  BY <1>2, <1>5, <1>6, ExecutedIs, FollowIs
<1>8. /\ pc \in 1..e /\ slots \in 0..3
      /\ slots > 0 => target \in 1..e /\ \A d \in 0..2 : d < slots => code[pc + d].tag = "NO_OP"
  BY <1>3, <1>5 DEF OnTrack
<1>9. pc < e /\ pc \in 1..Len(code) /\ e \in Nat
  BY <1>1, <1>3, <1>5, <1>8 DEF Ended
<1>10. CASE instr.tag = "BR" /\ Taken(instr)
  <2>1. PICK goal : goal = pc + 4 + instr.label
    OBVIOUS
  <2>2. qpu' = [x EXCEPT !.slots = 3, !.target = goal]
    BY <1>4, <1>5, <1>6, <1>10, <2>1 DEF Step
  <2>3. slots = 0
    <3> SUFFICES ASSUME slots # 0 PROVE FALSE
      OBVIOUS
    <3>1. code[pc + 0].tag = "NO_OP"
      BY <1>8
    <3>2. pc + 0 = pc
      BY <1>8
    <3> QED
      BY <1>4, <1>5, <1>10, <3>1, <3>2
  <2>4. /\ {"pc", "slots", "target"} \subseteq DOMAIN qpu'
        /\ qpu'.pc = pc + 1 /\ qpu'.slots = 3 /\ qpu'.target = goal
    BY <1>7, <2>2, <2>3
  <2>5. goal \in 1..e /\ Idle(code, pc)
    BY <1>3, <1>4, <1>5, <1>9, <1>10, <2>1 DEF Bounded
  <2>6. \A d \in 0..2 : code[(pc + 1) + d].tag = "NO_OP"
    <3> TAKE d \in 0..2
    <3>1. d + 1 \in 1..3 /\ (pc + 1) + d = pc + (d + 1)
      BY <1>8
    <3>2. code[pc + (d + 1)].tag = "NO_OP"
      BY <2>5, <3>1 DEF Idle
    <3> QED
      BY <3>1, <3>2
  <2>7. pc + 1 \in 1..e
    BY <1>8, <1>9
  <2>8. OnTrack(e)'
    BY <1>1, <2>4, <2>5, <2>6, <2>7 DEF OnTrack
  <2> QED
    BY <1>1, <1>3, <2>4, <2>8
<1>11. CASE ~(instr.tag = "BR" /\ Taken(instr))
  <2>1. qpu' = x
    BY <1>4, <1>6, <1>11 DEF Step
  <2>2. x.pc \in 1..e /\ x.slots \in 0..3
    BY <1>7, <1>8, <1>9
  <2>3. ASSUME x.slots > 0
        PROVE  /\ x.target \in 1..e
               /\ \A d \in 0..2 : d < x.slots => code[x.pc + d].tag = "NO_OP"
    <3>1. slots > 1 /\ x.slots = slots - 1 /\ x.pc = pc + 1
      BY <1>7, <1>8, <2>3
    <3>2. x.target \in 1..e
      BY <1>7, <1>8, <3>1
    <3>3. ASSUME NEW d \in 0..2, d < x.slots PROVE code[x.pc + d].tag = "NO_OP"
      <4>1. d + 1 \in 0..2 /\ d + 1 < slots /\ x.pc + d = pc + (d + 1)
        BY <1>8, <3>1, <3>3
      <4>2. code[pc + (d + 1)].tag = "NO_OP"
        BY <1>8, <3>1, <4>1
      <4> QED
        BY <4>1, <4>2
    <3> QED
      BY <3>2, <3>3
  <2>4. OnTrack(e)'
    BY <1>1, <2>1, <2>2, <2>3 DEF OnTrack
  <2> QED
    BY <1>1, <1>3, <1>7, <2>1, <2>4
<1> QED
  BY <1>10, <1>11

LEMMA StepFlow == FlowInv /\ Step => FlowInv'
<1> SUFFICES ASSUME FlowInv, Step PROVE FlowInv'
  OBVIOUS
<1>1. /\ phase = "run" /\ phase' = phase /\ UNCHANGED <<program, at, code, out>>
      /\ UNCHANGED <<live, prefer, lastFile>>
  BY DEF Step, allocVars
<1>2. Typed'
  BY <1>1 DEF FlowInv, Typed, Vars
<1>3. Before' /\ Moving' /\ Padding' /\ Linking'
  BY <1>1 DEF Before, Moving, Padding, Linking, Analysis
<1>4. Running'
  <2>1. Accepted(code')
    BY <1>1 DEF FlowInv, Running
  <2> QED
    BY <1>1, <2>1, StepOnTrack DEF Running
<1> QED
  BY <1>2, <1>3, <1>4 DEF FlowInv

LEMMA HaltFlow == FlowInv /\ Halt => FlowInv'
<1> SUFFICES ASSUME FlowInv, Halt PROVE FlowInv'
  OBVIOUS
<1>1. /\ phase = "run" /\ phase' = "halted" /\ UNCHANGED <<program, at, code, out, qpu>>
      /\ UNCHANGED <<live, prefer, lastFile>>
  BY DEF Halt, allocVars, runVars
<1>2. Typed'
  BY <1>1 DEF FlowInv, Typed, Vars
<1>3. Before' /\ Moving' /\ Padding' /\ Linking'
  BY <1>1 DEF Before, Moving, Padding, Linking, Analysis
<1>4. Running'
  BY <1>1 DEF FlowInv, Running
<1> QED
  BY <1>2, <1>3, <1>4 DEF FlowInv

LEMMA StutterFlow == FlowInv /\ UNCHANGED vars => FlowInv'
<1> SUFFICES ASSUME FlowInv, UNCHANGED vars PROVE FlowInv'
  OBVIOUS
<1>1. /\ UNCHANGED <<program, phase, at, code, out, qpu>>
      /\ UNCHANGED <<live, prefer, lastFile>>
  BY DEF vars, allocVars, runVars
<1>2. Typed' /\ Before' /\ Moving' /\ Padding' /\ Linking'
  BY <1>1 DEF FlowInv, Typed, Vars, Before, Moving, Padding, Linking
<1>3. \A e : OnTrack(e)' = OnTrack(e)
  BY <1>1 DEF OnTrack
<1>4. Running'
  BY <1>1, <1>3 DEF FlowInv, Running
<1> QED
  BY <1>2, <1>4 DEF FlowInv

LEMMA NextFlow == IInv /\ IInv' /\ FlowInv /\ [Next]_vars => FlowInv'
<1> SUFFICES ASSUME IInv, IInv', FlowInv, [Next]_vars PROVE FlowInv'
  OBVIOUS
<1>1. CASE Propagate \/ SweepEnds \/ IntroduceAccum \/ Prefer \/ Allocate
  BY <1>1, PropagateFlow, SweepEndsFlow, IntroduceAccumFlow, PreferFlow, AllocateFlow
<1>2. CASE OutOfRegisters \/ Apply \/ InsertMoves \/ InsertNops
  BY <1>2, OutOfRegistersFlow, ApplyFlow, InsertMovesFlow, InsertNopsFlow
<1>3. CASE RemoveLabels \/ Encode \/ Step \/ Halt
  BY <1>3, RemoveLabelsFlow, EncodeFlow, StepFlow, HaltFlow
<1>4. CASE UNCHANGED vars
  BY <1>4, StutterFlow
<1> QED
  BY <1>1, <1>2, <1>3, <1>4 DEF Next

LEMMA FlowInvariance == Spec => [](IInv /\ FlowInv)
<1>1. Init => IInv /\ FlowInv
  BY InitIInv, InitFlow
<1>2. IInv /\ FlowInv /\ [Next]_vars => (IInv /\ FlowInv)'
  BY StepIInv, NextFlow
<1> QED
  BY <1>1, <1>2, PTL DEF Spec

----------------------------------------------------------------------------
\* Every pass keeps code and registers what they are declared to be, whatever the
\* programs, and the QPU never runs past the code: neither the branches that removeLabels
\* links (RemoveLabels.cpp, line 48) nor their delay slots lead out of it.
THEOREM TypeCorrect == Spec => []TypeOK
<1>1. IInv /\ FlowInv => TypeOK
  <2> SUFFICES ASSUME IInv, FlowInv PROVE TypeOK
    OBVIOUS
  <2>1. phase \in Phases /\ changed \in BOOLEAN
    BY DEF IInv, Shape
  <2>2. alloc \in [Vars -> Operands]
    <3>1. alloc \in [Vars -> [tag : Files \cup {"NONE"}, id : Nat]]
      BY DEF IInv, Given
    <3>2. \A r \in [tag : Files \cup {"NONE"}, id : Nat] : r \in Operands
      BY DEF Operands, Files
    <3> QED
      BY <3>1, <3>2
  <2>3. ASSUME phase = "run" PROVE qpu.pc \in DOMAIN code
    <3>1. PICK e \in 1..Len(code) : OnTrack(e)
      BY <2>3 DEF FlowInv, Running
    <3>2. code \in Seq(Instructions)
      BY DEF FlowInv, Typed
    <3>3. qpu.pc \in 1..e
      BY <3>1 DEF OnTrack
    <3> QED
      BY <3>1, <3>2, <3>3
  <2> QED
    BY <2>1, <2>2, <2>3 DEF FlowInv, Typed, TypeOK
<1> QED
  BY <1>1, FlowInvariance, PTL

\* The moves that satisfy inserts leave nothing for the encoder to refuse but what
\* Encodable names (Satisfy.cpp, lines 15 to 112; the assertions of Encode.cpp from
\* line 294 on), for any program and any registers the allocation gives.
THEOREM EncodableHolds == Spec => []Encodable
<1>1. FlowInv => Encodable
  <2> SUFFICES ASSUME FlowInv, phase = "aborted"
               PROVE  \E i \in DOMAIN code : \/ MissedConflict(code[i])
                                             \/ RotatedByRegister(code[i])
    BY DEF Encodable
  <2>1. Accepted(code) /\ \E k \in 1..Len(code) : ~Encodes(code[k])
    BY DEF FlowInv, Running
  <2>2. DOMAIN code = 1..Len(code)
    BY DEF FlowInv, Typed
  <2> QED
    BY <2>1, <2>2 DEF Accepted
<1> QED
  BY <1>1, FlowInvariance, PTL
=============================================================================
