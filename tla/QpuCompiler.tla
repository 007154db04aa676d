---------------------------- MODULE QpuCompiler ----------------------------
(***************************************************************************)
(* The back end of QPULib's compiler (compileKernel from buildCFG on) and  *)
(* a QPU that runs the result.  The passes are the loops of the code, one  *)
(* instruction or one variable per step:                                   *)
(*   liveness -> accumulate -> prefer -> allocate -> apply -> moves ->     *)
(*   nops -> link -> encode -> run -> halted                               *)
(* with "failed" when the registers do not suffice and "aborted" when an   *)
(* assertion of the encoder fails.                                         *)
(*                                                                         *)
(* The QPU differs from the emulator of the library in what the emulator   *)
(* leaves out: a register of file A or B has its new value only for the    *)
(* instruction after the next, an accumulator that is rotated likewise,    *)
(* and the three instructions behind a branch are executed.                *)
(***************************************************************************)
EXTENDS QpuInstructions

CONSTANTS Programs,  \* records: the code that translateStmt returns, the number of its
                     \* variables, the uniforms it is started with, what it must print
          NumRegs    \* NUM_REGS, 32 in the code

\* What translateStmt returns: no branch is linked yet, each has its label, and an
\* operation has at most one immediate.
ASSUME ProgramAssumption ==
  /\ NumRegs \in Nat \ {0}
  /\ \A p \in Programs :
       /\ p.code \in Seq(Instructions)
       /\ Len(p.code) > 1
       /\ p.code[Len(p.code)].tag = "END"
       /\ p.vars \in Nat \ {0}
       /\ \A i \in DOMAIN p.code : LET instr == p.code[i] IN
            /\ VarsIn({instr.dest, instr.srcA, instr.srcB}) \subseteq 0..(p.vars - 1)
            /\ instr.tag # "BR"
            /\ instr.tag = "BRL" => \E j \in DOMAIN p.code : p.code[j] = LAB(instr.label)
            /\ instr.tag = "ALU" => {instr.srcA.tag, instr.srcB.tag} # {"IMM"}

VARIABLES program,  \* the program that is compiled
          phase,
          at,       \* the instruction or variable the loop of the phase is at
          code,     \* instrs
          out,      \* newInstrs
          live,     \* the variables live before each instruction, as far as found
          changed,
          prefer,   \* prefA and prefB
          alloc,    \* the register of each variable
          lastFile, \* prevChosenRegFile
          qpu,      \* the state of the processor
          output    \* the vectors it has printed

allocVars == <<live, changed, prefer, alloc, lastFile>>
runVars   == <<qpu, output>>
vars      == <<program, phase, at, code, out, allocVars, runVars>>

Vars    == 0..(program.vars - 1)
Files   == {"REG_A", "REG_B"}
RegIds  == 0..(NumRegs - 1)
Vectors == [Lanes -> Int]

\* What uninitialised memory holds.
Junk == Const(-3)

Init == /\ program \in Programs
        /\ phase = "liveness"
        /\ code = program.code
        /\ at = Len(code)
        /\ out = <<>>
        /\ live = [i \in DOMAIN code |-> {}]
        /\ changed = FALSE
        /\ prefer = [f \in Files |-> [v \in Vars |-> 0]]
        /\ alloc = [v \in Vars |-> None]
        /\ lastFile = "REG_B"
        /\ qpu = [pc |-> 1,
                  regs |-> [f \in Files |-> [r \in RegIds |-> Junk]],
                  acc |-> [r \in 0..5 |-> Junk],
                  written |-> None, before |-> Junk,  \* by the last instruction
                  flags |-> Junk,                     \* the vector that set them
                  uniform |-> 1,
                  slots |-> 0, target |-> 1]          \* of a branch that was taken
        /\ output = <<>>

\* The loop of a phase goes on, or the next phase starts.
Advance(next, first) == IF at < Len(code) THEN at' = at + 1 /\ phase' = phase
                                          ELSE at' = first /\ phase' = next

----------------------------------------------------------------------------
\* Control flow (buildCFG) and liveness.

Labelled(label) == {j \in DOMAIN code : code[j].tag = "LAB" /\ code[j].label = label}

FallsThrough(i) == /\ i < Len(code)
                   /\ code[i].tag # "END"
                   /\ ~(code[i].tag = "BRL" /\ code[i].cond = "ALWAYS")

Succs(i) == (IF FallsThrough(i) THEN {i + 1} ELSE {})
            \cup (IF code[i].tag = "BRL" THEN Labelled(code[i].label) ELSE {})

\* computeLiveOut
LiveOut(i) == UNION {live[j] : j \in Succs(i)}

LiveIn(i) == (LiveOut(i) \ Defs(code[i])) \cup Uses(code[i])

Propagate == /\ phase = "liveness"
             /\ at > 0
             /\ live' = [live EXCEPT ![at] = @ \cup LiveIn(at)]
             /\ changed' = (changed \/ ~(LiveIn(at) \subseteq live[at]))
             /\ at' = at - 1
             /\ UNCHANGED <<program, phase, code, out, prefer, alloc, lastFile, runVars>>

\* Mutant of SweepEnds: one pass over the instructions, as if there were no loops.
SweepEndsAtOnce == /\ phase = "liveness"
                   /\ at = 0
                   /\ at' = 2 /\ phase' = "accumulate"
                   /\ UNCHANGED <<program, code, out, allocVars, runVars>>

\* while (changed)
SweepEnds == /\ phase = "liveness"
             /\ at = 0
             /\ IF changed THEN at' = Len(code) /\ phase' = phase
                           ELSE at' = 2 /\ phase' = "accumulate"
             /\ changed' = FALSE
             /\ UNCHANGED <<program, code, out, live, prefer, alloc, lastFile, runVars>>

----------------------------------------------------------------------------
\* introduceAccum: a variable that only the next instruction reads becomes ACC1.
OnlyHere(i, v) == v \in Uses(code[i]) /\ v \notin LiveOut(i)

IntroduceAccum ==
  /\ phase = "accumulate"
  /\ LET old == code[at - 1].dest IN
       code' = IF /\ code[at - 1].cond = "ALWAYS"
                  /\ \E v \in Defs(code[at - 1]) : OnlyHere(at, v)
               THEN [code EXCEPT ![at - 1] = RenameDest(@, old, Acc(1)),
                                 ![at] = RenameUses(@, old, Acc(1))]
               ELSE code
  /\ Advance("prefer", 1)
  /\ UNCHANGED <<program, out, allocVars, runVars>>

----------------------------------------------------------------------------
\* regAlloc

\* Step 1: two variables read together had better be in different files, one that
\* is read together with an immediate in A.
Favour(a, b) == [prefer EXCEPT !["REG_A"][a] = @ + 1, !["REG_B"][b] = @ + 1]

Preferred(instr) ==
  LET a == instr.srcA
      b == instr.srcB
      x == a.id
      y == b.id
      A == prefer["REG_A"]
      B == prefer["REG_B"]
  IN CASE instr.tag = "ALU" /\ a.tag = "REG_A" /\ b.tag = "REG_A" ->
            IF A[x] > A[y] \/ B[y] > B[x] THEN Favour(x, y) ELSE Favour(y, x)
       [] instr.tag = "ALU" /\ a.tag = "REG_A" /\ b.tag = "IMM" ->
            [prefer EXCEPT !["REG_A"][x] = @ + 1]
       [] instr.tag = "ALU" /\ b.tag = "REG_A" /\ a.tag = "IMM" ->
            [prefer EXCEPT !["REG_A"][y] = @ + 1]
       [] OTHER -> prefer

Prefer == /\ phase = "prefer"
          /\ prefer' = Preferred(code[at])
          /\ Advance("allocate", 0)
          /\ UNCHANGED <<program, code, out, live, changed, alloc, lastFile, runVars>>

\* Step 2: the variables that are live at the same time.
\* Mutant of Meet: a variable that is written but not live afterwards meets nobody.
MeetIfLive(i, x, y) == {x, y} \subseteq LiveOut(i)

Meet(i, x, y) == \/ x \in LiveOut(i) /\ y \in LiveOut(i) \cup Defs(code[i])
                 \/ y \in LiveOut(i) /\ x \in Defs(code[i])

LiveWith(x) == {y \in Vars : y # x /\ \E i \in DOMAIN code : Meet(i, x, y)}

\* Step 3: the first register that is free in the file it prefers, or else in the
\* file that was not chosen last.
Possible(file, x) == {r \in RegIds : \A y \in LiveWith(x) : alloc[y] # Operand(file, r)}

OtherFile(file) == IF file = "REG_A" THEN "REG_B" ELSE "REG_A"

ChosenRegFile(x) ==
  LET A == prefer["REG_A"][x]
      B == prefer["REG_B"][x]
  IN IF Possible("REG_A", x) = {} THEN "REG_B"
     ELSE IF Possible("REG_B", x) = {} THEN "REG_A"
     ELSE CASE A > B -> "REG_A" [] A < B -> "REG_B" [] OTHER -> OtherFile(lastFile)

Allocate == /\ phase = "allocate"
            /\ at < program.vars
            /\ \E file \in Files : Possible(file, at) # {}
            /\ LET file == ChosenRegFile(at) IN
                 \E r \in Possible(file, at) :
                   /\ \A q \in Possible(file, at) : r <= q
                   /\ alloc' = [alloc EXCEPT ![at] = Operand(file, r)]
                   /\ lastFile' = file
            /\ at' = at + 1
            /\ UNCHANGED <<program, phase, code, out, live, changed, prefer, runVars>>

OutOfRegisters == /\ phase = "allocate"
                  /\ at < program.vars
                  /\ \A file \in Files : Possible(file, at) = {}
                  /\ phase' = "failed"
                  /\ UNCHANGED <<program, at, code, out, allocVars, runVars>>

\* Step 4: TMP_A and TMP_B keep what is renamed apart from what is to be renamed,
\* so that all operands are replaced at once.
Allocated(r) == IF r.tag = "REG_A" THEN alloc[r.id] ELSE r

Apply == /\ phase = "allocate"
         /\ at = program.vars
         /\ code' = [i \in DOMAIN code |-> [code[i] EXCEPT !.dest = Allocated(@),
                                                           !.srcA = Allocated(@),
                                                           !.srcB = Allocated(@)]]
         /\ phase' = "moves" /\ at' = 1
         /\ UNCHANGED <<program, out, allocVars, runVars>>

----------------------------------------------------------------------------
\* satisfy

\* remapAToAccum and remapBToAccum
ToAccumA(instr) == <<Move(FALSE, "ALWAYS", Acc(0), instr.srcA), [instr EXCEPT !.srcA = Acc(0)]>>
ToAccumB(instr) == <<Move(FALSE, "ALWAYS", Acc(0), instr.srcB), [instr EXCEPT !.srcB = Acc(0)]>>

\* resolveRegFileConflict compares the numbers, not the registers.
Conflict(instr) == /\ RegFileOf(instr.srcA) # "NONE"
                   /\ RegFileOf(instr.srcA) = RegFileOf(instr.srcB)
                   /\ instr.srcA.id # instr.srcB.id

\* The vector to rotate goes to ACC0, an amount in a register to ACC5.  (A vector that
\* is an immediate fails the assertion in remapAToAccum; here the encoder refuses its move.)
Rotation(instr) ==
  LET rotated == ToAccumA(instr)[2] IN
  IF instr.srcB.tag = "IMM" THEN <<ToAccumA(instr)[1], nop, rotated>>
  ELSE <<ToAccumA(instr)[1], Move(FALSE, "ALWAYS", Acc(5), instr.srcB), nop,
         [rotated EXCEPT !.srcB = Acc(5)]>>

\* Mutant of NeedsMove: an immediate may stand beside a register of file B.
NeedsMoveNoImm(instr) == Conflict(instr)

\* Operand A must not stay: B is an immediate, or another register of A's file.
NeedsMove(instr) == \/ instr.srcB.tag = "IMM" /\ RegFileOf(instr.srcA) = "REG_B"
                    \/ Conflict(instr)

WithMoves(instr) ==
  IF instr.tag # "ALU" THEN <<instr>>
  ELSE IF instr.op = "ROTATE" THEN Rotation(instr)
  ELSE IF instr.srcA.tag = "IMM" /\ RegFileOf(instr.srcB) = "REG_B" THEN ToAccumB(instr)
  ELSE IF NeedsMove(instr) THEN ToAccumA(instr) ELSE <<instr>>

\* A pass that rewrites each instruction; at the end its result is the code.
Rewrite(instrs, next) == /\ IF at < Len(code) THEN out' = out \o instrs /\ code' = code
                                              ELSE out' = <<>> /\ code' = out \o instrs
                         /\ Advance(next, 1)
                         /\ UNCHANGED <<program, allocVars, runVars>>

InsertMoves == phase = "moves" /\ Rewrite(WithMoves(code[at]), "nops")

\* The instruction before, labels left out.
Previous(i) == LET before == {j \in 1..(i - 1) : code[j].tag # "LAB"}
               IN IF before = {} THEN nop ELSE code[CHOOSE j \in before : \A k \in before : k <= j]

Hazard(i) == \E r \in DefsReg(Previous(i)) : r.tag \in Files /\ r \in UsesReg(code[i])

WithNops(i) == (IF Hazard(i) THEN <<nop>> ELSE <<>>)
               \o <<code[i]>>
               \o (IF code[i].tag \in {"BRL", "END"} THEN <<nop, nop, nop>> ELSE <<>>)

InsertNops == phase = "nops" /\ Rewrite(WithNops(at), "link")

----------------------------------------------------------------------------
\* removeLabels

NotLabel(instr) == instr.tag # "LAB"

\* The place of an instruction when the labels are gone.
Place(i) == Cardinality({j \in 1..i : NotLabel(code[j])})

BranchTo(i) == CHOOSE j \in Labelled(code[i].label) : TRUE

\* Mutant of Linked: the offset is the label's place.
LinkedToPlace(i) ==
  IF code[i].tag = "BRL"
  THEN [code[i] EXCEPT !.tag = "BR", !.label = Place(BranchTo(i)) + 1]
  ELSE code[i]

\* The label's place is that of the instruction behind it, Place + 1.
Linked(i) ==
  IF code[i].tag = "BRL"
  THEN [code[i] EXCEPT !.tag = "BR", !.label = Place(BranchTo(i)) + 1 - 4 - Place(i)]
  ELSE code[i]

RemoveLabels == /\ phase = "link"
                /\ code' = [k \in 1..Place(Len(code)) |->
                              Linked(CHOOSE i \in DOMAIN code :
                                       NotLabel(code[i]) /\ Place(i) = k)]
                /\ phase' = "encode" /\ at' = 1
                /\ UNCHANGED <<program, out, allocVars, runVars>>

Encode == /\ phase = "encode"
          /\ phase' = IF \A i \in DOMAIN code : Encodes(code[i]) THEN "run" ELSE "aborted"
          /\ UNCHANGED <<program, at, code, out, allocVars, runVars>>

----------------------------------------------------------------------------
\* The QPU

Stale(r, op) == /\ r = qpu.written
                /\ r.tag \in Files \/ (r.tag = "ACC" /\ op = "ROTATE")

Read(r, op) == CASE r.tag = "IMM" -> Const(r.id)
                 [] r = ElemNum   -> Index
                 [] r = QpuNum    -> Const(program.uniforms[1])
                 [] r = Uniform   -> Const(program.uniforms[qpu.uniform])
                 [] r.tag = "NONE" -> Const(0)
                 [] Stale(r, op)  -> qpu.before
                 [] r.tag = "ACC" /\ ~Stale(r, op)  -> qpu.acc[r.id]
                 [] r.tag \in Files /\ ~Stale(r, op) -> qpu.regs[r.tag][r.id]

\* The next instruction: behind the last delay slot, the target of the branch.
Follow(q) == [q EXCEPT !.pc = IF q.slots = 1 THEN q.target ELSE @ + 1,
                       !.slots = IF @ = 0 THEN 0 ELSE @ - 1]

\* writeReg: the lanes for which the condition holds.
Assigned(instr, old, new) == [k \in Lanes |-> IF Holds(instr.cond, qpu.flags[k]) THEN new[k]
                                                                               ELSE old[k]]

Write(q, instr, v) ==
  LET r   == instr.dest
      old == CASE r.tag = "ACC" -> q.acc[r.id]
               [] r.tag \in Files -> q.regs[r.tag][r.id]
               [] OTHER -> Junk
      new == Assigned(instr, old, v)
      w   == [q EXCEPT !.written = r, !.before = old,
                       !.flags = IF instr.setFlags THEN Assigned(instr, @, v) ELSE @]
  IN CASE r.tag = "ACC" -> [w EXCEPT !.acc[r.id] = new]
       [] r.tag \in Files -> [w EXCEPT !.regs[r.tag][r.id] = new]
       [] OTHER -> w

Result(instr) == IF instr.tag = "LI" THEN Const(instr.srcA.id)
                 ELSE EvalVec(instr.op, Read(instr.srcA, instr.op), Read(instr.srcB, instr.op))

\* checkBranchCond
Taken(instr) == CASE instr.cond = "ALWAYS" -> TRUE
                  [] instr.reduce = "ANY"  -> \E k \in Lanes : Holds(instr.cond, qpu.flags[k])
                  [] instr.reduce = "ALL"  -> \A k \in Lanes : Holds(instr.cond, qpu.flags[k])
                  [] OTHER                 -> FALSE

Executed(instr) ==
  LET quiet == [qpu EXCEPT !.written = None]
  IN Follow(CASE instr.tag \in {"LI", "ALU"} ->
                   Write([qpu EXCEPT !.uniform = IF Uniform \in UsesReg(instr) THEN @ + 1 ELSE @],
                         instr, Result(instr))
              [] OTHER -> quiet)

Step == /\ phase = "run"
        /\ code[qpu.pc].tag # "END"
        /\ LET instr == code[qpu.pc] IN
             /\ qpu' = IF instr.tag = "BR" /\ Taken(instr)
                       THEN [Executed(instr) EXCEPT !.slots = 3,
                                                    !.target = qpu.pc + 4 + instr.label]
                       ELSE Executed(instr)
             /\ output' = IF instr.tag = "PRI"
                          THEN Append(output, Read(instr.srcA, "")) ELSE output
        /\ UNCHANGED <<program, phase, at, code, out, allocVars>>

Halt == /\ phase = "run"
        /\ code[qpu.pc].tag = "END"
        /\ phase' = "halted"
        /\ UNCHANGED <<program, at, code, out, allocVars, runVars>>

----------------------------------------------------------------------------
Next == \/ Propagate \/ SweepEnds \/ IntroduceAccum \/ Prefer
        \/ Allocate \/ OutOfRegisters \/ Apply
        \/ InsertMoves \/ InsertNops \/ RemoveLabels \/ Encode
        \/ Step \/ Halt

Spec == Init /\ [][Next]_vars

\* The compiler and the QPU do not stop on their own.
FairSpec == Spec /\ WF_vars(Next)

----------------------------------------------------------------------------
Phases == {"liveness", "accumulate", "prefer", "allocate", "moves", "nops", "link", "encode",
           "run", "halted", "failed", "aborted"}

TypeOK == /\ phase \in Phases
          /\ at \in Nat
          /\ code \in Seq(Instructions)
          /\ out \in Seq(Instructions)
          /\ live \in [1..Len(program.code) -> SUBSET Vars]
          /\ changed \in BOOLEAN
          /\ prefer \in [Files -> [Vars -> Nat]]
          /\ alloc \in [Vars -> Operands]
          /\ lastFile \in Files
          /\ phase = "run" => qpu.pc \in DOMAIN code

\* Two variables of which one is written while the other is needed, or that are
\* needed at the same time, are never given the same register, however few there
\* are: the allocation ends with different registers or with "failed".
AllocatedApart ==
  phase = "allocate" =>
    \A i \in DOMAIN code :
      \A x \in LiveOut(i) : \A y \in LiveOut(i) \cup Defs(code[i]) :
        x # y /\ x < at /\ y < at => alloc[x] # alloc[y]

\* The passes leave nothing the encoder refuses, but for an instruction with a
\* special register and a register of the same file that happens to have the
\* special register's number, which resolveRegFileConflict takes for the same, and
\* for a rotation by an amount in a register, which Encode.cpp:297 never accepts.
MissedConflict(instr) == /\ instr.tag = "ALU"
                         /\ {instr.srcA, instr.srcB} \cap {ElemNum, QpuNum} # {}
                         /\ instr.srcA.tag # instr.srcB.tag
                         /\ instr.srcA.id = instr.srcB.id

RotatedByRegister(instr) == instr.tag = "ALU" /\ instr.op = "ROTATE" /\ instr.srcB.tag # "IMM"

Encodable == phase = "aborted" => \E i \in DOMAIN code : \/ MissedConflict(code[i])
                                                         \/ RotatedByRegister(code[i])

\* Satisfy.cpp:84: "When an instruction uses two (different) registers that are
\* mapped to the same register file, then remap one of them to an accumulator."
ConflictsAreResolved == phase # "aborted"

\* Every program that is compiled and encoded runs to its end on the QPU, and
\* prints what the interpreter of the source language prints.
SameOutput == <>(\/ phase = "halted" /\ output = program.output
                 \/ phase \in {"failed", "aborted"})
=============================================================================
