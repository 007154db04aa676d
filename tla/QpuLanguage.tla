---------------------------- MODULE QpuLanguage ----------------------------
(***************************************************************************)
(* The source language of QPULib (hybrid/Lib/Source): what translateStmt   *)
(* makes of a statement, and what the interpreter says it does.            *)
(*                                                                         *)
(* A variable is named by the register that srcReg and dstReg give it.  A  *)
(* statement that is not there (NULL) has the tag "NULL".  A uniform is    *)
(* read only by an assignment of its own, as in the prologue of a kernel.  *)
(*                                                                         *)
(* A recursive operator is applied to the parts of its argument by one     *)
(* other operator, named Sub..., and an intermediate result is a           *)
(* parameter, not a LET: TLC builds a node for every path through the      *)
(* definitions, and there are few enough that way.                         *)
(***************************************************************************)
EXTENDS QpuInstructions

\* Expressions, boolean expressions and statements.
Var(reg)          == [tag |-> "VAR", reg |-> reg]
Lit(n)            == [tag |-> "INT_LIT", lit |-> n]
App(op, a, b)     == [tag |-> "APPLY", op |-> op, lhs |-> a, rhs |-> b]
Cmp(op, a, b)     == [tag |-> "CMP", op |-> op, lhs |-> a, rhs |-> b]
Not(b)            == [tag |-> "NOT", neg |-> b]
Or(a, b)          == [tag |-> "OR", lhs |-> a, rhs |-> b]
And(a, b)         == [tag |-> "AND", lhs |-> a, rhs |-> b]
Cond(reduce, b)   == [reduce |-> reduce, bexpr |-> b]
NULL              == [tag |-> "NULL"]
Assign(v, e)      == [tag |-> "ASSIGN", lhs |-> v, rhs |-> e]
Seq2(s0, s1)      == [tag |-> "SEQ", s0 |-> s0, s1 |-> s1]
If(c, s0, s1)     == [tag |-> "IF", cond |-> c, then |-> s0, else |-> s1]
While(c, s)       == [tag |-> "WHILE", cond |-> c, body |-> s]
Where(b, s0, s1)  == [tag |-> "WHERE", cond |-> b, then |-> s0, else |-> s1]
PrintInt(e)       == [tag |-> "PRINT", expr |-> e]

----------------------------------------------------------------------------
\* Translation.  A translation so far: the instructions, and the numbers of the
\* next variable and the next label.

Emit(t, instr) == [t EXCEPT !.seq = Append(@, instr)]
FreshVar(t)    == RegA(t.vars)
WithVar(t)     == [t EXCEPT !.vars = @ + 1]

IsSmallLit(e) == e.tag = "INT_LIT" /\ e.lit \in -16..15
IsSimple(e)   == e.tag = "VAR" \/ IsSmallLit(e)
OperandOf(e)  == IF e.tag = "VAR" THEN e.reg ELSE Imm(e.lit)

RECURSIVE VarAssign(_, _, _, _)

\* The value of e in a new variable.
SubAssign(t, cond, e) == VarAssign(WithVar(t), cond, FreshVar(t), e)

\* simplify: a simple expression stays as it is, another one goes to a new variable.
Simplify(t, e) == IF IsSimple(e) THEN [t |-> t, e |-> e]
                  ELSE [t |-> SubAssign(t, "ALWAYS", e), e |-> Var(FreshVar(t))]

\* The two operands of an operator: simple, and not both of them literals.  cond is
\* the condition on which a literal is put into a variable.
TwoOperands(a, r, cond) ==
  IF a.tag = "INT_LIT" /\ r.e.tag = "INT_LIT"
  THEN [t |-> SubAssign(r.t, cond, a), a |-> FreshVar(r.t), b |-> OperandOf(r.e)]
  ELSE [t |-> r.t, a |-> OperandOf(a), b |-> OperandOf(r.e)]

WithRight(l, cond, b) == TwoOperands(l.e, Simplify(l.t, b), cond)

Simplified(t, cond, a, b) == WithRight(Simplify(t, a), cond, b)

Apply2(s, op, setFlags, cond, v) == Emit(s.t, ALU(op, setFlags, cond, v, s.a, s.b))

VarAssign(t, cond, v, e) ==
  CASE e.tag = "VAR"     -> Emit(t, Move(FALSE, cond, v, e.reg))
    [] e.tag = "INT_LIT" -> Emit(t, LI(cond, v, e.lit))
    [] e.tag = "APPLY"   -> Apply2(Simplified(t, cond, e.lhs, e.rhs), e.op, FALSE, cond, v)

NegFlag(flag) == CASE flag = "ZS" -> "ZC" [] flag = "ZC" -> "ZS"
                   [] flag = "NS" -> "NC" [] flag = "NC" -> "NS"

\* negBranchCond
NegReduce(reduce) == IF reduce = "ANY" THEN "ALL" ELSE "ANY"

\* setFlag: a value for which the flag is set.
SetFlag(flag) == CASE flag = "ZS" -> 0 [] flag = "ZC" -> 1
                   [] flag = "NS" -> -1 [] flag = "NC" -> 0

SetCond(v) == Move(TRUE, "ALWAYS", None, v)

\* boolOr, its conditions being flags, and the condition vector being that of B:
\* the value of A is made one that satisfies A's flag wherever B holds.
BoolOr(t, condA, v, condB) ==
  [t |-> Emit(Emit(t, LI(condB, v, SetFlag(condA))), SetCond(v)), cond |-> condA]

Negated(b) == [b EXCEPT !.cond = NegFlag(@)]

BoolAnd(t, condA, v, condB) == Negated(BoolOr(t, NegFlag(condA), v, NegFlag(condB)))

Comparison(op) == CASE op = "EQ" -> "ZS" [] op = "NEQ" -> "ZC"
                    [] op \in {"LT", "GT"} -> "NS" [] op \in {"GE", "LE"} -> "NC"

\* x > y is y < x, and x <= y is y >= x.
Swapped(op) == op \in {"GT", "LE"}

RECURSIVE BoolExp(_, _, _)

SubBoolExp(t, b, v) == BoolExp(t, b, v)

OrRight(r, condA, v) == BoolOr(r.t, condA, v, r.cond)

OrLeft(l, b, v, new) == OrRight(SubBoolExp(l.t, b, new), l.cond, v)

BoolExp(t, b, v) ==
  CASE b.tag = "CMP" ->
         [t |-> Apply2(IF Swapped(b.op) THEN Simplified(t, "ALWAYS", b.rhs, b.lhs)
                                        ELSE Simplified(t, "ALWAYS", b.lhs, b.rhs),
                       "SUB", TRUE, "ALWAYS", v),
          cond |-> Comparison(b.op)]
    [] b.tag = "NOT" -> Negated(SubBoolExp(t, b.neg, v))
    [] b.tag = "OR"  -> OrLeft(SubBoolExp(WithVar(t), b.lhs, v), b.rhs, v, FreshVar(t))
    [] b.tag = "AND" -> SubBoolExp(t, Not(Or(Not(b.lhs), Not(b.rhs))), v)

CondExp(t, c) == BoolExp(WithVar(t), c.bexpr, FreshVar(t))

\* whereStmt: the lanes on which s works are those for which the vector in v, and
\* the condition vector set from it, satisfy cond.  With keep they do so afterwards.
RECURSIVE WhereStmt(_, _, _, _, _)

SubWhere(t, s, v, cond, keep) == WhereStmt(t, s, v, cond, keep)

OnLanes(c, s, v) == SubWhere(c.t, s, v, c.cond, FALSE)

HasElse(s) == s.else.tag # "NULL"

\* where in where: v is saved; the new condition b, in the variable behind the saved
\* one, is joined to cond for the one statement, its negation for the other.
Save(t, v, needed) == IF needed THEN Emit(t, Move(FALSE, "ALWAYS", RegA(t.vars - 2), v)) ELSE t

Restore(t, v, saved, needed) == IF needed THEN Emit(t, Move(TRUE, "ALWAYS", v, saved)) ELSE t

NestedThen(b, s, v, cond) ==
  IF s.then.tag = "NULL" THEN b.t
  ELSE OnLanes(BoolAnd(b.t, cond, v, b.cond), s.then, v)

NestedElse(t, s, new, condB, cond) ==
  IF HasElse(s) THEN OnLanes(BoolAnd(t, NegFlag(condB), new, cond), s.else, new) ELSE t

\* Mutant of NestedWith: the condition is not restored between the two.
NestedWithNoRestore(b, s, v, cond, keep, saved, new) ==
  Restore(NestedElse(NestedThen(b, s, v, cond), s, new, b.cond, cond), v, saved, keep)

NestedWith(b, s, v, cond, keep, saved, new) ==
  Restore(NestedElse(Restore(NestedThen(b, s, v, cond), v, saved, keep \/ HasElse(s)),
                     s, new, b.cond, cond),
          v, saved, keep /\ HasElse(s))

NestedWhere(t, s, v, cond, keep) ==
  NestedWith(BoolExp(Save([t EXCEPT !.vars = @ + 2], v, keep \/ HasElse(s)), s.cond,
                     RegA(t.vars + 1)),
             s, v, cond, keep, FreshVar(t), RegA(t.vars + 1))

WhereWith(b, s, v) ==
  SubWhere(SubWhere(b.t, s.then, v, b.cond, HasElse(s)), s.else, v, NegFlag(b.cond), FALSE)

WhereStmt(t, s, v, cond, keep) ==
  CASE s.tag = "NULL"   -> t
    [] s.tag = "ASSIGN" -> VarAssign(t, cond, s.lhs, s.rhs)
    [] s.tag = "SEQ"    -> SubWhere(SubWhere(t, s.s0, v, cond, TRUE), s.s1, v, cond, keep)
    [] s.tag = "WHERE" /\ cond # "ALWAYS" -> NestedWhere(t, s, v, cond, keep)
    [] s.tag = "WHERE" /\ cond = "ALWAYS" -> WhereWith(BoolExp(t, s.cond, v), s, v)

RECURSIVE Stmt(_, _)

SubStmt(t, s) == Stmt(t, s)

TwoLabels(t) == [t EXCEPT !.labels = @ + 2]

\* A branch to a label when the condition c, which has been evaluated, is false.
SkipTo(c, reduce, label) == Emit(c.t, BRL(NegReduce(reduce), NegFlag(c.cond), label))

\* label: the first of two labels, else and endif, or start and end.
JumpOver(t, s, label) == IF HasElse(s) THEN Emit(t, BRL("", "ALWAYS", label + 1)) ELSE t

IfWith(c, s, label) ==
  LET then == JumpOver(SubStmt(SkipTo(c, s.cond.reduce, label), s.then), s, label)
  IN Emit(SubStmt(Emit(then, LAB(label)), s.else), LAB(label + 1))

WhileWith(c, s, label) ==
  LET body == SubStmt(Emit(SkipTo(c, s.cond.reduce, label + 1), LAB(label)), s.body)
  IN Emit(Emit(CondExp(body, s.cond).t, BRL(s.cond.reduce, c.cond, label)), LAB(label + 1))

Stmt(t, s) ==
  CASE s.tag = "NULL"   -> t
    [] s.tag = "ASSIGN" -> VarAssign(t, "ALWAYS", s.lhs, s.rhs)
    [] s.tag = "SEQ"    -> SubStmt(SubStmt(t, s.s0), s.s1)
    [] s.tag = "IF"     -> IfWith(CondExp(TwoLabels(t), s.cond), s, t.labels)
    [] s.tag = "WHILE"  -> WhileWith(CondExp(TwoLabels(t), s.cond), s, t.labels)
    [] s.tag = "WHERE"  -> WhereStmt(WithVar(t), s, FreshVar(t), "ALWAYS", FALSE)
    [] s.tag = "PRINT"  -> Emit(SubAssign(t, "ALWAYS", s.expr), PRI(FreshVar(t)))

\* translateStmt, for a statement with the variables 0 to vars - 1.
Translate(s, vars) ==
  LET t == Stmt([seq |-> <<>>, vars |-> vars, labels |-> 0], s)
  IN [code |-> Append(t.seq, END), vars |-> t.vars]

----------------------------------------------------------------------------
\* The interpreter.  A state: the variables, the uniforms not yet read, the output.

ValueOf(c, reg) == CASE reg = ElemNum -> Index
                     [] reg = QpuNum  -> Const(c.qpu)
                     [] reg = Uniform -> Const(Head(c.uniforms))
                     [] OTHER         -> c.env[reg.id]

RECURSIVE EvalExpr(_, _)

SubExpr(c, e) == EvalExpr(c, e)

EvalExpr(c, e) == CASE e.tag = "VAR"     -> ValueOf(c, e.reg)
                    [] e.tag = "INT_LIT" -> Const(e.lit)
                    [] e.tag = "APPLY"   -> EvalVec(e.op, SubExpr(c, e.lhs), SubExpr(c, e.rhs))

\* < is what the compiler implements, by the comment in evalBool: the sign of the
\* difference, which overflow may turn.
Compare(op, x, y) == CASE op = "EQ"  -> x = y
                       [] op = "NEQ" -> x # y
                       [] op = "LT"  -> Wrap(x - y) < 0
                       [] op = "GE"  -> Wrap(x - y) >= 0
                       [] op = "LE"  -> Wrap(y - x) >= 0
                       [] op = "GT"  -> Wrap(y - x) < 0

\* The set of lanes for which a boolean expression is true.
RECURSIVE TrueLanes(_, _)

SubLanes(c, b) == TrueLanes(c, b)

TrueLanes(c, b) ==
  CASE b.tag = "NOT" -> Lanes \ SubLanes(c, b.neg)
    [] b.tag = "AND" -> SubLanes(c, b.lhs) \cap SubLanes(c, b.rhs)
    [] b.tag = "OR"  -> SubLanes(c, b.lhs) \cup SubLanes(c, b.rhs)
    [] b.tag = "CMP" -> LET x == EvalExpr(c, b.lhs)
                            y == EvalExpr(c, b.rhs)
                        IN {k \in Lanes : Compare(b.op, x[k], y[k])}

EvalCond(c, e) == IF e.reduce = "ALL" THEN TrueLanes(c, e.bexpr) = Lanes
                                      ELSE TrueLanes(c, e.bexpr) # {}

\* execAssign
ExecAssign(c, lanes, s) ==
  LET x == EvalExpr(c, s.rhs)
  IN [c EXCEPT !.env[s.lhs.id] = [k \in Lanes |-> IF k \in lanes THEN x[k] ELSE @[k]],
               !.uniforms = IF s.rhs = Var(Uniform) THEN Tail(@) ELSE @]

RECURSIVE ExecWhere(_, _, _)

SubExecWhere(c, lanes, s) == ExecWhere(c, lanes, s)

OnBoth(c, b, lanes, s) == SubExecWhere(SubExecWhere(c, b \cap lanes, s.then), lanes \ b, s.else)

ExecWhere(c, lanes, s) ==
  CASE s.tag = "NULL"   -> c
    [] s.tag = "SEQ"    -> SubExecWhere(SubExecWhere(c, lanes, s.s0), lanes, s.s1)
    [] s.tag = "ASSIGN" -> ExecAssign(c, lanes, s)
    [] s.tag = "WHERE"  -> OnBoth(c, TrueLanes(c, s.cond), lanes, s)

RECURSIVE Exec(_, _)

SubExec(c, s) == Exec(c, s)

Exec(c, s) ==
  CASE s.tag = "NULL"   -> c
    [] s.tag = "ASSIGN" -> ExecAssign(c, Lanes, s)
    [] s.tag = "SEQ"    -> SubExec(SubExec(c, s.s0), s.s1)
    [] s.tag = "WHERE"  -> OnBoth(c, TrueLanes(c, s.cond), Lanes, s)
    [] s.tag = "IF"     -> SubExec(c, IF EvalCond(c, s.cond) THEN s.then ELSE s.else)
    [] s.tag = "WHILE"  -> IF EvalCond(c, s.cond) THEN SubExec(SubExec(c, s.body), s) ELSE c
    [] s.tag = "PRINT"  -> [c EXCEPT !.output = Append(@, EvalExpr(c, s.expr))]

\* interpreter: the output of a statement run with the given uniforms, of which the
\* first is the number of the QPU.
Interpret(s, vars, uniforms) ==
  Exec([env |-> [v \in 0..(vars - 1) |-> Const(-3)], qpu |-> uniforms[1],
        uniforms |-> uniforms, output |-> <<>>], s).output
=============================================================================
