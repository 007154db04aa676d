--------------------------- MODULE MCQpuCompiler ---------------------------
(***************************************************************************)
(* Small programs for the compiler: each is a statement of the source      *)
(* language between a prologue that gives x and y their values, as the     *)
(* arguments of a kernel get theirs, and prints of x and y.                *)
(***************************************************************************)
EXTENDS QpuCompiler, QpuLanguage

\* Four variables are reserved; two of them, for strides, are not used here.
me      == Var(RegA(0))
numQPUs == Var(RegA(1))
x       == Var(RegA(4))
y       == Var(RegA(5))

Set(v, e) == Assign(v.reg, e)

Literals == {Lit(1), Lit(20)}  \* 20 is no small literal

\* Comparisons: of two variables, with a literal on the right or on the left, of
\* two literals, with the lane's number.
Comparisons == {Cmp(op, x, y) : op \in {"EQ", "NEQ", "LT", "LE", "GT", "GE"}}
               \cup {Cmp("LT", x, Lit(1)), Cmp("GE", Lit(1), y), Cmp("NEQ", Lit(3), Lit(4)),
                     Cmp("EQ", x, Var(ElemNum))}

xIs0 == Cmp("EQ", x, Lit(0))
yIs2 == Cmp("GE", y, Lit(2))

Compounds == {Not(xIs0), And(xIs0, yIs2), Or(xIs0, yIs2), And(Not(xIs0), yIs2),
              Or(Not(xIs0), And(yIs2, Cmp("LT", x, y))), Not(Or(xIs0, Not(yIs2)))}

Increments == {Set(x, App("ADD", x, Lit(1))), Set(y, App("SUB", y, x))}

Assignments == Increments \cup
  {Set(x, y), Set(y, Lit(20)),
   Set(x, App("ADD", Lit(20), x)),
   Set(y, App("MAX", App("ADD", x, y), App("SUB", y, Lit(3)))),
   Set(x, App("ADD", Lit(3), Lit(4))),
   Set(x, App("ROTATE", y, Lit(1))),
   Set(x, App("ROTATE", y, me)),
   Set(y, App("ROTATE", Lit(3), x)),
   Set(y, App("ROTATE", App("ADD", x, y), Lit(1))),
   Set(x, App("SUB", Var(ElemNum), me)),
   Set(x, App("ADD", y, App("SUB", numQPUs, me))),
   Seq2(Set(x, App("BOR", x, y)), Set(y, App("MIN", x, App("ADD", y, y))))}

\* Statements on lanes: one alone, one for the other lanes, one in another, and
\* what follows a nested one.
Wheres(conds, s0, s1) == {Where(b, s0, s1) : b \in conds}

Inner == {Where(yIs2, s0, s1) : s0 \in Increments, s1 \in Increments \cup {NULL}}

LaneStmts == UNION {Wheres(Comparisons \cup Compounds, s0, s1) :
                      s0 \in Increments, s1 \in {NULL, Set(x, Lit(20))}}
             \cup Wheres({xIs0, Not(xIs0)}, Set(y, Lit(20)), Set(y, App("ROTATE", x, Lit(1))))
             \cup UNION {Wheres({xIs0, Cmp("LT", x, y)}, s, NULL)
                         \cup Wheres({xIs0}, Seq2(s, Set(y, x)), Set(x, y))
                         \cup Wheres({Not(xIs0)}, Set(x, y), Seq2(s, Set(y, x))) : s \in Inner}

Branches == {If(Cond(reduce, b), s0, s1) :
               reduce \in {"ANY", "ALL"}, b \in Comparisons \cup Compounds,
               s0 \in {Set(x, App("ADD", x, Lit(1)))}, s1 \in {NULL, Set(y, App("SUB", y, x))}}

Loops == {While(Cond(c[1], c[2]), s) :
            c \in {<<"ANY", Cmp("LT", x, Lit(2))>>, <<"ALL", Cmp("LT", x, Lit(2))>>,
                   <<"ANY", Or(xIs0, Cmp("LT", x, y))>>, <<"ALL", Not(Cmp("GT", x, y))>>},
            s \in {Set(x, App("ADD", x, Lit(1))),
                   Seq2(Set(y, x), Set(x, App("ADD", x, Lit(1)))),
                   Seq2(Set(x, App("ADD", x, Lit(1))), Where(xIs0, Set(y, Lit(20)), NULL))}}
         \cup {While(Cond("ANY", Cmp("LT", x, Lit(2))),
                     Seq2(Set(y, App("ADD", y, me)), Set(x, App("ADD", x, Lit(1)))))}

Bodies == Assignments \cup LaneStmts \cup Branches \cup Loops

Prologue == Seq2(Seq2(Set(me, Var(Uniform)), Set(numQPUs, Var(Uniform))),
                 Seq2(Set(x, Var(ElemNum)), Set(y, Var(Uniform))))

Kernel(body) == Seq2(Prologue, Seq2(body, Seq2(PrintInt(x), PrintInt(y))))

\* Started on the second of two QPUs, with one argument.
Program(body, arg) ==
  LET s == Kernel(body)
      c == Translate(s, 6)
      uniforms == <<1, 2, arg>>
  IN [code |-> c.code, vars |-> c.vars, uniforms |-> uniforms,
      output |-> Interpret(s, 6, uniforms)]

MCPrograms == {Program(body, arg) : body \in Bodies, arg \in {0, 2}}

\* Programs that read the lane's number beside a variable.
IndexBodies == {Seq2(Set(v, App("ADD", w, Var(ElemNum))), Set(y, App("ADD", y, a))) :
                  v \in {x, y}, w \in {x, y}, a \in {x, App("SUB", numQPUs, me)}}

IndexPrograms == {Program(body, 0) : body \in IndexBodies}
=============================================================================
