--------------------------- MODULE MCStackMachine ---------------------------
(***************************************************************************)
(* Families of programs for the stack machine: every combination of a few  *)
(* constructs.  They are programs the parser can make: values stand where  *)
(* values do, and a body ends in a value.                                  *)
(***************************************************************************)
EXTENDS StackMachine

x == Var("x")
Inputs1 == {<<0>>, <<2>>}
Write1(e) == Ignore(Call(Var("write"), <<e>>))
Read      == Call(Var("read"), <<>>)
Set(v, e) == Ignore(Assign(Ref(v), e))
Body(es)  == LET Glue[k \in 1 .. Len(es)] == IF k = Len(es) THEN es[k] ELSE Then(es[k], Glue[k + 1])
             IN Glue[1]

(***************************************************************************)
(* Control: values made by branches and loops, as operands of one another. *)
(***************************************************************************)
Leaves0 == {Const(1), x}
Conds   == {x, Binop("<", Const(1), x)}

Count(v)  == Then(While(Binop("<", Const(0), x), Set("x", Binop("-", x, Const(1)))), v)
Count2(v) == Then(DoWhile(Set("x", Binop("-", x, Const(1))), Binop("<", Const(0), x)), v)
Nested(v) == Then(While(If(x, Binop("<", Const(0), x), Const(0)),
                        Set("x", If(Binop("<", Const(1), x), Const(1), Const(0)))), v)

Values1 ==
  Leaves0
    \cup {If(c, a, b) : c \in Conds, a \in Leaves0, b \in {Const(7)}}
    \cup {Case(x, <<<<PConst(1), a>>, <<Named("n", Wildcard), Binop("*", Var("n"), Const(5))>>>>, TRUE) :
            a \in Leaves0}
    \cup {Count(x), Count2(x), Nested(x)}
    \cup {Scope(<<VarDecl("y", a)>>, Then(Set("y", Binop("+", Var("y"), Const(1))), Var("y"))) :
            a \in Leaves0}
    \cup {Scope(<<VarDecl("y", Arr(<<Const(1), x>>)), VarDecl("z", Var("y"))>>,
               Then(Ignore(Assign(ElemRef(Var("z"), Const(0)), Binop("+", x, Const(3)))),
                    Binop("*", Elem(Var("y"), Const(0)), Elem(Var("y"), Const(1)))))}

Values2 ==
  Values1
    \cup {If(v, v, Const(9)) : v \in Values1}
    \cup {If(x, v, w) : v \in Values1, w \in {Const(0), If(x, x, Const(4))}}
    \cup {Case(v, <<<<PConst(1), w>>, <<Wildcard, Const(8)>>>>, TRUE) :
            v \in Values1, w \in {x, If(x, x, Const(4))}}

Control ==
  {Scope(<<VarDecl("x", Read)>>, Body(<<Write1(Binop("+", v, w)), Write1(x), Const(0)>>)) :
     v \in Values2, w \in Values1}

(***************************************************************************)
(* Matching: values against patterns, the bindings read by the branch, the *)
(* match an operand of a sum.                                              *)
(***************************************************************************)
Scrutinees ==
  {Const(1), Str("s"), Arr(<<Const(1), x>>), Sexp("A", <<>>), Sexp("A", <<Const(1), x>>),
   Sexp("A", <<Sexp("B", <<x>>), Const(1)>>), Lambda(<<"y">>, x)}

n == Var("n")

\* A pattern that binds n, and what is made of n; or one that binds nothing.
Binding ==
  {<<Named("n", Shape("val")), n>>,
   <<PSexp("A", <<Wildcard, Named("n", PConst(1))>>), n>>,
   <<PSexp("A", <<PSexp("B", <<Named("n", Wildcard)>>), Wildcard>>), n>>,
   <<PSexp("A", <<Named("n", PSexp("B", <<Named("m", Wildcard)>>)), Named("k", Wildcard)>>),
     Binop("-", Var("k"), Elem(n, Const(0)))>>,
   <<PArr(<<Named("k", PConst(1)), Named("n", Wildcard)>>), Binop("-", n, Var("k"))>>,
   <<Named("n", Shape("array")), Call(Var("length"), <<n>>)>>}

Plain ==
  {<<p, Const(5)>> : p \in {PConst(1), PStr("s"), PStr("t"), PSexp("A", <<>>), PSexp("C", <<>>),
                            Shape("str"), Shape("sexp"), Shape("fun")}}

Matching ==
  {Scope(<<VarDecl("x", Read)>>,
         Body(<<Write1(Binop("+", x, Case(v, <<p, q>>, TRUE))), Const(0)>>)) :
     v \in Scrutinees, p \in Binding,
     q \in Plain \cup {<<Named("n", Wildcard), Const(6)>>}}
  \cup
  {Scope(<<VarDecl("x", Read)>>,
         Body(<<Case(v, <<<<p[1], Write1(p[2])>>>>, FALSE), Write1(x), Const(0)>>)) :
     v \in Scrutinees, p \in Binding \cup Plain}

(***************************************************************************)
(* Closures: outer has a variable y and an argument a, and two functions f *)
(* and g; g calls f, from functions of its own too.                        *)
(***************************************************************************)
a == Var("a")
b == Var("b")
c == Var("c")
y == Var("y")
f(e) == Call(Var("f"), <<e>>)
g(e) == Call(Var("g"), <<e>>)
h(e) == Call(Var("h"), <<e>>)

BodiesOfF ==
  {Binop("+", y, b),
   Binop("-", a, b),
   Then(Set("y", Binop("+", y, b)), y),
   Then(Set("x", Binop("+", x, b)), Binop("*", x, y)),
   If(Binop("<", Const(0), b), f(Binop("-", b, Const(1))), y),
   Then(Set("y", Binop("+", y, b)),
        If(Binop("<", Const(0), b), f(Binop("-", b, Const(1))), y))}

BodiesOfG ==
  {f(b),
   Scope(<<FunDecl("h", <<"c">>, f(c))>>, h(b)),
   Scope(<<FunDecl("h", <<"c">>, Binop("+", f(c), a))>>, Binop("*", h(b), f(b))),
   Scope(<<FunDecl("h", <<"c">>, Scope(<<FunDecl("k", <<"d">>, Binop("+", f(Var("d")), y))>>,
                                        Call(Var("k"), <<c>>)))>>, h(b)),
   Call(Lambda(<<"c">>, Binop("-", f(c), b)), <<a>>),
   Scope(<<VarDecl("k", Lambda(<<"c">>, Binop("+", Binop("+", b, c), y)))>>, Call(Var("k"), <<b>>)),
   If(Binop("<", Const(0), b), g(Binop("-", b, Const(1))), f(b)),
   Scope(<<FunDecl("h", <<"c">>, If(Binop("<", Const(0), c), g(Const(0)), f(c)))>>, h(b))}

BodiesOfOuter ==
  {g(f(a)),
   Body(<<Write1(f(Const(1))), Set("y", Const(5)), g(Const(2))>>),
   Scope(<<VarDecl("k", Var("g"))>>, Body(<<Set("y", Const(7)), Call(Var("k"), <<Const(1)>>)>>)),
   Scope(<<VarDecl("k", Var("f"))>>,
          Binop("-", Binop("+", Call(Var("k"), <<Const(1)>>), Call(Var("k"), <<Const(1)>>)), g(a))),
   Case(g(a), <<<<PConst(1), f(Const(1))>>, <<Named("n", Shape("val")), g(If(Binop("<", n, Const(3)), n, Const(2)))>>>>, TRUE)}

Outermost(ds, e) ==
  Scope(<<VarDecl("x", Read), FunDecl("outer", <<"a">>, Scope(<<VarDecl("y", Const(3))>> \o ds, e))>>,
        Body(<<Write1(Call(Var("outer"), <<x>>)), Write1(x), Const(0)>>))

Closures ==
  {Outermost(<<FunDecl("f", <<"b">>, bf), FunDecl("g", <<"b">>, bg)>>, e) :
     bf \in BodiesOfF, bg \in BodiesOfG, e \in BodiesOfOuter}

Everything == Control \cup Matching \cup Closures

(***************************************************************************)
(* A program the two interpreters disagree on.                             *)
(***************************************************************************)
\* g assigns to a variable of outer, then calls a function of its own that
\* reads it.
Recapturing ==
  {Outermost(<<FunDecl("g", <<"b">>, Scope(<<FunDecl("h", <<"c">>, Binop("+", y, c))>>,
                                           Then(Set("y", b), h(b))))>>, g(a))}
=============================================================================
