------------------------------ MODULE LamaEval ------------------------------
(***************************************************************************)
(* The source language of src/src/Language.ml and its reference            *)
(* interpreter: abstract syntax, states (module State), patterns and       *)
(* Expr.eval.  The interpreter is written with explicit continuations; all *)
(* it does with one is to run it next, so evaluation is a function from    *)
(* configurations to configurations here.                                  *)
(*                                                                         *)
(* A string is an atom: its characters are never looked at.  Only          *)
(* operators on integers that cannot overflow in the programs at hand are  *)
(* evaluated, and no division.                                             *)
(***************************************************************************)
EXTENDS Integers, Sequences, FiniteSets, TLC, SequencesExt

(***************************************************************************)
(* Abstract syntax.                                                        *)
(***************************************************************************)
Const(n)        == <<"Const", n>>
Str(s)          == <<"String", s>>
Var(x)          == <<"Var", x>>
Ref(x)          == <<"Ref", x>>
ElemRef(b, i)   == <<"ElemRef", b, i>>
Elem(b, i)      == <<"Elem", b, i>>
Arr(es)         == <<"Array", es>>
Sexp(t, es)     == <<"Sexp", t, es>>
Binop(op, l, r) == <<"Binop", op, l, r>>
Call(f, es)     == <<"Call", f, es>>
Assign(l, r)    == <<"Assign", l, r>>
Skip            == <<"Skip">>
Unit            == <<"Unit">>
Then(e, f)      == <<"Seq", e, f>>
If(c, e, f)     == <<"If", c, e, f>>
While(c, e)     == <<"While", c, e>>
DoWhile(e, c)   == <<"DoWhile", e, c>>
\* brs: pairs of a pattern and an expression; gives: whether it has a value.
Case(e, brs, gives) == <<"Case", e, brs, gives>>
Ignore(e)       == <<"Ignore", e>>
Lambda(xs, e)   == <<"Lambda", xs, e>>
Scope(ds, e)    == <<"Scope", ds, e>>

\* Declarations of a scope.
NoInit             == <<"None">>
VarDecl(x, e)      == [name |-> x, kind |-> "var", init |-> e]
FunDecl(x, xs, e)  == [name |-> x, kind |-> "fun", args |-> xs, body |-> e]

Wildcard     == <<"Wildcard">>
Named(x, p)  == <<"Named", x, p>>
PConst(n)    == <<"PConst", n>>
PStr(s)      == <<"PString", s>>
PSexp(t, ps) == <<"PSexp", t, ps>>
PArr(ps)     == <<"PArray", ps>>
Shape(s)     == <<"Shape", s>>     \* #val, #box, #str, #array, #sexp, #fun

(***************************************************************************)
(* Values.  Arrays, S-expressions, strings and closures are objects of a   *)
(* memory; an object is <<"Array", elements>>, <<"Sexp", tag, elements>>,  *)
(* <<"String", text>> or a closure.                                        *)
(***************************************************************************)
Num(n)    == <<"Int", n>>
Empty      == <<"Empty">>
At(k)      == <<"Ref", k>>
Builtin(f) == <<"Builtin", f>>

IsInt(v) == v[1] = "Int"
IsRef(v) == v[1] = "Ref"

KindOf(v, heap) == IF IsRef(v) THEN heap[v[2]][1] ELSE v[1]

Elements(o) == IF o[1] = "Array" THEN o[2] ELSE IF o[1] = "Sexp" THEN o[3] ELSE <<>>

HasElement(v, j, heap) ==
  /\ IsRef(v) /\ IsInt(j)
  /\ j[2] \in 0 .. Len(Elements(heap[v[2]])) - 1

ElementOf(v, j, heap) == Elements(heap[v[2]])[j[2] + 1]

WithElement(v, j, x, heap) ==
  IF heap[v[2]][1] = "Array" THEN [heap EXCEPT ![v[2]][2][j[2] + 1] = x]
                             ELSE [heap EXCEPT ![v[2]][3][j[2] + 1] = x]

Truth(b) == IF b THEN 1 ELSE 0

\* Expr.to_func: both operands are evaluated, also of && and !!.
ToFunc(op, x, y) ==
  CASE op = "+"  -> x + y
    [] op = "-"  -> x - y
    [] op = "*"  -> x * y
    [] op = "<"  -> Truth(x < y)
    [] op = "<=" -> Truth(x <= y)
    [] op = ">"  -> Truth(x > y)
    [] op = ">=" -> Truth(x >= y)
    [] op = "==" -> Truth(x = y)
    [] op = "!=" -> Truth(x /= y)
    [] op = "&&" -> Truth(x /= 0 /\ y /= 0)
    [] op = "!!" -> Truth(x /= 0 \/ y /= 0)

(***************************************************************************)
(* States: a sequence of scopes, innermost first; the last is the global   *)
(* one and decides on every name that no other has.  A scope has the kinds *)
(* of its names and the values bound so far.                               *)
(***************************************************************************)
ScopeOf(names, vals) == [names |-> names, vals |-> vals]
NoNames == <<>>

Home(st, x) ==
  LET k == SelectInSeq(st, LAMBDA s : x \in DOMAIN s.names)
  IN IF k = 0 THEN Len(st) ELSE k

Bound(st, x) == st /= <<>> /\ x \in DOMAIN st[Home(st, x)].vals

ValueIn(st, x) == st[Home(st, x)].vals[x]

IsVar(st, x) == LET s == st[Home(st, x)] IN x \in DOMAIN s.names /\ s.names[x] = "Mut"

UpdateIn(st, x, v) == [st EXCEPT ![Home(st, x)].vals = (x :> v) @@ @]

\* Keep the n outermost scopes.
Prune(st, n) == SubSeq(st, Len(st) - n + 1, Len(st))

\* The local scopes of inner with the global scope of st.
LeaveTo(st, inner) == (IF inner = <<>> THEN <<>> ELSE Front(inner)) \o <<Last(st)>>

Builtins == {"read", "write", "length"}

\* Push a scope; the first one also declares the built-in functions.
PushScope(st, names, vals) ==
  IF st = <<>>
    THEN <<ScopeOf(names @@ [f \in Builtins |-> "FVal"], [f \in Builtins |-> Builtin(f)] @@ vals)>>
    ELSE <<ScopeOf(names, vals)>> \o st

(***************************************************************************)
(* Configurations: a state, a memory, the input left, the output, a stack  *)
(* of values, and whether the interpreter has raised an exception.         *)
(***************************************************************************)
Start(input) == [st |-> <<>>, heap |-> <<>>, i |-> input, o |-> <<>>, vs |-> <<>>,
                 failed |-> FALSE]

Push(v, c)     == [c EXCEPT !.vs = Append(@, v)]
Fail(c)        == [c EXCEPT !.failed = TRUE]
Top(c, k)      == c.vs[Len(c.vs) - k + 1]
Pops(c, n)     == [c EXCEPT !.vs = SubSeq(@, 1, Len(@) - n)]
Popped(c, n)   == SubSeq(c.vs, Len(c.vs) - n + 1, Len(c.vs))

\* A new object on the stack.
New(o, c) == [c EXCEPT !.heap = Append(@, o), !.vs = Append(@, At(Len(c.heap) + 1))]

Continue(c, F(_)) == IF c.failed THEN c ELSE F(c)

(***************************************************************************)
(* Patterns: the bindings of a match, or NoMatch.                          *)
(***************************************************************************)
NoMatch == [ok |-> FALSE, vals |-> <<>>]
Matches == [ok |-> TRUE, vals |-> <<>>]

\* What a value shows of its kind.
ShapesOf(kind) ==
  CASE kind = "Int"     -> {"val"}
    [] kind = "String"  -> {"box", "str"}
    [] kind = "Array"   -> {"box", "array"}
    [] kind = "Sexp"    -> {"box", "sexp"}
    [] kind = "Closure" -> {"fun"}
    [] OTHER            -> {}

RECURSIVE MatchPatt(_, _, _, _)
MatchAll(ps, vs, heap, m) ==
  IF Len(ps) /= Len(vs) THEN NoMatch
  ELSE FoldLeft(LAMBDA acc, k : MatchPatt(ps[k], vs[k], heap, acc), m,
                [k \in 1 .. Len(ps) |-> k])

MatchPatt(p, v, heap, m) ==
  LET kind == KindOf(v, heap)
  IN CASE p[1] = "Wildcard" -> m
       [] p[1] = "Named" ->
            LET rest == MatchPatt(p[3], v, heap, m)
            IN IF rest.ok THEN [rest EXCEPT !.vals = (p[2] :> v) @@ @] ELSE NoMatch
       [] p[1] = "PConst" /\ kind = "Int"     -> IF v[2] = p[2] THEN m ELSE NoMatch
       [] p[1] = "PString" /\ kind = "String" -> IF heap[v[2]][2] = p[2] THEN m ELSE NoMatch
       [] p[1] = "PSexp" /\ kind = "Sexp"     ->
            IF heap[v[2]][2] = p[2] THEN MatchAll(p[3], heap[v[2]][3], heap, m) ELSE NoMatch
       [] p[1] = "PArray" /\ kind = "Array"   -> MatchAll(p[2], heap[v[2]][2], heap, m)
       [] p[1] = "Shape" -> IF p[2] \in ShapesOf(kind) THEN m ELSE NoMatch
       [] OTHER -> NoMatch

(***************************************************************************)
(* Built-in functions: read, write, length, .elem and .array.              *)
(***************************************************************************)
EvalBuiltin(f, args, c) ==
  CASE f = "read" /\ c.i /= <<>> -> Push(Num(Head(c.i)), [c EXCEPT !.i = Tail(@)])
    [] f = "write" /\ Len(args) > 0 /\ IsInt(args[1]) ->
         Push(Empty, [c EXCEPT !.o = Append(@, args[1][2])])
    [] f = ".elem" /\ Len(args) = 2 /\ HasElement(args[1], args[2], c.heap) ->
         Push(ElementOf(args[1], args[2], c.heap), c)
    [] f = "length" /\ Len(args) > 0 /\ KindOf(args[1], c.heap) \in {"Array", "Sexp"} ->
         Push(Num(Len(Elements(c.heap[args[1][2]]))), c)
    [] f = ".array" -> New(<<"Array", args>>, c)
    [] OTHER -> Fail(c)

(***************************************************************************)
(* Expr.eval.                                                              *)
(***************************************************************************)
RECURSIVE Eval(_, _)

EvalList(es, c) == FoldLeft(LAMBDA d, e : Continue(d, LAMBDA x : Eval(e, x)), c, es)

\* A scope's variables with initial values are assigned first, in order; its
\* functions remember how many scopes they were declared in.
EvalScope(ds, body, c) ==
  LET names == [x \in {ds[k].name : k \in DOMAIN ds} |->
                  IF \E k \in DOMAIN ds : ds[k].name = x /\ ds[k].kind = "fun" THEN "FVal" ELSE "Mut"]
      decl(x) == ds[CHOOSE k \in DOMAIN ds : ds[k].name = x]
      funs  == [x \in {y \in DOMAIN names : names[y] = "FVal"} |->
                  <<"FunRef", decl(x).args, decl(x).body, Len(c.st) + 1>>]
      inits == SelectSeq(ds, LAMBDA d : d.kind = "var" /\ d.init /= NoInit)
      steps == [k \in DOMAIN inits |-> Ignore(Assign(Ref(inits[k].name), inits[k].init))]
      done  == EvalList(steps \o <<body>>, [c EXCEPT !.st = PushScope(@, names, funs)])
  IN Continue(done, LAMBDA d : [d EXCEPT !.st = Tail(@)])

\* A function's name stands for a new closure over the scopes it was declared
\* in, as they are now.
EvalVar(x, c) ==
  IF ~Bound(c.st, x) THEN Fail(c)
  ELSE LET v == ValueIn(c.st, x)
       IN IF v[1] = "FunRef"
            THEN New(<<"Closure", v[2], v[3], Prune(c.st, v[4])>>, c)
            ELSE Push(v, c)

\* Of n arguments and the function below them.  The closure keeps the state
\* its body ended in; of the caller's state only the global scope changes.
Apply(n, c) ==
  LET f    == Top(c, n + 1)
      args == Popped(c, n)
      left == Pops(c, n + 1)
  IN IF f[1] = "Builtin" THEN EvalBuiltin(f[2], args, left)
     ELSE IF KindOf(f, c.heap) /= "Closure" \/ Len(c.heap[f[2]][2]) /= n THEN Fail(c)
     ELSE LET clo   == c.heap[f[2]]
              names == Range(clo[2])
              bind  == [x \in names |-> args[CHOOSE k \in 1 .. n : clo[2][k] = x]]
              entry == [left EXCEPT !.vs = <<>>,
                         !.st = PushScope(LeaveTo(c.st, clo[4]), [x \in names |-> "Mut"], bind)]
              exit  == Eval(clo[3], entry)
          IN Continue(exit, LAMBDA d :
               [d EXCEPT !.heap[f[2]][4] = d.st,
                         !.st = LeaveTo(d.st, c.st),
                         !.vs = Append(left.vs, IF Len(d.vs) = 1 THEN d.vs[1] ELSE Empty)])

\* The value on top goes to the variable or element below it, and stays.
Store(c) ==
  LET v == Top(c, 1)
      l == Top(c, 2)
      d == Push(v, Pops(c, 2))
  IN IF l[1] = "Var"
       THEN IF IsVar(c.st, l[2]) THEN [d EXCEPT !.st = UpdateIn(@, l[2], v)] ELSE Fail(c)
       ELSE IF HasElement(l[2], l[3], c.heap)
              THEN [d EXCEPT !.heap = WithElement(l[2], l[3], v, @)]
              ELSE Fail(c)

\* The first branch whose pattern matches the value on top.
RECURSIVE Branch(_, _)
Branch(brs, c) ==
  IF brs = <<>> THEN Fail(c)
  ELSE LET m == MatchPatt(brs[1][1], Top(c, 1), c.heap, Matches)
       IN IF ~m.ok THEN Branch(Tail(brs), c)
          ELSE LET names == [x \in DOMAIN m.vals |-> "Unmut"]
                   inner == [Pops(c, 1) EXCEPT !.st = PushScope(@, names, m.vals)]
               IN Continue(Eval(brs[1][2], inner), LAMBDA d : [d EXCEPT !.st = Tail(@)])

\* Continue with one of two expressions, by the integer on top.
Choose(c, IfSo(_), IfNot(_)) ==
  IF ~IsInt(Top(c, 1)) THEN Fail(c)
  ELSE IF Top(c, 1)[2] /= 0 THEN IfSo(Pops(c, 1)) ELSE IfNot(Pops(c, 1))

Eval(e, c) ==
  CASE e[1] = "Const"  -> Push(Num(e[2]), c)
    [] e[1] = "String" -> New(e, c)
    [] e[1] = "Unit"   -> Push(Empty, c)
    [] e[1] = "Skip"   -> c
    [] e[1] = "Var"    -> EvalVar(e[2], c)
    [] e[1] = "Ref"    -> Push(<<"Var", e[2]>>, c)
    [] e[1] = "Lambda" -> New(<<"Closure", e[2], e[3], c.st>>, c)
    [] e[1] = "Scope"  -> EvalScope(e[2], e[3], c)
    [] e[1] = "Seq"    -> EvalList(<<e[2], e[3]>>, c)
    [] e[1] = "Ignore" -> Continue(Eval(e[2], c), LAMBDA d : Pops(d, 1))
    [] e[1] = "Array"  -> Continue(EvalList(e[2], c), LAMBDA d :
                            EvalBuiltin(".array", Popped(d, Len(e[2])), Pops(d, Len(e[2]))))
    [] e[1] = "Sexp"   -> Continue(EvalList(e[3], c), LAMBDA d :
                            New(<<"Sexp", e[2], Popped(d, Len(e[3]))>>, Pops(d, Len(e[3]))))
    [] e[1] = "Elem"   -> Continue(EvalList(<<e[2], e[3]>>, c), LAMBDA d :
                            EvalBuiltin(".elem", Popped(d, 2), Pops(d, 2)))
    [] e[1] = "ElemRef" -> Continue(EvalList(<<e[2], e[3]>>, c), LAMBDA d :
                             Push(<<"Elem", Top(d, 2), Top(d, 1)>>, Pops(d, 2)))
    [] e[1] = "Binop"  -> Continue(EvalList(<<e[3], e[4]>>, c), LAMBDA d :
                            IF IsInt(Top(d, 1)) /\ IsInt(Top(d, 2))
                              THEN Push(Num(ToFunc(e[2], Top(d, 2)[2], Top(d, 1)[2])), Pops(d, 2))
                              ELSE Fail(d))
    [] e[1] = "Call"   -> Continue(EvalList(<<e[2]>> \o e[3], c), LAMBDA d : Apply(Len(e[3]), d))
    [] e[1] = "Assign" -> Continue(EvalList(<<e[2], e[3]>>, c), LAMBDA d : Store(d))
    [] e[1] = "If"     -> Continue(Eval(e[2], c), LAMBDA d :
                            Choose(d, LAMBDA x : Eval(e[3], x), LAMBDA x : Eval(e[4], x)))
    [] e[1] = "While"  -> Continue(Eval(e[2], c), LAMBDA d :
                            Choose(d, LAMBDA x : EvalList(<<e[3], e>>, x), LAMBDA x : x))
    [] e[1] = "DoWhile" -> EvalList(<<e[2], While(e[3], e[2])>>, c)
    [] e[1] = "Case"   -> Continue(Eval(e[2], c), LAMBDA d : Branch(e[3], d))

\* Language.eval: a whole program.
Interpreted(program, input) == Eval(program, Start(input))
=============================================================================
