------------------------------ MODULE SMCompile ------------------------------
(***************************************************************************)
(* The compiler from the source language to the stack machine (compile and *)
(* class env of src/src/SM.ml): scopes and addresses, closure conversion,  *)
(* expressions, patterns and the labels they jump to.                      *)
(*                                                                         *)
(* An environment is threaded through as in the source.  Line numbers,     *)
(* debugging scopes, imports and exports are left out, and programs whose  *)
(* scopes declare a name twice (check_name_and_add refuses them).          *)
(***************************************************************************)
EXTENDS LamaEval

(***************************************************************************)
(* Value.designation: where a variable lives.                              *)
(***************************************************************************)
Global(x) == <<"Global", x>>
Local(i)  == <<"Local", i>>
Arg(i)    == <<"Arg", i>>
Access(i) == <<"Access", i>>
Fun(f)    == <<"Fun", f>>

\* A variable of an enclosing function, not yet captured.
Outer == Access(-1)

NormalLabel(n) == <<"L", n>>
FunLabel(f)    == <<"F", f>>
NoLabel        == <<"none">>

\* Names of functions: of the source or a lambda, with a scope or the number
\* of a lambda to tell them apart.
Main      == <<"main", 0, 0>>
External(f) == <<f, -1, 0>>

(***************************************************************************)
(* Environments.  scope is the funscope of the function being compiled,    *)
(* ctx the stack of functions around it, innermost first, each with the    *)
(* functions declared in it and not yet compiled; the last stands for Top. *)
(* tree, closures and calls are the funinfo tables.                        *)
(***************************************************************************)
InitScope(st) == [st |-> st, args |-> 0, local |-> 0, acc |-> 0, nlocals |-> 0, closure |-> <<>>]

ToFunDef(f, args, body, st) == [name |-> f, args |-> args, body |-> body, scope |-> InitScope(st)]

Item(fd, fds) == [fd |-> fd, fds |-> fds]
TopItem       == Item(ToFunDef(Main, <<>>, Skip, <<>>), <<>>)

InitEnv == [label |-> 0, scopes |-> 0, lams |-> 0, scope |-> InitScope(<<>>), ctx |-> <<TopItem>>,
            tree |-> <<>>, closures |-> <<>>, calls |-> <<>>]

CurrentFunction(env) == env.ctx[1].fd.name

\* The n-th fresh label, n counted from 1, and the environment after n of them.
Label(env, n)  == NormalLabel(env.label + n)
Labels(env, n) == [env EXCEPT !.label = @ + n]

\* push_scope; the first scope is the global one, with the names of Std.
EnterScope(env) ==
  [env EXCEPT !.scopes = @ + 1,
     !.scope.st = IF @ = <<>>
                    THEN <<ScopeOf(NoNames, [f \in Builtins |-> Fun(External(f))])>>
                    ELSE <<ScopeOf(NoNames, NoNames)>> \o @]

\* pop_scope: the locals of the scope are free again.
ExitScope(env) ==
  LET s == Head(env.scope.st)
      n == Cardinality({x \in DOMAIN s.names : s.names[x] /= "FVal"})
  IN IF Len(env.scope.st) = 1 THEN [env EXCEPT !.scope.st = <<>>]
     ELSE [env EXCEPT !.scope.st = Tail(@), !.scope.local = @ - n]

Declare(env, x, kind, where) ==
  [env EXCEPT !.scope.st[1] =
     ScopeOf((x :> kind) @@ @.names, (x :> where) @@ @.vals)]

AddArg(env, x) ==
  [Declare(env, x, "Mut", Arg(env.scope.args)) EXCEPT !.scope.args = @ + 1]

\* Mutant: the number of locals is not raised to cover a nested scope.
AddNameUncounted(env, x, kind) ==
  IF Len(env.scope.st) = 1 THEN Declare(env, x, kind, Global(x))
  ELSE [Declare(env, x, kind, Local(env.scope.local)) EXCEPT
          !.scope.local = @ + 1,
          !.scope.nlocals = IF @ = 0 THEN 1 ELSE @]

AddName(env, x, kind) ==
  IF Len(env.scope.st) = 1 THEN Declare(env, x, kind, Global(x))
  ELSE [Declare(env, x, kind, Local(env.scope.local)) EXCEPT
          !.scope.local = @ + 1,
          !.scope.nlocals = IF env.scope.local + 1 > @ THEN env.scope.local + 1 ELSE @]

FunInternalName(env, x, lam) ==
  <<x, IF Len(env.scope.st) = 1 THEN 0 ELSE env.scopes, lam>>

AddFunName(env, x) == Declare(env, x, "FVal", Fun(FunInternalName(env, x, 0)))

\* add_fun, add_lambda: a function to compile later, in the state of now.
AddFunDef(env, f, args, body) ==
  [env EXCEPT !.ctx[1].fds = <<ToFunDef(f, args, body, env.scope.st)>> \o @,
              !.tree = (f :> CurrentFunction(env)) @@ @]

RegisterCall(env, f) == [env EXCEPT !.calls = (<<f, CurrentFunction(env)>> :> <<>>) @@ @]

RegisterClosure(env, f) == [env EXCEPT !.closures = (f :> Reverse(env.scope.closure)) @@ @]

\* One more variable for the closure of a function's scope.
Capture(scope, x, where) ==
  [scope EXCEPT !.st = UpdateIn(@, x, Access(scope.acc)), !.acc = @ + 1,
                !.closure = <<where>> \o @]

\* propagate_acc: each function between the one that uses x and the one that
\* declares it captures x.
RECURSIVE PropagateAcc(_, _)
PropagateAcc(ctx, x) ==
  LET scope == ctx[1].fd.scope
      where == ValueIn(scope.st, x)
      up    == PropagateAcc(Tail(ctx), x)
  IN IF where /= Outer THEN [ctx |-> ctx, where |-> where]
     ELSE [ctx |-> <<[ctx[1] EXCEPT !.fd.scope = Capture(scope, x, up.where)]>> \o up.ctx,
           where |-> Access(scope.acc)]

\* lookup: the environment may capture x.
Lookup(env, x) ==
  LET where == ValueIn(env.scope.st, x)
      up    == PropagateAcc(env.ctx, x)
  IN IF where /= Outer THEN [env |-> env, where |-> where]
     ELSE [env |-> [env EXCEPT !.ctx = up.ctx, !.scope = Capture(env.scope, x, up.where)],
           where |-> Access(env.scope.acc)]

\* open_fun_scope: inside, every variable of an enclosing local scope is outer.
OpenFunScope(env, fd) ==
  LET outside   == [env.scope EXCEPT !.st = fd.scope.st]
      parent    == IF Len(env.ctx) = 1 THEN env.ctx
                   ELSE <<[env.ctx[1] EXCEPT !.fd.scope = outside]>> \o Tail(env.ctx)
      readdress == [k \in DOMAIN fd.scope.st |->
                      IF k = Len(fd.scope.st) THEN fd.scope.st[k]
                      ELSE [fd.scope.st[k] EXCEPT !.vals =
                              [x \in DOMAIN @ |-> IF @[x][1] = "Fun" THEN @[x] ELSE Outer]]]
  IN EnterScope([env EXCEPT !.ctx = <<Item([fd EXCEPT !.scope = outside], <<>>)>> \o parent,
                            !.scope = InitScope(readdress)])

CloseFunScope(env) ==
  LET up == Tail(env.ctx)
  IN ExitScope([env EXCEPT !.ctx = up, !.scope = IF Len(up) = 1 THEN @ ELSE up[1].fd.scope])

(***************************************************************************)
(* Code.  flag: the code may jump to the label l it was given, which the   *)
(* caller then has to place.                                               *)
(***************************************************************************)
Code(env, flag, code) == [code |-> code, flag |-> flag, env |-> env]

AddCode(c, l, flag, code) ==
  Code(c.env, flag, c.code \o (IF c.flag THEN <<<<"LABEL", l>>>> ELSE <<>>) \o code)

\* Mutant: the code falls through.
JumpForgotten(flag, l) == <<>>

JumpUnless(flag, l) == IF flag THEN <<>> ELSE <<<<"JMP", l>>>>

\* A pattern takes the value on top off, and jumps to lfalse if it does not
\* match it.
Test(env, lfalse, code) == Code(env, TRUE, code \o <<<<"CJMP", "z", lfalse>>>>)

TagTest(lhead, ldrop, lfalse, test) ==
  <<<<"DUP">>, test, <<"CJMP", "nz", lhead>>, <<"LABEL", ldrop>>, <<"DROP">>,
    <<"JMP", lfalse>>, <<"LABEL", lhead>>>>

\* Code after code that was compiled before it.
After(c, d) == Code(d.env, d.flag, c.code \o d.code)

RECURSIVE Pattern(_, _, _)
PatternList(env, ldrop, ps) ==
  LET element(c, k) == Code(c.env, TRUE, c.code \o <<<<"DUP">>, <<"CONST", k - 1>>, <<"ELEM">>>>)
      add(c, k)     == After(element(c, k), Pattern(c.env, ldrop, ps[k]))
  IN FoldLeft(add, Code(env, TRUE, <<>>), [k \in DOMAIN ps |-> k])

Composite(env, lfalse, test, ps) ==
  LET lhead == Label(env, 1)
      ldrop == Label(env, 2)
      whole(c) == Code(c.env, TRUE, TagTest(lhead, ldrop, lfalse, test) \o c.code \o <<<<"DROP">>>>)
  IN whole(PatternList(Labels(env, 2), ldrop, ps))

Pattern(env, lfalse, p) ==
  CASE p[1] = "Wildcard" -> Code(env, FALSE, <<<<"DROP">>>>)
    [] p[1] = "Named"    -> Pattern(env, lfalse, p[3])
    [] p[1] = "PConst"   -> Test(env, lfalse, <<<<"CONST", p[2]>>, <<"BINOP", "==">>>>)
    [] p[1] = "PString"  -> Test(env, lfalse, <<<<"STRING", p[2]>>, <<"PATT", "strcmp">>>>)
    [] p[1] = "Shape"    -> Test(env, lfalse, <<<<"PATT", p[2]>>>>)
    [] p[1] = "PArray"   -> Composite(env, lfalse, <<"ARRAY", Len(p[2])>>, p[2])
    [] p[1] = "PSexp"    -> Composite(env, lfalse, <<"TAG", p[2], Len(p[3])>>, p[3])

\* The names of a pattern with the paths to them, in the order of the text.
RECURSIVE Paths(_, _)
Paths(p, path) ==
  CASE p[1] = "Named" -> <<<<p[2], path>>>> \o Paths(p[3], path)
    [] p[1] = "PArray" -> FlattenSeq([k \in DOMAIN p[2] |-> Paths(p[2][k], Append(path, k - 1))])
    [] p[1] = "PSexp"  -> FlattenSeq([k \in DOMAIN p[3] |-> Paths(p[3][k], Append(path, k - 1))])
    [] OTHER -> <<>>

\* Names are declared from the last to the first, and stored from the first.
Bindings(env, p) ==
  LET store(c, to, path) ==
        Code(to.env, FALSE,
             <<<<"DUP">>>>
               \o FlattenSeq([k \in DOMAIN path |-> <<<<"CONST", path[k]>>, <<"ELEM">>>>])
               \o <<<<"ST", to.where>>, <<"DROP">>>> \o c.code)
      bind(c, b) == store(c, Lookup(AddName(c.env, b[1], "Mut"), b[1]), b[2])
      close(c)   == Code(c.env, FALSE, c.code \o <<<<"DROP">>>>)
  IN close(FoldLeft(bind, Code(env, FALSE, <<>>), Reverse(Paths(p, <<>>))))

(***************************************************************************)
(* compile_expr: tail says that nothing is left to do in the function      *)
(* after the expression; l is where to go when it is done.                 *)
(***************************************************************************)
RECURSIVE CompileExpr(_, _, _, _)
RECURSIVE CompileList(_, _, _, _)

\* compile_list: each but the last gets a label of its own to go on at.
CompileList(tail, l, env, es) ==
  LET les         == Label(env, 1)
      join(c, d)  == AddCode(Code(d.env, c.flag, c.code), les, d.flag, d.code)
      goOn(c)     == join(c, CompileList(tail, l, c.env, Tail(es)))
  IN IF es = <<>> THEN Code(env, FALSE, <<>>)
     ELSE IF Len(es) = 1 THEN CompileExpr(tail, l, env, es[1])
     ELSE goOn(CompileExpr(FALSE, les, Labels(env, 1), es[1]))

\* Mutant: the last operand is compiled as if nothing came after it.
WithOperandsInTail(env, es, insns) ==
  AddCode(CompileList(TRUE, Label(env, 1), Labels(env, 1), es), Label(env, 1), FALSE, insns)

\* Operands, each left on the stack, then an instruction that takes them off.
WithOperands(env, es, insns) ==
  AddCode(CompileList(FALSE, Label(env, 1), Labels(env, 1), es), Label(env, 1), FALSE, insns)

\* Names are declared from the last to the first.
CompileScope(tail, l, env, ds, e) ==
  LET declare(c, d) == IF d.kind = "fun" THEN AddFunName(c, d.name)
                                         ELSE AddName(c, d.name, "Mut")
      body   == FoldLeft(LAMBDA acc, d :
                           IF d.kind = "var" /\ d.init /= NoInit
                             THEN Then(Ignore(Assign(Ref(d.name), d.init)), acc) ELSE acc,
                         e, Reverse(ds))
      named  == FoldLeft(declare, EnterScope(Labels(env, 2)), Reverse(ds))
      define(c, d) == AddFunDef(c, FunInternalName(c, d.name, 0), d.args, d.body)
      ready  == FoldLeft(define, named, SelectSeq(ds, LAMBDA d : d.kind = "fun"))
      close(c) == Code(ExitScope(c.env), c.flag, c.code)
  IN close(CompileExpr(tail, l, ready, body))

\* A function as a value: a closure, made where the name is used.
Proto(env, f) == Code(RegisterCall(env, f), FALSE, <<<<"PROTO", f, CurrentFunction(env)>>>>)

\* register_fun is called after the lambda is added.
CompileLambda(env, args, body) ==
  LET f     == FunInternalName(env, "lambda", env.lams + 1)
      added == [AddFunDef(env, f, args, body) EXCEPT !.lams = @ + 1]
  IN Proto(added, f)

CompileVar(env, x) ==
  LET load(to) == IF to.where[1] = "Fun" THEN Proto(to.env, to.where[2])
                  ELSE Code(to.env, FALSE, <<<<"LD", to.where>>>>)
  IN load(Lookup(env, x))

\* The callee is called by its name, or its closure is made before the
\* arguments are: which of them is known when the whole program is compiled.
CompileCall(tail, env, f, args) ==
  LET lcall == Label(env, 1)
      call(e, es, insn) == AddCode(CompileList(FALSE, lcall, e, es), lcall, FALSE, <<insn>>)
      byValue(e)   == call(e, <<f>> \o args, <<"CALLC", Len(args), tail>>)
      byName(e, g) == After(Code(e, FALSE, <<<<"PPROTO", g, CurrentFunction(e)>>>>),
                            call(RegisterCall(e, g), args, <<"PCALLC", Len(args), tail>>))
      either(to)   == IF to.where[1] = "Fun" THEN byName(to.env, to.where[2]) ELSE byValue(to.env)
  IN IF f[1] = "Var" THEN either(Lookup(Labels(env, 1), f[2])) ELSE byValue(Labels(env, 1))

CompileAssign(env, to, e) ==
  LET lassn    == Label(env, 1)
      store(x) == AddCode(CompileExpr(FALSE, lassn, x.env, e), lassn, FALSE, <<<<"ST", x.where>>>>)
  IN IF to[1] = "Ref" THEN store(Lookup(Labels(env, 1), to[2]))
     ELSE WithOperands(env, <<to[2], to[3], e>>, <<<<"STA">>>>)

CompileIf(tail, l, env, cond, e, f) ==
  LET le == Label(env, 1)
      l2 == Label(env, 2)
      test(c)   == AddCode(c, le, FALSE, <<<<"CJMP", "z", l2>>>>)
      done(c)   == Code(c.env, TRUE, c.code \o JumpUnless(c.flag, l))
      arm(c, d) == After(c, done(CompileExpr(tail, l, c.env, d)))
      other(c)  == Code(c.env, TRUE, c.code \o <<<<"LABEL", l2>>>>)
  IN arm(other(arm(test(CompileExpr(FALSE, le, Labels(env, 2), cond)), e)), f)

\* The condition is compiled first and placed last.
CompileWhile(env, cond, body) ==
  LET lexp  == Label(env, 1)
      loop  == Label(env, 2)
      lcond == Label(env, 3)
      whole(c, s) == Code(s.env, FALSE,
        <<<<"JMP", lcond>>, <<"FLABEL", loop>>>> \o s.code \o <<<<"LABEL", lcond>>>>
          \o AddCode(c, lexp, FALSE, <<<<"CJMP", "nz", loop>>>>).code)
      around(c) == whole(c, CompileExpr(FALSE, lcond, c.env, body))
  IN around(CompileExpr(FALSE, lexp, Labels(env, 3), cond))

CompileDoWhile(env, body, cond) ==
  LET lexp  == Label(env, 1)
      loop  == Label(env, 2)
      check == Label(env, 3)
      whole(c, s) == Code(s.env, FALSE,
        <<<<"LABEL", loop>>>> \o AddCode(s, check, FALSE, <<>>).code
          \o AddCode(c, lexp, FALSE, <<<<"CJMP", "nz", loop>>>>).code)
      around(c) == whole(c, CompileExpr(FALSE, check, c.env, body))
  IN around(CompileExpr(FALSE, lexp, Labels(env, 3), cond))

\* One branch: the scrutinee is under test in a copy; a match takes both off.
\* Its flag is that of the pattern: it may fail.  enter is where the branch
\* before this one jumps when it does not match.
CompileBranch(tail, l, env, lfalse, br) ==
  LET bound(c) == After(c, Bindings(EnterScope(Labels(c.env, 2)), br[1]))
      whole(c) == After(c, CompileExpr(tail, l, c.env, br[2]))
      close(c, flag) == Code(ExitScope(c.env), flag, c.code)
      rest(c) == close(whole(bound(c)), c.flag)
  IN rest(Pattern(env, lfalse, br[1]))

\* All branches, from the one after the first done; lab is where the one
\* before jumps when it does not match, more that it may.  Branches after one
\* that always matches are not compiled.
RECURSIVE CompileBranches(_, _, _, _, _, _)
CompileBranches(tail, l, lfail, acc, lab, brs) ==
  LET last   == Len(brs) = 1
      lfalse == IF last THEN lfail ELSE Label(acc.env, 1)
      inner  == IF last THEN acc.env ELSE Labels(acc.env, 1)
      enter  == IF lab = NoLabel THEN <<>> ELSE <<<<"LABEL", lab>>, <<"DUP">>>>
      leave  == IF last THEN <<>> ELSE <<<<"JMP", l>>>>
      add(b) == Code(b.env, b.flag, acc.code \o enter \o b.code \o leave)
  IN IF brs = <<>> \/ ~acc.flag THEN acc
     ELSE CompileBranches(tail, l, lfail, add(CompileBranch(tail, l, inner, lfalse, brs[1])),
                          lfalse, Tail(brs))

CompileCase(tail, l, env, e, brs, gives) ==
  LET lfail == Label(env, 1)
      lexp  == Label(env, 2)
      under(c) == AddCode(c, lexp, TRUE, <<<<"DUP">>>>)
      close(c) == Code(c.env, TRUE, c.code \o <<<<"JMP", l>>>>
                    \o IF c.flag THEN <<<<"LABEL", lfail>>, <<"FAIL", gives>>, <<"JMP", l>>>> ELSE <<>>)
  IN close(CompileBranches(tail, l, lfail, under(CompileExpr(FALSE, lexp, Labels(env, 2), e)),
                           NoLabel, brs))

CompileExpr(tail, l, env, e) ==
  CASE e[1] = "Const"  -> Code(env, FALSE, <<<<"CONST", e[2]>>>>)
    [] e[1] = "String" -> Code(env, FALSE, <<<<"STRING", e[2]>>>>)
    [] e[1] = "Unit"   -> Code(env, FALSE, <<<<"CONST", 0>>>>)
    [] e[1] = "Skip"   -> Code(env, FALSE, <<>>)
    [] e[1] = "Var"    -> CompileVar(env, e[2])
    [] e[1] = "Lambda" -> CompileLambda(env, e[2], e[3])
    [] e[1] = "Scope"  -> CompileScope(tail, l, env, e[2], e[3])
    [] e[1] = "Seq"    -> CompileList(tail, l, env, <<e[2], e[3]>>)
    [] e[1] = "Ignore" -> AddCode(CompileExpr(tail, Label(env, 1), Labels(env, 1), e[2]),
                                  Label(env, 1), FALSE, <<<<"DROP">>>>)
    [] e[1] = "Array"  -> WithOperands(env, e[2], <<<<"CALL", External(".array"), Len(e[2]), tail>>>>)
    [] e[1] = "Sexp"   -> WithOperands(env, e[3], <<<<"SEXP", e[2], Len(e[3])>>>>)
    [] e[1] = "Elem"   -> WithOperands(env, <<e[2], e[3]>>, <<<<"ELEM">>>>)
    [] e[1] = "Binop"  -> WithOperands(env, <<e[3], e[4]>>, <<<<"BINOP", e[2]>>>>)
    [] e[1] = "Call"   -> CompileCall(tail, env, e[2], e[3])
    [] e[1] = "Assign" -> CompileAssign(env, e[2], e[3])
    [] e[1] = "If"     -> CompileIf(tail, l, env, e[2], e[3], e[4])
    [] e[1] = "While"  -> CompileWhile(env, e[2], e[3])
    [] e[1] = "DoWhile" -> CompileDoWhile(env, e[2], e[3])
    [] e[1] = "Case"   -> CompileCase(tail, l, env, e[2], e[3], e[4])

(***************************************************************************)
(* Functions: code is a sequence of functions from here on.                *)
(* compile_fundefs: those declared in the function on top of the context,  *)
(* the last declared first, each followed by those in it.                  *)
(***************************************************************************)
AddEnd(c, lend) == Code(c.env, FALSE, c.code \o <<<<"LABEL", lend>>, <<"END">>>>)

RECURSIVE CompileFunDefs(_, _)
RECURSIVE CompileFunDef(_, _)

CompileFunDefs(acc, env) ==
  LET next(fun) == CompileFunDefs(acc \o fun.code, fun.env)
  IN IF env.ctx[1].fds = <<>> THEN Code(env, FALSE, acc)
     ELSE next(CompileFunDef([env EXCEPT !.ctx[1].fds = Tail(@)], Head(env.ctx[1].fds)))

\* The functions in it are compiled before BEGIN is written: they may add to
\* what it captures.
CompileFunDef(env, fd) ==
  LET args(c)   == FoldLeft(AddArg, c, fd.args)
      body(c)   == AddEnd(CompileExpr(TRUE, Label(c, 1), Labels(c, 1), fd.body), Label(c, 1))
      begin(c)  == <<<<"LABEL", FunLabel(fd.name)>>,
                     <<"BEGIN", fd.name, c.scope.args, c.scope.nlocals, Reverse(c.scope.closure)>>>>
      whole(c, funs) == Code(CloseFunScope(RegisterClosure(funs.env, fd.name)), FALSE,
                             <<begin(funs.env) \o c.code>> \o funs.code)
      inner(c)  == whole(c, CompileFunDefs(<<>>, c.env))
  IN inner(body(args(OpenFunScope(Labels(env, 2), fd))))

(***************************************************************************)
(* funinfo: which variables a call has to pass on.  A caller that is not   *)
(* the parent of the function it calls must itself hold what the function  *)
(* captures, and so must every function on the path between them.          *)
(***************************************************************************)
\* find_path, or NoPath when c is not inside fp.
NoPath == <<"none">>

RECURSIVE FindPath(_, _, _)
FindPath(tree, fp, c) ==
  IF c = fp THEN <<>>
  ELSE IF c \notin DOMAIN tree THEN NoPath
  ELSE LET up == FindPath(tree, fp, tree[c]) IN IF up = NoPath THEN NoPath ELSE Append(up, c)

IndexOf(seq, x) == SelectInSeq(seq, LAMBDA y : y = x)

\* One function of the path: what it does not capture yet is added to its
\* closure, one place for each address.
PropagateInto(closures, closure, f) ==
  LET missing == SelectSeq([k \in DOMAIN closure |-> k],
                           LAMBDA k : IndexOf(closures[f], closure[k]) = 0)
  IN [closures |-> (f :> closures[f] \o [k \in DOMAIN missing |-> closure[missing[k]]]) @@ closures,
      closure  |-> [k \in DOMAIN closure |->
        Access(IF IndexOf(closures[f], closure[k]) /= 0
                 THEN IndexOf(closures[f], closure[k]) - 1
                 ELSE Len(closures[f]) + IndexOf(missing, k) - 1)]]

\* propagate_for_call
PropagateForCall(info, call) ==
  LET f    == call[1]
      path == FindPath(info.tree, info.tree[f], call[2])
      down == FoldLeft(LAMBDA acc, g : PropagateInto(acc.closures, acc.closure, g),
                       [closures |-> info.closures, closure |-> info.closures[f]], path)
  IN IF f \notin DOMAIN info.tree \/ path = NoPath \/ f \notin DOMAIN info.closures
       THEN [info EXCEPT !.changed = FALSE]
       ELSE [info EXCEPT !.closures = down.closures,
                         !.calls = (call :> down.closure) @@ @,
                         !.changed = down.closures /= info.closures]

\* The first call of those left that changes anything, the rest skipped.
PropagateRound(info) ==
  FoldSet(LAMBDA call, acc : IF acc.changed THEN acc ELSE PropagateForCall(acc, call),
          [info EXCEPT !.changed = FALSE], DOMAIN info.calls)

\* propagate_closures: rounds until no call changes anything.
RECURSIVE PropagateClosures(_)
PropagateClosures(info) ==
  LET round == PropagateRound(info) IN IF round.changed THEN PropagateClosures(round) ELSE round

(***************************************************************************)
(* fix_closures: calls become direct calls or calls of closures.  A PPROTO *)
(* and the PCALLC after the arguments enclose one another like brackets.   *)
(***************************************************************************)
Held(info, f, c) == IF <<f, c>> \in DOMAIN info.calls THEN info.calls[<<f, c>>] ELSE <<>>

\* The PPROTO of the PCALLC at k.
Prepared(code, k) ==
  LET Number(op, m) == Cardinality({n \in m .. k - 1 : code[n][1] = op})
  IN CHOOSE m \in 1 .. k - 1 : /\ code[m][1] = "PPROTO"
                               /\ Number("PPROTO", m) = Number("PCALLC", m) + 1
                               /\ \A n \in m + 1 .. k - 1 : Number("PPROTO", n) <= Number("PCALLC", n)

Dropped == <<"dropped">>

FixClosure(info, code, k) ==
  LET insn == code[k]
      dgs(at) == Held(info, at[2], at[3])
      call(at) == IF dgs(at) = <<>> THEN <<"CALL", at[2], insn[2], insn[3]>>
                  ELSE <<"CALLC", insn[2], insn[3]>>
  IN CASE insn[1] = "BEGIN" /\ insn[2] \in DOMAIN info.closures ->
             [insn EXCEPT ![5] = info.closures[insn[2]]]
       [] insn[1] = "PROTO"  -> <<"CLOSURE", insn[2], dgs(insn)>>
       [] insn[1] = "PPROTO" -> IF dgs(insn) = <<>> THEN Dropped ELSE <<"CLOSURE", insn[2], dgs(insn)>>
       [] insn[1] = "PCALLC" -> call(code[Prepared(code, k)])
       [] OTHER -> insn

FixClosures(info, code) ==
  SelectSeq([k \in DOMAIN code |-> FixClosure(info, code, k)], LAMBDA insn : insn /= Dropped)

\* compile: the code of the whole program, main first.
Compile(program) ==
  LET lend     == Label(InitEnv, 1)
      main(c)  == CompileFunDefs(<<<<<<"LABEL", FunLabel(Main)>>,
                                     <<"BEGIN", Main, 2, c.env.scope.nlocals, <<>>>>>>
                                     \o AddCode(c, lend, FALSE, <<<<"END">>>>).code>>, c.env)
      table(e) == [tree |-> e.tree, closures |-> e.closures, calls |-> e.calls, changed |-> FALSE]
      fix(info, funs) == FlattenSeq([k \in DOMAIN funs |-> FixClosures(info, funs[k])])
      done(c)  == fix(PropagateClosures(table(c.env)), c.code)
  IN done(main(CompileExpr(FALSE, lend, Labels(InitEnv, 1), program)))
=============================================================================
