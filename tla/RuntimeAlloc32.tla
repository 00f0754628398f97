--------------------------- MODULE RuntimeAlloc32 ---------------------------
(***************************************************************************)
(* The allocating functions of src/runtime32/runtime.c, which take their   *)
(* arguments as C does: a call from compiled code leaves them in words of  *)
(* the Lama stack, a call from another function copies them to words of    *)
(* that function's frame.  A function ends its part of the scanned stack   *)
(* (src/runtime32/gc_runtime.s) by comparing its frame with                *)
(* __gc_stack_top, not by remembering whether it set it.                   *)
(***************************************************************************)
EXTENDS RuntimeProtocol

LmakeArray == <<Pre, Alloc, Use({Result}), Post>>

LmakeString == <<Pre, Alloc, Post>>

\* Mutant: the parameter is not registered around the allocation.
BstringUnregistered ==
  <<Use({Arg(1)}), Pre, Call("LmakeString", <<>>, Result), Use({Arg(1), Result}), Post>>

Bstring ==
  <<Use({Arg(1)}), Pre, Push(Arg(1)), Call("LmakeString", <<>>, Result),
    Pop(Arg(1)), Use({Arg(1), Result}), Post>>

\* Lstringcat: the text is gathered before the parameter is registered.
Lstringcat ==
  <<Pre, Set("c_pointer", Local(1)), Use({Arg(1)}), Push(Arg(1)),
    Call("Bstring", <<Local(1)>>, Result), Pop(Arg(1)), Post>>

Lstring ==
  <<Pre, Set("unboxed", Result), Set("c_pointer", Local(1)), Use({Arg(1)}), Push(Arg(1)),
    Call("Bstring", <<Local(1)>>, Result), Pop(Arg(1)), Post>>

Lsubstring ==
  <<Use({Arg(1)}), Pre, Push(Arg(1)), Alloc, Pop(Arg(1)), Use({Arg(1), Result}), Post>>

LcloneString ==
  <<Pre, Use({Arg(1)}), Push(Arg(1)), Copy(Arg(1), Local(1)),
    Call("Bstring", <<Local(1)>>, Result), Pop(Arg(1)), Post>>

LcloneBlock ==
  <<Pre, Use({Arg(1)}), Push(Arg(1)), Alloc, Use({Arg(1), Result}), Pop(Arg(1)), Post>>

\* ebp + 12 counts integers: the words registered, one for each captured value,
\* lie beyond the arguments.  The captured values are visited all the same, as
\* words of the Lama stack.
Bclosure(n) ==
  LET captured == n - 1
      pushes   == [i \in 1 .. captured |-> Push(Older(i))]
      pops     == [i \in 1 .. captured |-> Pop(Older(captured - i + 1))]
  IN  <<Pre>> \o pushes
        \o <<Alloc, Use(ArgSet(1, n) \union {Result}), Post>>
        \o pops

\* Neither registers its arguments, which it reads after the allocation.
Barray(n) == <<Pre, Alloc, Use(ArgSet(1, n) \union {Result}), Post>>

Bsexp(n) == <<Pre, Alloc, Use(ArgSet(1, n) \union {Result}), Post>>

\* The operands are registered where compiled code left them; Bsexp reads the
\* copies made for its own call.
Ls__Infix_58 ==
  <<Pre, Push(Arg(1)), Push(Arg(2)),
    Copy(Arg(1), Local(1)), Copy(Arg(2), Local(2)), Set("unboxed", Local(3)),
    Call("Bsexp", <<Local(1), Local(2), Local(3)>>, Result),
    Pop(Arg(2)), Pop(Arg(1)), Post>>

Li__Infix_4343 ==
  <<Use({Arg(1), Arg(2)}), Pre, Push(Arg(1)), Push(Arg(2)), Alloc,
    Pop(Arg(2)), Pop(Arg(1)), Use({Arg(1), Arg(2), Result}), Post>>

Lsprintf ==
  <<Use({Arg(1)}), Set("c_pointer", Local(1)), Pre, Push(Arg(1)),
    Call("Bstring", <<Local(1)>>, Result), Pop(Arg(1)), Post>>

LgetEnv ==
  <<Use({Arg(1)}), Set("c_pointer", Local(1)), Pre,
    Call("Bstring", <<Local(1)>>, Result), Post>>

\* Neither function has a __pre_gc of its own.
LreadLine == <<Set("c_pointer", Local(1)), Call("Bstring", <<Local(1)>>, Result)>>

Lfread ==
  <<Use({Arg(1)}), Set("c_pointer", Local(1)), Call("LmakeString", <<>>, Result),
    Use({Result, Arg(1)})>>

\* The loop over argv.
SetArgsLoop(n) ==
  [i \in 1 .. 3 * n |-> CASE i % 3 = 1 -> Copy(Arg((i + 2) \div 3), Local(2))
                          [] i % 3 = 2 -> Call("Bstring", <<Local(2)>>, Result)
                          [] i % 3 = 0 -> Use({Local(1), Result})]

SetArgs(n) ==
  <<Pre, Call("LmakeArray", <<>>, Local(1)), Push(Local(1))>>
    \o SetArgsLoop(n)
    \o <<Pop(Local(1)), Post, Copy(Local(1), Sysargs), Push(Sysargs)>>

Body32(f, n) ==
  CASE f = "LmakeString"    -> LmakeString
    [] f = "LmakeArray"     -> LmakeArray
    [] f = "Bstring"        -> Bstring
    [] f = "Lstringcat"     -> Lstringcat
    [] f = "Lstring"        -> Lstring
    [] f = "Lsubstring"     -> Lsubstring
    [] f = "LcloneString"   -> LcloneString
    [] f = "LcloneBlock"    -> LcloneBlock
    [] f = "Bclosure"       -> Bclosure(n)
    [] f = "Barray"         -> Barray(n)
    [] f = "Bsexp"          -> Bsexp(n)
    [] f = "Ls__Infix_58"   -> Ls__Infix_58
    [] f = "Li__Infix_4343" -> Li__Infix_4343
    [] f = "Lsprintf"       -> Lsprintf
    [] f = "LgetEnv"        -> LgetEnv
    [] f = "LreadLine"      -> LreadLine
    [] f = "Lfread"         -> Lfread
    [] f = "set_args"       -> SetArgs(n)

Literals == {"Bclosure", "Barray", "Bsexp"}

Lengths32(f) ==
  CASE f \in Literals                                   -> 1 .. NArgs
    [] f \in {"Ls__Infix_58", "Li__Infix_4343"}         -> {2}
    [] f \in {"LmakeString", "LmakeArray", "LreadLine"} -> {0}
    [] OTHER                                            -> {1}

Passed32(f, n, i) ==
  CASE f = "Bclosure" /\ i = 1                                           -> {"c_pointer"}
    [] f = "Bsexp" /\ i = n                                              -> {"unboxed"}
    [] f \in Literals \union {"Ls__Infix_58", "Lstring", "Lstringcat"}   -> LamaValues
    [] f = "Bstring"                                                     -> {"c_pointer"}
    [] OTHER                                                             -> {"current"}

\* What compiled code calls; set_args is called by main.
Called == {"LmakeString", "LmakeArray", "Bstring", "Lstringcat", "Lstring", "Lsubstring",
           "LcloneString", "LcloneBlock", "Bclosure", "Barray", "Bsexp", "Ls__Infix_58",
           "Li__Infix_4343", "Lsprintf", "LgetEnv", "LreadLine", "Lfread"}

\* The functions are those of this runtime (see RuntimeProtocol).
ASSUME FunctionsAssumption ==
  /\ Functions \subseteq Called
  /\ \A f \in Called \union {"set_args"}, n \in 0 .. NArgs : Body(f, n) = Body32(f, n)
  /\ \A f \in Called : /\ Lengths(f) = Lengths32(f)
                       /\ \A n \in Lengths(f) : \A i \in 1 .. n : Passed(f, n, i) = Passed32(f, n, i)

-----------------------------------------------------------------------------
__pre_gc == /\ AtStep("pre")
            /\ Advance
            /\ top' = IF top = 0 THEN depth ELSE top
            /\ UNCHANGED <<mem, pool, exited>>

\* Mutant: __gc_stack_top is cleared by whoever ends first.
PostGCClears == /\ AtStep("post")
                /\ Advance
                /\ top' = 0
                /\ UNCHANGED <<mem, pool, exited>>

__post_gc == /\ AtStep("post")
             /\ Advance
             /\ top' = IF top = depth THEN 0 ELSE top
             /\ UNCHANGED <<mem, pool, exited>>

push_extra_root == /\ AtStep("push")
                   /\ IF Len(pool) >= MaxRoots
                        THEN exited' = TRUE /\ UNCHANGED <<frames, pool>>
                        ELSE pool' = Append(pool, The(Step.cell)) /\ Advance /\ UNCHANGED exited
                   /\ UNCHANGED <<mem, top>>

\* Mutant: the entry stays in the pool.
PopKeeps == /\ AtStep("pop")
            /\ pool /= <<>> /\ Last(pool) = The(Step.cell)
            /\ Advance
            /\ UNCHANGED <<mem, top, pool, exited>>

\* The function ends the process unless the word is the last registered:
\* ChecksPass says that this never happens.
pop_extra_root == /\ AtStep("pop")
                  /\ pool /= <<>> /\ Last(pool) = The(Step.cell)
                  /\ pool' = Front(pool)
                  /\ Advance
                  /\ UNCHANGED <<mem, top, exited>>

Next == \/ Start \/ CallRuntime
        \/ __pre_gc \/ __post_gc \/ push_extra_root \/ pop_extra_root
        \/ AllocFits \/ AllocCollects
        \/ UseWords \/ CopyWord \/ SetWord
        \/ CallInner \/ Return

Spec == Init /\ [][Next]_vars

-----------------------------------------------------------------------------
\* No function uses a pointer into the heap that a collection has left, but
\* one: called as a function, the operator ":" passes Bsexp copies of its
\* operands that the collector does not visit, and the cell is built from them.
OnlyConsUsesStale == UsesAreCurrent \/ frames[1].fn = "Ls__Infix_58"
=============================================================================
