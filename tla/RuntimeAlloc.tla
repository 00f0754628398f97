---------------------------- MODULE RuntimeAlloc ----------------------------
(***************************************************************************)
(* The allocating functions of src/runtime/runtime.c, which read their     *)
(* arguments where compiled code left them, in words of the Lama stack.    *)
(***************************************************************************)
EXTENDS RuntimeProtocol

(***************************************************************************)
(* The functions.                                                          *)
(***************************************************************************)
LmakeString == <<Pre, Alloc, Post>>

LmakeArray == <<Pre, Alloc, Use({Result}), Post>>

\* Mutant: the word is not registered around the allocation.
BstringUnregistered ==
  <<Use({Arg(1)}), Pre, Call("LmakeString", <<>>, Result),
    Use({Arg(1), Result}), Post>>

Bstring ==
  <<Use({Arg(1)}), Pre, Push(Arg(1)), Call("LmakeString", <<>>, Result),
    Pop(Arg(1)), Use({Arg(1), Result}), Post>>

Lsubstring ==
  <<Use({Arg(1)}), Pre, Push(Arg(1)), Alloc, Pop(Arg(1)),
    Use({Arg(1), Result}), Post>>

\* The copy of a string goes through Bstring, from a local copy of the pointer.
LcloneString ==
  <<Pre, Use({Arg(1)}), Push(Arg(1)), Copy(Arg(1), Local(1)),
    Call("Bstring", <<Local(1)>>, Result), Pop(Arg(1)), Post>>

\* An array, a closure or an S-expression is copied with memcpy.
LcloneBlock ==
  <<Pre, Use({Arg(1)}), Push(Arg(1)), Alloc, Use({Arg(1), Result}),
    Pop(Arg(1)), Post>>

\* Lstring and Lstringcat: the text is gathered in the string buffer first.
Lstring ==
  <<Pre, Use({Arg(1)}), Push(Arg(1)), Set("c_pointer", Local(1)),
    Call("Bstring", <<Local(1)>>, Result), Pop(Arg(1)), Post>>

\* args[0] is the code address, the captured values follow.
Bclosure(n) ==
  <<Pre>> \o PushArgs(2, n)
          \o <<Alloc, Use(ArgSet(2, n) \union {Result})>>
          \o PopArgs(2, n) \o <<Post>>

Barray(n) ==
  <<Pre>> \o PushArgs(1, n)
          \o <<Alloc, Use(ArgSet(1, n) \union {Result})>>
          \o PopArgs(1, n) \o <<Post>>

\* The last argument is the tag's hash, an integer.
Bsexp(n) ==
  <<Pre>> \o PushArgs(1, n - 1)
          \o <<Alloc, Use(ArgSet(1, n - 1) \union {Result})>>
          \o PopArgs(1, n - 1) \o <<Post>>

\* The cons operator builds an argument array of its own for Bsexp.
Ls__Infix_58 ==
  <<Pre, Copy(Arg(1), Local(1)), Copy(Arg(2), Local(2)),
    Set("unboxed", Local(3)),
    Call("Bsexp", <<Local(1), Local(2), Local(3)>>, Result), Post>>

Li__Infix_4343 ==
  <<Use({Arg(1), Arg(2)}), Pre, Push(Arg(1)), Push(Arg(2)), Alloc,
    Pop(Arg(2)), Pop(Arg(1)), Use({Arg(1), Arg(2), Result}), Post>>

LgetEnv ==
  <<Set("c_pointer", Local(1)), Pre,
    Call("Bstring", <<Local(1)>>, Result), Post>>

\* fmt is a parameter passed by value: a word of Bsprintf's own frame.
Bsprintf ==
  <<Copy(Arg(1), Local(1)), Use({Local(1)}), Pre, Push(Local(1)),
    Set("c_pointer", Local(2)), Call("Bstring", <<Local(2)>>, Result),
    Pop(Local(1)), Post>>

\* Neither function has a PRE_GC of its own.
LreadLine ==
  <<Set("c_pointer", Local(1)), Call("Bstring", <<Local(1)>>, Result)>>

Lfread ==
  <<Copy(Arg(1), Local(1)), Use({Local(1)}),
    Call("LmakeString", <<>>, Result), Use({Result, Local(1)})>>

\* The loop over argv.
SetArgsLoop(n) ==
  [i \in 1 .. 2 * n |-> IF i % 2 = 1 THEN Call("Bstring", <<Arg((i + 1) \div 2)>>, Result)
                        ELSE Use({Local(1), Result})]

\* Mutant: p is registered before it is assigned.
SetArgsRootFirst(n) ==
  <<Pre, Push(Local(1)), Call("LmakeArray", <<>>, Local(1))>>
    \o SetArgsLoop(n)
    \o <<Pop(Local(1)), Post, Copy(Local(1), Sysargs), Push(Sysargs)>>

\* Called once, by main: p is a local, argv[1 .. n] lies outside the heap.
SetArgs(n) ==
  <<Pre, Call("LmakeArray", <<>>, Local(1)), Push(Local(1))>>
    \o SetArgsLoop(n)
    \o <<Pop(Local(1)), Post, Copy(Local(1), Sysargs), Push(Sysargs)>>

Body64(f, n) ==
  CASE f = "LmakeString"  -> LmakeString
    [] f = "LmakeArray"   -> LmakeArray
    [] f = "Bstring"      -> Bstring
    [] f = "Lsubstring"   -> Lsubstring
    [] f = "LcloneString" -> LcloneString
    [] f = "LcloneBlock"  -> LcloneBlock
    [] f = "Lstring"      -> Lstring
    [] f = "Bclosure"     -> Bclosure(n)
    [] f = "Barray"       -> Barray(n)
    [] f = "Bsexp"        -> Bsexp(n)
    [] f = "Ls__Infix_58"   -> Ls__Infix_58
    [] f = "Li__Infix_4343" -> Li__Infix_4343
    [] f = "LgetEnv"      -> LgetEnv
    [] f = "Bsprintf"     -> Bsprintf
    [] f = "LreadLine"    -> LreadLine
    [] f = "Lfread"       -> Lfread
    [] f = "set_args"     -> SetArgs(n)

\* The argument lists compiled code passes to f: their lengths, and what may
\* stand at each position.  A value of the program is an integer, a pointer to
\* an object, or an address the runtime gave it (a FILE, a compiled regexp).
Literals == {"Bclosure", "Barray", "Bsexp"}

Lengths64(f) ==
  CASE f \in Literals                                  -> 1 .. NArgs
    [] f \in {"Ls__Infix_58", "Li__Infix_4343"}        -> {2}
    [] f \in {"LmakeString", "LmakeArray", "LreadLine"} -> {0}
    [] OTHER                                           -> {1}

Passed64(f, n, i) ==
  CASE f = "Bclosure" /\ i = 1                               -> {"c_pointer"}
    [] f = "Bsexp" /\ i = n                                  -> {"unboxed"}
    [] f \in Literals \union {"Ls__Infix_58", "Lstring"}     -> LamaValues
    [] f = "Bstring"                                         -> {"c_pointer"}
    [] OTHER                                                 -> {"current"}

\* What compiled code calls; set_args is called by main.
Called == {"LmakeString", "LmakeArray", "Bstring", "Lsubstring", "LcloneString",
           "LcloneBlock", "Lstring", "Bclosure", "Barray", "Bsexp", "Ls__Infix_58",
           "Li__Infix_4343", "LgetEnv", "Bsprintf", "LreadLine", "Lfread"}

\* The functions are those of this runtime (see RuntimeProtocol).
ASSUME FunctionsAssumption ==
  /\ Functions \subseteq Called
  /\ \A f \in Called \union {"set_args"}, n \in 0 .. NArgs : Body(f, n) = Body64(f, n)
  /\ \A f \in Called : /\ Lengths(f) = Lengths64(f)
                       /\ \A n \in Lengths(f) : \A i \in 1 .. n : Passed(f, n, i) = Passed64(f, n, i)

-----------------------------------------------------------------------------
\* PRE_GC: the outermost frame becomes the end of the scanned stack.
PreGC == /\ AtStep("pre")
         /\ frames' = [frames EXCEPT ![depth].pc = @ + 1,
                                     ![depth].flag = (top = 0)]
         /\ top' = IF top = 0 THEN depth ELSE top
         /\ UNCHANGED <<mem, pool, exited>>

\* Mutant: every POST_GC clears __gc_stack_top.
PostGCClears == /\ AtStep("post")
                /\ Advance
                /\ top' = 0
                /\ UNCHANGED <<mem, pool, exited>>

\* POST_GC: only the frame that set __gc_stack_top clears it.
PostGC == /\ AtStep("post")
          /\ Advance
          /\ top' = IF Running.flag THEN 0 ELSE top
          /\ UNCHANGED <<mem, pool, exited>>

\* Mutant: the pool is taken to be full one word early.
PushOneLess == /\ AtStep("push")
               /\ IF Len(pool) >= MaxRoots - 1
                    THEN exited' = TRUE /\ UNCHANGED <<frames, pool>>
                    ELSE /\ pool' = Append(pool, The(Step.cell))
                         /\ Advance
                         /\ UNCHANGED exited
               /\ UNCHANGED <<mem, top>>

PushExtraRoot == /\ AtStep("push")
                 /\ IF Len(pool) >= MaxRoots
                      THEN exited' = TRUE /\ UNCHANGED <<frames, pool>>
                      ELSE /\ pool' = Append(pool, The(Step.cell))
                           /\ Advance
                           /\ UNCHANGED exited
                 /\ UNCHANGED <<mem, top>>

\* pop_extra_root ends the process unless the word is the last registered:
\* ChecksPass says that this never happens.
PopExtraRoot == /\ AtStep("pop")
                /\ pool /= <<>> /\ Last(pool) = The(Step.cell)
                /\ pool' = Front(pool)
                /\ Advance
                /\ UNCHANGED <<mem, top, exited>>

Next == \/ Start \/ CallRuntime
        \/ PreGC \/ PostGC \/ PushExtraRoot \/ PopExtraRoot
        \/ AllocFits \/ AllocCollects
        \/ UseWords \/ CopyWord \/ SetWord
        \/ CallInner \/ Return

Spec == Init /\ [][Next]_vars

-----------------------------------------------------------------------------
\* A full pool ends the process only at a literal with at least as many fields
\* as the pool has room for: global_sysargs holds one place for good.
OnlyLongLiteralsExit ==
  exited => \/ frames[1].fn = "Barray" /\ Len(frames[1].args) >= MaxRoots
            \/ frames[1].fn \in {"Bclosure", "Bsexp"} /\ Len(frames[1].args) > MaxRoots
=============================================================================
