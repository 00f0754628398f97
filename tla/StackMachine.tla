---------------------------- MODULE StackMachine ----------------------------
(***************************************************************************)
(* The interpreter of the stack machine (eval and run of src/src/SM.ml),   *)
(* running what the compiler makes of a program.                           *)
(*                                                                         *)
(* The source recurses over the rest of the program; here pc stands for    *)
(* it.  An exception of the interpreter (an operand of the wrong kind, an  *)
(* index out of range, FAIL) is the status "failed".  A built-in function  *)
(* is never a value here, as its name compiles to a CLOSURE of it; so the  *)
(* case of CALLC for one is left out, and so are LDA, STI, SWAP and RET,   *)
(* which the compiler does not make.                                       *)
(***************************************************************************)
EXTENDS SMCompile

CONSTANTS
  Programs,    \* the programs to compile and run
  Inputs,      \* the inputs to run them on
  MaxSteps     \* bound of the model on the length of a run

ASSUME BoundAssumption == MaxSteps \in Nat

VARIABLES
  source,   \* the program
  input,    \* and its input, as given
  prg,      \* its code
  pc,       \* the next instruction
  cstack,   \* where to return to, with the locals there
  stack,    \* operands, the top last
  glob,     \* global variables
  loc,      \* args, locals, and the object that holds captured variables
  heap,     \* objects
  i,        \* input left
  o,        \* output
  status,   \* "running", "halted" or "failed"
  base,     \* history: the height of stack when the function was called
  steps,    \* history: the length of the run
  heights   \* history: what the native compiler takes the height of stack for

vars == <<source, input, prg, pc, cstack, stack, glob, loc, heap, i, o, status, base, steps, heights>>

Insn == prg[pc]

\* Labels are looked up by name; a later one of the same name wins.
Labeled(l) == SelectLastInSeq(prg, LAMBDA insn : insn[1] \in {"LABEL", "FLABEL"} /\ insn[2] = l)
IsLabel(l) == Labeled(l) /= 0

Peek(k)  == stack[Len(stack) - k + 1]
Below(n) == SubSeq(stack, 1, Len(stack) - n)
Taken(n) == SubSeq(stack, Len(stack) - n + 1, Len(stack))

Captured == IF loc.closure = 0 THEN <<>> ELSE heap[loc.closure][3]

\* Whether a designation can be read, and what it holds.
Readable(d) ==
  CASE d[1] = "Global" -> d[2] \in DOMAIN glob
    [] d[1] = "Local"  -> d[2] < Len(loc.locals)
    [] d[1] = "Arg"    -> d[2] < Len(loc.args)
    [] d[1] = "Access" -> d[2] < Len(Captured)

Content(d) ==
  CASE d[1] = "Global" -> glob[d[2]]
    [] d[1] = "Local"  -> loc.locals[d[2] + 1]
    [] d[1] = "Arg"    -> loc.args[d[2] + 1]
    [] d[1] = "Access" -> Captured[d[2] + 1]

\* update
Write(d, v) ==
  /\ glob' = IF d[1] = "Global" THEN (d[2] :> v) @@ glob ELSE glob
  /\ loc'  = CASE d[1] = "Local" -> [loc EXCEPT !.locals[d[2] + 1] = v]
               [] d[1] = "Arg"   -> [loc EXCEPT !.args[d[2] + 1] = v]
               [] OTHER          -> loc
  /\ heap' = IF d[1] = "Access" THEN [heap EXCEPT ![loc.closure][3][d[2] + 1] = v] ELSE heap

\* The operands an instruction takes off the stack.
Operands(insn) ==
  CASE insn[1] \in {"BINOP", "ELEM"} -> 2
    [] insn[1] \in {"ST", "CJMP", "DROP", "DUP", "TAG", "ARRAY", "FAIL", "END"} -> 1
    [] insn[1] = "PATT"  -> IF insn[2] = "strcmp" THEN 2 ELSE 1
    [] insn[1] = "STA"   -> 3
    [] insn[1] = "SEXP"  -> insn[3]
    [] insn[1] = "CALL"  -> insn[3]
    [] insn[1] = "CALLC" -> insn[2] + 1
    [] OTHER -> 0

\* The values it leaves there.
Results(insn) ==
  IF insn[1] \in {"CJMP", "DROP", "LABEL", "FLABEL", "JMP", "BEGIN", "END"} THEN 0
  ELSE IF insn[1] = "DUP" THEN 2
  ELSE IF insn[1] = "FAIL" /\ ~insn[2] THEN 0 ELSE 1

(***************************************************************************)
(* What compile of src/src/X86_64.ml takes the height of the stack for, at *)
(* each instruction.  It reads the code once from top to bottom; a jump    *)
(* sets the height at its label and, if control never falls through it, a  *)
(* barrier, up to the next label that was jumped to (or an FLABEL).  Code  *)
(* behind a barrier is not generated: -1.                                  *)
(***************************************************************************)
NoHeight == -1

\* One instruction, read where the height is at.h and, if at.barrier, control
\* never falls through; at.labels are the heights at labels jumped to.
ReadInsn(at, insn) ==
  LET live  == IF ~at.barrier \/ insn[1] = "FLABEL" THEN at.h
               ELSE IF insn[1] = "LABEL" /\ insn[2] \in DOMAIN at.labels THEN at.labels[insn[2]]
               ELSE NoHeight
      after == live - Operands(insn) + Results(insn)
  IN IF live = NoHeight THEN [at EXCEPT !.h = IF insn[1] = "LABEL" THEN 0 ELSE @,
                                         !.heights = Append(@, NoHeight)]
     ELSE [h |-> after, barrier |-> insn[1] = "JMP", heights |-> Append(at.heights, live),
           labels |-> IF insn[1] = "JMP"  THEN (insn[2] :> after) @@ at.labels ELSE
                      IF insn[1] = "CJMP" THEN (insn[3] :> after) @@ at.labels ELSE at.labels]

\* The next n instructions of the code, in halves, up to its end.
RECURSIVE ReadCode(_, _, _)
ReadCode(at, code, n) ==
  IF Len(at.heights) = Len(code) THEN at
  ELSE IF n = 1 THEN ReadInsn(at, code[Len(at.heights) + 1])
  ELSE ReadCode(ReadCode(at, code, n \div 2), code, n - n \div 2)

SymbolicHeights(code) ==
  ReadCode([h |-> 0, barrier |-> FALSE, heights |-> <<>>, labels |-> <<>>], code, Len(code)).heights

Init ==
  /\ source \in Programs
  /\ prg = Compile(source)
  /\ heights = SymbolicHeights(prg)
  /\ input \in Inputs
  /\ pc = 1
  /\ cstack = <<>>
  /\ stack = <<>>
  /\ glob = [f \in Builtins |-> Builtin(f)]
  /\ loc = [args |-> <<>>, locals |-> <<>>, closure |-> 0]
  /\ heap = <<>>
  /\ i = input
  /\ o = <<>>
  /\ status = "running"
  /\ base = 0
  /\ steps = 0

Running == status = "running"

\* What the interpreter raises an exception on, the operands being there.
Refused(insn) ==
  \/ insn[1] = "BINOP" /\ insn[2] = "==" /\ ~IsInt(Peek(1)) /\ ~IsInt(Peek(2))
  \/ insn[1] = "BINOP" /\ insn[2] /= "==" /\ ~(IsInt(Peek(1)) /\ IsInt(Peek(2)))
  \/ insn[1] = "LD" /\ ~Readable(insn[2])
  \/ insn[1] = "ST" /\ insn[2][1] /= "Global" /\ ~Readable(insn[2])
  \/ insn[1] = "STA" /\ ~HasElement(Peek(3), Peek(2), heap)
  \/ insn[1] = "ELEM" /\ ~HasElement(Peek(2), Peek(1), heap)
  \/ insn[1] = "CJMP" /\ ~IsInt(Peek(1))
  \/ insn[1] = "CLOSURE" /\ \E d \in Range(insn[3]) : ~Readable(d)
  \/ insn[1] = "CALLC" /\ KindOf(Peek(insn[2] + 1), heap) /= "Closure"
  \/ insn[1] = "CALLC" /\ KindOf(Peek(insn[2] + 1), heap) = "Closure"
       /\ ~IsLabel(FunLabel(heap[Peek(insn[2] + 1)[2]][2]))
  \/ insn[1] = "FAIL"

Faulty(insn) == Len(stack) >= Operands(insn) => Refused(insn)

Ready(ops) == Running /\ steps < MaxSteps /\ pc <= Len(prg) /\ Insn[1] \in ops /\ ~Faulty(Insn)

\* Every action but a call and a return of a function stays in it.
Same == UNCHANGED <<source, input, prg, heights, cstack, base>>
Step == steps' = steps + 1 /\ UNCHANGED status
Advance == pc' = pc + 1

\* An instruction that only takes n operands off and leaves one value.
Leaves(n, v) == /\ stack' = Append(Below(n), v)
                /\ Advance /\ Step /\ Same
                /\ UNCHANGED <<glob, loc, i, o>>

JumpTo(l) == pc' = Labeled(l) + 1

BINOP == /\ Ready({"BINOP"})
         /\ Leaves(2, IF IsInt(Peek(1)) /\ IsInt(Peek(2))
                        THEN Num(ToFunc(Insn[2], Peek(2)[2], Peek(1)[2])) ELSE Num(0))
         /\ UNCHANGED heap

CONST == Ready({"CONST"}) /\ Leaves(0, Num(Insn[2])) /\ UNCHANGED heap

LD == Ready({"LD"}) /\ Leaves(0, Content(Insn[2])) /\ UNCHANGED heap

ELEM == Ready({"ELEM"}) /\ Leaves(2, ElementOf(Peek(2), Peek(1), heap)) /\ UNCHANGED heap

\* STRING, SEXP and CLOSURE make an object; a closure copies what it captures.
Object == CASE Insn[1] = "STRING"  -> <<"String", Insn[2]>>
            [] Insn[1] = "SEXP"    -> <<"Sexp", Insn[2], Taken(Insn[3])>>
            [] Insn[1] = "CLOSURE" -> <<"Closure", Insn[2], [k \in DOMAIN Insn[3] |-> Content(Insn[3][k])]>>

Create == /\ Ready({"STRING", "SEXP", "CLOSURE"})
          /\ heap' = Append(heap, Object)
          /\ Leaves(Operands(Insn), At(Len(heap) + 1))

ST == /\ Ready({"ST"})
      /\ Write(Insn[2], Peek(1))
      /\ Advance /\ Step /\ Same
      /\ UNCHANGED <<stack, i, o>>

STA == /\ Ready({"STA"})
       /\ heap' = WithElement(Peek(3), Peek(2), Peek(1), heap)
       /\ Leaves(3, Peek(1))

LABEL == /\ Ready({"LABEL", "FLABEL"})
         /\ Advance /\ Step /\ Same
         /\ UNCHANGED <<stack, glob, loc, heap, i, o>>

JMP == /\ Ready({"JMP"})
       /\ JumpTo(Insn[2])
       /\ Step /\ Same
       /\ UNCHANGED <<stack, glob, loc, heap, i, o>>

\* Mutant: the conditions are mixed up.
CJMPInverted == /\ Ready({"CJMP"})
                /\ IF (Insn[2] = "nz") = (Peek(1)[2] = 0) THEN JumpTo(Insn[3]) ELSE Advance
                /\ stack' = Below(1)
                /\ Step /\ Same
                /\ UNCHANGED <<glob, loc, heap, i, o>>

CJMP == /\ Ready({"CJMP"})
        /\ IF (Insn[2] = "z") = (Peek(1)[2] = 0) THEN JumpTo(Insn[3]) ELSE Advance
        /\ stack' = Below(1)
        /\ Step /\ Same
        /\ UNCHANGED <<glob, loc, heap, i, o>>

DROP == /\ Ready({"DROP"})
        /\ stack' = Below(1)
        /\ Advance /\ Step /\ Same
        /\ UNCHANGED <<glob, loc, heap, i, o>>

DUP == Ready({"DUP"}) /\ Leaves(0, Peek(1)) /\ UNCHANGED heap

\* TAG, ARRAY and PATT test the value on top.  Whatever is not an integer is
\* boxed.
TestOf(insn, v) ==
  LET kind == KindOf(v, heap)
  IN CASE insn[1] = "TAG"   -> kind = "Sexp" /\ heap[v[2]][2] = insn[2] /\ Len(heap[v[2]][3]) = insn[3]
       [] insn[1] = "ARRAY" -> kind = "Array" /\ Len(heap[v[2]][2]) = insn[2]
       [] insn[2] = "val"   -> kind = "Int"
       [] insn[2] = "box"   -> kind /= "Int"
       [] insn[2] = "str"   -> kind = "String"
       [] insn[2] = "array" -> kind = "Array"
       [] insn[2] = "sexp"  -> kind = "Sexp"
       [] insn[2] = "fun"   -> kind = "Closure"
       [] insn[2] = "strcmp" -> /\ kind = "String" /\ KindOf(Peek(2), heap) = "String"
                                /\ heap[v[2]][2] = heap[Peek(2)[2]][2]

PATT == /\ Ready({"TAG", "ARRAY", "PATT"})
        /\ Leaves(Operands(Insn), Num(Truth(TestOf(Insn, Peek(1)))))
        /\ UNCHANGED heap

\* A function of the program: what is on the stack below its arguments stays.
Enter(f, args, closure, rest) ==
  /\ cstack' = <<[pc |-> pc + 1, loc |-> loc, base |-> base]>> \o cstack
  /\ loc' = [args |-> args, locals |-> <<>>, closure |-> closure]
  /\ pc' = Labeled(FunLabel(f)) + 1
  /\ stack' = rest
  /\ base' = Len(rest)
  /\ Step
  /\ UNCHANGED <<source, input, prg, heights, glob, heap, i, o>>

\* A built-in function of Language.ml; it may raise an exception.
RunBuiltin(f, args, rest) ==
  LET done == EvalBuiltin(f, args, [Start(i) EXCEPT !.heap = heap, !.o = o])
  IN /\ IF done.failed
          THEN /\ status' = "failed"
               /\ UNCHANGED <<stack, heap, i, o>>
          ELSE /\ stack' = Append(rest, done.vs[1])
               /\ heap' = done.heap /\ i' = done.i /\ o' = done.o
               /\ UNCHANGED status
     /\ steps' = steps + 1
     /\ Advance /\ Same
     /\ UNCHANGED <<glob, loc>>

CALL == /\ Ready({"CALL"})
        /\ IsLabel(FunLabel(Insn[2]))
        /\ Enter(Insn[2], Taken(Insn[3]), 0, Below(Insn[3]))

CALLBuiltin == /\ Ready({"CALL"})
               /\ ~IsLabel(FunLabel(Insn[2]))
               /\ RunBuiltin(Insn[2][1], Taken(Insn[3]), Below(Insn[3]))

CALLC == /\ Ready({"CALLC"})
         /\ LET n == Insn[2]
                f == Peek(n + 1)
            IN /\ KindOf(f, heap) = "Closure"
               /\ Enter(heap[f[2]][2], Taken(n), f[2], Below(n + 1))

BEGIN == /\ Ready({"BEGIN"})
         /\ loc' = [loc EXCEPT !.locals = [k \in 1 .. Insn[4] |-> Empty]]
         /\ Advance /\ Step /\ Same
         /\ UNCHANGED <<stack, glob, heap, i, o>>

\* The end of a function; of main, the end of the run.
END == /\ Ready({"END"})
       /\ cstack /= <<>>
       /\ pc' = Head(cstack).pc
       /\ loc' = Head(cstack).loc
       /\ base' = Head(cstack).base
       /\ cstack' = Tail(cstack)
       /\ Step
       /\ UNCHANGED <<source, input, prg, heights, stack, glob, heap, i, o>>

Halt == /\ Ready({"END"})
        /\ cstack = <<>>
        /\ status' = "halted"
        /\ UNCHANGED <<source, input, prg, pc, cstack, stack, glob, loc, heap, i, o, base, steps, heights>>

Raise == /\ Running
         /\ pc <= Len(prg)
         /\ Faulty(Insn)
         /\ status' = "failed"
         /\ UNCHANGED <<source, input, prg, pc, cstack, stack, glob, loc, heap, i, o, base, steps, heights>>

Next == \/ BINOP \/ CONST \/ LD \/ ELEM \/ Create \/ ST \/ STA
        \/ LABEL \/ JMP \/ CJMP \/ DROP \/ DUP \/ PATT
        \/ CALL \/ CALLBuiltin \/ CALLC \/ BEGIN \/ END \/ Halt \/ Raise

Spec == Init /\ [][Next]_vars

\* The interpreter is a sequential program: it takes its next step.
FairSpec == Spec /\ WF_vars(Next)

(***************************************************************************)
(* Properties.                                                             *)
(***************************************************************************)
\* Every position is one of the code, and every reference one of the heap.
TypeOK ==
  /\ pc \in 1 .. Len(prg)
  /\ \A k \in DOMAIN cstack : cstack[k].pc \in 1 .. Len(prg)
  /\ \A k \in DOMAIN stack : IsRef(stack[k]) => stack[k][2] \in DOMAIN heap
  /\ base \in 0 .. Len(stack)
  /\ status \in {"running", "halted", "failed"}
  /\ steps \in 0 .. MaxSteps

\* compile "returns an equivalent program for the stack machine": what the
\* reference interpreter runs without an exception, the stack machine runs
\* without one, to the same output.
Equivalent ==
  ~Running =>
    LET reference == Interpreted(source, input)
    IN ~reference.failed => status = "halted" /\ o = reference.o

\* An instruction takes only operands that its own function has put on the
\* stack, and a function returns with exactly one value on it: the callers,
\* whose operands are below, rely on both, and eval checks neither.
FramesAreKept ==
  Running =>
    /\ Len(stack) - base >= Operands(Insn)
    /\ (Insn[1] = "END") => Len(stack) - base = 1

\* The native compiler gives each operand a place by the height it takes the
\* stack to have.  That is the height the stack has there, however control got
\* there, and what it leaves out as unreachable is never reached
\* (X86_64.ml 664-676 follows only the order of the text).
HeightsAreSymbolic == Running => heights[pc] = Len(stack) - base

\* A function starts with as many captured variables as its code was compiled
\* for, whichever of the calls and closures of the program got there
\* (funinfo makes them agree only when the whole program has been read).
ClosuresFit ==
  Running /\ Insn[1] = "BEGIN" =>
    /\ Len(Captured) = Len(Insn[5])
    /\ (cstack /= <<>>) => Len(loc.args) = Insn[3]

\* What every path finds on the stack is what the compiler took it to be.
StackIsAsCompiled == TypeOK /\ FramesAreKept /\ HeightsAreSymbolic /\ ClosuresFit

\* From k on there are only labels and jumps up to the end of the function.
RECURSIVE EndsAt(_)
EndsAt(k) ==
  CASE prg[k][1] = "END" -> TRUE
    [] prg[k][1] \in {"LABEL", "FLABEL"} -> EndsAt(k + 1)
    [] prg[k][1] = "JMP" -> EndsAt(Labeled(prg[k][2]))
    [] OTHER -> FALSE

\* A call marked as a tail call has nothing left to do after it, and its
\* operands are all the function has on the stack: the native compiler gives
\* the frame up before such a call (compile_tail_call of X86_64.ml).
TailCallsAreLast ==
  Running /\ (\/ Insn[1] = "CALL" /\ Insn[4]
              \/ Insn[1] = "CALLC" /\ Insn[3]) =>
    /\ Len(stack) - base = Operands(Insn)
    /\ EndsAt(pc + 1)

\* What the reference interpreter runs to its end, the stack machine does too.
Terminates == <>(~Running)
=============================================================================
