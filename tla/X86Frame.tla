------------------------------ MODULE X86Frame ------------------------------
(***************************************************************************)
(* The hardware stack and registers of compiled code (src/src/X86_64.ml):  *)
(* what the prologue, the epilogue and the call sequences do with them.    *)
(* The collector takes every word of this stack for a root and moves every *)
(* object, so at a runtime call each word must be something it may look    *)
(* at, and each value that compiled code still needs must be in the stack. *)
(*                                                                         *)
(* The stack grows with the index, so word i of the model is i words below *)
(* the bottom.  What code computes is left out: it evaluates operands onto *)
(* its symbolic stack, assigns locals, drops, calls and returns in any     *)
(* order that the stack machine program could ask for.                     *)
(***************************************************************************)
EXTENDS Integers, Sequences, FiniteSets, SequencesExt

CONSTANTS
  Shapes,     \* the functions of the program, see ShapesAssumption
  ArgRegs,    \* number of argument registers
  SymRegs,    \* number of registers of the symbolic stack
  MaxWords    \* bound of the model on the depth of the stack

\* main's BEGIN counts argc and argv.
MainArgs == 2

\* nargs, nlocals: parameters and locals; memory: the most positions of the
\* symbolic stack that lie in memory; closure: the function captures variables;
\* main: it is main, whose parameters find a register and which captures none.
ASSUME ShapesAssumption ==
  /\ ArgRegs \in Nat /\ SymRegs \in Nat \ {0} /\ MaxWords \in Nat \ {0}
  /\ MainArgs <= ArgRegs
  /\ \A s \in Shapes : /\ s.nargs \in Nat /\ s.nlocals \in Nat /\ s.memory \in Nat
                       /\ s.closure \in BOOLEAN /\ s.main \in BOOLEAN
                       /\ s.main => s.nargs = MainArgs /\ ~s.closure

\* The functions that a program can call.
Functions == {s \in Shapes : ~s.main}

VARIABLES
  mem,       \* the kind of value in each word of the stack
  sp,        \* %rsp: the words 1 .. sp are in use
  regs,      \* the kind of value in each register
  frames,    \* activations of compiled functions, main first
  call,      \* the runtime call under way, or NoCall
  started    \* main has its frame and the collector is initialised

vars == <<mem, sp, regs, frames, call, started>>

\* An integer or an address outside the heap; a pointer to an object; a
\* pointer into the heap of before the last collection.
Kinds == {"plain", "current", "old"}

NoCall == [saved |-> <<>>, extra |-> 0, result |-> FALSE, active |-> FALSE]

ArgReg(i) == <<"arg", i>>       \* rdi, rsi, rdx, rcx, r8, r9
SymReg(i) == <<"sym", i>>       \* r10 .. r14
R15       == <<"closure", 1>>

Registers == {ArgReg(i) : i \in 1 .. ArgRegs} \union {SymReg(i) : i \in 1 .. SymRegs}
               \union {R15}

Least(a, b) == IF a < b THEN a ELSE b
Most(a, b)  == IF a > b THEN a ELSE b

-----------------------------------------------------------------------------
\* env#allocated: locals and positions of the symbolic stack in memory.
Allocated(shape) == shape.nlocals + shape.memory

\* The frame's size: a word is added if needed to preserve alignment.
LSize(shape) == Allocated(shape) + (Allocated(shape) % 2)

Running == frames[Len(frames)]

\* Word of slot S i in a frame: i >= 0 below %rbp, i < 0 above the return
\* address and the saved %rbp.
Slot(fr, i) == IF i >= 0 THEN fr.rbp + i + 1 ELSE fr.rbp + i - 1

\* env#loc (Value.Arg i), i counted from 0.
ArgIsRegister(i) == i < ArgRegs
ArgSlot(i)       == -(i - ArgRegs) - 1

\* Position i >= 1 of the symbolic stack: the registers first, then memory.
PositionIsRegister(i)  == i <= SymRegs
PositionSlot(shape, i) == shape.nlocals + (i - SymRegs) - 1

ValueAt(fr, i) == IF PositionIsRegister(i) THEN regs[SymReg(i)]
                  ELSE mem[Slot(fr, PositionSlot(fr.shape, i))]

StackArgs(n) == Most(n - ArgRegs, 0)

\* Mutant: a position more than the frame has words for.
HasRoomForOneMore(fr, n) == fr.depth + n <= SymRegs + fr.shape.memory + 1

\* env#allocate: stack_slots covers every position that is ever in use.
HasRoom(fr, n) == fr.depth + n <= SymRegs + fr.shape.memory

\* Mutant: only the registers of the symbolic stack.
LiveRegistersSymbolicOnly(fr, depth) ==
  [i \in 1 .. Least(depth, SymRegs) |-> SymReg(i)]

\* env#live_registers, with depth positions of the symbolic stack in use.
LiveRegisters(fr, depth) ==
  [i \in 1 .. Least(fr.shape.nargs, ArgRegs) |-> ArgReg(i)]
    \o [i \in 1 .. Least(depth, SymRegs) |-> SymReg(i)]

\* protect_registers: r15 first if the function has a closure.
ProtectRegisters(fr, depth) ==
  (IF fr.shape.closure THEN <<R15>> ELSE <<>>) \o LiveRegisters(fr, depth)

\* Mutant: the saved registers are not counted.
FillersOfArguments(saved, stackargs) == stackargs % 2

\* align_stack: one filler if the words pushed are odd in number ...
Fillers(saved, stackargs) == (saved + stackargs) % 2

\* Mutant: the filler is forgotten.
DroppedArguments(saved, stackargs) == stackargs

\* ... and what the sequence adds to %rsp after the call.
Dropped(saved, stackargs) ==
  IF (saved + stackargs) % 2 = 0 THEN stackargs ELSE 1 + stackargs

\* The words of a call sequence from the first push to the call.
PushValues(saved, args) ==
  [i \in DOMAIN saved |-> regs[saved[i]]]
    \o [i \in 1 .. Fillers(Len(saved), Len(args)) |-> "plain"]
    \o args

PushAll(m, s, values) ==
  [w \in DOMAIN m |-> IF w \in s + 1 .. s + Len(values) THEN values[w - s] ELSE m[w]]

\* Mutant: only the positions of the symbolic stack are filled.
FilledWithoutLocals(m, rbp, shape) ==
  [w \in DOMAIN m |->
     IF w \in rbp + LSize(shape) - shape.memory + 1 .. rbp + LSize(shape)
     THEN "plain" ELSE m[w]]

\* rep movsq: Allocated words upwards from %rsp become fillers.
Filled(m, rbp, shape) ==
  [w \in DOMAIN m |->
     IF w \in rbp + LSize(shape) - Allocated(shape) + 1 .. rbp + LSize(shape)
     THEN "plain" ELSE m[w]]

\* saved, extra: what the caller's sequence pops when the function returns.
NewFrame(shape, rbp, saved, extra) ==
  [shape |-> shape, rbp |-> rbp, depth |-> 0, assigned |-> {}, align |-> 0,
   saved |-> saved, extra |-> extra]

\* Where %rsp is between the calls of a function.
Base(fr) == fr.rbp + LSize(fr.shape) + fr.align

\* Registers after a call whose pushes begin above word s: those popped, and
\* anything in the others.
Restored(saved, base, m) ==
  [r \in Registers |-> IF r \in Range(saved) THEN m[base + CHOOSE i \in DOMAIN saved : saved[i] = r] ELSE "old"]

\* The position of the result is allocated: registers r and memory m.
WithResult(fr, r, m) ==
  LET i == fr.depth + 1
  IN IF PositionIsRegister(i)
       THEN regs' = [r EXCEPT ![SymReg(i)] = "current"] /\ mem' = m
       ELSE /\ regs' = r
            /\ mem' = [m EXCEPT ![Slot(fr, PositionSlot(fr.shape, i))] = "current"]

-----------------------------------------------------------------------------
\* The C startup code calls main, aligned or not.
Init == /\ mem = [w \in 1 .. MaxWords |-> "plain"]
        /\ sp \in {0, 1}
        /\ regs = [r \in Registers |-> "plain"]
        /\ frames = <<>>
        /\ call = NoCall
        /\ started = FALSE

\* main's prologue: return address and %rbp are pushed, the frame is filled,
\* the stack aligned if it is not, and set_args called with argc and argv.  No
\* register is saved for it, yet main's argument registers stay live_registers:
\* what C leaves in them is what main's sequences save from now on.
EnterMain ==
  /\ ~started
  /\ \E shape \in Shapes :
       /\ shape.main
       /\ LET rbp   == sp + 2
              align == (rbp + LSize(shape)) % 2
          IN /\ rbp + LSize(shape) + align < MaxWords
             /\ mem' = Filled(mem, rbp, shape)
             /\ frames' = <<[NewFrame(shape, rbp, <<>>, 0) EXCEPT !.align = align]>>
             /\ sp' = rbp + LSize(shape) + align
  /\ call' = [saved |-> <<>>, extra |-> 0, result |-> FALSE, active |-> TRUE]
  /\ started' = TRUE
  /\ UNCHANGED regs

InLama == ~call.active /\ frames /= <<>>

\* CONST, LD: an operand is pushed on the symbolic stack.
PushOperand ==
  /\ InLama
  /\ HasRoom(Running, 1)
  /\ WithResult(Running, regs, mem)
  /\ frames' = [frames EXCEPT ![Len(frames)].depth = @ + 1]
  /\ UNCHANGED <<sp, call, started>>

\* ST to a local: the value stays on the symbolic stack.
StoreLocal ==
  /\ InLama
  /\ Running.depth > 0
  /\ \E i \in 0 .. Running.shape.nlocals - 1 :
       /\ mem' = [mem EXCEPT ![Slot(Running, i)] = ValueAt(Running, Running.depth)]
       /\ frames' = [frames EXCEPT ![Len(frames)].assigned = @ \union {i}]
  /\ UNCHANGED <<sp, regs, call, started>>

\* DROP, or any instruction that consumes an operand.
Drop ==
  /\ InLama
  /\ Running.depth > 0
  /\ frames' = [frames EXCEPT ![Len(frames)].depth = @ - 1]
  /\ UNCHANGED <<mem, sp, regs, call, started>>

\* compile_safe_point_call: the arguments are popped from the symbolic stack
\* and all pushed, the address of the last goes to the runtime function.
CallRuntime ==
  /\ InLama
  /\ \E n \in 0 .. Running.depth :
       LET left   == Running.depth - n
           saved  == ProtectRegisters(Running, left)
           args   == [i \in 1 .. n |-> ValueAt(Running, Running.depth - i + 1)]
           pushed == PushValues(saved, args)
       IN /\ HasRoom([Running EXCEPT !.depth = left], 1)
          /\ sp + Len(pushed) < MaxWords
          /\ mem' = PushAll(mem, sp, pushed)
          /\ sp' = sp + Len(pushed)
          /\ call' = [saved |-> saved, extra |-> Dropped(Len(saved), n),
                      result |-> TRUE, active |-> TRUE]
          /\ frames' = [frames EXCEPT ![Len(frames)].depth = left]
  /\ UNCHANGED <<regs, started>>

\* The runtime function returns, after a collection or without one.  Its
\* frames leave, at worst, copies of pointers in every free word, and these a
\* collection does not rewrite.  The sequence drops the arguments, restores
\* the registers and moves the result to its position (set_args, which the
\* prologue of main calls, has none).
RuntimeReturns ==
  /\ call.active
  /\ \E left \in {"current", "old"} :
       LET after == [w \in DOMAIN mem |-> IF w <= sp THEN mem[w] ELSE left]
           base   == sp - call.extra - Len(call.saved)
           popped == Restored(call.saved, base, after)
       IN /\ sp' = base
          /\ IF call.result
               THEN /\ WithResult(Running, popped, after)
                    /\ frames' = [frames EXCEPT ![Len(frames)].depth = @ + 1]
               ELSE /\ regs' = popped
                    /\ mem' = after
                    /\ UNCHANGED frames
  /\ call' = NoCall
  /\ UNCHANGED started

\* The value of the k-th of n arguments on top of the symbolic stack.
Argument(n, k) == ValueAt(Running, Running.depth - n + k)

\* Where the arguments that find no register lie: the last pushed first.
StackedArguments(n) == [j \in 1 .. StackArgs(n) |-> Argument(n, n - j + 1)]

\* Registers at the entry of a function of n parameters.
Entry(n, viaClosure) ==
  [r \in Registers |->
     IF \E k \in 1 .. Least(n, ArgRegs) : r = ArgReg(k)
       THEN Argument(n, r[2])
     ELSE IF r = R15 /\ viaClosure THEN ValueAt(Running, Running.depth - n)
     ELSE regs[r]]

\* compile_common_call and the callee's prologue.
CallLama ==
  /\ InLama
  /\ \E shape \in Functions, viaClosure \in BOOLEAN :
       LET n      == shape.nargs
           left   == Running.depth - n
           saved  == ProtectRegisters(Running, left)
           pushed == PushValues(saved, StackedArguments(n))
           rbp    == sp + Len(pushed) + 2
           pops   == n + IF viaClosure THEN 1 ELSE 0
       IN /\ shape.closure => viaClosure
          /\ Running.depth >= pops
          /\ HasRoom(Running, 1 - pops)
          /\ rbp + LSize(shape) < MaxWords
          /\ mem' = Filled(PushAll(mem, sp, pushed \o <<"plain", "plain">>), rbp, shape)
          /\ sp' = rbp + LSize(shape)
          /\ regs' = Entry(n, viaClosure)
          /\ frames' = Append([frames EXCEPT ![Len(frames)].depth = @ - pops],
                              NewFrame(shape, rbp, saved,
                                       Dropped(Len(saved), StackArgs(n))))
  /\ UNCHANGED <<call, started>>

\* compile_tail_call: with nothing else on the symbolic stack, the arguments
\* replace the parameters, the frame is dropped, and the function jumps; the
\* callee's prologue makes its frame in the same place.
TailCallLama ==
  /\ InLama
  /\ Len(frames) > 1
  /\ \E shape \in Functions, viaClosure \in BOOLEAN :
       LET n     == shape.nargs
           fr    == Running
           moved == [w \in DOMAIN mem |->
                       IF \E k \in ArgRegs + 1 .. n : w = Slot(fr, ArgSlot(k - 1))
                       THEN Argument(n, CHOOSE k \in ArgRegs + 1 .. n :
                                          w = Slot(fr, ArgSlot(k - 1)))
                       ELSE mem[w]]
       IN /\ shape.closure => viaClosure
          /\ n = fr.shape.nargs
          /\ fr.depth = n + IF viaClosure THEN 1 ELSE 0
          /\ fr.rbp + LSize(shape) < MaxWords
          /\ mem' = Filled([moved EXCEPT ![fr.rbp] = "plain"], fr.rbp, shape)
          /\ sp' = fr.rbp + LSize(shape)
          /\ regs' = Entry(n, viaClosure)
          /\ frames' = Append(Front(frames), NewFrame(shape, fr.rbp, fr.saved, fr.extra))
  /\ UNCHANGED <<call, started>>

\* END: %rsp and %rbp are restored, the caller's sequence drops what it pushed
\* and pops its registers; main returns to the C startup code.
ReturnLama ==
  /\ InLama
  /\ Running.depth = 1
  /\ LET fr   == Running
         base == fr.rbp - 2 - fr.extra - Len(fr.saved)
     IN IF Len(frames) = 1
          THEN frames' = <<>> /\ sp' = base /\ UNCHANGED <<mem, regs>>
          ELSE LET caller == frames[Len(frames) - 1]
               IN /\ sp' = base
                  /\ WithResult(caller, Restored(fr.saved, base, mem), mem)
                  /\ frames' = [Front(frames) EXCEPT ![Len(frames) - 1].depth = @ + 1]
  /\ UNCHANGED <<call, started>>

Next == \/ EnterMain \/ PushOperand \/ StoreLocal \/ Drop
        \/ CallRuntime \/ RuntimeReturns
        \/ CallLama \/ TailCallLama \/ ReturnLama

Spec == Init /\ [][Next]_vars

-----------------------------------------------------------------------------
\* The variables keep their types, and the symbolic stack of every activation
\* stays within the registers and words its frame has for it.
TypeOK ==
  /\ mem \in [1 .. MaxWords -> Kinds]
  /\ sp \in 0 .. MaxWords
  /\ regs \in [Registers -> Kinds]
  /\ \A d \in DOMAIN frames :
       /\ frames[d].shape \in Shapes
       /\ frames[d].depth \in 0 .. SymRegs + frames[d].shape.memory
       /\ frames[d].rbp \in 1 .. MaxWords
       /\ Range(frames[d].saved) \subseteq Registers
       /\ frames[d].assigned \subseteq 0 .. frames[d].shape.nlocals - 1
  /\ Range(call.saved) \subseteq Registers
  /\ started \in BOOLEAN

\* PRE_GC asserts (__gc_stack_top & 0xF) == 0: at every runtime call the stack
\* is aligned to 16 bytes, however main was called and however many registers
\* and arguments the sequence and those of the callers pushed.
RuntimeCallsAligned == call.active => sp % 2 = 0

\* Every call leaves the stack as it found it: between calls %rsp is at the
\* end of the running function's own frame.
StackRestored == InLama => sp = Base(Running)

\* Of main's parameters no Lama code has a name.
Named(shape) == IF shape.main THEN 0 ELSE shape.nargs

\* The words and registers that hold what a function still needs: captured
\* variables, parameters, assigned locals and the symbolic stack.
LiveValues ==
  LET fr == Running
  IN (IF fr.shape.closure THEN {regs[R15]} ELSE {})
       \union {IF ArgIsRegister(i) THEN regs[ArgReg(i + 1)]
               ELSE mem[Slot(fr, ArgSlot(i))] : i \in 0 .. Named(fr.shape) - 1}
       \union {mem[Slot(fr, i)] : i \in fr.assigned}
       \union {ValueAt(fr, i) : i \in 1 .. fr.depth}

\* Whatever was called in between and however often it collected, nothing a
\* function still needs points into a heap that is gone or was overwritten.
LiveValuesAreCurrent == InLama => "old" \notin LiveValues

\* The words that the collector takes for roots although they hold a stale
\* pointer.
StaleRoots == {w \in 1 .. sp : mem[w] = "old"}

\* The words of a frame that the prologue makes room for, ...
FrameWords(fr) == fr.rbp + 1 .. fr.rbp + LSize(fr.shape)

\* ... and those of them that it does not fill.
Unfilled(fr) == fr.rbp + 1 .. fr.rbp + LSize(fr.shape) - Allocated(fr.shape)

MainArgRegs == {ArgReg(i) : i \in 1 .. MainArgs}

\* Where the sequence that main waits for saved its argument registers.
SavedByMain ==
  LET saved == IF Len(frames) = 1 THEN call.saved ELSE frames[2].saved
  IN {Base(frames[1]) + i : i \in {j \in DOMAIN saved : saved[j] \in MainArgRegs}}

\* A root is stale only in the slot that a frame of odd size leaves unfilled, or
\* in a word where main saved an argument register that no code reads: no other
\* word that any function on the stack pushed, filled or stored is, whatever was
\* called or collected since.
StaleRootsAreKnown ==
  call.active => StaleRoots \subseteq (UNION {Unfilled(frames[d]) : d \in DOMAIN frames})
                                        \union SavedByMain

\* X86_64.ml:153 "Value that could be used to fill unused stack locations.
\* Garbage is not allowed as it will affect GC": at a runtime call no location
\* of a frame holds garbage.
NoGarbageInFrames ==
  call.active => \A d \in DOMAIN frames : FrameWords(frames[d]) \intersect StaleRoots = {}
=============================================================================
