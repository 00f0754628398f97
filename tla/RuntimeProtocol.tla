-------------------------- MODULE RuntimeProtocol --------------------------
(***************************************************************************)
(* The protocol by which the allocating functions of the two runtimes stay *)
(* safe across a collection.  Compiled code calls a runtime function with  *)
(* its arguments in words of the Lama stack; any allocation may collect,   *)
(* and a collection moves every object.  A word is rewritten only if the   *)
(* collector visits it: it lies above __gc_stack_top, which the outermost  *)
(* runtime function sets, or it was registered by push_extra_root.  Every  *)
(* other word that held a heap pointer is left pointing into the heap that *)
(* is gone.                                                                *)
(*                                                                         *)
(* A function is the sequence of those of its steps that matter to this    *)
(* protocol.  A value is one of four kinds; what an object holds is not    *)
(* kept.  RuntimeAlloc and RuntimeAlloc32 give the functions of the two    *)
(* runtimes, and the steps in which the runtimes differ.                   *)
(***************************************************************************)
EXTENDS Integers, Sequences, SequencesExt

CONSTANTS
  Functions,        \* the runtime functions that the program calls
  NArgs,            \* the longest argument list of a call
  MaxRoots,         \* MAX_EXTRA_ROOTS_NUMBER
  Body(_, _),       \* the steps of a function called with so many arguments
  Lengths(_),       \* the numbers of arguments it is called with
  Passed(_, _, _)   \* what may stand at an argument's position

ASSUME ConstantsAssumption == /\ NArgs \in Nat /\ NArgs >= 3
                              /\ MaxRoots \in Nat /\ MaxRoots >= 3

VARIABLES
  mem,      \* the kind of value in each word
  frames,   \* activation records of runtime functions, outermost first
  top,      \* depth of the frame in __gc_stack_top, 0 when it is zero
  pool,     \* extra_roots: the registered words, in order
  exited    \* push_extra_root found the pool full and ended the process

vars == <<mem, frames, top, pool, exited>>

(***************************************************************************)
(* Words.  Depth -1 is the part of the Lama stack that was there before    *)
(* the call, depth 0 what the call adds to it: word 0 receives the result, *)
(* words 1.. are the arguments.  Depth d >= 1 is the d-th C frame: word 0  *)
(* is the variable the function returns, the others its locals.            *)
(***************************************************************************)
MaxDepth == 3

Words == 0 .. NArgs

GlobalSysargs == <<MaxDepth + 1, 0>>

Cells == ((-1 .. MaxDepth) \X Words) \union {GlobalSysargs}

\* An integer, an address outside the heap, a pointer to an object, and a
\* pointer into the heap of before the last collection.
Kinds == {"unboxed", "c_pointer", "current", "old"}

(***************************************************************************)
(* Steps.  An operand names a word of the running frame: its i-th argument *)
(* or its i-th local.                                                      *)
(***************************************************************************)
Arg(i)   == <<"arg", i>>
Local(i) == <<"local", i>>
Older(i) == <<"older", i>>
Result   == Local(0)
Sysargs  == <<"global", 0>>

Pre              == [op |-> "pre"]
Post             == [op |-> "post"]
Push(c)          == [op |-> "push", cell |-> c]
Pop(c)           == [op |-> "pop", cell |-> c]
Alloc            == [op |-> "alloc"]
Use(cs)          == [op |-> "use", cells |-> cs]
Copy(c, d)       == [op |-> "copy", from |-> c, to |-> d]
Set(k, d)        == [op |-> "set", kind |-> k, to |-> d]
Call(f, cs, d)   == [op |-> "call", fn |-> f, args |-> cs, to |-> d]

\* for (i = first; i <= last; i++) push_extra_root (&args[i]), and back
PushArgs(first, last) == [i \in 1 .. last - first + 1 |-> Push(Arg(first + i - 1))]
\* Mutant: the loop back stops one word early.
PopArgsButFirst(first, last) ==
  IF last <= first THEN <<>> ELSE [i \in 1 .. last - first |-> Pop(Arg(last - i + 1))]

PopArgs(first, last)  == [i \in 1 .. last - first + 1 |-> Pop(Arg(last - i + 1))]

ArgSet(first, last) == {Arg(i) : i \in first .. last}

LamaValues == {"unboxed", "c_pointer", "current"}

-----------------------------------------------------------------------------
depth == Len(frames)

Running == frames[depth]

Code == Body(Running.fn, Len(Running.args))

AtStep(op) == /\ ~exited
              /\ depth > 0
              /\ Running.pc <= Len(Code)
              /\ Code[Running.pc].op = op

Step == Code[Running.pc]

\* The word an operand of frame fr, at depth d, stands for.
Word(fr, d, c) ==
  CASE c[1] = "arg"   -> fr.args[c[2]]
    [] c[1] = "local" -> <<d, c[2]>>
    [] c[1] = "older" -> <<-1, c[2]>>
    [] OTHER          -> GlobalSysargs

The(c) == Word(Running, depth, c)

Advance == frames' = [frames EXCEPT ![depth].pc = @ + 1]

\* A new activation record: its locals hold what an earlier call left there,
\* at worst a pointer into a heap that is gone.
Entered(m, d) == [c \in Cells |-> IF c[1] = d THEN "old" ELSE m[c]]

NewFrame(f, args, to) == [fn |-> f, pc |-> 1, flag |-> FALSE, args |-> args, to |-> to]

\* What mark_phase and update_references visit: the words above the frame in
\* __gc_stack_top, and the words in the pool.
Scanned == {c \in Cells : c[1] < top} \union Range(pool)

Collected == [c \in Cells |->
                IF c \notin Scanned /\ mem[c] = "current" THEN "old" ELSE mem[c]]

Init == /\ mem = [c \in Cells |-> "unboxed"]
        /\ frames = <<>>
        /\ top = 0
        /\ pool = <<>>
        /\ exited = FALSE

\* main passes its argc and argv to set_args before any Lama code runs.
Start == /\ ~exited
         /\ frames = <<>>
         /\ mem[GlobalSysargs] = "unboxed"
         /\ \E n \in 0 .. NArgs :
              /\ frames' = <<NewFrame("set_args", [i \in 1 .. n |-> <<0, i>>], <<1, 0>>)>>
              /\ mem' = Entered([c \in Cells |->
                                   IF c[1] = 0 /\ c[2] \in 1 .. n THEN "c_pointer"
                                   ELSE mem[c]], 1)
         /\ UNCHANGED <<top, pool, exited>>

\* Compiled code pushes the arguments and calls a runtime function.
CallRuntime ==
  /\ ~exited
  /\ frames = <<>>
  /\ mem[GlobalSysargs] /= "unboxed"
  /\ \E f \in Functions : \E n \in Lengths(f) :
       \E passed \in [1 .. n -> Kinds], older \in LamaValues :
         /\ \A i \in 1 .. n : passed[i] \in Passed(f, n, i)
         /\ frames' = <<NewFrame(f, [i \in 1 .. n |-> <<0, i>>], <<0, 0>>)>>
         /\ mem' = Entered([c \in Cells |->
                              IF c[1] = 0 /\ c[2] \in 1 .. n THEN passed[c[2]]
                              ELSE IF c[1] = -1 THEN older
                              ELSE mem[c]], 1)
  /\ UNCHANGED <<top, pool, exited>>

\* alloc takes the object from the existing heap ...
AllocFits == /\ AtStep("alloc")
             /\ mem' = [mem EXCEPT ![The(Result)] = "current"]
             /\ Advance
             /\ UNCHANGED <<top, pool, exited>>

\* ... or collects first: the words it does not visit become stale.
AllocCollects == /\ AtStep("alloc")
                 /\ mem' = [Collected EXCEPT ![The(Result)] = "current"]
                 /\ Advance
                 /\ UNCHANGED <<top, pool, exited>>

\* Reading or copying words, storing them into an object.
UseWords == /\ AtStep("use")
            /\ Advance
            /\ UNCHANGED <<mem, top, pool, exited>>

CopyWord == /\ AtStep("copy")
            /\ mem' = [mem EXCEPT ![The(Step.to)] = mem[The(Step.from)]]
            /\ Advance
            /\ UNCHANGED <<top, pool, exited>>

SetWord == /\ AtStep("set")
           /\ mem' = [mem EXCEPT ![The(Step.to)] = Step.kind]
           /\ Advance
           /\ UNCHANGED <<top, pool, exited>>

\* A runtime function calls another.
CallInner ==
  /\ AtStep("call")
  /\ frames' = Append([frames EXCEPT ![depth].pc = @ + 1],
                      NewFrame(Step.fn, [i \in 1 .. Len(Step.args) |-> The(Step.args[i])],
                               The(Step.to)))
  /\ mem' = Entered(mem, depth + 1)
  /\ UNCHANGED <<top, pool, exited>>

\* The result goes to the caller's word; compiled code drops the arguments.
Return == /\ ~exited
          /\ depth > 0
          /\ Running.pc > Len(Code)
          /\ mem' = [c \in Cells |->
                       IF c[1] = depth \/ (depth = 1 /\ c \in Range(Running.args))
                         THEN "unboxed"
                       ELSE IF c = Running.to THEN mem[The(Result)]
                       ELSE mem[c]]
          /\ frames' = Front(frames)
          /\ UNCHANGED <<top, pool, exited>>

-----------------------------------------------------------------------------
\* The variables keep their types: the pool never holds more words than it has
\* room for and calls nest as deep as MaxDepth.
TypeOK ==
  /\ mem \in [Cells -> Kinds]
  /\ depth <= MaxDepth
  /\ \A d \in 1 .. depth :
       /\ frames[d].pc \in 1 .. Len(Body(frames[d].fn, Len(frames[d].args))) + 1
       /\ frames[d].flag \in BOOLEAN
       /\ Range(frames[d].args) \subseteq Cells
       /\ frames[d].to \in Cells
  /\ top \in 0 .. MaxDepth
  /\ pool \in Seq(Cells) /\ Len(pool) <= MaxRoots
  /\ exited \in BOOLEAN

\* No runtime function reads, copies, stores or returns a pointer into the
\* heap that a collection has unmapped: whatever it still needs after an
\* allocation was registered, lies in the scanned stack, or is read again.
UsesAreCurrent ==
  /\ AtStep("use") => \A c \in Step.cells : mem[The(c)] /= "old"
  /\ AtStep("copy") => mem[The(Step.from)] /= "old"

\* LreadLine and Lfread call allocating functions but do not record their own
\* frames, which lie in the scanned stack below the inner function's.
Unguarded == {"LreadLine", "Lfread"}

\* At an allocation that may collect, every word the collector would visit
\* holds a value it can treat as a root: a registered local was assigned
\* before, and no stale pointer is marked or fixed as if it led to an object.
\* Only the uninitialised words of an unguarded function's frame may be.
RootsAreCurrent ==
  AtStep("alloc") =>
    \A c \in Scanned : mem[c] = "old" => c[1] = 1 /\ frames[1].fn \in Unguarded

\* The checks of PRE_GC, POST_GC and pop_extra_root never fail: at every
\* PRE_GC and POST_GC the frame is at or below the one in __gc_stack_top, an
\* allocation finds __gc_stack_top set, and words leave the pool in the
\* reverse of the order they entered it and never fill more than its room.
ChecksPass ==
  /\ TypeOK
  /\ AtStep("pre") => top <= depth
  /\ AtStep("alloc") \/ AtStep("post") => top \in 1 .. depth
  /\ AtStep("pop") => pool /= <<>> /\ Last(pool) = The(Step.cell)

\* Between two calls the runtime is as it was: __gc_stack_top is zero, so that
\* the next call finds its own end of the Lama stack, the pool holds
\* global_sysargs alone, so that no word of a dead frame is rewritten, and all
\* that the call leaves to the program (its result, the words of the Lama
\* stack, global_sysargs) is current.
CallsAreBalanced ==
  frames = <<>> =>
    /\ top = 0
    /\ pool \in {<<>>, <<GlobalSysargs>>}
    /\ \A c \in Cells : c[1] \notin 1 .. MaxDepth => mem[c] /= "old"
=============================================================================
