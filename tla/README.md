# Lama: specifications of the compiler's stack machine and of the garbage-collected runtimes

Lama is a small language with first-class functions, S-expressions and pattern
matching. `src/src` holds its compiler (OCaml): a parser, a reference
interpreter, a compiler to a stack machine with an interpreter for it, code
generators for x86 and a byte code writer. `src/runtime` holds the C runtime of
64-bit programs: a mark-compact collector and the built-in functions.
`src/runtime32` is its predecessor, with a copying collector, and `src/byterun`
the reader of byte code. `src/stdlib` is the library, in Lama itself.

This directory holds TLA+ modules for the parts whose correctness depends on
order, on state shared between hand-written halves, or on layouts that only a
rare input reaches, the TLC configurations that check them, and TLAPS proofs for
the collectors, the heap's memory, the runtime's root discipline, its comparison,
hashing and pattern tests, and the frames of compiled code.
`PROJECT.json` is the index: components, runs, the lines each definition stands
for, hazards, theorems and findings.

    tlc -workers 2 -config MCGCMark.cfg GCMark.tla      # one run
    tlapm CollectorProofs.tla                           # one module of proofs

## The system

| Component | State it keeps | Operations | Interacts with | Hard about it |
|---|---|---|---|---|
| Collector, mark (`gc.c`) | headers: mark bit, enqueued bit, queue entry | `mark_phase`, `mark`, queue operations | scans the stack that compiled code and the runtime share; reads `extra_roots` | the queue lives in the objects; roots are visited one by one on a heap partly marked |
| Collector, compact (`gc.c`) | forward addresses, two chunks | `compute_locations`, `update_references`, `physically_relocate` | rewrites the stack, extra roots and globals | references are fixed before objects move, in a chunk at another address |
| Heap chunk (`gc.c`) | begin, end, current, size | `__init`, `alloc`, `gc_alloc`, `__shutdown` | `mmap`, `munmap` | words, bytes and pages; the request must fit after growing |
| Extra roots, stack top (`gc.c`, `runtime.c`) | pool of 32 addresses, `__gc_stack_top` | `push_extra_root`, `pop_extra_root`, `PRE_GC`, `POST_GC` | every allocating function | strict stack discipline across nested calls |
| Allocating functions (`runtime.c`) | C locals | `Barray`, `Bsexp`, `Bclosure`, `Lstring`, `Lclone`, `LreadLine`, `set_args`, ... | collector; called from compiled code | any allocation makes every unregistered address stale |
| Pure functions (`runtime.c`) | the heap they read | `Lcompare`, `Lhash`, `LtagHash`, pattern tests, `Belem`, `Bsta` | compiled code; the library's tables | machine integers, cyclic values, agreement of compare, hash and patterns |
| Code generator (`X86_64.ml`) | frame, registers, symbolic stack, stack maps | one case per stack-machine instruction | calls the runtime; its frames are the roots | alignment, saved registers, tail calls, unfilled slots, heights taken from the text |
| Stack-machine compiler (`SM.ml`) | scopes, addresses, labels, function tables | `compile_expr`, `pattern`, `bindings`, `lookup`, `propagate_closures`, `fix_closures` | its code is run by the interpreter and read by the code generators | closure conversion with a fix-point; labels and drops on failing patterns; tail marks |
| Stack-machine interpreter (`SM.ml`) | control stack, operands, frames | `eval` | built-in functions of `Language.ml` | operands of callers lie below, unprotected |
| Reference interpreter (`Language.ml`) | scoped states, values | `Expr.eval` | - | closures that carry their state along |
| 32-bit runtime (`runtime32`) | two spaces, `__gc_stack_top`, `extra_roots` | `alloc`, `gc`, `gc_copy`, `extend_spaces`, the allocating functions | the 32-bit code generator | a space that grows while copies stand in it; arguments are C parameters |
| Byte code (`SM.ml`, `byterun.c`) | string table, fixups, file | writer, disassembler | - | two hand-kept encodings; forward labels |
| Library (`stdlib`) | AVL trees, hash and memo tables, lazy values, buffers | insert, delete, find, force | runtime's compare and hash | rotations; forcing inside forcing |

Nothing here is concurrent: a Lama program is one thread. What interleaves is
the *mutator* (compiled code and runtime functions) with the *collector*, which
may run at any allocation and moves every object; nothing survives the process,
so there is no recovery. What can fail from outside is `mmap` and `mremap`.

What makes each part correct: a collector keeps exactly the reachable objects,
moves them without damage and leaves the graph as the mutator saw it; the
runtime and the compiled code never use an address from before a collection and
keep every protocol the collector asserts; compare, hash and pattern tests agree
on which values are the same; the compiled program does what the reference
interpreter does; the byte code reads back as what was written.

## Modules

| Module | Models | Kind |
|---|---|---|
| `TriColour` | what marking promises: white, grey and black objects | abstract specification |
| `GCMark` | `mark_phase` and `mark`, one action per step of the loops | refines `TriColour` |
| `GCCompact` | `compact_phase` | state machine |
| `GCCompactProofs` | theorems about `GCCompact` | TLAPS |
| `HeapRegions` | the life of the heap chunk | state machine |
| `CollectorProofs` | theorems about `GCMark` and `HeapRegions` | TLAPS |
| `RuntimeProtocol` | how an allocating function of either runtime stays safe across a collection | common part of the next two |
| `RuntimeAlloc` | the allocating functions of `runtime.c` | state machine |
| `RuntimeAlloc32` | the allocating functions of `runtime32/runtime.c` | state machine |
| `RuntimeProtocolProofs` | functions that keep a discipline keep the runtime sound | TLAPS |
| `RuntimeAllocProofs` | the discipline of `RuntimeAlloc`, and theorems about it | TLAPS |
| `RuntimeAlloc32Proofs` | the discipline of `RuntimeAlloc32`, and theorems about it | TLAPS |
| `ObjectStore` | what a collected heap promises to the program | abstract specification |
| `CopyingGC`, `MCCopyingGC` | the collector of `runtime32`: `alloc`, `gc`, `gc_copy`, `extend_spaces` | refines `ObjectStore` |
| `CopyingGCProofs` | the spaces of `CopyingGC` are sound; it implements `ObjectStore` | TLAPS |
| `RuntimeValues`, `MCRuntimeValues` | compare, hash, pattern tests, element access | functions over a heap that assignment changes |
| `RuntimeValuesProofs` | theorems about `RuntimeValues` | TLAPS |
| `X86Frame`, `MCX86Frame` | frames and calls of compiled code | state machine |
| `X86FrameProofs` | theorems about `X86Frame` | TLAPS |
| `LamaEval` | source language, `Expr.eval` | recursive definition |
| `SMCompile` | `compile` of `SM.ml` | recursive definition |
| `StackMachine`, `MCStackMachine` | `eval` of `SM.ml` running what `SMCompile` makes | state machine; families of programs |
| `Bytecode`, `MCBytecode` | `ByteCode.compile` of `SM.ml` and the reader of `byterun.c` | writer and reader in turn |

Names follow the source where it has one for the step: `queue_enqueue` is
`QueueEnqueue`, `propagate_acc` is `PropagateAcc`, one object of
`compute_locations` is `Locate`. The `map` of `PROJECT.json` gives lines for each
definition.

### GCMark and TriColour

A heap is a sequence of objects with fields; a word is a reference to an object
or to nothing of the heap. `SkipRoot` and `BeginMark` are the two outcomes of
the test at the top of `mark`; `Dequeue` takes one turn of its while loop up to
the field loop; `SkipField`, `EnqueueField` and `EndFields` are that loop;
`EndMark` is the return. The queue has no memory of its own: the k-th entry
enqueued by one call of `mark` lies in the `forward_address` word of the k-th
object of the heap, and `head` and `tail` are two iterators over the heap, with
`N + 1` for `heap.current`. What an earlier call left in these words is still
there, and `Stale` is what was there before the first.

In `TriColour` an object is white, grey (known, still to be scanned) or black.
`ShadeRoot` and `ShadeChild` turn a white object grey, `Blacken` a grey one
black, and `Finish` is possible only when no white object is left that a root or
a black object leads to. The refinement maps grey to the entries between `head`
and `tail`, black to the marked objects and `done` to the end of the phase.

### GCCompact

State: the layout of the objects, their fields, root words by address (C frames,
stack, global area), the extra roots as addresses of such words, mark bits,
forward addresses, and for each word of the heap the object and index whose
content lies there, so that a word written over shows. A pointer is a chunk,
old or new, and an offset. The actions are one object of `compute_locations`
(`Locate`), mapping and copying (`MapAndCopy`, `MapFails`), the three parts of
`update_references` (`UpdateFields` per object, `UpdateStack`, `UpdateExtra` per
root, `UpdateGlobal`), one object of `physically_relocate` (`Relocate`) and
`Finish`. The initial state is any heap and any root words that
`MarksAllReachable` of `GCMark` allows, with extra roots in the stack, in C
frames or in the global area, alike or not.

### HeapRegions

Chunks are places in an address space of pages; a `munmap` of `n` bytes gives up
the pages `n` bytes cover. `alloc`, growth, `MapFails` (the process ends) and
`__shutdown`, which only an embedding program calls. Its initial predicate,
next-state relation and specification are `RegionsInit`, `RegionsNext` and
`RegionsSpec`, so that one module can extend it and `GCMark`.

### RuntimeProtocol, RuntimeAlloc, RuntimeAlloc32

Each allocating function is the sequence of its steps that matter to a
collector: the macros `PRE_GC` and `POST_GC` (`__pre_gc` and `__post_gc` in the
32-bit runtime), registrations, allocations, copies, uses, calls of other
runtime functions. A word is unboxed, a C pointer, a current address or an old
one; a collection makes each current address old but those in words it visits:
the part of the stack above `__gc_stack_top` and the pool. `RuntimeProtocol` has
the words, frames, allocations, uses and calls; the two modules that extend it
have the bodies of the functions and the steps in which the runtimes differ: how
arguments arrive (`args` points into the Lama stack, or C parameters that a
caller's frame holds), and how a function knows that it is the outermost one (a
flag of its own, or a comparison of its frame with `__gc_stack_top`).

`MaxRoots` stands for the pool of 32 words. In the 64-bit runtime `LreadLine` and
`Lfread` are run as they are, without a `PRE_GC`; `Unguarded` names them, and
`RootsAreCurrent` says that their own frames are the only scanned words that may
be stale. In the 32-bit runtime `OnlyConsUsesStale` names the one function that
uses a stale word. `Lclone` of an integer in the 32-bit runtime is left out (see
Disagreements).

### CopyingGC and ObjectStore

`ObjectStore` gives objects an identity: the program moves values between its
words, builds objects, stores into fields; it never forgets what it can reach,
and a collection is no step at all. `CopyingGC` has two spaces of addresses in
bytes, objects by address, a work stack for the recursion of `gc_copy`, and the
loop that grows `to_space`: `AllocFits` and `AllocCollects` are the two outcomes
of `alloc`; `KeepWord`, `Forwarded` and `Copy` the outcomes of the tests in
`gc_test_and_copy_root` and `gc_copy` for one word; `Return` the end of an
object; `RootsScanned`, `ExtendInPlace` (`mremap` succeeded) and `ExtendMoves`
(it did not: what was `to_space` is collected into a space of twice the size)
the loop of `gc`; `MmapFails` ends the process. The mapping reads identities off
the copies; during a collection it reads the space that still holds the
originals. What is reachable is the smallest set that holds the roots and is
closed under pointers, in both modules. A space is placed where the other one is
not, and grows in place only if it does not reach the other one: what `mmap` and
`mremap` (without `MREMAP_MAYMOVE`) guarantee.

### RuntimeValues

Words odd for integers, even for addresses; half a word has `Half` values, a word
`Half * Half`, and arithmetic wraps. `Assign` is `Bsta`, so that every graph that
stores can make of the initial objects, cyclic ones included, is a state, and the
functions are compared with one another and with the structure of a value
(`SameStructure`) in each. `Lcompare`, `inner_hash`, `Alike` and the paths from an
object (`Deep`) recurse over the heap: each is one step (`Compare`, `Hash`, ...)
and a function of the depth, `compare[d]` being what a call answers that nests `d`
deep. On a value that is not cyclic a depth of one more than the heap has objects
is never reached, so that `Lcompare` is the function the code computes;
`inner_hash` stops at `HASH_DEPTH` in the code, too. `IsObject` is the layout the
runtime relies on: characters in strings, a code address first in a closure,
values elsewhere. Integers are taken from the half of their range whose
differences do not wrap (Disagreements), addresses, lengths and tags from the
numbers below it: a tag has 60 bits.

### X86Frame

Words of the hardware stack and registers, each holding the kind of thing it
holds (a current or stale reference, or anything the collector leaves alone).
Actions for entering main, pushing and dropping operands of the symbolic
stack, storing a local, the three call sequences (runtime call at a safe point,
call, tail call, each by name or through a closure) and returning. `CallRuntime`
is the safe-point sequence; a call to a runtime function that cannot collect is
its case with no collection. When it returns, `RuntimeReturns` leaves the worst in
every register the sequence did not save and may leave it in every free word.
main is compiled with two parameters (`MainArgs`, `SM.ml:1659`), argc and argv.
No Lama code has a name for them (`Named`), yet `live_registers` counts their
registers, so each of main's sequences saves them, with whatever `set_args` and
later C functions left there. Lama code calls every function but main
(`Functions`). `ArgRegs = 2`, as few as main needs, stands for six argument
registers and `SymRegs = 2` for five symbolic ones, so that both spills happen in
small frames.

### LamaEval, SMCompile, StackMachine

`LamaEval` is the reference: a function from configurations to configurations.
The source threads a continuation and only ever runs it next. `SMCompile`
threads the environment as the source does: funscopes, contexts, the function
tables, then `PropagateClosures` and `FixClosures`. `StackMachine` runs the
code: a program counter stands for the rest of the program, a heap for OCaml's
shared arrays, so that two references to one array or closure see each other's
writes. `heights` is what `compile` of `X86_64.ml` takes the height of the
symbolic stack for, with its barrier and its stack map, one pass over the text.
`StackIsAsCompiled` gathers what the stack must look like at each step: frames
below the running one untouched, the height the native compiler assumes,
closures as long as their functions were compiled for.

The programs are families: control flow in operand positions, patterns against
values with their bindings, nested functions that capture, assign and call each
other (1892 programs). Left out of the passing families, because of the
disagreements below: an assignment to a captured variable in a function that has
functions reading it, `#box` against a closure, and a built-in as a value.
Strings are atoms and no operator overflows or divides in these programs.
`LDA`, `STI`, `SWAP` and `RET` are never emitted, and a `Builtin` value never
reaches `CALLC`, so these have no action.

### Bytecode

`Write` is the writer's fold over one instruction: bytes, string table, label
table, fixups, globals, public symbols. `WriteFile` patches the fixups and lays
the file out, `WriteFails` is the undefined label. The reader, `Disassemble`,
takes one instruction off the bytes with tables of its own. The program grows
instruction by instruction, so that every prefix is written and read as well.

## Runs

| Run | Bounds | States | Shows |
|---|---|---|---|
| `mark` | 3 objects, 2 fields, 2 root words, every graph | 849,120 | marking is exact, the queue is one, it refines `TriColour`, it ends |
| `compact` | 3 objects of at most 1 field in 8 words, 2 stack words, 1 C word, 1 global word, 2 extra roots, heap sizes 6 and 8, request 5 | 1,597,581 | no object is overwritten, the graph is preserved, the request fits, it ends |
| `heap_regions` | 12 pages of 4 bytes, words of 2, first chunk of 2 words, requests 1 and 3 | 252,230 | the chunk stays mapped, an allocation never fails |
| `runtime_alloc` | at most 4 fields, 3 extra roots, 16 functions | 9,000 | no stale use, roots current, pool and stack top balanced, assertions hold |
| `alloc32` | at most 4 fields, 3 extra roots, 17 functions | 9,094 | the same of the 32-bit functions, `:` as a function excepted |
| `copying` | spaces of 5 words to begin with, 2 places to map, 2 reachable objects, 4 requests | 176,236 | it implements `ObjectStore`, spaces are sound, collections end |
| `values` | words of 10 bits, tag characters of 2 bits, 3 of them, 5 objects, 10 words | 3,888 | compare is a linear order, hash and patterns agree with it, tags are faithful |
| `x86_frame` | main and three functions (`MCShapes`), 2 argument registers, 2 symbolic, 19 stack words | 929,388 | alignment, restored stack, live values current, which roots may be stale |
| `stack_machine` | 1892 programs, 2 inputs, 400 steps | 152,620 | same output as the reference, stack as compiled for, tail calls, termination |
| `bytecode` | programs of 4 instructions, integers of 2 bytes | 345,664 | the listing is the program, the reader stays inside the file |
| `x86_garbage` (violation) | as `x86_frame`, 16 stack words | - | an odd frame leaves a word unfilled |
| `sm_recapture` (violation) | one program | - | an inner function sees an old copy of a variable |

Why the bounds are enough. *mark*: three objects give self references, cycles,
sharing between two roots, and an object enqueued while it or its parent is
being scanned; the theorems remove the bound. *compact*: with three objects a
dead one may lie before, between or after live ones of different sizes, an
object may slide by less than its own length (the overlap that orders matter
for), and both growing and not growing happen; the theorems remove the bound.
*heap_regions*: chunks of less and more than a page, growing more than once, and
reuse of addresses given up; the theorems remove the bound. *runtime_alloc* and
*alloc32*: every function is a sequence whose length depends only on the number
of fields; four fields pass the pool's limit of three. *copying*: one word is
both scanned and an extra root; two objects give cycles, sharing and self
references; the four requests take 1 to 4 words, the string one more because of
its terminating zero, so that a space fills exactly, by one word less, and needs
to grow once, twice, in place and by moving; the theorems remove the bound. *values*: ten bits are enough for the hash to wrap, for a
difference of two small integers not to, and for a sum of hashed elements to
reach the sign bit; assignment makes equal copies, prefixes and cycles; names of
four characters pass the three that count; the theorems remove the bounds. *x86_frame*: odd and
even frames, arguments in registers and on the stack, tail calls with both,
spilled and unspilled operands, a closure, three activations at once; the theorems
remove the bound. *stack_machine*: every
instruction and every rule of the compiler occurs, each control construct as the
operand of another, patterns two deep, functions three deep with calls to
siblings and to functions of outer levels; a run that took more than 400 steps
would show as a violation of `Terminates`. *bytecode*: the first instruction is
any of the set, so that each row of both tables is used; those after it define
and use labels, strings and globals before and after one another; two bytes are
enough for negative and multi-byte integers.

Deadlock is not checked where the system stops: a phase of the collector ends, a
process exits or has no room left for another call in the bounded stack or
address space, a program halts, a listing ends.

Fairness. `GCMark`, `GCCompact` and `StackMachine` assume weak fairness of their
whole next-state relation: each is a sequential routine that nothing but its own
next step can be waiting for. `CopyingGC` assumes it of `CollectorStep` alone:
once `alloc` has called `gc`, nothing else runs until it returns, while the
program owes no step. No fairness is assumed elsewhere, and no liveness stated.

## Proofs

All for every value of the constants, checked by TLAPS.

*Assumptions.* `GCMark`: the three counts are natural numbers
(`CountAssumption`), and the marks for "no pointer into the heap" and "never
written" are no objects (`WordAssumption`). `GCCompact`: counts and sizes are
natural numbers, the stack has a word (`CountAssumption`), and the mark for "no
pointer" is no pointer (`ValueAssumption`). `HeapRegions`: pages, bytes and words
are positive numbers, requests are numbers (`RegionsAssumption`). `X86Frame`:
the numbers of parameters, locals and slots are natural numbers, the stack has a
word, and main, which captures nothing, has two parameters that both find a
register (`ShapesAssumption`). `CopyingGC`: the first space is not empty and places
are aligned and not zero (`SpacesAssumption`), the requests are texts or lists of
the program's words (`RequestsAssumption`). `RuntimeValues`: half a word has a
multiple of four values, more than four, and names are made of at least two
characters (`WidthsAssumption`); the first objects have the layout of `IsObject`,
and what the program stores or compares is in the range above
(`ValuesAssumption`); the tags of the characters that count fit a quarter of a
word, and a constructor's name begins with a letter, as the syntax demands
(`TagsAssumption`). `RuntimeProtocol`: lists of three
arguments and a pool of three words at least, as the longest fixed list and the
deepest nesting of registered words need (`ConstantsAssumption`; the code's pool
has 32), and in `RuntimeAlloc` and `RuntimeAlloc32` the functions are those of
their runtime (`FunctionsAssumption`), any set of which may be called. TLC
evaluates each in the runs. What a heap looks like is part of `Init`: objects tile it, each at least as long as
its header, pointers lead to contents of objects, and the frame words at the two
ends of the stack hold no pointer (a saved `rbp`, a return address).

*Mark* (`CollectorProofs`: `TypeCorrect`, `QueueCorrect`, `QueueBounded`,
`TriColourInvariant`, `MarkSound`, `MarkComplete`, `Refinement`). The invariant
is `IInv` = `TypeOK`, `QueueIsSound`, `ScanIsInStep`, `NoBlackToWhite`,
`MarksOnlyReachable`. None of the parts is inductive alone. `NoBlackToWhite`
needs `ScanIsInStep`, which says that the object being scanned is marked and that
the roots already met are; `Dequeue` keeps it only because `QueueIsSound` says
that the word it reads is an entry of this call, not one left from an earlier
one. `QueueFitsInHeap` is a pigeon-hole argument (`RoomForOneMore`): the entries
of one call are distinct objects and the next one is none of them, so fewer than
`N` words are taken. `MarksAllReachable` follows at the end from the empty
queue: no grey object is left, so the black set is closed and holds the roots.
Reachability is stated over all sets that hold the roots and are closed under
fields, which needs no induction over paths. `QueueFitsInHeap` and
`NoBlackToWhite` are proved and no longer model-checked: the other properties of
the run fail whenever they do.

*Compact* (`GCCompactProofs`: `TypeCorrect`, `SlidingIsSafe`,
`CompactionPreservesGraph`, `NoDangling`, `CompactedHeap`, `AllocationFits`).
`IInv` = `TypeOK`, `Given`, `ForwardsSlideDown`, `ReferencesFollow`,
`WordsInPlace`, `RegionsInStep`. It ties each loop's position to what is done:
objects located so far have forward addresses that are dense, in the order of
the objects and not above the objects themselves; fields and roots the loops
have passed lead to the new chunk and the others are as they were; every word is
in place until objects move, and then live objects the loop has passed are whole
at their forward address and those ahead are untouched. `SlidingIsSafe` rests on
`ForwardsSlideDown`: a move ends at or below the end of its object, hence never
reaches one ahead, and starts above the end of those moved before. The graph
theorem also needs that the header a fix reads is still where the old chunk had
it, and that a root in the stack, fixed by `UpdateStack`, is not fixed again
through the pool. `NoDanglingPointer` and `HeapIsDense` are proved only.

*Heap chunk* (`CollectorProofs`: `HeapStaysMapped`, `AllocationSucceeds`). The
two properties are inductive together. The point of the first is that `munmap`
is given a number of words: `UnmapsOnlyTheHeap` shows that so many bytes never
reach beyond the pages of the old chunk, and `PlacesAreFree` that the new chunk
has no page in common with it, so that too little is given back and never too
much. The second is `NextHeapHasRoom`, from the request being counted in the new
size.

*Frames* (`X86FrameProofs`: `CallsRestoreTheStack`, `SafePointsAreAligned`).
Neither property is inductive: both speak of the running function, and a return
depends on what its caller's sequence pushed. `IInv` says it of the whole stack
of activations (`Stacked`): each lies directly above what its caller's call
sequence pushed, ends on an even number of words, and only main's frame has a
word of alignment; a runtime call under way is undone by what it recorded.
`SequenceIsBalanced` is the heart: the words pushed before a call are the words
dropped and popped after it, and even in number, however many registers and
arguments there are.

*Live values* (`X86FrameProofs`: `LiveValuesStayCurrent`, `FramesAreTyped`).
`LiveValuesAreCurrent` speaks of the running function; a return makes another one
run, whose values lay in words and in registers all the while. `LInv` therefore
holds of every activation: it keeps to its frame (`Fits`), the words it needs,
with those its caller's sequence will pop, hold no old pointer, the registers it
needs are among those that the call it waits for has pushed, and activations do
not overlap. `LiveAreProtected` is the part about `protect_registers`: what is
needed afterwards is pushed, and what is pushed is needed, so clean, but for main's
two argument registers (`Kept`). The frame
layout (`FrameLayout`, `ParameterWord`, `LocalWord`, `OperandWord`) is arithmetic
for any number of registers and slots. It rests on `IInv` of *Frames*.

*Stale roots* (`X86FrameProofs`: `NoOtherRootIsStale`). `StaleRootsAreKnown` speaks
of every word that the collector scans, those nobody needs included. `SInv`: until
main starts no word is old; main is the oldest activation and no other; from then
on each word of the stack is clean, or in the slot that some activation's frame
leaves unfilled, or where main's sequence saved an argument register (`MayBeStale`).
A call keeps it because what it pushes is clean or one of main's argument
registers (`Pushes`), and the prologue fills the frame but for that slot
(`FrameIsFilled`); a tail call, because it moves arguments into words that stay in
use (`Refills`). A return gives up words and changes none below. That what is
pushed or stored is clean is `LInv` of *Live values*, on which it rests.

*Copying* (`CopyingGCProofs`: `CopyingSpacesAreSound`). The hard part is that
`to_space`, no larger than `from_space` was, never overflows, whatever the graph.
`IInv` says it by counting: `to_space` is filled exactly as far as the bytes of
`from_space` that belong to copied originals (`Room`), of which there are never
more than `from_space` has, and one original not yet copied leaves its bytes over.
That needs each copy to be of one original and each forward address to lead to a
copy (`Copies`), that `gc_copy` takes from the tag the words `alloc` gave
(`SizesAgree`), and that every element of a copy leads out of `from_space` or is
still to be written by an activation of `gc_copy` (`WorkOK`, `Filled`). Words
already scanned no longer lead into `from_space` and the others lead into one of
the two (`RootsOK`): a word that is visited twice leads to its copy, is not
recognised, and is kept. After a move the space collected is the former
`to_space` and the argument starts over.

*Transparency* (`CopyingGCProofs`: `CollectionIsTransparent`). Its hypothesis
`TextHasNoZero` says that no requested string has a zero character: `gc_copy` loses
what follows one (Disagreements), and the refinement is then false. `GInv` adds
to `IInv`: `Faithful`, an element of a copy stands for what the original's does or
an activation of `gc_copy` has yet to write it; `Chain`, each activation is for
the element at which the one below it waits, or for the root being scanned;
`AllReached`, nothing unreachable is in the space, which makes the copied objects
all of them when the roots are done (`AllCopied`: the copies' originals hold the
roots and are closed); and `Text`. Reachability is a smallest closed set at both
levels, and identities, one for each object of a space, carry closed sets from
one level to the other, so that no induction over paths is needed. Steps of the
collector then leave the abstract words and objects alone, `Finish` and
`AllocFits` are `New`, and `Move` and `SetField` are themselves.

*Root discipline* (`RuntimeProtocolProofs`; `RuntimeAllocProofs`:
`RuntimeUsesAreCurrent`, `RuntimeRootsAreCurrent`, `RuntimeChecksPass`,
`RuntimeCallsAreBalanced`, `OnlyLongLiteralsFillThePool`; `RuntimeAlloc32Proofs`:
`OnlyConsPassesStaleWords`, `Runtime32ChecksPass`, `Runtime32CallsAreBalanced`). What a word holds
depends on every collection since it was written, in whichever function called
by whichever, so none of the properties is inductive. The proof reads a function
the way a type checker would. A *discipline* says of each function what holds
before each of its steps: which words it has in the pool (`held`), whether it is
between `PRE_GC` and `POST_GC` (`inside`), which of its words are not stale
(`live`) and which are pointers to objects (`fresh`). `WellTyped` is the local
condition: each step leads from what holds before it to what holds after it; at
an allocation or a call, only what is in the pool, what stands in the scanned
Lama stack and, in `LreadLine` and `Lfread`, the frame itself stays live.
`ProtocolInv` ties the discipline to a state: the pool is `global_sysargs` and
then, frame by frame, the words of each frame's current point; `__gc_stack_top`
is the outermost frame whose point is inside; a live word is not stale, a fresh
one is current, unless it waits for the result of a call under way. The first
module proves that well-typed functions keep `ProtocolInv`, one lemma for each
action, without knowing any function; a function's `rank` bounds how deep calls
nest below it. The second module gives the discipline of the 64-bit runtime and
proves it well typed. Most functions are fixed sequences of steps; `Barray`,
`Bsexp`, `Bclosure` and `set_args` have loops, and are typed for every number of
arguments. The run checks a pool of three words; the fifth theorem is the count
behind the code's 32: the words in the pool and those that the calls
under way have still to push fit it, save for a literal as long as the pool.

The third module types the functions of the 32-bit runtime, whose arguments are
C parameters: a collection visits them where compiled code left them (`scanned`)
and not in the frame of a function called by another, so that `Bstring` keeps its
parameter only while it is registered. `Barray` and `Bsexp` rest on being called
by compiled code. One call breaks that rule, `:` passing copies to `Bsexp`; the
discipline marks it (`lax`), and `ProtocolInv` then does not say which words of
the frames called are stale, all the rest of the protocol being kept there too.
`Bclosure` registers words beyond its arguments (`Older`) and removes them in the
reverse order, for any number of captured values. The `__post_gc` of this
runtime keeps no flag: it clears `__gc_stack_top` when the frame that ends is the
one it points to, which `GuardFits` shows to be the frame that set it.

*Values* (`RuntimeValuesProofs`: `Typed`, `Linear`, `HashAgrees`,
`PatternsAgree`, `TagsAgree`). The inductive invariant is `TypeOK`: an assignment
keeps objects what they are. `TypeOK` is proved and is no invariant of the run. Each of the four properties follows from it in every
heap, but speaks of functions that call themselves along the graph, so the proof
needs induction over depth. An induction theorem takes an operator as a parameter,
which the provers cannot instantiate; `Induction` takes a set of numbers
instead, and is proved from the well-foundedness of `<`. From it come that a
recursion defines a function (`RecursionExists`), so that `compare`,
`inner_hash`, `alike`, `Deep` and `TagSpace` are what their equations say
(`compareIs` and its like), and that a fold carries its base through the
sequence (`FoldAlong`).

`Linear` goes by levels: if the answers for elements are antisymmetric and
transitive on a set `D` of words (`Orders`), those for values whose elements lie
in `D` are (`CompareStep`), because both ways of combining answers keep these
facts: the first difference of two sequences (`FirstOpposite`, `FirstFollows`),
and one criterion after another (`LexOpposite`, `LexFollows`). `Follows` is
transitivity together with what equality needs: zero only if both are. Integers
come before objects, objects before other addresses (`Rank`). A value that
is not cyclic belongs to level N + 1 in a heap of N objects (`Shallow`,
`CompareOrders`). The same levels give that zero is the answer exactly for what is
alike (`CompareTells`). `strcmp` is the first difference of two texts extended
with zeros (`StringDifferenceIs`), which makes it an order too.

`HashAgrees`: values that are alike to any depth hash alike to any depth
(`AlikeHashAlike`), although `Lhash` looks less deep than `Lcompare`. It needs
`TextHasNoZero`, since the length that is hashed counts what follows a zero.
`TagsAgree`: the tags of a name's beginnings (`TagsOf`) are what the loops of the
compiler and of the runtime go through and what `de_hash` goes back through; a
beginning that starts with a letter has a positive tag, below the number of tags
of its length (`TagBounds`), so `de_hash` stops neither early nor late.
`PatternsAgree` goes kind by kind.

*Model-checked only.* Liveness (`Terminates` of three modules, `CollectionsEnd`):
outside the prover's reach, as is anything with `ENABLED`. `LamaEval`,
`SMCompile`, `StackMachine`, `Bytecode`: recursive operators over programs, code
and bytes, of which the provers can say nothing.

## Disagreements

Where code and its documentation, or two parts of the code, disagree. The first
two have runs with `expect: violation`, quoted with lines in `PROJECT.json`; the
others are stated as exceptions in properties or left out of the inputs, as
said.

1. `x86_garbage`: with an odd number of words in a frame its first slot keeps
   what an earlier call left, although the code generator's comment rules
   garbage out (`X86_64.ml:153`). There is a second source: main's two parameters
   (`SM.ml:1659`) make `live_registers` (`X86_64.ml:1380`) save `rdi` and `rsi`
   at every call that main makes, and since `set_args` (`X86_64.ml:908`) these hold
   what C left in them. Nothing reads either kind of word, and the collector's
   range check makes it harmless unless the leftover is an address of the heap.
   `StaleRootsAreKnown` says that there is no third source, and is proved.
2. `sm_recapture`: assignment to a captured variable, then a call of an inner
   function that reads it: the inner function reads another copy.
3. `LreadLine` and `Lfread` (64-bit) have no `PRE_GC`; when their callee
   allocates, their own C frame lies in the scanned range, although `gc.h:92` says
   that Lama's stack never interleaves with the runtime's activation records. `RootsAreCurrent` excepts exactly these
   frames.
4. `munmap` is given words where it takes bytes (`gc.c:299`, and `gc.c:608` in
   `__shutdown`, which `gc.h:120` says deallocates all objects): most of each old
   chunk stays mapped.
   `HeapRegions` models what the code does, and `HeapStaysMapped` shows that it
   is a leak only.
5. `#box` matches closures in the stack machine and not in the reference
   interpreter; a built-in function as a value fails in the stack machine. Both
   are left out of the programs of `stack_machine`.
6. The 32-bit `gc_copy` copies a string with `strcpy`, which stops at a zero
   character: a string that `Bsta` stored a zero into loses what follows
   (`runtime32/runtime.c:1804`). The strings of `copying` have no zeros;
   `Strcpy` is modelled as it is.
7. `Lcompare` subtracts two 63-bit integers and wraps, so that it is no order on
   integers far apart; `CompareIsLinear` is checked and proved for integers of
   which no two are so far apart. `LflatCompare` has its own rule for an object and an integer and is
   not antisymmetric.
8. Constructors that agree in their first ten characters are one to a pattern
   match; the manual (`06.limitations.tex:12`) says nine.
9. The 32-bit `Ls__Infix_58` copies its operands before it calls `Bsexp` and
   registers the originals: a collection leaves the copies stale
   (`OnlyConsUsesStale`).
10. The 32-bit `Lclone` of an integer returns between `__pre_gc` and `__post_gc`,
    so `__gc_stack_top` stays set. The function is left out of `alloc32`;
    with it, `CallsAreBalanced` fails.
11. `Lcompare` reads strings up to their first zero, `inner_hash` hashes their
    length as well (`runtime.c:571`): two strings that differ behind a zero are
    equal and hash differently. `HashFollowsCompare` is stated for heaps without
    such strings (`TextHasNoZero`).
12. Byte code: a call of an `EXTERN` symbol is an undefined label, so a unit that
    imports anything cannot be written; a constant beyond 32 bits is cut; a
    function named like a built-in is written as the built-in.

## Not modelled

- Parsing and the infix table, pretty printing, the driver, formatting of values
  and of listings (the string buffer, `printValue`, variadic unboxing), file and
  regular expression wrappers, debugging code of the collectors: text, input or
  output. A failure of the file system ends the process.
- `X86_32.ml`: the earlier code generator, whose calls are taken as they reach
  the 32-bit runtime. The arithmetic, jumps and data sections of `X86_64.ml`,
  where a conditional jump shifts its operand in place (line 754): instruction
  selection without state beyond what `X86Frame` has.
- In `X86Frame`: the calls that main's prologue makes to the `init` functions of
  imported units (`X86_64.ml:914`). The stack is aligned there, no register is
  saved and the result is dropped; such a unit's code is compiled as a function
  without parameters, which the model calls from main's body instead.
- `gc.c:284` copies into the new chunk before it tests what `mmap` answered; the
  model ends the process either way, in one step.
- In `values`: tags of names that begin with `_`, whose first character counts
  for nothing, as a leading zero.
- In `copying` and `alloc32`: `fix_unboxed`'s reading of raw integers among the
  arguments of `printf` (`runtime32/runtime.c:1224`).
- In `bytecode`: `read_file`'s allocation, whose header is shorter than the
  structure on a 64-bit host (`byterun.c:60`), and the area of globals, counted
  and not used (line 79).
- The library: AVL trees (`Collection.lama`), `Lazy`, `findArray`
  (`Array.lama:82`, whose loop does not advance), parser combinators. These are
  Lama programs; the model of the language that could run them is bounded to
  small ones.

## Plan

Done: both collectors and the heap chunk, the root discipline of both runtimes,
compare, hash and patterns, and the frames of compiled code, all with proofs; the
stack-machine compiler and interpreter; byte code.

Left to model, in the order of their worth:

1. `Collection`: AVL insertion and deletion against sets and maps, over all
   sequences of operations up to a bound; `Lazy`; memo tables.
2. `ClosureAnalysis`: the fix-point of `propagate_closures` over all small call
   graphs, against the least sets closed under calls. It runs inside `SMCompile`
   now, on the call graphs of the families.
3. A composition of mark, compact and the chunk as one collection that refines
   `ObjectStore`, as `CopyingGC` does.
4. `Infix`: the operator table of the parser under `before`, `after` and `at`.
