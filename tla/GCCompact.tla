------------------------------ MODULE GCCompact ------------------------------
(***************************************************************************)
(* compact_phase of src/runtime/gc.c: LISP2 sliding compaction into a      *)
(* freshly mapped region.                                                  *)
(*                                                                         *)
(* compute_locations walks the heap and stores in every marked object the  *)
(* address it will slide to; a region large enough is mapped and the old   *)
(* one copied to it; update_references redirects the fields of the marked  *)
(* objects, the words of the stack, the extra roots and the global area;   *)
(* physically_relocate slides the objects down, within the new region; the *)
(* old region is unmapped.                                                 *)
(*                                                                         *)
(* Memory is a sequence of words.  A word of the heap is identified by the *)
(* object it belongs to and its index in that object, so a word written    *)
(* over shows; what the words hold is in fields and forward.  A pointer is *)
(* a chunk and a word offset in it, and points behind the object's header. *)
(***************************************************************************)
EXTENDS Integers

CONSTANTS
  N,          \* objects in the heap, numbered in address order
  FieldWords, \* words of an object a field iterator can visit, at most
  HeapWords,  \* bound on the words in use when the collection starts
  StackWords, \* words from __gc_stack_top to __gc_stack_bottom
  CCells,     \* cells of C frames that extra roots may point at
  GlobalWords,\* words of the custom_data section
  ExtraRoots, \* extra_roots.current_free
  HeapSizes,  \* possible values of heap.size
  Requests,   \* possible values of additional_size
  NotHeap,    \* a word that is no pointer into the heap
  MinimumHeapCapacity

ASSUME CountAssumption ==
  /\ N \in Nat /\ FieldWords \in Nat /\ HeapWords \in Nat
  /\ StackWords \in Nat \ {0} /\ CCells \in Nat /\ GlobalWords \in Nat
  /\ ExtraRoots \in Nat
  /\ HeapSizes \subseteq Nat /\ Requests \subseteq Nat
  /\ MinimumHeapCapacity \in Nat

HeaderWords == 2   \* DATA_HEADER_SZ
ExtraRoomHeapCoefficient == 2

Obj   == 1..N
Field == 1..FieldWords
Extra == 1..ExtraRoots

\* Addresses of root words.  The Lama stack is [StackTop, StackBottom); C
\* frames lie below it, custom_data above.
StackTop    == 0
StackBottom == StackWords
StartCustom == StackBottom + 2
StopCustom  == StartCustom + GlobalWords
Cell == (-CCells..-1) \union (StackTop..StackBottom) \union (StartCustom..StopCustom)

\* the words gc_root_scan_stack and scan_global_area mark from
MarkedStack  == (StackTop + 1)..(StackBottom - 1)
MarkedGlobal == StartCustom..(StopCustom - 1)

Chunk   == {"old", "new"}
Pointer == Chunk \X Nat
Value   == Pointer \union {NotHeap}

ASSUME ValueAssumption == NotHeap \notin Pointer

VARIABLES
  start,   \* start[o]: offset of o's header; start[N + 1] is old.current
  live,    \* the objects the mark phase marked
  fields,  \* fields[o][f]: word f of object o, in the copy being worked on
  cells,   \* cells[a]: the root word at address a
  extra,   \* extra[i]: the address in extra_roots.roots[i]
  marked,  \* objects whose mark bit is set
  forward, \* forward[o]: forward_address, as an offset from old.begin
  free,    \* free_ptr of compute_locations, its result when it has ended
  scan,    \* the iterator of the loop that runs: object, index or offset
  mem,     \* mem[w]: which word of which object lies at offset w of the heap
  size,    \* heap.size
  current, \* heap.current, as an offset from heap.begin
  request, \* additional_size
  mapped,  \* chunks that are mapped
  pc,
  fields0, \* history: fields and cells when the collection starts
  cells0

layout == <<start, live, extra, request, fields0, cells0>>
vars == <<start, live, fields, cells, extra, marked, forward, free, scan, mem,
          size, current, request, mapped, pc, fields0, cells0>>

SizeOf(o)  == start[o + 1] - start[o]
Content(o) == start[o] + HeaderWords
OldPointer(o) == <<"old", Content(o)>>
NewPointer(o) == <<"new", forward[o] + HeaderWords>>

\* Objects lie one behind the other from heap.begin.
Layout ==
  /\ start \in [1..(N + 1) -> 0..HeapWords]
  /\ start[1] = 0
  /\ \A o \in Obj : SizeOf(o) >= HeaderWords
  /\ \A i, j \in 1..(N + 1) : i < j => start[i] < start[j]
  /\ \A w \in 0..(start[N + 1] - 1) : \E o \in Obj : start[o] <= w /\ w < start[o + 1]

\* A pointer leads to the content of an object; a word beyond an object's end
\* is none of its fields.
WellFormedFields ==
  \A o \in Obj : \A f \in Field :
    \/ fields[o][f] = NotHeap
    \/ /\ HeaderWords + f <= SizeOf(o)
       /\ \E t \in Obj : fields[o][f] = OldPointer(t)

\* The cells a mark phase starts from.
RootCells == MarkedStack \union MarkedGlobal \union {extra[i] : i \in Extra}

\* What the mark phase guarantees (GCMark, MarksAllReachable) of fields fs and
\* root words cs: they lead to live objects.
MarkPhaseDone(fs, cs) ==
  /\ \A o \in live : \A f \in Field :
       fs[o][f] \in {OldPointer(t) : t \in live} \union {NotHeap}
  /\ \A a \in RootCells : cs[a] \in {OldPointer(t) : t \in live} \union {NotHeap}

\* The word at __gc_stack_top (a saved rbp) and the one at __gc_stack_bottom (a
\* return address) are no heap pointers, and no extra root points at them; the
\* word behind custom_data is no cell of the program.
FrameWords(cs) ==
  /\ cs[StackTop] = NotHeap /\ cs[StackBottom] = NotHeap /\ cs[StopCustom] = NotHeap
  /\ \A i \in Extra : extra[i] \notin {StackTop, StackBottom, StopCustom}

\* the word of an object the layout puts at offset w
WordAt(w) ==
  CHOOSE x \in Obj \X (0..HeapWords) : start[x[1]] + x[2] = w /\ x[2] < SizeOf(x[1])

Init ==
  /\ Layout
  /\ live \in SUBSET Obj
  /\ fields \in [Obj -> [Field -> {NotHeap} \union {OldPointer(o) : o \in Obj}]]
  /\ WellFormedFields
  /\ extra \in [Extra -> Cell]
  /\ cells \in [Cell -> {NotHeap} \union {OldPointer(o) : o \in live}]
  /\ FrameWords(cells)
  /\ MarkPhaseDone(fields, cells)
  /\ marked = live
  /\ forward = [o \in Obj |-> 0]
  /\ free = 0
  /\ scan = 1
  /\ mem = [w \in 0..(start[N + 1] - 1) |-> WordAt(w)]
  /\ size \in {s \in HeapSizes : s >= start[N + 1]}
  /\ current = start[N + 1]
  /\ request \in {r \in Requests : current + r > size}
  /\ mapped = {"old"}
  /\ pc = "locate"
  /\ fields0 = fields
  /\ cells0 = cells

-----------------------------------------------------------------------------
Larger(a, b) == IF a >= b THEN a ELSE b

\* mistake: content_offset is subtracted
ContentBelowHeader(v) ==
  LET header == v[2] - HeaderWords
  IN  <<"new", forward[mem[header][1]] - HeaderWords>>

\* new_addr + content_offset for the pointer v: the forward address is read
\* from the header in the new copy, which lies where it lay in the old one.
NewAddress(v) ==
  LET header == v[2] - HeaderWords
  IN  NewPointer(mem[header][1])

\* the test every fix makes: even, and in [old_heap->begin, old_heap->current]
PointsToOldHeap(v) == v # NotHeap /\ v[1] = "old" /\ v[2] <= start[N + 1]

Fixed(v) == IF PointsToOldHeap(v) THEN NewAddress(v) ELSE v

\* scan_and_fix_region
FixRegion(region) ==
  cells' = [a \in Cell |-> IF a \in region THEN Fixed(cells[a]) ELSE cells[a]]

\* mistake: the size of the content, without the header
LocateContentOnly ==
  /\ pc = "locate" /\ scan <= N
  /\ scan' = scan + 1
  /\ \/ /\ scan \in marked
        /\ forward' = [forward EXCEPT ![scan] = free]
        /\ free' = free + SizeOf(scan) - HeaderWords
     \/ /\ scan \notin marked
        /\ UNCHANGED <<forward, free>>
  /\ UNCHANGED <<layout, fields, cells, marked, mem, size, current, mapped, pc>>

\* one object of compute_locations
Locate ==
  /\ pc = "locate" /\ scan <= N
  /\ scan' = scan + 1
  /\ \/ /\ scan \in marked
        /\ forward' = [forward EXCEPT ![scan] = free]
        /\ free' = free + SizeOf(scan)
     \/ /\ scan \notin marked
        /\ UNCHANGED <<forward, free>>
  /\ UNCHANGED <<layout, fields, cells, marked, mem, size, current, mapped, pc>>

\* mistake: additional_size is left out
NextHeapSizeOfLive ==
  Larger(Larger(free * ExtraRoomHeapCoefficient, MinimumHeapCapacity), size)

NextHeapSize ==
  Larger(Larger(free * ExtraRoomHeapCoefficient + request, MinimumHeapCapacity), size)

\* mmap and memcpy, when compute_locations has returned
MapAndCopy ==
  /\ pc = "locate" /\ scan = N + 1
  /\ size' = NextHeapSize
  /\ mapped' = mapped \union {"new"}
  /\ scan' = 1
  /\ pc' = "fields"
  /\ UNCHANGED <<layout, fields, cells, marked, forward, free, mem, current>>

\* mmap fails: the process ends (memcpy runs into MAP_FAILED, its SIGSEGV
\* handler exits as the check behind it would have)
MapFails ==
  /\ pc = "locate" /\ scan = N + 1
  /\ pc' = "exited"
  /\ UNCHANGED <<layout, fields, cells, marked, forward, free, scan, mem, size,
                 current, mapped>>

\* update_references: the fields of one object
UpdateFields ==
  /\ pc = "fields" /\ scan <= N
  /\ scan' = scan + 1
  /\ fields' = IF scan \in marked
               THEN [fields EXCEPT ![scan] = [f \in Field |-> Fixed(fields[scan][f])]]
               ELSE fields
  /\ UNCHANGED <<layout, cells, marked, forward, free, mem, size, current, mapped, pc>>

\* the stack, one word further than gc_root_scan_stack marks from
UpdateStack ==
  /\ pc = "fields" /\ scan = N + 1
  /\ FixRegion((StackTop + 1)..StackBottom)
  /\ scan' = 1
  /\ pc' = "extra"
  /\ UNCHANGED <<layout, fields, marked, forward, free, mem, size, current, mapped>>

\* mistake: no lower bound, so the cells of C frames are skipped as well
SkippedBelowBottom(a) ==
  \/ a < StackBottom
  \/ StartCustom <= a /\ a <= StopCustom

\* an extra root whose cell lies on the stack or in custom_data is left to the
\* scan of that region
SkippedExtra(a) ==
  \/ StackTop <= a /\ a < StackBottom
  \/ StartCustom <= a /\ a <= StopCustom

\* scan_and_fix_region_roots: one extra root
UpdateExtra ==
  /\ pc = "extra" /\ scan <= ExtraRoots
  /\ scan' = scan + 1
  /\ cells' = IF SkippedExtra(extra[scan])
              THEN cells
              ELSE [cells EXCEPT ![extra[scan]] = Fixed(@)]
  /\ UNCHANGED <<layout, fields, marked, forward, free, mem, size, current, mapped, pc>>

UpdateGlobal ==
  /\ pc = "extra" /\ scan = ExtraRoots + 1
  /\ FixRegion(StartCustom..(StopCustom - 1))
  /\ scan' = 0
  /\ pc' = "relocate"
  /\ UNCHANGED <<layout, fields, marked, forward, free, mem, size, current, mapped>>

MemMove(to, from, len) ==
  mem' = [w \in DOMAIN mem |-> IF to <= w /\ w < to + len THEN mem[from + (w - to)] ELSE mem[w]]

\* mistake: an unmarked object is not stepped over
RelocateMarkedOnly ==
  /\ pc = "relocate" /\ scan < current
  /\ LET o == mem[scan][1] IN
       \/ /\ o \in marked
          /\ MemMove(forward[o], scan, SizeOf(o))
          /\ marked' = marked \ {o}
          /\ scan' = scan + SizeOf(o)
       \/ /\ o \notin marked
          /\ UNCHANGED <<mem, marked, scan>>
  /\ UNCHANGED <<layout, fields, cells, forward, free, size, current, mapped, pc>>

\* physically_relocate: one object, whose header is the one found at scan; the
\* next position is computed from it before it is moved
Relocate ==
  /\ pc = "relocate" /\ scan < current
  /\ LET o == mem[scan][1] IN
       /\ scan' = scan + SizeOf(o)
       /\ \/ /\ o \in marked
             /\ MemMove(forward[o], scan, SizeOf(o))
             /\ marked' = marked \ {o}
          \/ /\ o \notin marked
             /\ UNCHANGED <<mem, marked>>
  /\ UNCHANGED <<layout, fields, cells, forward, free, size, current, mapped, pc>>

\* heap.current is reset and the old region unmapped
Finish ==
  /\ pc = "relocate" /\ scan >= current
  /\ current' = free
  /\ mapped' = mapped \ {"old"}
  /\ pc' = "done"
  /\ UNCHANGED <<layout, fields, cells, marked, forward, free, scan, mem, size>>

Next ==
  \/ Locate
  \/ MapAndCopy
  \/ MapFails
  \/ UpdateFields
  \/ UpdateStack
  \/ UpdateExtra
  \/ UpdateGlobal
  \/ Relocate
  \/ Finish

\* The collector is one sequential call: it keeps running while it can.
Spec == Init /\ [][Next]_vars /\ WF_vars(Next)

-----------------------------------------------------------------------------
TypeOK ==
  /\ start \in [1..(N + 1) -> 0..HeapWords]
  /\ live \subseteq Obj /\ marked \subseteq live
  /\ fields \in [Obj -> [Field -> Value]] /\ fields0 \in [Obj -> [Field -> Value]]
  /\ cells \in [Cell -> Value] /\ cells0 \in [Cell -> Value]
  /\ extra \in [Extra -> Cell]
  /\ forward \in [Obj -> Nat]
  /\ free \in Nat /\ scan \in Nat /\ size \in Nat /\ current \in Nat /\ request \in Nat
  /\ mem \in [0..(start[N + 1] - 1) -> Obj \X Nat]
  /\ mapped \subseteq Chunk
  /\ pc \in {"locate", "fields", "extra", "relocate", "done", "exited"}

\* all the words of object o lie, in order, from offset a on
IntactAt(o, a) == \A k \in 0..(SizeOf(o) - 1) : mem[a + k] = <<o, k>>

\* v is the new address of the object v0 is the old address of
SameObject(v0, v) ==
  \/ v0 = NotHeap /\ v = NotHeap
  \/ \E t \in live : v0 = OldPointer(t) /\ v = NewPointer(t)

\* Sliding loses nothing: while objects are moved, those still to be visited
\* are untouched where the heap iterator will look for them, and the live ones
\* it has passed are whole at their forward address, although source,
\* destination and neighbours overlap.
NothingOverwritten ==
  pc \in {"relocate", "done"} =>
    /\ \A o \in Obj : start[o] >= scan => IntactAt(o, start[o])
    /\ \A o \in live : start[o] < scan => IntactAt(o, forward[o])

\* After the collection the object graph is the one before it: every field of
\* every live object and every word the program can still reach holds the new
\* address of the object it held the old address of, and the mark bits are
\* clear for the next collection.
GraphPreserved ==
  pc = "done" =>
    /\ \A o \in live : \A f \in Field : SameObject(fields0[o][f], fields[o][f])
    /\ \A a \in RootCells : SameObject(cells0[a], cells[a])
    /\ marked = {}

\* No word the program can reach leads to memory that is not mapped, or beyond
\* the part of the heap in use.
NoDanglingPointer ==
  LET OnHeap(v) == v # NotHeap => v[1] \in mapped /\ v[2] <= current
  IN  /\ \A o \in live : \A f \in Field : OnHeap(fields[o][f])
      /\ \A a \in RootCells : OnHeap(cells[a])

\* The compacted heap can be walked: the live objects tile [begin, current).
HeapIsDense ==
  pc = "done" =>
    /\ \A o \in live : forward[o] + SizeOf(o) <= current
    /\ \A o, p \in live : o < p => forward[o] + SizeOf(o) <= forward[p]
    /\ \A w \in 0..(current - 1) :
          \E o \in live : forward[o] <= w /\ w < forward[o] + SizeOf(o)

\* gc_alloc's second gc_alloc_on_existing_heap cannot return NULL: the new
\* region has room for the request.
RequestFits == pc = "done" => current + request <= size

\* A collection ends.
Terminates == <>(pc \in {"done", "exited"})

-----------------------------------------------------------------------------
(* The inductive invariant behind the theorems of GCCompactProofs.         *)

\* what holds of the heap the collection was given, which no step changes
Given ==
  /\ Layout
  /\ MarkPhaseDone(fields0, cells0)
  /\ FrameWords(cells0)

\* objects compute_locations has given a forward address
Located == {o \in live : pc = "locate" => o < scan}

\* Forward addresses are dense, keep the order of the objects and never lie
\* above the object they belong to.
ForwardsSlideDown ==
  /\ pc = "locate" => scan \in 1..(N + 1) /\ free <= start[scan]
  /\ free <= start[N + 1]
  /\ pc = "exited" => scan = N + 1
  /\ \A o \in Located : forward[o] <= start[o] /\ forward[o] + SizeOf(o) <= free
  /\ \A o, p \in Located : o < p => forward[o] + SizeOf(o) <= forward[p]
  /\ \A w \in 0..(free - 1) :
       \E o \in Located : forward[o] <= w /\ w < forward[o] + SizeOf(o)

\* live objects whose fields lead to the new region
FixedObjects ==
  IF pc \in {"locate", "exited"} THEN {} ELSE {o \in live : pc = "fields" => o < scan}

\* root cells that lead to the new region
FixedCells ==
  {a \in RootCells :
     \/ pc \in {"relocate", "done"}
     \/ /\ pc = "extra"
        /\ \/ a \in MarkedStack
           \/ \E i \in Extra : i < scan /\ ~SkippedExtra(extra[i]) /\ a = extra[i]}

ReferencesFollow ==
  /\ pc = "fields" => scan \in 1..(N + 1)
  /\ pc = "extra" => scan \in 1..(ExtraRoots + 1)
  /\ \A o \in live : \A f \in Field :
       IF o \in FixedObjects THEN SameObject(fields0[o][f], fields[o][f])
                            ELSE fields[o][f] = fields0[o][f]
  /\ \A a \in RootCells :
       IF a \in FixedCells THEN SameObject(cells0[a], cells[a]) ELSE cells[a] = cells0[a]
  /\ cells[StackBottom] = NotHeap

WordsInPlace ==
  /\ pc \in {"locate", "fields", "extra"} =>
       marked = live /\ \A o \in Obj : IntactAt(o, start[o])
  /\ pc = "relocate" => \E i \in 1..(N + 1) : scan = start[i]
  /\ pc \in {"relocate", "done"} => marked = {o \in live : start[o] >= scan}
  /\ pc = "done" => scan >= start[N + 1]
  /\ NothingOverwritten

RegionsInStep ==
  /\ current = IF pc = "done" THEN free ELSE start[N + 1]
  /\ "old" \in mapped <=> pc # "done"
  /\ "new" \in mapped <=> pc \notin {"locate", "exited"}
  /\ pc \notin {"locate", "exited"} => free * ExtraRoomHeapCoefficient + request <= size

IInv ==
  /\ TypeOK
  /\ Given
  /\ ForwardsSlideDown
  /\ ReferencesFollow
  /\ WordsInPlace
  /\ RegionsInStep
=============================================================================
