---------------------------- MODULE HeapRegions ----------------------------
(***************************************************************************)
(* The memory under the heap (src/runtime/gc.c): __init maps the first     *)
(* chunk, alloc takes words from it, gc_alloc replaces it by a chunk that  *)
(* is at least as large, __shutdown gives it back.  Which objects live,    *)
(* and how they move, is the subject of GCMark and GCCompact; here a       *)
(* collection only has a number of live words.                             *)
(*                                                                         *)
(* mmap and munmap work on whole pages and take their length in bytes,     *)
(* while a chunk's size counts words.                                      *)
(***************************************************************************)
EXTENDS Integers, FiniteSets

CONSTANTS
  Pages,                \* pages of the address space, 0 .. Pages - 1
  PageBytes,            \* bytes in a page
  WordBytes,            \* bytes in a word, sizeof (size_t)
  InitHeapSize,         \* INIT_HEAP_SIZE, words
  MinimumHeapCapacity,  \* MINIMUM_HEAP_CAPACITY, words
  Requests              \* sizes of allocations, words

ASSUME RegionsAssumption ==
  /\ Pages \in Nat
  /\ PageBytes \in Nat \ {0} /\ WordBytes \in Nat \ {0}
  /\ InitHeapSize \in Nat \ {0} /\ MinimumHeapCapacity \in Nat \ {0}
  /\ Requests \subseteq Nat

VARIABLES
  mapped,   \* pages the process has mapped
  begin,    \* first page of the heap, -1 when there is none
  size,     \* heap.size, words
  current,  \* words in use, heap.current - heap.begin
  got,      \* the last answer of alloc: its offset, -1 for NULL
  exited    \* mmap failed

regionsVars == <<mapped, begin, size, current, got, exited>>

Larger(a, b) == IF a > b THEN a ELSE b

\* EXTRA_ROOM_HEAP_COEFFICIENT
Coefficient == 2

\* WORDS_TO_BYTES
Bytes(words) == words * WordBytes

\* The kernel rounds a length up to whole pages.
PagesOf(bytes) == (bytes + PageBytes - 1) \div PageBytes

Region(first, n) == first .. first + n - 1

HeapPages == IF begin = -1 THEN {} ELSE Region(begin, PagesOf(Bytes(size)))

\* mmap (NULL, bytes): any place that is free.
Places(bytes) ==
  {p \in 0 .. Pages - 1 : /\ p + PagesOf(bytes) <= Pages
                          /\ Region(p, PagesOf(bytes)) \cap mapped = {}}

\* Mutant: a page too many.
UnmappedOneMore(first, words) == Region(first, PagesOf(Bytes(words)) + 1)

\* munmap (first, size), as compact_phase and __shutdown call it: the length
\* is a number of words.
Unmapped(first, words) == Region(first, PagesOf(words))

RegionsInit == /\ mapped = {}
               /\ begin = -1
               /\ size = 0
               /\ current = 0
               /\ got = 0
               /\ exited = FALSE

\* __init
InitHeap == /\ ~exited
            /\ begin = -1
            /\ \E p \in Places(Bytes(InitHeapSize)) :
                 /\ begin' = p
                 /\ mapped' = mapped \union Region(p, PagesOf(Bytes(InitHeapSize)))
            /\ size' = InitHeapSize
            /\ current' = 0
            /\ UNCHANGED <<got, exited>>

\* alloc, when gc_alloc_on_existing_heap finds room.
AllocOnExistingHeap ==
  /\ ~exited
  /\ begin /= -1
  /\ \E n \in Requests : /\ current + n <= size
                         /\ current' = current + n
                         /\ got' = current
  /\ UNCHANGED <<mapped, begin, size, exited>>

\* Mutant: the request is not added.
NextHeapSizeOfLive(live, n) ==
  Larger(Larger(live * Coefficient, MinimumHeapCapacity), size)

\* compact_phase: room for the live words twice over and for the request.
NextHeapSize(live, n) ==
  Larger(Larger(live * Coefficient + n, MinimumHeapCapacity), size)

\* alloc, when it does not: gc_alloc maps a chunk, moves the live words there,
\* unmaps the old chunk and tries once more.
GCAlloc ==
  /\ ~exited
  /\ begin /= -1
  /\ \E n \in Requests, live \in 0 .. current :
       LET next == NextHeapSize(live, n)
       IN /\ current + n > size
          /\ \E p \in Places(Bytes(next)) :
               /\ begin' = p
               /\ mapped' = (mapped \union Region(p, PagesOf(Bytes(next))))
                              \ Unmapped(begin, size)
          /\ size' = next
          /\ IF live + n <= next
               THEN current' = live + n /\ got' = live
               ELSE current' = live /\ got' = -1
  /\ UNCHANGED exited

\* No place for the next chunk: the process ends.
MapFails ==
  /\ ~exited
  /\ \/ begin = -1 /\ Places(Bytes(InitHeapSize)) = {}
     \/ /\ begin /= -1
        /\ \E n \in Requests, live \in 0 .. current :
             /\ current + n > size
             /\ Places(Bytes(NextHeapSize(live, n))) = {}
  /\ exited' = TRUE
  /\ UNCHANGED <<mapped, begin, size, current, got>>

\* __shutdown
Shutdown == /\ ~exited
            /\ begin /= -1
            /\ mapped' = mapped \ Unmapped(begin, size)
            /\ begin' = -1
            /\ size' = 0
            /\ current' = 0
            /\ UNCHANGED <<got, exited>>

RegionsNext == InitHeap \/ AllocOnExistingHeap \/ GCAlloc \/ MapFails \/ Shutdown

RegionsSpec == RegionsInit /\ [][RegionsNext]_regionsVars

-----------------------------------------------------------------------------
\* The variables keep their types; the words in use lie within the chunk.
RegionsTypeOK == /\ mapped \subseteq 0 .. Pages - 1
                 /\ begin \in -1 .. Pages - 1
                 /\ size \in Nat
                 /\ current \in 0 .. size
                 /\ got \in Int
                 /\ exited \in BOOLEAN

\* Every page of the heap is mapped whatever was mapped and unmapped before:
\* no collection gives back a page of the chunk that the program goes on with,
\* and what is in use lies inside the chunk.
HeapIsMapped == RegionsTypeOK /\ HeapPages \subseteq mapped

\* alloc never answers NULL, which alloc_string and its kin do not check: the
\* chunk a collection maps has room for the live words and the request.
AllocNeverFails == got /= -1
=============================================================================
