--------------------------- MODULE CollectorProofs --------------------------
(***************************************************************************)
(* Theorems about the mark phase (GCMark), for every heap, every object    *)
(* graph and every set of roots, and about the memory under the heap       *)
(* (HeapRegions), for every address space, page size, initial size and     *)
(* sequence of requests.                                                   *)
(***************************************************************************)
EXTENDS GCMark, HeapRegions, TLAPS, FiniteSetTheorems

-----------------------------------------------------------------------------
(***************************************************************************)
(* The heap in use stays mapped, although munmap is given words where it   *)
(* takes bytes, and no allocation answers NULL.                            *)
(***************************************************************************)
\* A longer piece of memory has at least as many pages, whatever their size.
LEMMA PagesGrow ==
  ASSUME NEW a \in Nat, NEW b \in Nat, a <= b
  PROVE  /\ PagesOf(a) \in Nat
         /\ PagesOf(a) <= PagesOf(b)
  BY RegionsAssumption DEF PagesOf

\* A length in words covers no page beyond those of the chunk: what munmap is
\* asked to give back belongs to the old heap.
LEMMA UnmapsOnlyTheHeap ==
  ASSUME NEW p \in Int, NEW words \in Nat
  PROVE  Unmapped(p, words) \subseteq Region(p, PagesOf(Bytes(words)))
<1>1. Bytes(words) \in Nat /\ words <= Bytes(words)
  <2>1. WordBytes \in Nat /\ WordBytes >= 1
    BY RegionsAssumption
  <2>2. words * WordBytes \in Nat /\ words <= words * WordBytes
    BY <2>1
  <2> QED
    BY <2>2 DEF Bytes
<1>2. PagesOf(words) \in Nat /\ PagesOf(words) <= PagesOf(Bytes(words))
  BY <1>1, PagesGrow
<1>3. PagesOf(Bytes(words)) \in Nat
  BY <1>1, PagesGrow
<1> QED
  BY <1>2, <1>3 DEF Unmapped, Region

\* A chunk that mmap has found a place for lies within the address space and
\* has no page in common with what was mapped.
LEMMA PlacesAreFree ==
  ASSUME NEW words \in Nat, NEW p \in Places(Bytes(words))
  PROVE  /\ p \in 0 .. Pages - 1
         /\ Region(p, PagesOf(Bytes(words))) \subseteq 0 .. Pages - 1
         /\ Region(p, PagesOf(Bytes(words))) \cap mapped = {}
<1>1. PagesOf(Bytes(words)) \in Nat
  <2>1. Bytes(words) \in Nat
    BY RegionsAssumption DEF Bytes
  <2> QED
    BY <2>1, PagesGrow
<1>2. p \in 0 .. Pages - 1 /\ p + PagesOf(Bytes(words)) <= Pages
  BY DEF Places
<1>3. Region(p, PagesOf(Bytes(words))) \subseteq 0 .. Pages - 1
  BY <1>1, <1>2, RegionsAssumption DEF Region
<1> QED
  BY <1>2, <1>3 DEF Places

\* The next chunk has room for the live words and the request, and is not
\* smaller than the last.
LEMMA NextHeapHasRoom ==
  ASSUME NEW live \in Nat, NEW n \in Nat, size \in Nat
  PROVE  /\ NextHeapSize(live, n) \in Nat
         /\ live + n <= NextHeapSize(live, n)
         /\ size <= NextHeapSize(live, n)
<1>1. MinimumHeapCapacity \in Nat
  BY RegionsAssumption
<1> QED
  BY <1>1 DEF NextHeapSize, Larger, Coefficient

-----------------------------------------------------------------------------
LEMMA InitIsMapped == RegionsInit => HeapIsMapped /\ AllocNeverFails
<1> SUFFICES ASSUME RegionsInit
             PROVE  HeapIsMapped /\ AllocNeverFails
  OBVIOUS
<1>1. current \in 0 .. size /\ got \in Int /\ got /= -1
  BY DEF RegionsInit
<1>2. begin \in -1 .. Pages - 1 /\ size \in Nat
  BY RegionsAssumption DEF RegionsInit
<1>3. RegionsTypeOK
  BY <1>1, <1>2 DEF RegionsInit, RegionsTypeOK
<1>4. HeapPages \subseteq mapped
  BY DEF RegionsInit, HeapPages
<1> QED
  BY <1>1, <1>3, <1>4 DEF HeapIsMapped, AllocNeverFails

\* RegionsTypeOK and the mapping of the heap must be known together: where the old
\* chunk ends follows from its size, where the new one may lie from what is
\* mapped.
LEMMA StepKeepsMapped ==
  ASSUME HeapIsMapped, AllocNeverFails, [RegionsNext]_regionsVars
  PROVE  HeapIsMapped' /\ AllocNeverFails'
<1> USE DEF HeapIsMapped
<1>1. CASE InitHeap
  <2>1. PICK p \in Places(Bytes(InitHeapSize)) :
          /\ begin' = p
          /\ mapped' = mapped \union Region(p, PagesOf(Bytes(InitHeapSize)))
    BY <1>1 DEF InitHeap
  <2>2. /\ InitHeapSize \in Nat
        /\ size' = InitHeapSize /\ current' = 0 /\ got' = got /\ exited' = exited
    BY <1>1, RegionsAssumption DEF InitHeap
  <2>3. /\ p \in 0 .. Pages - 1
        /\ Region(p, PagesOf(Bytes(InitHeapSize))) \subseteq 0 .. Pages - 1
    BY <2>2, PlacesAreFree
  <2>4. RegionsTypeOK'
    <3>1. size' \in Nat /\ current' \in 0 .. size'
      BY <2>2
    <3>2. begin' \in -1 .. Pages - 1
      BY <2>1, <2>3
    <3>3. mapped' \subseteq 0 .. Pages - 1
      BY <2>1, <2>3 DEF RegionsTypeOK
    <3> QED
      BY <2>2, <3>1, <3>2, <3>3 DEF RegionsTypeOK
  <2>5. (HeapPages \subseteq mapped)'
    BY <2>1, <2>2, <2>3 DEF HeapPages
  <2> QED
    BY <2>2, <2>4, <2>5 DEF AllocNeverFails
<1>2. CASE AllocOnExistingHeap
  <2>1. PICK n \in Requests : /\ current + n <= size
                              /\ current' = current + n
                              /\ got' = current
    BY <1>2 DEF AllocOnExistingHeap
  <2>2. n \in Nat /\ UNCHANGED <<mapped, begin, size, exited>>
    BY <1>2, RegionsAssumption DEF AllocOnExistingHeap
  <2>3. RegionsTypeOK' /\ AllocNeverFails'
    BY <2>1, <2>2 DEF RegionsTypeOK, AllocNeverFails
  <2>4. (HeapPages \subseteq mapped)'
    BY <2>2 DEF HeapPages
  <2> QED
    BY <2>3, <2>4
<1>3. CASE GCAlloc
  <2>1. PICK n \in Requests, live \in 0 .. current :
          /\ \E p \in Places(Bytes(NextHeapSize(live, n))) :
               /\ begin' = p
               /\ mapped' = (mapped \union Region(p, PagesOf(Bytes(NextHeapSize(live, n)))))
                              \ Unmapped(begin, size)
          /\ size' = NextHeapSize(live, n)
          /\ IF live + n <= NextHeapSize(live, n)
               THEN current' = live + n /\ got' = live
               ELSE current' = live /\ got' = -1
    BY <1>3 DEF GCAlloc
  <2> DEFINE next  == NextHeapSize(live, n)
             fresh == Region(begin', PagesOf(Bytes(next)))
  <2>2. PICK p \in Places(Bytes(next)) :
          /\ begin' = p
          /\ mapped' = (mapped \union Region(p, PagesOf(Bytes(next)))) \ Unmapped(begin, size)
    BY <2>1
  <2>3. /\ begin \in 0 .. Pages - 1 /\ size \in Nat /\ live \in Nat /\ n \in Nat
        /\ exited' = exited
    BY <1>3, <2>1, RegionsAssumption DEF GCAlloc, RegionsTypeOK
  <2>4. next \in Nat /\ live + n <= next
    BY <2>3, NextHeapHasRoom
  <2>5. current' = live + n /\ got' = live /\ size' = next
    BY <2>1, <2>4
  <2>6. /\ begin' \in 0 .. Pages - 1
        /\ fresh \subseteq 0 .. Pages - 1
        /\ fresh \cap mapped = {}
    BY <2>2, <2>4, PlacesAreFree
  <2>7. Unmapped(begin, size) \subseteq mapped
    <3>1. Unmapped(begin, size) \subseteq Region(begin, PagesOf(Bytes(size)))
      BY <2>3, UnmapsOnlyTheHeap
    <3>2. HeapPages = Region(begin, PagesOf(Bytes(size)))
      BY <2>3 DEF HeapPages
    <3> QED
      BY <3>1, <3>2
  <2>8. fresh \subseteq mapped'
    BY <2>2, <2>6, <2>7
  <2>9. (HeapPages \subseteq mapped)'
    BY <2>5, <2>6, <2>8 DEF HeapPages
  <2>10. mapped' \subseteq 0 .. Pages - 1
    BY <2>2, <2>6 DEF RegionsTypeOK
  <2>11. RegionsTypeOK' /\ AllocNeverFails'
    BY <2>3, <2>4, <2>5, <2>6, <2>10 DEF RegionsTypeOK, AllocNeverFails
  <2> QED
    BY <2>9, <2>11
<1>4. CASE MapFails
  BY <1>4 DEF MapFails, RegionsTypeOK, HeapPages, AllocNeverFails
<1>5. CASE Shutdown
  <2>1. /\ mapped' = mapped \ Unmapped(begin, size)
        /\ begin' = -1 /\ size' = 0 /\ current' = 0 /\ UNCHANGED <<got, exited>>
    BY <1>5 DEF Shutdown
  <2>2. size' \in Nat /\ current' \in 0 .. size' /\ begin' \in -1 .. Pages - 1
    BY <2>1, RegionsAssumption
  <2>3. mapped' \subseteq 0 .. Pages - 1
    BY <2>1 DEF RegionsTypeOK
  <2>4. RegionsTypeOK' /\ AllocNeverFails'
    BY <2>1, <2>2, <2>3 DEF RegionsTypeOK, AllocNeverFails
  <2>5. (HeapPages \subseteq mapped)'
    BY <2>1 DEF HeapPages
  <2> QED
    BY <2>4, <2>5
<1>6. CASE UNCHANGED regionsVars
  BY <1>6 DEF regionsVars, RegionsTypeOK, HeapPages, AllocNeverFails
<1> QED
  BY <1>1, <1>2, <1>3, <1>4, <1>5, <1>6 DEF RegionsNext

\* Between the first __init and __shutdown, and after it, whatever was
\* allocated and collected: the pages under the heap are mapped.
THEOREM HeapStaysMapped == RegionsSpec => []HeapIsMapped
<1>1. RegionsInit => HeapIsMapped /\ AllocNeverFails
  BY InitIsMapped
<1>2. (HeapIsMapped /\ AllocNeverFails) /\ [RegionsNext]_regionsVars => (HeapIsMapped /\ AllocNeverFails)'
  BY StepKeepsMapped
<1> QED
  BY <1>1, <1>2, PTL DEF RegionsSpec

\* alloc, which retries once after a collection, never answers NULL: none of
\* its callers in runtime.c checks.
THEOREM AllocationSucceeds == RegionsSpec => []AllocNeverFails
<1>1. RegionsInit => HeapIsMapped /\ AllocNeverFails
  BY InitIsMapped
<1>2. (HeapIsMapped /\ AllocNeverFails) /\ [RegionsNext]_regionsVars => (HeapIsMapped /\ AllocNeverFails)'
  BY StepKeepsMapped
<1> QED
  BY <1>1, <1>2, PTL DEF RegionsSpec

-----------------------------------------------------------------------------
(***************************************************************************)
(* The mark phase.                                                         *)
(***************************************************************************)
USE CountAssumption, WordAssumption DEF Obj, Field, Root, Word

\* A queue of distinct objects that misses one object is shorter than the
\* heap: the tail iterator stands at an object.
LEMMA RoomForOneMore ==
  ASSUME TypeOK, QueueIsSound,
         NEW o \in Obj, \A i \in 1..(tail - 1) : forward[i] # o
  PROVE  tail \in Obj
<1> SUFFICES ASSUME tail = N + 1 PROVE FALSE
  BY DEF TypeOK
<1> DEFINE f == [i \in 1..N |-> forward[i]]
<1>1. f \in [1..N -> Obj \ {o}]
  BY DEF QueueIsSound, Grey
<1>2. IsFiniteSet(1..N) /\ Cardinality(1..N) = N
  BY FS_Interval
<1>3. IsFiniteSet(Obj \ {o}) /\ Cardinality(Obj \ {o}) = N - 1
  BY <1>2, FS_RemoveElement
<1>4. PICK x, y \in 1..N : x # y /\ f[x] = f[y]
  <2>1. N - 1 < N
    OBVIOUS
  <2>. HIDE DEF f
  <2>. QED  BY <1>1, <1>2, <1>3, <2>1, FS_PigeonHole
<1>. QED  BY <1>4 DEF QueueIsSound, Grey

\* An object neither marked nor enqueued is not in the queue, old entries
\* included.
LEMMA WhiteIsNotQueued ==
  ASSUME TypeOK, QueueIsSound, NEW o \in Obj, o \notin marked, o \notin enqueued
  PROVE  \A i \in 1..(tail - 1) : forward[i] # o
<1> SUFFICES ASSUME NEW i \in 1..(tail - 1), forward[i] = o PROVE FALSE
  OBVIOUS
<1>1. CASE i < head
  BY <1>1 DEF QueueIsSound, TypeOK
<1>2. CASE i >= head
  BY <1>2 DEF QueueIsSound, Grey, Waiting, TypeOK
<1>. QED  BY <1>1, <1>2 DEF TypeOK

LEMMA InitIInv == Init => IInv
<1> SUFFICES ASSUME Init PROVE IInv
  OBVIOUS
<1>1. TypeOK
  BY DEF Init, TypeOK
<1>2. QueueIsSound
  BY DEF Init, QueueIsSound, Grey, Waiting
<1>3. ScanIsInStep /\ NoBlackToWhite /\ MarksOnlyReachable
  BY DEF Init, ScanIsInStep, NoBlackToWhite, MarksOnlyReachable
<1>. QED  BY <1>1, <1>2, <1>3 DEF IInv

\* The effect of queue_enqueue on the queue's part of the invariant, for an
\* object that is neither marked nor in the queue.
LEMMA EnqueueKeepsQueue ==
  ASSUME TypeOK, QueueIsSound, NEW o \in Obj, o \notin marked, o \notin enqueued,
         QueueEnqueue(tail, o), UNCHANGED <<head, marked>>
  PROVE  /\ forward' \in [Obj -> Obj \union {Stale}]
         /\ tail' \in 1..(N + 1)
         /\ enqueued' \subseteq Obj
         /\ QueueIsSound'
<1>1. \A i \in 1..(tail - 1) : forward[i] # o
  BY WhiteIsNotQueued
<1>2. tail \in Obj
  BY <1>1, RoomForOneMore
<1>3. /\ tail' = tail + 1
      /\ head' = head /\ marked' = marked
      /\ forward' \in [Obj -> Obj \union {Stale}]
      /\ forward'[tail] = o
      /\ \A i \in 1..(tail - 1) : forward'[i] = forward[i]
      /\ enqueued' = enqueued \union {o}
  BY <1>2 DEF QueueEnqueue, TypeOK
<1>4. Waiting' = Waiting \union {tail}
  BY <1>3 DEF Waiting, TypeOK, QueueIsSound
<1>5. enqueued' = {forward'[i] : i \in Waiting'}
  <2>1. {forward'[i] : i \in Waiting'} = {forward'[i] : i \in Waiting} \union {o}
    BY <1>3, <1>4
  <2>2. \A i \in Waiting : forward'[i] = forward[i]
    BY <1>3 DEF Waiting, TypeOK
  <2>3. {forward'[i] : i \in Waiting} = {forward[i] : i \in Waiting}
    BY <2>2
  <2>4. enqueued = {forward[i] : i \in Waiting}
    BY DEF QueueIsSound, Grey
  <2>. QED  BY <1>3, <2>1, <2>3, <2>4
<1>6. /\ \A i \in 1..(tail' - 1) : forward'[i] \in Obj
      /\ \A i, j \in 1..(tail' - 1) : i # j => forward'[i] # forward'[j]
      /\ \A i \in 1..(head' - 1) : forward'[i] \in marked'
  <2>1. \A i \in 1..(tail' - 1) : i = tail \/ i \in 1..(tail - 1)
    BY <1>2, <1>3
  <2>2. \A i \in 1..(head' - 1) : i \in 1..(tail - 1) /\ i \in 1..(head - 1)
    BY <1>2, <1>3 DEF QueueIsSound, TypeOK
  <2>3. \A i \in 1..(tail' - 1) : forward'[i] \in Obj
    BY <1>3, <2>1 DEF QueueIsSound, Grey
  <2>4. \A i, j \in 1..(tail' - 1) : i # j => forward'[i] # forward'[j]
    <3> TAKE i, j \in 1..(tail' - 1)
    <3> HAVE i # j
    <3>1. CASE i = tail
      BY <1>1, <1>3, <2>1, <3>1
    <3>2. CASE j = tail
      BY <1>1, <1>3, <2>1, <3>2
    <3>3. CASE i \in 1..(tail - 1) /\ j \in 1..(tail - 1)
      BY <1>3, <3>3 DEF QueueIsSound, Grey
    <3>. QED  BY <2>1, <3>1, <3>2, <3>3
  <2>5. \A i \in 1..(head' - 1) : forward'[i] \in marked'
    BY <1>3, <2>2 DEF QueueIsSound, Grey
  <2>. QED  BY <2>3, <2>4, <2>5
<1>7. head' <= tail' /\ enqueued' \intersect marked' = {}
  BY <1>3 DEF QueueIsSound, TypeOK
<1>8. QueueIsSound'
  BY <1>5, <1>6, <1>7 DEF QueueIsSound, Grey
<1>. QED  BY <1>2, <1>3, <1>8 DEF TypeOK

\* The invariant is inductive.
LEMMA NextIInv == IInv /\ [Next]_vars => IInv'
<1> SUFFICES ASSUME IInv, [Next]_vars PROVE IInv'
  OBVIOUS
<1> USE DEF IInv
<1>1. CASE SkipRoot
  <2> USE <1>1 DEF SkipRoot, graph, queue
  <2>1. TypeOK'
    BY DEF TypeOK
  <2>2. QueueIsSound'
    BY DEF QueueIsSound, Grey, Waiting
  <2>3. ScanIsInStep'
    BY DEF ScanIsInStep, TypeOK, IsValidHeapPointer
  <2>4. NoBlackToWhite' /\ MarksOnlyReachable'
    BY DEF NoBlackToWhite, MarksOnlyReachable, HasRoots, Closed
  <2>. QED  BY <2>1, <2>2, <2>3, <2>4
<1>2. CASE BeginMark
  <2> USE <1>2 DEF BeginMark, graph
  <2> DEFINE o == roots[rt]
  <2>1. o \in Obj /\ o \notin marked
    BY DEF IsValidHeapPointer
  <2>2. enqueued = {}
    BY DEF ScanIsInStep, QueueIsSound, Grey, Waiting, TypeOK
  <2>3. /\ forward' = [forward EXCEPT ![1] = o]
        /\ enqueued' = {o}
        /\ tail' = 2 /\ head' = 1
        /\ 1 \in Obj
    BY <2>1, <2>2 DEF QueueEnqueue
  <2>4. TypeOK'
    BY <2>1, <2>3 DEF TypeOK
  <2>5. forward'[1] = o /\ Waiting' = {1}
    BY <2>3 DEF TypeOK, Waiting
  <2>6. QueueIsSound'
    <3>1. enqueued' = {forward'[i] : i \in Waiting'}
      BY <2>3, <2>5
    <3>2. \A i \in 1..(tail' - 1) : i = 1
      BY <2>3
    <3>. QED  BY <2>1, <2>3, <2>5, <3>1, <3>2 DEF QueueIsSound, Grey
  <2>7. ScanIsInStep'
    BY <2>3 DEF ScanIsInStep
  <2>8. NoBlackToWhite'
    BY <2>2, <2>3 DEF NoBlackToWhite
  <2>9. MarksOnlyReachable'
    <3> SUFFICES ASSUME NEW S \in SUBSET Obj, HasRoots(S), Closed(S)
                 PROVE  marked \union {o} \subseteq S
      BY <2>3 DEF MarksOnlyReachable, HasRoots, Closed
    <3>1. o \in S
      BY <2>1 DEF HasRoots
    <3>. QED  BY <3>1 DEF MarksOnlyReachable
  <2>. QED  BY <2>4, <2>6, <2>7, <2>8, <2>9
<1>3. CASE Dequeue
  <2> USE <1>3 DEF Dequeue, graph
  <2> DEFINE o == forward[head]
  <2>1. head \in Waiting /\ head \in 1..(tail - 1)
    BY DEF QueueIsSound, Grey, TypeOK, Waiting
  <2>2. o \in enqueued /\ o \in Obj /\ o \notin marked
    <3>1. o \in {forward[i] : i \in Waiting}
      BY <2>1
    <3>2. o \in enqueued /\ o \in Obj
      BY <2>1, <3>1 DEF QueueIsSound, Grey
    <3>. QED  BY <3>2 DEF QueueIsSound, Grey
  <2>3. TypeOK'
    <3>1. head' \in 1..(N + 1)
      BY <2>1 DEF TypeOK
    <3>2. marked' \subseteq Obj /\ enqueued' \subseteq Obj /\ cur' \in Word
      BY <2>2 DEF TypeOK
    <3>3. fld' \in 1..(FieldWords + 1)
      OBVIOUS
    <3>4. UNCHANGED <<fields, roots, forward, tail, rt>> /\ pc' = "scan"
      OBVIOUS
    <3>. QED  BY <3>1, <3>2, <3>3, <3>4 DEF TypeOK
  <2>4. QueueIsSound'
    <3>1. Waiting' = Waiting \ {head}
      BY <2>1 DEF Waiting, Grey, TypeOK
    <3>2. \A i \in Waiting : i # head => forward[i] # o
      BY <2>1 DEF QueueIsSound, Grey, Waiting, TypeOK
    <3>3. enqueued' = {forward'[i] : i \in Waiting'}
      BY <3>1, <3>2 DEF QueueIsSound, Grey
    <3>4. \A i \in 1..(head' - 1) : forward'[i] \in marked'
      BY <2>1 DEF QueueIsSound, TypeOK
    <3>5. head' <= tail'
      BY <2>1 DEF TypeOK
    <3>6. enqueued' \intersect marked' = {}
      BY DEF QueueIsSound, Grey
    <3>7. tail' = tail /\ forward' = forward
      OBVIOUS
    <3>8. /\ \A i \in 1..(tail' - 1) : forward'[i] \in Obj
          /\ \A i, j \in 1..(tail' - 1) : i # j => forward'[i] # forward'[j]
      BY <3>7 DEF QueueIsSound, Grey
    <3>. QED  BY <3>3, <3>4, <3>5, <3>6, <3>8 DEF QueueIsSound, Grey
  <2>5. ScanIsInStep'
    BY <2>2 DEF ScanIsInStep
  <2>6. NoBlackToWhite'
    BY <2>2 DEF NoBlackToWhite
  <2>7. MarksOnlyReachable'
    BY <2>2 DEF MarksOnlyReachable, HasRoots, Closed
  <2>. QED  BY <2>3, <2>4, <2>5, <2>6, <2>7
<1>4. CASE SkipField
  <2> USE <1>4 DEF SkipField, graph, queue
  <2>1. TypeOK'
    BY DEF TypeOK
  <2>2. QueueIsSound'
    BY DEF QueueIsSound, Grey, Waiting
  <2>3. ScanIsInStep'
    BY DEF ScanIsInStep
  <2>4. fields[cur][fld] \in marked \union enqueued \union {NotHeap}
    BY DEF TypeOK, ScanIsInStep, IsValidHeapPointer
  <2>5. NoBlackToWhite'
    BY <2>4 DEF NoBlackToWhite, TypeOK
  <2>6. MarksOnlyReachable'
    BY DEF MarksOnlyReachable, HasRoots, Closed
  <2>. QED  BY <2>1, <2>2, <2>3, <2>5, <2>6
<1>5. CASE EnqueueField
  <2> USE <1>5 DEF EnqueueField, graph
  <2> DEFINE o == fields[cur][fld]
  <2>1. o \in Obj /\ o \notin marked /\ o \notin enqueued /\ QueueEnqueue(tail, o)
    BY DEF IsValidHeapPointer
  <2>2. /\ forward' \in [Obj -> Obj \union {Stale}]
        /\ tail' \in 1..(N + 1)
        /\ enqueued' \subseteq Obj
        /\ QueueIsSound'
    BY <2>1, EnqueueKeepsQueue
  <2>3. enqueued' = enqueued \union {o}
    BY DEF QueueEnqueue
  <2>4. TypeOK'
    BY <2>2 DEF TypeOK
  <2>5. ScanIsInStep'
    BY <2>3 DEF ScanIsInStep
  <2>6. NoBlackToWhite'
    BY <2>3 DEF NoBlackToWhite, TypeOK
  <2>7. MarksOnlyReachable'
    <3> SUFFICES ASSUME NEW S \in SUBSET Obj, HasRoots(S), Closed(S)
                 PROVE  marked \union enqueued \union {o} \subseteq S
      BY <2>3 DEF MarksOnlyReachable, HasRoots, Closed
    <3>1. marked \union enqueued \subseteq S
      BY DEF MarksOnlyReachable
    <3>2. o \in S
      BY <2>1, <3>1 DEF Closed, ScanIsInStep
    <3>. QED  BY <3>1, <3>2
  <2>. QED  BY <2>2, <2>4, <2>5, <2>6, <2>7
<1>6. CASE EndFields
  <2> USE <1>6 DEF EndFields, graph, queue
  <2>1. TypeOK' /\ QueueIsSound' /\ ScanIsInStep'
    BY DEF TypeOK, QueueIsSound, Grey, Waiting, ScanIsInStep
  <2>2. NoBlackToWhite'
    BY DEF NoBlackToWhite
  <2>3. MarksOnlyReachable'
    BY DEF MarksOnlyReachable, HasRoots, Closed
  <2>. QED  BY <2>1, <2>2, <2>3
<1>7. CASE EndMark
  <2> USE <1>7 DEF EndMark, graph, queue
  <2>1. TypeOK'
    BY DEF TypeOK, ScanIsInStep
  <2>2. QueueIsSound'
    BY DEF QueueIsSound, Grey, Waiting
  <2>3. enqueued = {}
    BY DEF QueueIsSound, Grey, Waiting, TypeOK
  <2>4. ScanIsInStep'
    BY <2>3 DEF ScanIsInStep, TypeOK
  <2>5. NoBlackToWhite'
    BY DEF NoBlackToWhite
  <2>6. MarksOnlyReachable'
    BY DEF MarksOnlyReachable, HasRoots, Closed
  <2>. QED  BY <2>1, <2>2, <2>4, <2>5, <2>6
<1>8. CASE UNCHANGED vars
  BY <1>8 DEF vars, TypeOK, QueueIsSound, Grey, Waiting, ScanIsInStep,
              NoBlackToWhite, MarksOnlyReachable, HasRoots, Closed
<1>. QED  BY <1>1, <1>2, <1>3, <1>4, <1>5, <1>6, <1>7, <1>8 DEF Next

-----------------------------------------------------------------------------
(* TypeOK: the state keeps its shape; in particular the forward_address a  *)
(* queue_dequeue reads is an object and the iterators stay on the heap.    *)
THEOREM TypeCorrect == Spec => []TypeOK
<1>1. IInv => TypeOK
  BY DEF IInv
<1>. QED  BY <1>1, InitIInv, NextIInv, PTL DEF Spec

(* QueueIsSound: the queue threaded through the headers of the heap        *)
(* behaves as a queue of distinct unmarked objects.                        *)
THEOREM QueueCorrect == Spec => []QueueIsSound
<1>1. IInv => QueueIsSound
  BY DEF IInv
<1>. QED  BY <1>1, InitIInv, NextIInv, PTL DEF Spec

(* QueueFitsInHeap: queue_enqueue never writes past the last object, so    *)
(* marking needs no memory beyond the heap it marks.                       *)
THEOREM QueueBounded == Spec => []QueueFitsInHeap
<1>1. IInv => QueueFitsInHeap
  <2> SUFFICES ASSUME IInv, pc = "scan", fld \in Field, cur \in Obj,
                      NEW o \in Obj, o \notin marked, o \notin enqueued
               PROVE  tail \in Obj
    BY DEF QueueFitsInHeap
  <2>1. \A i \in 1..(tail - 1) : forward[i] # o
    BY WhiteIsNotQueued DEF IInv
  <2>. QED  BY <2>1, RoomForOneMore DEF IInv
<1>. QED  BY <1>1, InitIInv, NextIInv, PTL DEF Spec

(* NoBlackToWhite: a marked object never has a scanned field that leads to *)
(* an object the mark phase has not seen.                                  *)
THEOREM TriColourInvariant == Spec => []NoBlackToWhite
<1>1. IInv => NoBlackToWhite
  BY DEF IInv
<1>. QED  BY <1>1, InitIInv, NextIInv, PTL DEF Spec

(* MarksOnlyReachable: mark marks an object only if every set that holds   *)
(* the roots and is closed under fields holds it: no garbage is kept.      *)
THEOREM MarkSound == Spec => []MarksOnlyReachable
<1>1. IInv => MarksOnlyReachable
  BY DEF IInv
<1>. QED  BY <1>1, InitIInv, NextIInv, PTL DEF Spec

(* MarksAllReachable: when mark_phase returns, the marked objects hold the *)
(* roots and are closed under fields: no live object is lost.              *)
THEOREM MarkComplete == Spec => []MarksAllReachable
<1>1. IInv => MarksAllReachable
  <2> SUFFICES ASSUME IInv, Done
               PROVE  HasRoots(marked) /\ Closed(marked) /\ enqueued = {}
    BY DEF MarksAllReachable
  <2>1. enqueued = {}
    BY DEF Done, IInv, ScanIsInStep, QueueIsSound, Grey, Waiting, TypeOK
  <2>2. HasRoots(marked)
    BY DEF Done, IInv, ScanIsInStep, HasRoots
  <2>3. Closed(marked)
    BY <2>1 DEF Done, IInv, NoBlackToWhite, Closed
  <2>. QED  BY <2>1, <2>2, <2>3
<1>. QED  BY <1>1, InitIInv, NextIInv, PTL DEF Spec

(* ImplementsTriColour: the phase refines marking with an abstract set of  *)
(* grey objects; the grey set is read off the queue in the headers.        *)
THEOREM Refinement == Spec => ImplementsTriColour
<1>1. Init => Abstract!Init
  BY DEF Init, Abstract!Init, Done, Waiting, Grey
<1>2. IInv /\ [Next]_vars => [Abstract!Next]_Abstract!vars
  <2> SUFFICES ASSUME IInv, [Next]_vars PROVE [Abstract!Next]_Abstract!vars
    OBVIOUS
  <2> USE DEF Abstract!Obj, Abstract!Field, Abstract!Root
  <2>0. IInv' /\ enqueued = Grey /\ enqueued' = Grey'
    BY NextIInv DEF IInv, QueueIsSound, Grey
  <2>1. CASE SkipRoot
    <3> USE <2>1 DEF SkipRoot, graph, queue
    <3>1. Grey' = Grey /\ Grey = {}
      BY DEF Grey, Waiting, IInv, ScanIsInStep, TypeOK
    <3>2. CASE Done'
      <4>1. /\ \A r \in Root : roots[r] \in Obj => roots[r] \in marked
            /\ \A o \in marked : \A f \in Field :
                 fields[o][f] \in Obj => fields[o][f] \in marked
        <5>1. rt = RootWords
          BY <3>2 DEF Done, IInv, TypeOK
        <5>2. \A r \in Root : roots[r] \in Obj => roots[r] \in marked
          BY <5>1 DEF IInv, ScanIsInStep, IsValidHeapPointer
        <5>. QED  BY <2>0, <3>1, <5>2 DEF IInv, NoBlackToWhite
      <4>2. ~Done /\ Done'
        BY <3>2 DEF Done
      <4>. QED  BY <3>1, <4>1, <4>2 DEF Abstract!Next, Abstract!Finish
    <3>3. CASE ~Done'
      BY <3>1, <3>3 DEF Done, Abstract!vars
    <3>. QED  BY <3>2, <3>3
  <2>2. CASE BeginMark
    <3> USE <2>2 DEF BeginMark, graph
    <3>1. Grey = {}
      BY DEF Grey, Waiting, IInv, ScanIsInStep, TypeOK
    <3>2. Grey' = {roots[rt]}
      BY <2>0, <3>1 DEF QueueEnqueue
    <3>3. ~Done /\ Done' = Done
      BY DEF Done
    <3>. QED  BY <3>1, <3>2, <3>3
              DEF IsValidHeapPointer, Abstract!Next, Abstract!ShadeRoot
  <2>3. CASE Dequeue
    <3> USE <2>3 DEF Dequeue, graph
    <3>1. forward[head] \in Grey
      BY DEF Grey, Waiting, IInv, TypeOK, QueueIsSound
    <3>2. Grey' = Grey \ {forward[head]}
      BY <2>0
    <3>3. ~Done /\ Done' = Done
      BY DEF Done
    <3>. QED  BY <3>1, <3>2, <3>3 DEF Abstract!Next, Abstract!Blacken
  <2>4. CASE SkipField
    BY <2>4 DEF SkipField, graph, queue, Abstract!vars, Done, Grey, Waiting
  <2>5. CASE EnqueueField
    <3> USE <2>5 DEF EnqueueField, graph
    <3>1. Grey' = Grey \union {fields[cur][fld]}
      BY <2>0 DEF QueueEnqueue
    <3>2. /\ cur \in marked
          /\ fields[cur][fld] \in Obj \ (marked \union Grey)
      BY <2>0 DEF IInv, ScanIsInStep, IsValidHeapPointer
    <3>3. ~Done /\ Done' = Done
      BY DEF Done
    <3>. QED  BY <3>1, <3>2, <3>3 DEF Abstract!Next, Abstract!ShadeChild
  <2>6. CASE EndFields
    BY <2>6 DEF EndFields, graph, queue, Abstract!vars, Done, Grey, Waiting
  <2>7. CASE EndMark
    <3> USE <2>7 DEF EndMark, graph, queue
    <3>1. Grey' = Grey /\ Grey = {}
      BY DEF Grey, Waiting, IInv, TypeOK
    <3>2. CASE Done'
      <4>1. /\ \A r \in Root : roots[r] \in Obj => roots[r] \in marked
            /\ \A o \in marked : \A f \in Field :
                 fields[o][f] \in Obj => fields[o][f] \in marked
        <5>1. rt = RootWords
          BY <3>2 DEF Done, IInv, TypeOK
        <5>2. \A r \in Root : roots[r] \in Obj => roots[r] \in marked
          BY <2>0, <3>1, <5>1 DEF IInv, ScanIsInStep
        <5>. QED  BY <2>0, <3>1, <5>2 DEF IInv, NoBlackToWhite
      <4>2. ~Done /\ Done'
        BY <3>2 DEF Done
      <4>. QED  BY <3>1, <4>1, <4>2 DEF Abstract!Next, Abstract!Finish
    <3>3. CASE ~Done'
      BY <3>1, <3>3 DEF Done, Abstract!vars
    <3>. QED  BY <3>2, <3>3
  <2>8. CASE UNCHANGED vars
    BY <2>8 DEF vars, Abstract!vars, Done, Grey, Waiting
  <2>. QED  BY <2>1, <2>2, <2>3, <2>4, <2>5, <2>6, <2>7, <2>8 DEF Next
<1>. QED  BY <1>1, <1>2, InitIInv, NextIInv, PTL DEF Spec, ImplementsTriColour, Abstract!Spec
=============================================================================
