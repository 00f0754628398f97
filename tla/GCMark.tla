------------------------------- MODULE GCMark -------------------------------
(***************************************************************************)
(* The mark phase of the garbage collector, src/runtime/gc.c.              *)
(*                                                                         *)
(* mark_phase calls mark on every root word: the words of the Lama stack,  *)
(* then the cells the extra-roots pool points at, then the words of the    *)
(* global area.  mark walks the objects breadth first, and its queue uses  *)
(* no memory of its own: the k-th entry enqueued by one call of mark lives *)
(* in the forward_address word of the k-th object of the heap.  Two        *)
(* iterators over the heap, q_head_iter and q_tail_iter, delimit it.       *)
(*                                                                         *)
(* Objects are numbered in the order a heap_iterator visits them, so an    *)
(* iterator is the number of the object it stands at and N + 1 stands for  *)
(* heap.current.                                                           *)
(***************************************************************************)
EXTENDS Integers

CONSTANTS
  N,          \* number of objects in the heap
  FieldWords, \* words an obj_field_iterator can visit in an object
  RootWords,  \* root words: stack, then extra roots, then global area
  NotHeap,    \* any word is_valid_heap_pointer rejects
  Stale       \* a forward_address no step of this collection has written

ASSUME CountAssumption == N \in Nat /\ FieldWords \in Nat /\ RootWords \in Nat

Obj   == 1..N
Field == 1..FieldWords
Root  == 1..RootWords
Word  == Obj \union {NotHeap}

ASSUME WordAssumption == NotHeap \notin Obj /\ Stale \notin Obj

VARIABLES
  fields,  \* fields[o][f]: the word f of object o; mark never writes it
  roots,   \* roots[r]: the root word r; the mark phase never writes it
  forward, \* forward[o]: the address part of o's forward_address
  marked,  \* objects whose mark bit is set
  enqueued,\* objects whose enqueued bit is set
  head,    \* q_head_iter.current
  tail,    \* q_tail_iter.current
  cur,     \* cur_obj, the object whose fields are being scanned
  fld,     \* ptr_field_it.cur_field
  rt,      \* the root word being processed
  pc       \* "root": between calls of mark, "loop": the while test, "scan"

graph == <<fields, roots>>
queue == <<forward, enqueued, head, tail>>
vars  == <<fields, roots, forward, marked, enqueued, head, tail, cur, fld, rt, pc>>

TypeOK ==
  /\ fields \in [Obj -> [Field -> Word]]
  /\ roots \in [Root -> Word]
  /\ forward \in [Obj -> Obj \union {Stale}]
  /\ marked \subseteq Obj
  /\ enqueued \subseteq Obj
  /\ head \in 1..(N + 1)
  /\ tail \in 1..(N + 1)
  /\ cur \in Word
  /\ fld \in 1..(FieldWords + 1)
  /\ rt \in 1..(RootWords + 1)
  /\ pc \in {"root", "loop", "scan"}

\* Any object graph and any root words.  No bit is set: objects are created
\* with forward_address 0, physically_relocate unmarks what it moves, and
\* mark clears the enqueued bit of all it dequeues.
Init ==
  /\ fields \in [Obj -> [Field -> Word]]
  /\ roots \in [Root -> Word]
  /\ forward = [o \in Obj |-> Stale]
  /\ marked = {}
  /\ enqueued = {}
  /\ head = 1
  /\ tail = 1
  /\ cur = NotHeap
  /\ fld = 1
  /\ rt = 1
  /\ pc = "root"

-----------------------------------------------------------------------------
\* mistake: the test against heap.current is strict, so an empty array at the
\* end of the heap is no heap pointer
LastObjectExcluded(w) == w \in Obj \ {N}

IsValidHeapPointer(w) == w \in Obj

\* mistake: the entry is not written
EnqueueBitOnly(t, o) ==
  /\ forward' = forward
  /\ enqueued' = enqueued \union {o}
  /\ tail' = t + 1

\* queue_enqueue with the tail iterator at position t
QueueEnqueue(t, o) ==
  /\ forward' = [forward EXCEPT ![t] = o]
  /\ enqueued' = enqueued \union {o}
  /\ tail' = t + 1

\* the early return of mark
SkipRoot ==
  /\ pc = "root" /\ rt \in Root
  /\ ~IsValidHeapPointer(roots[rt]) \/ roots[rt] \in marked
  /\ rt' = rt + 1
  /\ UNCHANGED <<graph, queue, marked, cur, fld, pc>>

\* mark starts both iterators at heap.begin and enqueues its argument
BeginMark ==
  /\ pc = "root" /\ rt \in Root
  /\ IsValidHeapPointer(roots[rt]) /\ roots[rt] \notin marked
  /\ head' = 1
  /\ QueueEnqueue(1, roots[rt])
  /\ pc' = "loop"
  /\ UNCHANGED <<graph, marked, cur, fld, rt>>

\* mistake: make_dequeued is forgotten
DequeueKeepsBit ==
  /\ pc = "loop" /\ head # tail
  /\ cur' = forward[head]
  /\ marked' = marked \union {forward[head]}
  /\ head' = head + 1
  /\ fld' = 1
  /\ pc' = "scan"
  /\ UNCHANGED <<graph, forward, enqueued, tail, rt>>

\* mistake: the object that carries the entry is taken for the entry
DequeueCarrier ==
  /\ pc = "loop" /\ head # tail
  /\ cur' = head
  /\ enqueued' = enqueued \ {head}
  /\ marked' = marked \union {head}
  /\ head' = head + 1
  /\ fld' = 1
  /\ pc' = "scan"
  /\ UNCHANGED <<graph, forward, tail, rt>>

\* mistake: q_head_iter is not moved
DequeueStays ==
  /\ pc = "loop" /\ head # tail
  /\ cur' = forward[head]
  /\ enqueued' = enqueued \ {forward[head]}
  /\ marked' = marked \union {forward[head]}
  /\ fld' = 1
  /\ pc' = "scan"
  /\ UNCHANGED <<graph, forward, head, tail, rt>>

\* one turn of the while loop up to its for loop: queue_dequeue, mark_object
Dequeue ==
  /\ pc = "loop" /\ head # tail
  /\ cur' = forward[head]
  /\ enqueued' = enqueued \ {forward[head]}
  /\ marked' = marked \union {forward[head]}
  /\ head' = head + 1
  /\ fld' = 1
  /\ pc' = "scan"
  /\ UNCHANGED <<graph, forward, tail, rt>>

\* a field word the iterator jumps over or the loop body skips
SkipField ==
  /\ pc = "scan" /\ fld \in Field
  /\ LET w == fields[cur][fld] IN
       ~IsValidHeapPointer(w) \/ w \in marked \/ w \in enqueued
  /\ fld' = fld + 1
  /\ UNCHANGED <<graph, queue, marked, cur, rt, pc>>

\* a field that points at an object neither marked nor waiting in the queue
EnqueueField ==
  /\ pc = "scan" /\ fld \in Field
  /\ LET w == fields[cur][fld] IN
       /\ IsValidHeapPointer(w) /\ w \notin marked /\ w \notin enqueued
       /\ QueueEnqueue(tail, w)
  /\ fld' = fld + 1
  /\ UNCHANGED <<graph, marked, head, cur, rt, pc>>

EndFields ==
  /\ pc = "scan" /\ fld = FieldWords + 1
  /\ pc' = "loop"
  /\ UNCHANGED <<graph, queue, marked, cur, fld, rt>>

\* mistake: the last entry is left in the queue
EndMarkEarly ==
  /\ pc = "loop" /\ head + 1 >= tail
  /\ rt' = rt + 1
  /\ pc' = "root"
  /\ UNCHANGED <<graph, queue, marked, cur, fld>>

\* the queue is empty: mark returns to the scan of the roots
EndMark ==
  /\ pc = "loop" /\ head = tail
  /\ rt' = rt + 1
  /\ pc' = "root"
  /\ UNCHANGED <<graph, queue, marked, cur, fld>>

Next ==
  \/ SkipRoot
  \/ BeginMark
  \/ Dequeue
  \/ SkipField
  \/ EnqueueField
  \/ EndFields
  \/ EndMark

\* The collector is one sequential call: it keeps running while it can.
Spec == Init /\ [][Next]_vars /\ WF_vars(Next)

-----------------------------------------------------------------------------
Done == pc = "root" /\ rt = RootWords + 1

\* positions of the entries enqueued by this call of mark and not yet removed
Waiting == head..(tail - 1)

\* objects waiting in the queue, read off the headers
Grey == {forward[i] : i \in Waiting}

\* The queue that lives in the headers really is a queue of distinct objects:
\* what waits in it is exactly what carries the enqueued bit, no object is
\* entered twice in one call of mark, nothing already marked waits, and the
\* entries already removed are all marked.  Dequeue therefore never reads a
\* forward_address this call did not write.
QueueIsSound ==
  /\ head <= tail
  /\ enqueued = Grey
  /\ enqueued \intersect marked = {}
  /\ \A i \in 1..(tail - 1) : forward[i] \in Obj
  /\ \A i, j \in 1..(tail - 1) : i # j => forward[i] # forward[j]
  /\ \A i \in 1..(head - 1) : forward[i] \in marked

\* "Already allocated space is sufficient" (src/runtime/gc.h:17-20): whenever
\* mark is about to enqueue, the tail iterator still stands at an object and
\* not at heap.current, so the forward_address it writes belongs to one.
QueueFitsInHeap ==
  (pc = "scan" /\ fld \in Field /\ cur \in Obj) =>
     LET w == fields[cur][fld] IN
       (w \in Obj /\ w \notin marked /\ w \notin enqueued) => tail \in Obj

\* Tri-colour invariant: no marked object has a field, already scanned, that
\* leads to an object neither marked nor waiting.
NoBlackToWhite ==
  \A o \in marked : \A f \in Field :
    (o = cur /\ pc = "scan" => f < fld) =>
      fields[o][f] \in marked \union enqueued \union {NotHeap}

\* Between two calls of mark nothing waits and the roots already processed
\* are marked; inside a call its root is marked or waits, and the object being
\* scanned is marked.
ScanIsInStep ==
  /\ pc = "root" => head = tail
  /\ pc # "root" => rt \in Root /\ roots[rt] \in marked \union enqueued
  /\ pc = "scan" => cur \in marked
  /\ \A r \in Root : r < rt => roots[r] \in marked \union {NotHeap}

Closed(S) == \A o \in S : \A f \in Field : fields[o][f] \in S \union {NotHeap}
HasRoots(S) == \A r \in Root : roots[r] \in S \union {NotHeap}

\* Nothing unreachable is retained: every set of objects that holds the roots
\* and is closed under fields holds all that is marked or waiting.
MarksOnlyReachable ==
  \A S \in SUBSET Obj :
    (HasRoots(S) /\ Closed(S)) => marked \union enqueued \subseteq S

\* The inductive invariant behind the theorems of CollectorProofs.
IInv ==
  /\ TypeOK
  /\ QueueIsSound
  /\ ScanIsInStep
  /\ NoBlackToWhite
  /\ MarksOnlyReachable

\* When the phase ends, what a root or a marked object points at is marked,
\* and no enqueued bit is left set for the next collection to trip over.
MarksAllReachable ==
  Done => HasRoots(marked) /\ Closed(marked) /\ enqueued = {}

\* The mark phase ends, on cyclic graphs too.
Terminates == <>Done

\* The phase implements tri-colour marking with a set of grey objects for
\* which no space has to be found.
Abstract == INSTANCE TriColour WITH
  black <- marked,
  grey <- Grey,
  done <- Done
ImplementsTriColour == Abstract!Spec
=============================================================================
