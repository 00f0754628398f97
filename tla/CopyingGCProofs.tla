--------------------------- MODULE CopyingGCProofs ---------------------------
(***************************************************************************)
(* The spaces of the copying collector are sound, for every set of words,  *)
(* every set of requests, every size of a space and every way mmap and     *)
(* mremap may answer; and the collector is transparent to the program.     *)
(*                                                                         *)
(* The inductive invariant has one part for the program's heap (Heap) and  *)
(* one for a collection (Collection).  Both are operators of the values of *)
(* the variables, so that the lemmas on them are about one heap and speak  *)
(* of the heap before a step and of the heap after it alike.               *)
(***************************************************************************)
EXTENDS CopyingGC, TLAPS, FiniteSetTheorems, SequenceTheorems

Object     == [tag : Tags, fields : Seq(Nat), id : Ids, forward : Nat]
Space      == [begin : Nat, end : Nat, current : Nat, size : Nat]
Activation == [src : Nat, dst : Nat, i : Nat]

\* The objects of m in a space, and the first byte of one and the byte after it.
In(m, s)      == {p \in DOMAIN m : Within(s, p)}
First(m, p)   == p - WORD * Header(m[p].tag)
Behind(m, p)  == p + WORD * (SizeAsked(m[p].tag, Len(m[p].fields)) - Header(m[p].tag))

\* A word that needs no more scanning, once its object is in the space s.
Settled(v, m, s) == UNBOXED(v) \/ v \in In(m, s)

-----------------------------------------------------------------------------
(* What holds of the memory in every phase. *)

SpaceOK(s) == /\ s \in Space
              /\ s.begin > 0 /\ s.begin % 2 = 0 /\ s.size > 0
              /\ s.end = s.begin + WORD * s.size

FromOK(f) == /\ SpaceOK(f)
             /\ f.begin <= f.current /\ f.current < f.end /\ f.current % 2 = 0

Typed(c, m) == /\ c \in [Cells -> Nat]
               /\ DOMAIN m \subseteq Nat /\ m \in [DOMAIN m -> Object]

Inside(m, s, top) == \A p \in In(m, s) : s.begin <= First(m, p) /\ Behind(m, p) <= top

Apart(m) == \A p, q \in DOMAIN m : p < q => Behind(m, p) <= First(m, q)

Even(m) == \A p \in DOMAIN m : p % 2 = 0

UniqueIds(m, s) == \A p, q \in In(m, s) : m[p].id = m[q].id => p = q

ForwardsTyped(m) == \A p \in DOMAIN m : m[p].forward \in {NULL} \union DOMAIN m

Shape(c, m, f) == /\ Typed(c, m) /\ FromOK(f)
                  /\ Inside(m, f, f.current) /\ Apart(m) /\ Even(m)
                  /\ UniqueIds(m, f) /\ ForwardsTyped(m)

-----------------------------------------------------------------------------
(* The heap of the program, between two collections. *)

FieldsSettled(m, s) ==
  \A p \in In(m, s) : m[p].tag # "string" =>
    \A i \in DOMAIN m[p].fields : Settled(m[p].fields[i], m, s)

Heap(c, m, s) == /\ Shape(c, m, s)
                 /\ DOMAIN m \subseteq In(m, s)
                 /\ \A p \in DOMAIN m : m[p].forward = NULL
                 /\ \A x \in Cells : Settled(c[x], m, s)
                 /\ FieldsSettled(m, s)

-----------------------------------------------------------------------------
(* A collection. *)

\* The bytes of from_space whose objects have been copied.
CopiedBytes(m, f) ==
  {b \in f.begin .. (f.current - 1) :
     \E p \in In(m, f) : m[p].forward # NULL /\ First(m, p) <= b /\ b < Behind(m, p)}

\* to_space holds as many bytes as were copied from from_space.
Room(m, f, t, cur) == cur = t.begin + Cardinality(CopiedBytes(m, f))

SpacesOK(f, t, cur) == /\ SpaceOK(t) /\ Disjoint(t, f) /\ f.size <= t.size
                       /\ cur \in Nat /\ cur % 2 = 0

\* What is forwarded has a copy in to_space, and nothing else is there.
Copies(m, f, t) ==
  /\ \A p \in In(m, f) : m[p].forward # NULL =>
       LET q == m[p].forward
       IN  /\ q \in In(m, t)
           /\ m[q].tag = m[p].tag /\ m[q].id = m[p].id
           /\ Len(m[q].fields) = Len(m[p].fields)
  /\ \A q \in In(m, t) : m[q].forward = NULL /\ \E p \in In(m, f) : m[p].forward = q

\* An activation is at an element of an object that has a copy, or behind them
\* all; one that has called another is at an element.
WorkOK(m, f, w) ==
  /\ w \in Seq(Activation)
  /\ \A k \in 1 .. Len(w) : /\ w[k].src \in In(m, f) /\ m[w[k].src].forward = w[k].dst
                            /\ w[k].dst # NULL
                            /\ w[k].i \in 1 .. Len(m[w[k].src].fields) + 1
                            /\ m[w[k].src].tag = "string" => w[k].i > Len(m[w[k].src].fields)
                            /\ k < Len(w) => w[k].i <= Len(m[w[k].src].fields)

\* An element of a copy leads out of from_space, or an activation has it to do.
Filled(m, t, w) ==
  \A q \in In(m, t) : m[q].tag # "string" =>
    \A j \in DOMAIN m[q].fields :
      \/ Settled(m[q].fields[j], m, t)
      \/ \E k \in 1 .. Len(w) : w[k].dst = q /\ w[k].i <= j

RootsOK(c, m, f, t, r) ==
  /\ r \in 1 .. Len(Scan) + 1
  /\ \A x \in Cells : Settled(c[x], m, f) \/ Settled(c[x], m, t)
  /\ \A i \in 1 .. Len(Scan) : i < r => Settled(c[Scan[i]], m, t)

\* Objects are copied for a root, or for an element of one being copied.
RootInHand(r, w) == w # <<>> => r <= Len(Scan)

Collection(c, m, f, t, cur, r, w) ==
  /\ Shape(c, m, f)
  /\ DOMAIN m \subseteq In(m, f) \union In(m, t)
  /\ SpacesOK(f, t, cur)
  /\ Inside(m, t, cur)
  /\ Room(m, f, t, cur)
  /\ Copies(m, f, t)
  /\ FieldsSettled(m, f)
  /\ WorkOK(m, f, w)
  /\ Filled(m, t, w)
  /\ RootsOK(c, m, f, t, r)
  /\ RootInHand(r, w)

-----------------------------------------------------------------------------
Collecting == phase \in {"roots", "fit"}

RequestOK == /\ request.cell \in Cells /\ request.req \in Requests
             /\ \E id \in Ids : id \notin UsedIds

\* The inductive invariant.
IInv ==
  /\ phase \in {"mutator", "roots", "fit", "no memory", "GC disabled"}
  /\ SPACE_SIZE \in Nat \ {0}
  /\ root \in 1 .. Len(Scan) + 1
  /\ Shape(cells, mem, from)
  /\ phase = "mutator" => Heap(cells, mem, from) /\ from.size = SPACE_SIZE /\ work = <<>>
  /\ Collecting => /\ Collection(cells, mem, from, to, current, root, work)
                   /\ to.size = SPACE_SIZE
                   /\ RequestOK
  /\ phase = "fit" => work = <<>> /\ root = Len(Scan) + 1

-----------------------------------------------------------------------------
(* Sizes and addresses. *)

\* alloc and gc_copy give an object the same words, its header among them.
LEMMA SizesAgree ==
  ASSUME NEW tag \in Tags, NEW n \in Nat
  PROVE  /\ SizeAsked(tag, n) \in Nat /\ Header(tag) \in Nat
         /\ SizeAsked(tag, n) >= Header(tag) /\ Header(tag) > 0
         /\ SizeCopied(tag, n) = SizeAsked(tag, n)
BY DEF Tags, SizeAsked, SizeCopied, Header, Words, WORD

\* An address stays even when words are added to it.
LEMMA EvenWords ==
  ASSUME NEW a \in Nat, NEW k \in Nat, a % 2 = 0
  PROVE  a + WORD * k \in Nat /\ (a + WORD * k) % 2 = 0
BY DEF WORD

\* A pointer is not an integer: its address is even.
LEMMA PointersAreBoxed ==
  ASSUME NEW m, Even(m), NEW p \in DOMAIN m
  PROVE  ~UNBOXED(p)
BY DEF Even, UNBOXED

\* The bounds of an object are integers.
LEMMA Bounds ==
  ASSUME NEW c, NEW m, Typed(c, m), NEW p \in DOMAIN m
  PROVE  /\ p \in Nat /\ m[p].tag \in Tags /\ Len(m[p].fields) \in Nat
         /\ m[p].fields \in Seq(Nat) /\ m[p].id \in Ids /\ m[p].forward \in Nat
         /\ First(m, p) \in Int /\ Behind(m, p) \in Int
         /\ First(m, p) < p /\ p <= Behind(m, p)
         /\ Behind(m, p) = First(m, p) + WORD * SizeAsked(m[p].tag, Len(m[p].fields))
<1>1. /\ p \in Nat /\ m[p].tag \in Tags /\ m[p].fields \in Seq(Nat)
      /\ m[p].id \in Ids /\ m[p].forward \in Nat
  BY DEF Typed, Object
<1>2. Len(m[p].fields) \in Nat
  BY <1>1
<1> DEFINE h == Header(m[p].tag)
           z == SizeAsked(m[p].tag, Len(m[p].fields))
<1>3. h \in Nat /\ z \in Nat /\ z >= h /\ h > 0
  BY <1>1, <1>2, SizesAgree
<1> HIDE DEF h, z
<1>4. /\ p - WORD * h \in Int /\ p + WORD * (z - h) \in Int
      /\ p - WORD * h < p /\ p <= p + WORD * (z - h)
      /\ p + WORD * (z - h) = (p - WORD * h) + WORD * z
  BY <1>1, <1>3 DEF WORD
<1> QED
  BY <1>1, <1>2, <1>4 DEF First, Behind, h, z

-----------------------------------------------------------------------------
(* The program's heap: what is not reached is left out. *)

\* What is kept of a heap with all that the cells and itself lead to is a heap.
LEMMA PartOfHeap ==
  ASSUME NEW c, NEW m, NEW s, Heap(c, m, s),
         NEW R \in SUBSET DOMAIN m,
         \A x \in Cells : c[x] \in DOMAIN m => c[x] \in R,
         \A p \in R : m[p].tag # "string" =>
           \A i \in DOMAIN m[p].fields : m[p].fields[i] \in DOMAIN m => m[p].fields[i] \in R
  PROVE  Heap(c, Restrict(m, R), s)
<1> DEFINE m2 == Restrict(m, R)
<1>1. DOMAIN m2 = R /\ \A p \in R : m2[p] = m[p]
  BY DEF Restrict
<1>2. m2 = [p \in R |-> m2[p]]
  BY <1>1 DEF Restrict
<1> HIDE DEF m2
<1>3. In(m2, s) = In(m, s) \intersect R
  BY <1>1 DEF In
<1>4. \A p \in R : First(m2, p) = First(m, p) /\ Behind(m2, p) = Behind(m, p)
  BY <1>1 DEF First, Behind
<1>5. Typed(c, m2)
  <2>1. m2 \in [R -> Object]
    BY <1>1, <1>2 DEF Heap, Shape, Typed
  <2> QED
    BY <1>1, <2>1 DEF Heap, Shape, Typed
<1>6. FromOK(s) /\ Inside(m2, s, s.current) /\ Apart(m2) /\ Even(m2) /\ UniqueIds(m2, s)
  BY <1>1, <1>3, <1>4 DEF Heap, Shape, Inside, Apart, Even, UniqueIds
<1>7. ForwardsTyped(m2)
  BY <1>1 DEF Heap, ForwardsTyped
<1>8. DOMAIN m2 \subseteq In(m2, s) /\ \A p \in DOMAIN m2 : m2[p].forward = NULL
  BY <1>1, <1>3 DEF Heap
<1>9. \A x \in Cells : Settled(c[x], m2, s)
  BY <1>3 DEF Heap, Settled, In
<1>10. FieldsSettled(m2, s)
  BY <1>1, <1>3 DEF Heap, FieldsSettled, Settled, In
<1> QED
  BY <1>5, <1>6, <1>7, <1>8, <1>9, <1>10 DEF Heap, Shape, m2

\* What can be reached is closed: it has what the cells lead to and all that
\* its own objects lead to.
LEMMA ReachedIsClosed ==
  ASSUME NEW c, NEW m
  PROVE  /\ Reached(c, m) \subseteq DOMAIN m
         /\ Range(c) \intersect DOMAIN m \subseteq Reached(c, m)
         /\ \A p \in Reached(c, m) : Pointees(m, p) \subseteq Reached(c, m)
<1>1. Reached(c, m) \subseteq DOMAIN m
  BY DEF Reached
<1>2. Range(c) \intersect DOMAIN m \subseteq Reached(c, m)
  BY DEF Reached, Closed
<1>3. ASSUME NEW p \in Reached(c, m), NEW q \in Pointees(m, p)
      PROVE  q \in Reached(c, m)
  <2>1. q \in DOMAIN m
    BY <1>3 DEF Pointees
  <2>2. ASSUME NEW S \in SUBSET DOMAIN m, Closed(S, c, m)
        PROVE  q \in S
    BY <1>3, <2>2 DEF Reached, Closed
  <2> QED
    BY <2>1, <2>2 DEF Reached
<1> QED
  BY <1>1, <1>2, <1>3

LEMMA LiveHeap ==
  ASSUME NEW c, NEW m, NEW s, Heap(c, m, s)
  PROVE  Heap(c, Live(c, m), s)
<1> DEFINE R == Reached(c, m)
<1>1. R \in SUBSET DOMAIN m
  BY ReachedIsClosed
<1>2. \A x \in Cells : c[x] \in DOMAIN m => c[x] \in R
  <2>1. DOMAIN c = Cells
    BY DEF Heap, Shape, Typed
  <2> QED
    BY <2>1, ReachedIsClosed DEF Range
<1>3. ASSUME NEW p \in R, m[p].tag # "string", NEW i \in DOMAIN m[p].fields,
             m[p].fields[i] \in DOMAIN m
      PROVE  m[p].fields[i] \in R
  <2>1. m[p].fields[i] \in Pointees(m, p)
    BY <1>3 DEF Pointees, Range
  <2> QED
    BY <2>1, ReachedIsClosed
<1> HIDE DEF R
<1>4. Heap(c, Restrict(m, R), s)
  BY <1>1, <1>2, <1>3, PartOfHeap
<1> QED
  BY <1>4 DEF Live, R

-----------------------------------------------------------------------------
(* The program's heap: what the program does to it. *)

\* Any value of the heap may be put in a cell.
LEMMA CellHeap ==
  ASSUME NEW c, NEW m, NEW s, Heap(c, m, s),
         NEW x \in Cells, NEW v \in Nat, Settled(v, m, s)
  PROVE  Heap([c EXCEPT ![x] = v], m, s)
<1>1. [c EXCEPT ![x] = v] \in [Cells -> Nat]
  BY DEF Heap, Shape, Typed
<1>2. \A y \in Cells : Settled([c EXCEPT ![x] = v][y], m, s)
  BY DEF Heap, Shape, Typed
<1> QED
  BY <1>1, <1>2 DEF Heap, Shape, Typed

\* Two memories with the same objects, but for their elements.
SameObjects(m, m2) ==
  /\ DOMAIN m2 = DOMAIN m
  /\ m2 \in [DOMAIN m -> Object]
  /\ \A p \in DOMAIN m : /\ m2[p].tag = m[p].tag /\ m2[p].id = m[p].id
                         /\ m2[p].forward = m[p].forward
                         /\ Len(m2[p].fields) = Len(m[p].fields)

\* m2 is m with v as the element j of the object at p.
Assigned(m, m2, p, j, v) ==
  /\ SameObjects(m, m2)
  /\ \A q \in DOMAIN m : DOMAIN m2[q].fields = DOMAIN m[q].fields
  /\ \A q \in DOMAIN m : q # p => m2[q] = m[q]
  /\ \A i \in DOMAIN m[p].fields : m2[p].fields[i] = IF i = j THEN v ELSE m[p].fields[i]

\* An element may be assigned: the object stays what it is.
LEMMA ElementAssigned ==
  ASSUME NEW c, NEW m, Typed(c, m), NEW p \in DOMAIN m,
         NEW j \in DOMAIN m[p].fields, NEW v \in Nat
  PROVE  Assigned(m, [m EXCEPT ![p].fields[j] = v], p, j, v)
<1> DEFINE g  == [m[p].fields EXCEPT ![j] = v]
           o  == [m[p] EXCEPT !.fields = g]
           m2 == [m EXCEPT ![p] = o]
<1>1. m[p] \in Object /\ m \in [DOMAIN m -> Object]
  BY DEF Typed
<1>2. m[p].fields \in Seq(Nat)
  BY <1>1 DEF Object
<1>3. g \in Seq(Nat) /\ Len(g) = Len(m[p].fields) /\ DOMAIN g = DOMAIN m[p].fields
  BY <1>2
<1>4. \A i \in DOMAIN m[p].fields : g[i] = IF i = j THEN v ELSE m[p].fields[i]
  BY <1>2
<1> HIDE DEF g
<1>5. /\ o \in Object /\ o.fields = g /\ o.tag = m[p].tag /\ o.id = m[p].id
      /\ o.forward = m[p].forward
  BY <1>1, <1>3 DEF Object
<1> HIDE DEF o
<1>6. /\ DOMAIN m2 = DOMAIN m /\ m2[p] = o
      /\ \A q \in DOMAIN m : q # p => m2[q] = m[q]
  BY <1>1
<1>7. m2 \in [DOMAIN m -> Object]
  BY <1>1, <1>5
<1>8. [m EXCEPT ![p].fields[j] = v] = m2
  BY DEF o, g
<1> HIDE DEF m2
<1>9. SameObjects(m, m2)
  BY <1>3, <1>5, <1>6, <1>7 DEF SameObjects
<1>10. \A q \in DOMAIN m : DOMAIN m2[q].fields = DOMAIN m[q].fields
  BY <1>3, <1>5, <1>6
<1> QED
  BY <1>4, <1>5, <1>6, <1>8, <1>9, <1>10 DEF Assigned

\* The places of the objects depend on no element.
LEMMA SameShape ==
  ASSUME NEW c, NEW m, NEW m2, NEW f, Shape(c, m, f), SameObjects(m, m2)
  PROVE  /\ Shape(c, m2, f)
         /\ \A s : In(m2, s) = In(m, s)
         /\ \A p \in DOMAIN m : First(m2, p) = First(m, p) /\ Behind(m2, p) = Behind(m, p)
<1>1. DOMAIN m2 = DOMAIN m
  BY DEF SameObjects
<1>2. \A s : In(m2, s) = In(m, s)
  BY <1>1 DEF In
<1>3. \A p \in DOMAIN m : First(m2, p) = First(m, p) /\ Behind(m2, p) = Behind(m, p)
  BY DEF SameObjects, First, Behind
<1>4. Typed(c, m2)
  BY <1>1 DEF Shape, Typed, SameObjects
<1>5. Inside(m2, f, f.current)
  <2>1. In(m, f) \subseteq DOMAIN m
    BY DEF In
  <2> QED
    BY <1>2, <1>3, <2>1 DEF Shape, Inside
<1>6. Apart(m2) /\ Even(m2)
  BY <1>1, <1>3 DEF Shape, Apart, Even
<1>7. UniqueIds(m2, f)
  <2>1. In(m, f) \subseteq DOMAIN m
    BY DEF In
  <2> QED
    BY <1>2, <2>1 DEF Shape, UniqueIds, SameObjects
<1>8. ForwardsTyped(m2)
  BY <1>1 DEF Shape, ForwardsTyped, SameObjects
<1> QED
  BY <1>2, <1>3, <1>4, <1>5, <1>6, <1>7, <1>8 DEF Shape

LEMMA FieldHeap ==
  ASSUME NEW c, NEW m, NEW s, Heap(c, m, s), NEW p \in DOMAIN m,
         NEW j \in DOMAIN m[p].fields, NEW v \in Nat, Settled(v, m, s)
  PROVE  Heap(c, [m EXCEPT ![p].fields[j] = v], s)
<1> DEFINE m2 == [m EXCEPT ![p].fields[j] = v]
<1>a. Shape(c, m, s) /\ Typed(c, m)
  BY DEF Heap, Shape
<1>1. /\ SameObjects(m, m2)
      /\ \A q \in DOMAIN m : DOMAIN m2[q].fields = DOMAIN m[q].fields
      /\ \A q \in DOMAIN m : q # p => m2[q] = m[q]
      /\ \A i \in DOMAIN m[p].fields : m2[p].fields[i] = IF i = j THEN v ELSE m[p].fields[i]
  <2>1. Assigned(m, m2, p, j, v)
    BY <1>a, ElementAssigned
  <2> QED
    BY <2>1 DEF Assigned
<1> HIDE DEF m2
<1>2. Shape(c, m2, s) /\ In(m2, s) = In(m, s)
  <2>1. Shape(c, m2, s)
    BY <1>a, <1>1, SameShape
  <2>2. In(m2, s) = In(m, s)
    BY <1>1 DEF SameObjects, In
  <2> QED
    BY <2>1, <2>2
<1>3. DOMAIN m2 = DOMAIN m /\ \A q \in DOMAIN m : m2[q].forward = m[q].forward /\ m2[q].tag = m[q].tag
  BY <1>1 DEF SameObjects
<1>4. DOMAIN m2 \subseteq In(m2, s) /\ \A q \in DOMAIN m2 : m2[q].forward = NULL
  BY <1>2, <1>3 DEF Heap
<1>5. \A w : Settled(w, m, s) => Settled(w, m2, s)
  BY <1>2 DEF Settled
<1>6. FieldsSettled(m2, s)
  <2> SUFFICES ASSUME NEW q \in In(m, s), m[q].tag # "string", NEW i \in DOMAIN m[q].fields
               PROVE  Settled(m2[q].fields[i], m, s)
    BY <1>1, <1>2, <1>3, <1>5 DEF FieldsSettled, In
  <2>1. Settled(m[q].fields[i], m, s)
    BY DEF Heap, FieldsSettled
  <2> QED
    BY <1>1, <2>1 DEF In
<1> QED
  BY <1>2, <1>4, <1>5, <1>6 DEF Heap, m2

\* p is the address of the contents of an object whose first byte is at base.
TO_DATA(p, base, tag) == p = base + WORD * Header(tag)

\* m2 is m with o at p, its first byte at base.
Added(c, m, m2, p, o, base) ==
  /\ DOMAIN m2 = DOMAIN m \union {p} /\ Typed(c, m2)
  /\ m2[p] = o /\ \A q \in DOMAIN m : m2[q] = m[q]
  /\ First(m2, p) = base
  /\ Behind(m2, p) = base + WORD * SizeAsked(o.tag, Len(o.fields))
  /\ p \in Nat /\ base < p
  /\ p <= base + WORD * SizeAsked(o.tag, Len(o.fields))
  /\ \A q \in DOMAIN m : First(m2, q) = First(m, q) /\ Behind(m2, q) = Behind(m, q)

\* An object put where none is leaves the others where they are.
LEMMA ObjectAdded ==
  ASSUME NEW c, NEW m, Typed(c, m), NEW o \in Object, NEW base \in Nat,
         NEW p, TO_DATA(p, base, o.tag), p \notin DOMAIN m,
         NEW m2, m2 = With(m, p, o)
  PROVE  Added(c, m, m2, p, o, base)
<1> DEFINE h  == Header(o.tag)
           z  == SizeAsked(o.tag, Len(o.fields))
<1>1. DOMAIN m2 = DOMAIN m \union {p} /\ m2[p] = o /\ \A q \in DOMAIN m : m2[q] = m[q]
  BY DEF With
<1>2. m2 = [q \in DOMAIN m \union {p} |-> m2[q]]
  BY DEF With
<1>3. o.tag \in Tags /\ Len(o.fields) \in Nat
  BY DEF Object
<1>4. h \in Nat /\ z \in Nat /\ z >= h /\ h > 0
  BY <1>3, SizesAgree
<1>5. p = base + WORD * h
  BY DEF TO_DATA
<1> HIDE DEF h, z
<1>6. /\ p - WORD * h = base /\ p + WORD * (z - h) = base + WORD * z
      /\ p \in Nat /\ base < p /\ p <= base + WORD * z
  BY <1>4, <1>5 DEF WORD
<1>7. First(m2, p) = base /\ Behind(m2, p) = base + WORD * z
  BY <1>1, <1>6 DEF First, Behind, h, z
<1>8. \A q \in DOMAIN m : First(m2, q) = First(m, q) /\ Behind(m2, q) = Behind(m, q)
  BY <1>1 DEF First, Behind
<1>9. Typed(c, m2)
  <2>1. DOMAIN m2 \subseteq Nat /\ \A q \in DOMAIN m2 : m2[q] \in Object
    BY <1>1, <1>6 DEF Typed
  <2>2. m2 \in [DOMAIN m2 -> Object]
    BY <1>1, <1>2, <2>1
  <2> QED
    BY <2>1, <2>2 DEF Typed
<1> QED
  BY <1>1, <1>6, <1>7, <1>8, <1>9 DEF z, Added

\* alloc and the function that called it: a new object behind all the others,
\* and its address in a cell.
LEMMA NewHeap ==
  ASSUME NEW c, NEW m, NEW s, Heap(c, m, s), NEW x \in Cells,
         NEW o \in Object, o.forward = NULL, \A q \in DOMAIN m : m[q].id # o.id,
         o.tag # "string" => \A i \in DOMAIN o.fields : Settled(o.fields[i], m, s),
         NEW k, k = s.current,
         NEW top, top = k + WORD * SizeAsked(o.tag, Len(o.fields)), top < s.end,
         NEW p, p = k + WORD * Header(o.tag)
  PROVE  Heap([c EXCEPT ![x] = p], With(m, p, o), [s EXCEPT !.current = top])
<1> DEFINE m2 == With(m, p, o)
           s2 == [s EXCEPT !.current = top]
           c2 == [c EXCEPT ![x] = p]
           b  == s.begin
           e  == s.end
           h  == Header(o.tag)
           z  == SizeAsked(o.tag, Len(o.fields))
<1>1. Shape(c, m, s) /\ Typed(c, m) /\ FromOK(s) /\ SpaceOK(s)
  BY DEF Heap, Shape, FromOK
<1>2. /\ b \in Nat /\ e \in Nat /\ k \in Nat /\ b <= k /\ k < e /\ k % 2 = 0
      /\ s2 \in Space /\ s2.begin = b /\ s2.end = e /\ s2.current = top /\ s2.size = s.size
  <2>1. s \in Space /\ b <= k /\ k < e /\ k % 2 = 0
    BY <1>1 DEF FromOK, SpaceOK
  <2>2. o.tag \in Tags /\ Len(o.fields) \in Nat
    BY DEF Object
  <2>3. z \in Nat /\ k \in Nat /\ top = k + WORD * z
    BY <2>1, <2>2, SizesAgree DEF Space
  <2> HIDE DEF z
  <2>4. top \in Nat
    BY <2>3 DEF WORD
  <2> QED
    BY <2>1, <2>3, <2>4 DEF Space
<1>3. \A q \in DOMAIN m : /\ q \in In(m, s) /\ q \in Nat /\ First(m, q) \in Int /\ Behind(m, q) \in Int
                          /\ b <= First(m, q) /\ First(m, q) < q /\ q <= Behind(m, q)
                          /\ Behind(m, q) <= k
  <2> SUFFICES ASSUME NEW q \in DOMAIN m
               PROVE  /\ q \in In(m, s) /\ q \in Nat /\ First(m, q) \in Int /\ Behind(m, q) \in Int
                      /\ b <= First(m, q) /\ First(m, q) < q /\ q <= Behind(m, q)
                      /\ Behind(m, q) <= k
    OBVIOUS
  <2>1. q \in In(m, s) /\ Inside(m, s, k)
    BY <1>1 DEF Heap, Shape
  <2>2. b <= First(m, q) /\ Behind(m, q) <= k
    BY <2>1 DEF Inside
  <2> QED
    BY <1>1, <2>1, <2>2, Bounds
<1>4. k <= p /\ p # k /\ k \in Nat /\ p \in Nat /\ top \in Nat /\ p <= top
  <2>1. o.tag \in Tags /\ Len(o.fields) \in Nat
    BY DEF Object
  <2>2. h \in Nat /\ z \in Nat /\ z >= h /\ h > 0 /\ p = k + WORD * h /\ top = k + WORD * z
    BY <2>1, SizesAgree
  <2> HIDE DEF h, z
  <2> QED
    BY <1>2, <2>2 DEF WORD
<1>5. p \notin DOMAIN m
  <2> HIDE DEF b, e
  <2> QED
    BY <1>3, <1>4, <1>2
<1>6. /\ DOMAIN m2 = DOMAIN m \union {p} /\ Typed(c, m2)
      /\ m2[p] = o /\ \A q \in DOMAIN m : m2[q] = m[q]
      /\ First(m2, p) = k /\ Behind(m2, p) = top
      /\ \A q \in DOMAIN m : First(m2, q) = First(m, q) /\ Behind(m2, q) = Behind(m, q)
  <2>1. TO_DATA(p, k, o.tag)
    BY DEF TO_DATA
  <2>2. k \in Nat
    BY <1>2
  <2>0. m2 = With(m, p, o)
    OBVIOUS
  <2> HIDE DEF m2
  <2>3. Typed(c, m)
    BY <1>1
  <2>4. Added(c, m, m2, p, o, k)
    BY <1>5, <2>0, <2>1, <2>2, <2>3, ObjectAdded
  <2> QED
    BY <2>4 DEF Added
<1>7. k < p /\ b < p /\ p <= e /\ b <= k /\ k <= top /\ p < e
  <2> HIDE DEF b, e
  <2> QED
    BY <1>2, <1>4, top < e DEF e
<1>8. p % 2 = 0 /\ top % 2 = 0
  <2>1. o.tag \in Tags /\ Len(o.fields) \in Nat
    BY DEF Object
  <2>2. h \in Nat /\ z \in Nat /\ p = k + WORD * h /\ top = k + WORD * z
    BY <2>1, SizesAgree
  <2> HIDE DEF h, z
  <2> QED
    BY <1>2, <2>2, EvenWords
<1>9. Typed(c2, m2)
  BY <1>4, <1>6 DEF Typed
<1>10. FromOK(s2)
  <2>1. b <= top /\ top < e
    <3> HIDE DEF b, e
    <3> QED
      BY <1>2, <1>4, <1>7, top < e DEF e
  <2> QED
    BY <1>1, <1>2, <1>8, <2>1 DEF FromOK, SpaceOK
<1> HIDE DEF s2, m2, c2
<1>11. In(m2, s2) = In(m, s) \union {p}
  BY <1>2, <1>6, <1>7 DEF In, Within
<1>12. Inside(m2, s2, s2.current)
  <2> SUFFICES ASSUME NEW q \in In(m2, s2)
               PROVE  b <= First(m2, q) /\ Behind(m2, q) <= top
    BY <1>2 DEF Inside
  <2>1. CASE q = p
    BY <1>4, <1>6, <1>7, <2>1
  <2>2. CASE q \in DOMAIN m
    <3>1. b <= First(m2, q) /\ Behind(m2, q) <= k /\ Behind(m2, q) \in Int
      BY <1>3, <1>6, <2>2
    <3> HIDE DEF b
    <3> QED
      BY <1>2, <1>4, <1>7, <3>1
  <2> QED
    BY <1>6, <1>11, <2>1, <2>2 DEF In
<1>13. Apart(m2)
  <2> SUFFICES ASSUME NEW q1 \in DOMAIN m2, NEW q2 \in DOMAIN m2, q1 < q2
               PROVE  Behind(m2, q1) <= First(m2, q2)
    BY DEF Apart
  <2>1. CASE q1 \in DOMAIN m /\ q2 \in DOMAIN m
    BY <1>1, <1>6, <2>1 DEF Shape, Apart
  <2>2. CASE q1 \in DOMAIN m /\ q2 = p
    BY <1>3, <1>6, <2>2
  <2>3. CASE q1 = p /\ q2 \in DOMAIN m
    <3>1. q2 \in Nat /\ q2 <= Behind(m, q2) /\ Behind(m, q2) <= k /\ Behind(m, q2) \in Int
      BY <1>3, <2>3
    <3>2. q2 <= k
      BY <1>2, <3>1
    <3>3. q2 < q1
      BY <1>4, <1>7, <2>3, <3>1, <3>2
    <3> QED
      BY <1>4, <2>3, <3>1, <3>3
  <2> QED
    BY <1>4, <1>6, <2>1, <2>2, <2>3
<1>14. Even(m2)
  BY <1>1, <1>6, <1>8 DEF Shape, Even
<1>15. UniqueIds(m2, s2)
  <2>1. In(m, s) \subseteq DOMAIN m
    BY DEF In
  <2> QED
    BY <1>1, <1>5, <1>6, <1>11, <2>1 DEF Shape, UniqueIds
<1>16. \A q \in DOMAIN m2 : m2[q].forward = NULL
  BY <1>6 DEF Heap
<1>17. ForwardsTyped(m2)
  BY <1>16 DEF ForwardsTyped
<1>18. \A v : Settled(v, m, s) => Settled(v, m2, s2)
  BY <1>11 DEF Settled
<1>19. \A y \in Cells : Settled(c2[y], m2, s2)
  <2>1. Settled(p, m2, s2)
    BY <1>11 DEF Settled
  <2> QED
    BY <1>1, <1>18, <2>1 DEF Heap, Typed, c2
<1>20. FieldsSettled(m2, s2)
  <2>1. In(m, s) \subseteq DOMAIN m
    BY DEF In
  <2> QED
    BY <1>6, <1>11, <1>18, <2>1 DEF Heap, FieldsSettled
<1>21. DOMAIN m2 \subseteq In(m2, s2)
  BY <1>3, <1>6, <1>11
<1> QED
  BY <1>9, <1>10, <1>12, <1>13, <1>14, <1>15, <1>16, <1>17, <1>19, <1>20, <1>21
     DEF Heap, Shape, c2, m2, s2

-----------------------------------------------------------------------------
(* A collection: room, beginning and end. *)

\* The bytes copied are some of those in use in from_space.
LEMMA CopiedBytesBound ==
  ASSUME NEW m, NEW f, FromOK(f)
  PROVE  /\ IsFiniteSet(CopiedBytes(m, f))
         /\ Cardinality(CopiedBytes(m, f)) \in Nat
         /\ Cardinality(CopiedBytes(m, f)) <= f.current - f.begin
<1> DEFINE b == f.begin
           k == f.current
           S == CopiedBytes(m, f)
<1>1. b \in Nat /\ k \in Nat /\ b <= k
  BY DEF FromOK, SpaceOK, Space
<1>2. S \in SUBSET (b .. (k - 1))
  BY DEF CopiedBytes
<1> HIDE DEF b, k, S
<1>3. IsFiniteSet(b .. (k - 1)) /\ Cardinality(b .. (k - 1)) = k - b
  <2> DEFINE d == k - 1
  <2>1. b \in Int /\ d \in Int /\ (IF b > d THEN 0 ELSE d - b + 1) = k - b
    BY <1>1
  <2> HIDE DEF d
  <2>2. IsFiniteSet(b .. d) /\ Cardinality(b .. d) = IF b > d THEN 0 ELSE d - b + 1
    BY <2>1, FS_Interval
  <2>3. IsFiniteSet(b .. d) /\ Cardinality(b .. d) = k - b
    BY <2>1, <2>2
  <2> QED
    BY <2>3 DEF d
<1>4. IsFiniteSet(S) /\ Cardinality(S) <= Cardinality(b .. (k - 1))
  BY <1>2, <1>3, FS_Subset
<1>5. Cardinality(S) \in Nat
  BY <1>4, FS_CardinalityType
<1> QED
  BY <1>3, <1>4, <1>5 DEF b, k, S

\* to_space is never full, since it is as large as from_space, which is not full.
LEMMA RoomLeft ==
  ASSUME NEW m, NEW f, NEW t, NEW cur, FromOK(f), SpacesOK(f, t, cur), Room(m, f, t, cur)
  PROVE  t.begin <= cur /\ cur < t.end
<1> DEFINE b == f.begin
           k == f.current
           e == f.end
           z == f.size
           tb == t.begin
           te == t.end
           tz == t.size
           n == Cardinality(CopiedBytes(m, f))
<1>1. /\ b \in Nat /\ k \in Nat /\ e \in Nat /\ z \in Nat /\ k < e /\ e = b + WORD * z
      /\ tb \in Nat /\ te \in Nat /\ tz \in Nat /\ te = tb + WORD * tz /\ z <= tz
      /\ cur = tb + n
  BY DEF FromOK, SpacesOK, SpaceOK, Space, Room
<1>2. n \in Nat /\ n <= k - b
  BY CopiedBytesBound
<1> HIDE DEF b, k, e, z, tb, te, tz, n
<1>3. tb <= cur /\ cur < te
  BY <1>1, <1>2 DEF WORD
<1> QED
  BY <1>3 DEF tb, te

\* At the start nothing is copied, and every root is still to be scanned.
LEMMA CollectionStarts ==
  ASSUME NEW c, NEW m, NEW f, NEW t, Heap(c, m, f), SpaceOK(t), Disjoint(t, f), f.size <= t.size
  PROVE  Collection(c, m, f, t, t.begin, 1, <<>>)
<1>1. Shape(c, m, f) /\ FromOK(f) /\ SpaceOK(f) /\ Typed(c, m)
  BY DEF Heap, Shape, FromOK
<1>2. /\ f.begin \in Nat /\ f.end \in Nat /\ t.begin \in Nat /\ t.end \in Nat
      /\ f.current \in Nat /\ f.current < f.end /\ t.begin % 2 = 0
  BY <1>1 DEF FromOK, SpaceOK, Space
<1>3. \A p \in DOMAIN m : p \in In(m, f) /\ p \in Nat /\ f.begin < p /\ p < f.end
  <2> SUFFICES ASSUME NEW p \in DOMAIN m
               PROVE  p \in In(m, f) /\ p \in Nat /\ f.begin < p /\ p < f.end
    OBVIOUS
  <2>1. p \in In(m, f) /\ f.begin < p /\ Inside(m, f, f.current)
    BY <1>1 DEF Heap, Shape, In, Within
  <2>2. Behind(m, p) <= f.current
    BY <2>1 DEF Inside
  <2>3. p \in Nat /\ Behind(m, p) \in Int /\ p <= Behind(m, p)
    BY <1>1, Bounds
  <2> DEFINE x == Behind(m, p)
             k == f.current
             e == f.end
  <2>4. p \in Nat /\ x \in Int /\ p <= x /\ x <= k /\ k \in Nat /\ k < e /\ e \in Nat
    BY <1>2, <2>2, <2>3
  <2> HIDE DEF x, k, e
  <2>5. p < e
    BY <2>4
  <2> QED
    BY <2>1, <2>3, <2>5 DEF e
<1>4. In(m, t) = {}
  <2> SUFFICES ASSUME NEW p \in DOMAIN m, Within(t, p)
               PROVE  FALSE
    BY DEF In
  <2> DEFINE fb == f.begin
             fe == f.end
             tb == t.begin
             te == t.end
  <2>1. /\ p \in Nat /\ fb < p /\ p < fe /\ tb < p /\ p <= te /\ (te <= fb \/ fe <= tb)
        /\ fb \in Nat /\ fe \in Nat /\ tb \in Nat /\ te \in Nat
    BY <1>2, <1>3 DEF Within, Disjoint
  <2> HIDE DEF fb, fe, tb, te
  <2> QED
    BY <2>1
<1>5. CopiedBytes(m, f) = {}
  BY DEF CopiedBytes, Heap, In
<1>6. Room(m, f, t, t.begin)
  <2>1. Cardinality({}) = 0
    BY FS_EmptySet
  <2> QED
    BY <1>2, <1>5, <2>1 DEF Room
<1>7. SpacesOK(f, t, t.begin)
  BY <1>2 DEF SpacesOK
<1>8. Inside(m, t, t.begin) /\ Filled(m, t, <<>>)
  BY <1>4 DEF Inside, Filled
<1>9. Copies(m, f, t)
  BY <1>4 DEF Copies, Heap, In
<1>10. WorkOK(m, f, <<>>)
  BY DEF WorkOK
<1>11. RootsOK(c, m, f, t, 1)
  <2>1. Len(Scan) \in Nat
    BY RequestsAssumption
  <2>2. 1 \in 1 .. Len(Scan) + 1
    BY <2>1
  <2>3. \A i \in 1 .. Len(Scan) : ~(i < 1)
    BY <2>1
  <2> QED
    BY <2>2, <2>3 DEF RootsOK, Heap
<1>12. DOMAIN m \subseteq In(m, f) \union In(m, t) /\ FieldsSettled(m, f)
  BY DEF Heap
<1> QED
  BY <1>1, <1>6, <1>7, <1>8, <1>9, <1>10, <1>11, <1>12 DEF Collection, RootInHand

\* No object is at address 0, and none is in both spaces.
LEMMA SpacesAreNotNull ==
  ASSUME NEW c, NEW m, NEW s, Typed(c, m), SpaceOK(s)
  PROVE  \A p \in In(m, s) : p # NULL
BY DEF In, Within, Typed, SpaceOK, Space, NULL

LEMMA SpacesApart ==
  ASSUME NEW c, NEW m, NEW f, NEW t, Typed(c, m), SpaceOK(f), SpaceOK(t), Disjoint(t, f)
  PROVE  \A p \in In(m, f) : p \notin In(m, t)
<1> SUFFICES ASSUME NEW p \in DOMAIN m, Within(f, p), Within(t, p)
             PROVE  FALSE
  BY DEF In
<1> DEFINE fb == f.begin
           fe == f.end
           tb == t.begin
           te == t.end
<1>1. /\ fb \in Nat /\ fe \in Nat /\ tb \in Nat /\ te \in Nat /\ p \in Nat
      /\ fb < p /\ p <= fe /\ tb < p /\ p <= te /\ (te <= fb \/ fe <= tb)
  BY DEF SpaceOK, Space, Disjoint, Within, Typed
<1> HIDE DEF fb, fe, tb, te
<1> QED
  BY <1>1

\* When the roots are scanned and nothing is being copied, to_space holds all
\* that the program can reach.
LEMMA CollectionEnds ==
  ASSUME NEW c, NEW m, NEW f, NEW t, NEW cur, NEW r, r = Len(Scan) + 1,
         Collection(c, m, f, t, cur, r, <<>>)
  PROVE  Heap(c, Restrict(m, In(m, t)), [t EXCEPT !.current = cur])
<1> DEFINE R  == In(m, t)
           m2 == Restrict(m, R)
           s2 == [t EXCEPT !.current = cur]
<1>1. /\ Shape(c, m, f) /\ Typed(c, m) /\ FromOK(f) /\ SpacesOK(f, t, cur) /\ SpaceOK(t)
      /\ Room(m, f, t, cur)
  BY DEF Collection, Shape, SpacesOK
<1>2. /\ s2 \in Space /\ s2.begin = t.begin /\ s2.end = t.end /\ s2.size = t.size
      /\ s2.current = cur
  BY <1>1 DEF SpacesOK, SpaceOK, Space
<1>3. FromOK(s2)
  <2>1. t.begin <= cur /\ cur < t.end
    BY <1>1, RoomLeft
  <2> HIDE DEF s2
  <2> QED
    BY <1>1, <1>2, <2>1 DEF FromOK, SpacesOK, SpaceOK
<1>4. R \subseteq DOMAIN m
  BY DEF In
<1>5. DOMAIN m2 = R /\ \A p \in R : m2[p] = m[p]
  BY DEF Restrict
<1>6. m2 = [p \in R |-> m2[p]]
  BY <1>5 DEF Restrict
<1>7. Len(Scan) \in Nat /\ Scan \in Seq(Cells)
  BY RequestsAssumption
<1>8. \A x \in Cells : Settled(c[x], m, t)
  <2> SUFFICES ASSUME NEW x \in Cells
               PROVE  Settled(c[x], m, t)
    OBVIOUS
  <2>1. PICK i \in 1 .. Len(Scan) : Scan[i] = x
    BY <1>7 DEF Cells, Range
  <2>2. i < Len(Scan) + 1
    BY <1>7, <2>1
  <2> QED
    BY <2>1, <2>2 DEF Collection, RootsOK
<1>9. \A q \in R : m[q].tag # "string" => \A j \in DOMAIN m[q].fields : Settled(m[q].fields[j], m, t)
  BY DEF Collection, Filled
<1>10. \A q \in R : m[q].forward = NULL
  BY DEF Collection, Copies
<1>11. \A q1, q2 \in R : m[q1].id = m[q2].id => q1 = q2
  <2> SUFFICES ASSUME NEW q1 \in R, NEW q2 \in R, m[q1].id = m[q2].id
               PROVE  q1 = q2
    OBVIOUS
  <2>0. q1 # NULL /\ q2 # NULL
    BY <1>1, SpacesAreNotNull
  <2>1. PICK p1 \in In(m, f) : m[p1].forward = q1 /\ m[p1].id = m[q1].id
    BY <2>0 DEF Collection, Copies
  <2>2. PICK p2 \in In(m, f) : m[p2].forward = q2 /\ m[p2].id = m[q2].id
    BY <2>0 DEF Collection, Copies
  <2>3. p1 = p2
    BY <1>1, <2>1, <2>2 DEF Shape, UniqueIds
  <2> QED
    BY <2>1, <2>2, <2>3
<1>12. Inside(m, t, cur)
  BY DEF Collection
<1> HIDE DEF m2, s2
<1>13. In(m2, s2) = R
  BY <1>2, <1>5 DEF In, Within
<1> HIDE DEF R
<1>14. \A p \in R : First(m2, p) = First(m, p) /\ Behind(m2, p) = Behind(m, p)
  BY <1>5 DEF First, Behind
<1>15. Typed(c, m2)
  <2>1. m2 \in [R -> Object]
    BY <1>1, <1>4, <1>5, <1>6 DEF Typed
  <2> QED
    BY <1>1, <1>4, <1>5, <2>1 DEF Typed
<1>16. Inside(m2, s2, s2.current)
  BY <1>2, <1>12, <1>13, <1>14 DEF Inside, R
<1>17. Apart(m2) /\ Even(m2)
  BY <1>1, <1>4, <1>5, <1>14 DEF Shape, Apart, Even
<1>18. UniqueIds(m2, s2)
  BY <1>5, <1>11, <1>13 DEF UniqueIds
<1>19. ForwardsTyped(m2) /\ \A q \in DOMAIN m2 : m2[q].forward = NULL
  BY <1>5, <1>10 DEF ForwardsTyped
<1>20. \A v : Settled(v, m, t) => Settled(v, m2, s2)
  BY <1>13 DEF Settled, R
<1>21. FieldsSettled(m2, s2)
  BY <1>5, <1>9, <1>13, <1>20 DEF FieldsSettled
<1> QED
  BY <1>3, <1>5, <1>8, <1>13, <1>15, <1>16, <1>17, <1>18, <1>19, <1>20, <1>21
     DEF Heap, Shape, m2, s2, R

-----------------------------------------------------------------------------
(* A collection: what the words lead to. *)

\* An address in from_space that a word holds is that of an object there, and
\* an object there has such an address: what the collector takes for a pointer
\* is one, and no pointer into from_space escapes it.
LEMMA PointersIntoFrom ==
  ASSUME NEW c, NEW m, NEW f, NEW t, NEW cur, NEW r, NEW w,
         Collection(c, m, f, t, cur, r, w),
         NEW v, Settled(v, m, f) \/ Settled(v, m, t)
  PROVE  (~UNBOXED(v) /\ f.begin <= v /\ v < f.end) <=> v \in In(m, f)
<1> DEFINE fb == f.begin
           fk == f.current
           fe == f.end
           tb == t.begin
           te == t.end
<1>1. /\ Shape(c, m, f) /\ Typed(c, m) /\ FromOK(f) /\ SpacesOK(f, t, cur) /\ SpaceOK(t)
      /\ Even(m) /\ Inside(m, f, f.current) /\ Inside(m, t, cur) /\ Room(m, f, t, cur)
  BY DEF Collection, Shape, SpacesOK
<1>2. /\ fb \in Nat /\ fk \in Nat /\ fe \in Nat /\ tb \in Nat /\ te \in Nat /\ cur \in Nat
      /\ fk < fe /\ cur < te /\ (fe <= tb \/ te <= fb)
  <2>1. cur < t.end
    BY <1>1, RoomLeft
  <2> QED
    BY <1>1, <2>1 DEF FromOK, SpacesOK, SpaceOK, Space, Disjoint
<1>3. ASSUME v \in In(m, f)
      PROVE  ~UNBOXED(v) /\ fb <= v /\ v < fe
  <2>1. v \in DOMAIN m /\ fb < v
    BY <1>3 DEF In, Within
  <2>2. Behind(m, v) <= fk
    BY <1>1, <1>3 DEF Inside
  <2>3. ~UNBOXED(v)
    BY <1>1, <2>1, PointersAreBoxed
  <2>4. v \in Nat /\ Behind(m, v) \in Int /\ v <= Behind(m, v)
    BY <1>1, <2>1, Bounds
  <2> DEFINE x == Behind(m, v)
  <2> HIDE DEF fb, fe, fk, x
  <2>5. x <= fk /\ x \in Int /\ v <= x
    BY <2>2, <2>4 DEF x
  <2>6. v < fe
    BY <1>2, <2>4, <2>5
  <2> QED
    BY <1>2, <2>1, <2>3, <2>4, <2>6
<1>4. ASSUME v \in In(m, t)
      PROVE  ~(fb <= v /\ v < fe)
  <2>1. v \in DOMAIN m /\ tb < v
    BY <1>4 DEF In, Within
  <2>2. Behind(m, v) <= cur
    BY <1>1, <1>4 DEF Inside
  <2>3. v \in Nat /\ Behind(m, v) \in Int /\ v <= Behind(m, v)
    BY <1>1, <2>1, Bounds
  <2> DEFINE x == Behind(m, v)
  <2> HIDE DEF fb, fe, tb, te, x
  <2>4. x <= cur /\ x \in Int /\ v <= x
    BY <2>2, <2>3 DEF x
  <2>5. v < te
    BY <1>2, <2>3, <2>4
  <2> QED
    BY <1>2, <2>1, <2>3, <2>5
<1> HIDE DEF fb, fe
<1> QED
  BY <1>3, <1>4 DEF Settled, fb, fe

-----------------------------------------------------------------------------
(* A collection: the answers of gc_copy. *)

\* All elements of a sequence but the last.
LEMMA FrontFacts ==
  ASSUME NEW S, NEW w \in Seq(S), w # <<>>
  PROVE  /\ Front(w) \in Seq(S) /\ Len(Front(w)) = Len(w) - 1
         /\ \A k \in 1 .. Len(w) - 1 : Front(w)[k] = w[k]
<1> DEFINE n     == Len(w) - 1
           front == SubSeq(w, 1, n)
<1>1. /\ Len(w) \in Nat /\ n \in Nat /\ 1 \in 1 .. Len(w) + 1 /\ n \in 1 - 1 .. Len(w)
      /\ n - 1 + 1 = n /\ \A k \in 1 .. n : 1 + k - 1 = k
  OBVIOUS
<1>2. front \in Seq(S)
  BY <1>1
<1>3. Len(front) = n
  BY <1>1
<1>4. \A k \in 1 .. n : front[k] = w[k]
  BY <1>1
<1> QED
  BY <1>2, <1>3, <1>4 DEF Front

\* A root is assigned.
LEMMA RootAnswered ==
  ASSUME NEW c, NEW m, NEW f, NEW t, NEW cur, NEW r,
         Collection(c, m, f, t, cur, r, <<>>),
         r <= Len(Scan), NEW v \in Nat, Settled(v, m, t)
  PROVE  Collection([c EXCEPT ![Scan[r]] = v], m, f, t, cur, r + 1, <<>>)
<1> DEFINE c2 == [c EXCEPT ![Scan[r]] = v]
<1>1. Len(Scan) \in Nat /\ Scan \in Seq(Cells)
  BY RequestsAssumption
<1>2. r \in 1 .. Len(Scan) /\ r + 1 \in 1 .. Len(Scan) + 1
  BY <1>1 DEF Collection, RootsOK
<1>3. Scan[r] \in Cells
  BY <1>1, <1>2
<1>4. c \in [Cells -> Nat]
  BY DEF Collection, Shape, Typed
<1>5. c2 \in [Cells -> Nat] /\ c2[Scan[r]] = v /\ \A x \in Cells : x # Scan[r] => c2[x] = c[x]
  BY <1>3, <1>4
<1> HIDE DEF c2
<1>6. Shape(c2, m, f)
  BY <1>5 DEF Collection, Shape, Typed
<1>7. RootsOK(c2, m, f, t, r + 1)
  <2>1. \A x \in Cells : Settled(c2[x], m, f) \/ Settled(c2[x], m, t)
    BY <1>5 DEF Collection, RootsOK
  <2>2. ASSUME NEW i \in 1 .. Len(Scan), i < r + 1
        PROVE  Settled(c2[Scan[i]], m, t)
    <3>1. Scan[i] \in Cells
      BY <1>1
    <3>2. i < r \/ i = r
      BY <1>2, <2>2
    <3>3. i < r => Settled(c[Scan[i]], m, t)
      BY DEF Collection, RootsOK
    <3> QED
      BY <1>5, <3>1, <3>2, <3>3
  <2> QED
    BY <1>2, <2>1, <2>2 DEF RootsOK
<1> QED
  BY <1>6, <1>7 DEF Collection, RootInHand, c2

\* An activation that has no element left answers its caller.
LEMMA ActivationEnds ==
  ASSUME NEW c, NEW m, NEW f, NEW t, NEW cur, NEW r, NEW w,
         Collection(c, m, f, t, cur, r, w), w # <<>>,
         w[Len(w)].i > Len(m[w[Len(w)].src].fields)
  PROVE  Collection(c, m, f, t, cur, r, Front(w))
<1> DEFINE n  == Len(w)
           w2 == Front(w)
<1>1. w \in Seq(Activation) /\ n \in Nat /\ n > 0
  BY DEF Collection, WorkOK
<1>2. w2 \in Seq(Activation) /\ Len(w2) = n - 1 /\ \A k \in 1 .. n - 1 : w2[k] = w[k]
  BY <1>1, FrontFacts
<1> HIDE DEF w2
<1>3. WorkOK(m, f, w2)
  <2>1. \A k \in 1 .. n - 1 : k \in 1 .. n /\ (k < n - 1 => k < n)
    BY <1>1
  <2> QED
    BY <1>1, <1>2, <2>1 DEF Collection, WorkOK
<1>4. Filled(m, t, w2)
  <2> SUFFICES ASSUME NEW q \in In(m, t), m[q].tag # "string", NEW j \in DOMAIN m[q].fields,
                      NEW k \in 1 .. n, w[k].dst = q, w[k].i <= j
               PROVE  k \in 1 .. n - 1
    BY <1>1, <1>2 DEF Collection, Filled
  <2> SUFFICES ASSUME k = n
               PROVE  FALSE
    BY <1>1
  <2> DEFINE a == w[k]
             z == Len(m[q].fields)
             i == a.i
  <2>1. a.src \in In(m, f) /\ m[a.src].forward = a.dst /\ a.dst # NULL
    BY DEF Collection, WorkOK
  <2>2. Len(m[a.src].fields) = z
    BY <2>1 DEF Collection, Copies
  <2>3. m[q].fields \in Seq(Nat)
    BY DEF Collection, Shape, Typed, Object, In
  <2>4. z \in Nat /\ j \in 1 .. z
    BY <2>3
  <2>5. i > z /\ i <= j
    BY <2>2
  <2>6. a \in Activation
    BY <1>1
  <2>7. i \in Nat
    BY <2>6 DEF Activation
  <2> HIDE DEF i, z
  <2> QED
    BY <2>4, <2>5, <2>7
<1> QED
  BY <1>3, <1>4 DEF Collection, RootInHand, w2

\* The object an activation copies, its copy and the element it is at.
LEMMA ActivationFacts ==
  ASSUME NEW c, NEW m, NEW f, NEW t, NEW cur, NEW r, NEW w,
         Collection(c, m, f, t, cur, r, w), NEW k \in 1 .. Len(w)
  PROVE  /\ w[k] \in Activation /\ w[k].i \in Nat /\ w[k].i > 0
         /\ w[k].src \in In(m, f) /\ w[k].src \in DOMAIN m /\ m[w[k].src].fields \in Seq(Nat)
         /\ m[w[k].src].forward = w[k].dst
         /\ w[k].dst \in In(m, t) /\ w[k].dst \in DOMAIN m /\ w[k].dst \in Nat
         /\ w[k].dst \notin In(m, f)
         /\ m[w[k].dst].fields \in Seq(Nat)
         /\ Len(m[w[k].dst].fields) = Len(m[w[k].src].fields)
         /\ m[w[k].dst].tag = m[w[k].src].tag
         /\ w[k].i <= Len(m[w[k].src].fields) =>
              m[w[k].src].tag # "string" /\ w[k].i \in DOMAIN m[w[k].dst].fields
<1> DEFINE a == w[k]
<1>1. /\ w \in Seq(Activation) /\ a.src \in In(m, f) /\ m[a.src].forward = a.dst /\ a.dst # NULL
      /\ a.i \in 1 .. Len(m[a.src].fields) + 1
      /\ m[a.src].tag = "string" => a.i > Len(m[a.src].fields)
  BY DEF Collection, WorkOK
<1>2. a \in Activation
  BY <1>1
<1>3. /\ a.dst \in In(m, t) /\ m[a.dst].tag = m[a.src].tag
      /\ Len(m[a.dst].fields) = Len(m[a.src].fields)
  BY <1>1 DEF Collection, Copies
<1>4. Typed(c, m) /\ SpaceOK(f) /\ SpaceOK(t) /\ Disjoint(t, f)
  BY DEF Collection, Shape, FromOK, SpacesOK
<1>5. a.src \notin In(m, t) /\ a.dst \notin In(m, f)
  BY <1>1, <1>3, <1>4, SpacesApart
<1>6. a.src \in DOMAIN m /\ a.dst \in DOMAIN m
  BY <1>1, <1>3 DEF In
<1>7. m[a.src].fields \in Seq(Nat) /\ m[a.dst].fields \in Seq(Nat)
  BY <1>4, <1>6 DEF Typed, Object
<1>8. a.i \in Nat /\ a.dst \in Nat
  BY <1>2 DEF Activation
<1> DEFINE i == a.i
           z == Len(m[a.src].fields)
<1>9. i \in Nat /\ z \in Nat /\ i \in 1 .. z + 1 /\ (m[a.src].tag = "string" => i > z)
  BY <1>1, <1>7, <1>8
<1>10. DOMAIN m[a.dst].fields = 1 .. z
  BY <1>3, <1>7
<1> HIDE DEF i, z
<1>11. i > 0 /\ (i <= z => m[a.src].tag # "string" /\ i \in 1 .. z)
  BY <1>9
<1> QED
  BY <1>1, <1>2, <1>3, <1>5, <1>6, <1>7, <1>8, <1>10, <1>11 DEF i, z

\* An activation may go to its next element.
LEMMA NextElement ==
  ASSUME NEW w \in Seq(Activation), w # <<>>
  PROVE  LET w2 == [w EXCEPT ![Len(w)].i = @ + 1]
         IN  /\ w2 \in Seq(Activation) /\ Len(w2) = Len(w)
             /\ \A k \in 1 .. Len(w) : /\ w2[k].src = w[k].src /\ w2[k].dst = w[k].dst
                                       /\ k # Len(w) => w2[k].i = w[k].i
             /\ w2[Len(w)].i = w[Len(w)].i + 1
<1> DEFINE n  == Len(w)
           a  == w[n]
           b  == [a EXCEPT !.i = a.i + 1]
           w2 == [w EXCEPT ![n] = b]
<1>1. n \in Nat /\ n \in 1 .. n
  OBVIOUS
<1>2. a \in Activation
  BY <1>1
<1>3. b \in Activation /\ b.src = a.src /\ b.dst = a.dst /\ b.i = a.i + 1
  BY <1>2 DEF Activation
<1>4. [w EXCEPT ![n].i = @ + 1] = w2
  OBVIOUS
<1> HIDE DEF b
<1>5. /\ w2 \in Seq(Activation) /\ Len(w2) = n /\ w2[n] = b
      /\ \A k \in 1 .. n : k # n => w2[k] = w[k]
  BY <1>1, <1>3
<1> HIDE DEF w2
<1>6. \A k \in 1 .. n : /\ w2[k].src = w[k].src /\ w2[k].dst = w[k].dst
                        /\ k # n => w2[k].i = w[k].i
  BY <1>3, <1>5
<1> QED
  BY <1>3, <1>4, <1>5, <1>6

\* Memories with the same objects are alike to a collection, but for what the
\* elements are.
LEMMA SameCollection ==
  ASSUME NEW c, NEW m, NEW f, NEW t, NEW cur, NEW r, NEW w, NEW m2,
         Collection(c, m, f, t, cur, r, w), SameObjects(m, m2)
  PROVE  /\ Shape(c, m2, f)
         /\ DOMAIN m2 \subseteq In(m2, f) \union In(m2, t)
         /\ Inside(m2, t, cur) /\ Room(m2, f, t, cur) /\ Copies(m2, f, t)
         /\ WorkOK(m2, f, w) /\ RootsOK(c, m2, f, t, r)
<1>1. Shape(c, m, f)
  BY DEF Collection
<1>2. /\ Shape(c, m2, f)
      /\ \A p \in DOMAIN m : First(m2, p) = First(m, p) /\ Behind(m2, p) = Behind(m, p)
  <2>1. Shape(c, m2, f)
    BY <1>1, SameShape
  <2> QED
    BY <2>1 DEF SameObjects, First, Behind
<1>3. /\ DOMAIN m2 = DOMAIN m
      /\ \A p \in DOMAIN m : /\ m2[p].tag = m[p].tag /\ m2[p].id = m[p].id
                             /\ m2[p].forward = m[p].forward
                             /\ Len(m2[p].fields) = Len(m[p].fields)
  BY DEF SameObjects
<1>4. \A s : In(m2, s) = In(m, s) /\ In(m, s) \subseteq DOMAIN m
  BY <1>3 DEF In
<1>5. In(m2, f) = In(m, f) /\ In(m2, t) = In(m, t)
      /\ In(m, f) \subseteq DOMAIN m /\ In(m, t) \subseteq DOMAIN m
  BY <1>4
<1>6. DOMAIN m2 \subseteq In(m2, f) \union In(m2, t)
  BY <1>3, <1>5 DEF Collection
<1>7. Inside(m2, t, cur)
  BY <1>2, <1>5 DEF Collection, Inside
<1>8. Room(m2, f, t, cur)
  <2>1. CopiedBytes(m2, f) = CopiedBytes(m, f)
    BY <1>2, <1>3, <1>5 DEF CopiedBytes
  <2> QED
    BY <2>1 DEF Collection, Room
<1>9. Copies(m2, f, t)
  BY <1>3, <1>5 DEF Collection, Copies
<1>10. WorkOK(m2, f, w)
  BY <1>3, <1>5 DEF Collection, WorkOK
<1>11. RootsOK(c, m2, f, t, r)
  BY <1>5 DEF Collection, RootsOK, Settled
<1> QED
  BY <1>2, <1>6, <1>7, <1>8, <1>9, <1>10, <1>11

\* An element of a copy is assigned.
LEMMA ElementAnswered ==
  ASSUME NEW c, NEW m, NEW f, NEW t, NEW cur, NEW r, NEW w,
         Collection(c, m, f, t, cur, r, w), w # <<>>,
         NEW a, a = w[Len(w)], a.i <= Len(m[a.src].fields),
         NEW v \in Nat, Settled(v, m, t)
  PROVE  Collection(c, [m EXCEPT ![a.dst].fields[a.i] = v], f, t, cur, r,
                    [w EXCEPT ![Len(w)].i = @ + 1])
<1> DEFINE n  == Len(w)
           m2 == [m EXCEPT ![a.dst].fields[a.i] = v]
           w2 == [w EXCEPT ![n].i = @ + 1]
<1>1. w \in Seq(Activation) /\ n \in Nat /\ n \in 1 .. n
  BY DEF Collection, WorkOK
<1>2. /\ a.i \in Nat /\ a.i > 0
      /\ a.src \in In(m, f) /\ a.src \in DOMAIN m /\ m[a.src].fields \in Seq(Nat)
      /\ m[a.src].forward = a.dst
      /\ a.dst \in In(m, t) /\ a.dst \in DOMAIN m /\ a.dst \notin In(m, f)
      /\ m[a.src].tag # "string" /\ a.i \in DOMAIN m[a.dst].fields
  BY <1>1, ActivationFacts
<1>3. Typed(c, m)
  BY DEF Collection, Shape
<1>4. /\ SameObjects(m, m2)
      /\ \A q \in DOMAIN m : DOMAIN m2[q].fields = DOMAIN m[q].fields
      /\ \A q \in DOMAIN m : q # a.dst => m2[q] = m[q]
      /\ \A i \in DOMAIN m[a.dst].fields :
           m2[a.dst].fields[i] = IF i = a.i THEN v ELSE m[a.dst].fields[i]
  <2>1. Assigned(m, m2, a.dst, a.i, v)
    BY <1>2, <1>3, ElementAssigned
  <2> QED
    BY <2>1 DEF Assigned
<1>5. /\ w2 \in Seq(Activation) /\ Len(w2) = n
      /\ \A k \in 1 .. n : /\ w2[k].src = w[k].src /\ w2[k].dst = w[k].dst
                           /\ k # n => w2[k].i = w[k].i
      /\ w2[n].i = a.i + 1
  BY <1>1, NextElement
<1> HIDE DEF m2, w2
<1>6. /\ Shape(c, m2, f)
      /\ DOMAIN m2 \subseteq In(m2, f) \union In(m2, t)
      /\ Inside(m2, t, cur) /\ Room(m2, f, t, cur) /\ Copies(m2, f, t)
      /\ WorkOK(m2, f, w) /\ RootsOK(c, m2, f, t, r)
  BY <1>4, SameCollection
<1>7. /\ DOMAIN m2 = DOMAIN m /\ In(m2, f) = In(m, f) /\ In(m2, t) = In(m, t)
      /\ In(m, f) \subseteq DOMAIN m /\ In(m, t) \subseteq DOMAIN m
      /\ \A p \in DOMAIN m : m2[p].tag = m[p].tag /\ Len(m2[p].fields) = Len(m[p].fields)
  BY <1>4 DEF SameObjects, In
<1>8. \A u : (Settled(u, m, f) => Settled(u, m2, f)) /\ (Settled(u, m, t) => Settled(u, m2, t))
  BY <1>7 DEF Settled
<1>9. FieldsSettled(m2, f)
  <2>1. \A q \in In(m, f) : m2[q] = m[q]
    BY <1>2, <1>4, <1>7
  <2> QED
    BY <1>7, <1>8, <2>1 DEF Collection, FieldsSettled
<1>10. WorkOK(m2, f, w2)
  <2> DEFINE z == Len(m2[a.src].fields)
             i == a.i
  <2>1. i \in Nat /\ i > 0 /\ i <= z /\ z \in Nat
    BY <1>2, <1>7
  <2> HIDE DEF z, i
  <2>2. i + 1 \in 1 .. z + 1
    BY <2>1
  <2>3. \A k \in 1 .. n : k # n => k < n
    BY <1>1
  <2>4. m2[a.src].tag # "string" /\ w2[n].src = a.src /\ ~(n < n)
    BY <1>1, <1>2, <1>5, <1>7
  <2>5. w2[n].i \in 1 .. Len(m2[w2[n].src].fields) + 1
    BY <1>5, <2>2, <2>4 DEF z, i
  <2> QED
    BY <1>5, <1>6, <2>3, <2>4, <2>5 DEF WorkOK
<1>11. Filled(m2, t, w2)
  <2> SUFFICES ASSUME NEW q \in In(m, t), m[q].tag # "string", NEW j \in DOMAIN m[q].fields
               PROVE  \/ Settled(m2[q].fields[j], m2, t)
                      \/ \E k \in 1 .. n : w2[k].dst = q /\ w2[k].i <= j
    <3>1. \A q \in In(m, t) : DOMAIN m2[q].fields = DOMAIN m[q].fields /\ m2[q].tag = m[q].tag
      BY <1>4, <1>7
    <3>2. In(m2, t) = In(m, t) /\ Len(w2) = n
      BY <1>5, <1>7
    <3> QED
      BY <3>1, <3>2 DEF Filled
  <2>1. CASE q = a.dst /\ j = a.i
    BY <1>4, <1>8, <2>1
  <2>2. CASE ~(q = a.dst /\ j = a.i)
    <3>1. m2[q].fields[j] = m[q].fields[j]
      BY <1>4, <1>7, <2>2
    <3>2. CASE Settled(m[q].fields[j], m, t)
      BY <1>8, <3>1, <3>2
    <3>3. ASSUME NEW k \in 1 .. n, w[k].dst = q, w[k].i <= j
          PROVE  w2[k].dst = q /\ w2[k].i <= j
      <4>1. CASE k # n
        BY <1>5, <3>3, <4>1
      <4>2. CASE k = n
        <5>1. a.i <= j /\ q = a.dst /\ j # a.i
          BY <2>2, <3>3, <4>2
        <5>2. m[q].fields \in Seq(Nat)
          BY <1>3, <1>7 DEF Typed, Object
        <5>3. j \in Nat
          BY <5>2
        <5> DEFINE i == a.i
        <5>4. i \in Nat /\ i <= j /\ j # i
          BY <1>2, <5>1
        <5> HIDE DEF i
        <5>5. i + 1 <= j
          BY <5>3, <5>4
        <5> QED
          BY <1>5, <3>3, <4>2, <5>5 DEF i
      <4> QED
        BY <4>1, <4>2
    <3> QED
      BY <3>2, <3>3 DEF Collection, Filled
  <2> QED
    BY <2>1, <2>2
<1> QED
  BY <1>6, <1>9, <1>10, <1>11 DEF Collection, RootInHand, m2, w2

-----------------------------------------------------------------------------
(* A collection: gc_copy copies an object. *)

\* m1 is m with the address p in the tag of x.
Marked(m, m1, x, p) ==
  /\ DOMAIN m1 = DOMAIN m /\ m1 \in [DOMAIN m -> Object]
  /\ \A q \in DOMAIN m : m1[q].tag = m[q].tag /\ m1[q].id = m[q].id /\ m1[q].fields = m[q].fields
  /\ m1[x].forward = p
  /\ \A q \in DOMAIN m : q # x => m1[q].forward = m[q].forward

LEMMA TagReplaced ==
  ASSUME NEW c, NEW m, Typed(c, m), NEW x \in DOMAIN m, NEW p \in Nat
  PROVE  Marked(m, [m EXCEPT ![x].forward = p], x, p)
<1> DEFINE o  == [m[x] EXCEPT !.forward = p]
           m1 == [m EXCEPT ![x] = o]
<1>1. m \in [DOMAIN m -> Object] /\ m[x] \in Object
  BY DEF Typed
<1>2. /\ o \in Object /\ o.tag = m[x].tag /\ o.id = m[x].id /\ o.fields = m[x].fields
      /\ o.forward = p
  BY <1>1 DEF Object
<1>3. [m EXCEPT ![x].forward = p] = m1
  OBVIOUS
<1> HIDE DEF o
<1>4. /\ DOMAIN m1 = DOMAIN m /\ m1 \in [DOMAIN m -> Object] /\ m1[x] = o
      /\ \A q \in DOMAIN m : q # x => m1[q] = m[q]
  BY <1>1, <1>2
<1> QED
  BY <1>2, <1>3, <1>4 DEF Marked

\* The copy takes as many bytes of to_space as the original has in from_space.
LEMMA RoomForCopy ==
  ASSUME NEW c, NEW m, NEW f, NEW t, NEW cur, Shape(c, m, f), SpacesOK(f, t, cur),
         Room(m, f, t, cur), NEW x \in In(m, f), m[x].forward = NULL,
         NEW p \in Nat, p # NULL, NEW m1, Marked(m, m1, x, p),
         NEW cur2, cur2 = cur + WORD * SizeAsked(m[x].tag, Len(m[x].fields))
  PROVE  Room(m1, f, t, cur2)
<1> DEFINE A  == CopiedBytes(m, f)
           lo == First(m, x)
           z  == SizeAsked(m[x].tag, Len(m[x].fields))
           y  == Behind(m, x)
           hi == y - 1
           B  == lo .. hi
           fb == f.begin
           fk == f.current
<1>1. Typed(c, m) /\ FromOK(f) /\ Inside(m, f, f.current) /\ Apart(m)
  BY DEF Shape
<1>2. \A q \in In(m, f) : q \in DOMAIN m
  BY DEF In
<1>3. /\ fb \in Nat /\ fk \in Nat /\ cur \in Nat /\ cur = t.begin + Cardinality(A)
  BY <1>1 DEF FromOK, SpaceOK, Space, SpacesOK, Room
<1>4. /\ m[x].tag \in Tags /\ Len(m[x].fields) \in Nat /\ lo \in Int
      /\ y = lo + WORD * z /\ y \in Int
  BY <1>1, <1>2, Bounds
<1>5. z \in Nat
  BY <1>4, SizesAgree
<1>6. fb <= lo /\ y <= fk
  BY <1>1 DEF Inside
<1>7. /\ DOMAIN m1 = DOMAIN m
      /\ \A q \in DOMAIN m : First(m1, q) = First(m, q) /\ Behind(m1, q) = Behind(m, q)
      /\ In(m1, f) = In(m, f) /\ m1[x].forward = p
      /\ \A q \in DOMAIN m : q # x => m1[q].forward = m[q].forward
  BY DEF Marked, First, Behind, In
<1>8. \A q \in In(m, f) : First(m, q) \in Int /\ Behind(m, q) \in Int /\ q \in Nat
  BY <1>1, <1>2, Bounds
<1>9. CopiedBytes(m1, f) = A \union B
  <2>1. \A b \in Int : b \in B <=> lo <= b /\ b < y
    <3> HIDE DEF y, lo
    <3> QED
      BY <1>4
  <2>2. \A b \in B : b \in fb .. (fk - 1)
    <3> HIDE DEF y, lo, fb, fk
    <3> QED
      BY <1>3, <1>4, <1>6
  <2>3. \A b \in fb .. (fk - 1) : b \in Int
    BY <1>3
  <2>4. A = {b \in fb .. (fk - 1) :
               \E q \in In(m, f) : m[q].forward # NULL /\ First(m, q) <= b /\ b < Behind(m, q)}
    BY DEF CopiedBytes
  <2>5. CopiedBytes(m1, f) =
          {b \in fb .. (fk - 1) :
             \E q \in In(m, f) : m1[q].forward # NULL /\ First(m, q) <= b /\ b < Behind(m, q)}
    BY <1>2, <1>7 DEF CopiedBytes
  <2>6. \A q \in In(m, f) : m1[q].forward # NULL <=> (q = x \/ m[q].forward # NULL)
    BY <1>2, <1>7
  <2> HIDE DEF A, B, lo, y, fb, fk
  <2> QED
    BY <2>1, <2>2, <2>3, <2>4, <2>5, <2>6 DEF lo, y
<1>10. A \intersect B = {}
  <2> SUFFICES ASSUME NEW b \in B, NEW q \in In(m, f), m[q].forward # NULL,
                      First(m, q) <= b, b < Behind(m, q)
               PROVE  FALSE
    BY DEF CopiedBytes
  <2>1. q # x /\ q \in Nat /\ x \in Nat /\ First(m, q) \in Int /\ Behind(m, q) \in Int
    BY <1>8
  <2>2. Behind(m, q) <= First(m, x) \/ Behind(m, x) <= First(m, q)
    BY <1>1, <1>2, <2>1 DEF Apart
  <2> DEFINE u == First(m, q)
             v == Behind(m, q)
  <2>3. /\ u \in Int /\ v \in Int /\ y \in Int /\ lo \in Int /\ hi = y - 1
        /\ (v <= lo \/ y <= u) /\ u <= b /\ b < v
    BY <1>4, <2>1, <2>2
  <2> HIDE DEF u, v, y, lo
  <2> QED
    BY <2>3
<1>11. IsFiniteSet(A) /\ Cardinality(A) \in Nat
  BY <1>1, CopiedBytesBound
<1>12. IsFiniteSet(B) /\ Cardinality(B) = WORD * z
  <2> DEFINE d == hi
  <2>1. lo \in Int /\ d \in Int /\ (IF lo > d THEN 0 ELSE d - lo + 1) = WORD * z
    <3> HIDE DEF lo, z, y
    <3> QED
      BY <1>4, <1>5 DEF WORD
  <2> HIDE DEF d, lo
  <2>2. IsFiniteSet(lo .. d) /\ Cardinality(lo .. d) = IF lo > d THEN 0 ELSE d - lo + 1
    BY <2>1, FS_Interval
  <2> QED
    BY <2>1, <2>2 DEF d
<1>13. Cardinality(A \union B) = Cardinality(A) + WORD * z
  <2> HIDE DEF A, B
  <2>1. Cardinality(A \union B) = Cardinality(A) + Cardinality(B) - Cardinality(A \intersect B)
    BY <1>11, <1>12, FS_Union
  <2>2. Cardinality(A \intersect B) = 0
    BY <1>10, FS_EmptySet
  <2> DEFINE ca == Cardinality(A)
             cb == Cardinality(B)
             cc == Cardinality(A \intersect B)
             cd == Cardinality(A \union B)
  <2>3. cd = ca + cb - cc /\ cc = 0 /\ ca \in Nat /\ cb = WORD * z /\ WORD * z \in Int
    <3>1. WORD * z \in Int
      <4> HIDE DEF z
      <4> QED
        BY <1>5 DEF WORD
    <3> QED
      BY <1>11, <1>12, <2>1, <2>2, <3>1
  <2> HIDE DEF ca, cb, cc, cd
  <2>4. cd = ca + WORD * z
    <3> DEFINE wz == WORD * z
    <3>1. cd = ca + cb - cc /\ cc = 0 /\ ca \in Nat /\ cb = wz /\ wz \in Int
      BY <2>3
    <3> HIDE DEF wz
    <3>2. cd = ca + wz
      BY <3>1
    <3> QED
      BY <3>2 DEF wz
  <2> QED
    BY <2>4 DEF ca, cd
<1>14. cur2 = t.begin + (Cardinality(A) + WORD * z)
  <2> DEFINE ca == Cardinality(A)
             tb == t.begin
  <2>1. ca \in Nat /\ tb \in Nat /\ cur = tb + ca /\ cur2 = cur + WORD * z
    BY <1>3, <1>11 DEF SpacesOK, SpaceOK, Space
  <2> HIDE DEF ca, tb, z
  <2>2. cur2 = tb + (ca + WORD * z)
    BY <1>5, <2>1 DEF WORD
  <2> QED
    BY <2>2 DEF ca, tb
<1> QED
  BY <1>9, <1>13, <1>14 DEF Room

\* The copy of an object is an object, of the same tag, the same id and as many
\* elements.
LEMMA CopiedObject ==
  ASSUME NEW o \in Object
  PROVE  /\ Copied(o) \in Object /\ Copied(o).tag = o.tag /\ Copied(o).id = o.id
         /\ Copied(o).forward = NULL
         /\ Len(Copied(o).fields) = Len(o.fields)
<1> DEFINE n == Len(o.fields)
           g == Strcpy(o.fields)
           h == [i \in DOMAIN o.fields |-> NULL]
<1>1. o.tag \in Tags /\ o.id \in Ids /\ o.fields \in Seq(Nat) /\ n \in Nat
  BY DEF Object
<1>2. DOMAIN o.fields = 1 .. n
  BY <1>1
<1>3. g \in Seq(Nat) /\ Len(g) = n
  <2>1. g = [i \in 1 .. n |-> IF \E j \in 1 .. i : o.fields[j] = 0 THEN 0 ELSE o.fields[i]]
    BY <1>2 DEF Strcpy
  <2>2. \A i \in 1 .. n : o.fields[i] \in Nat
    BY <1>1, <1>2
  <2> HIDE DEF g, n
  <2>3. g \in [1 .. n -> Nat]
    BY <2>1, <2>2
  <2> QED
    BY <1>1, <2>3
<1>4. h \in Seq(Nat) /\ Len(h) = n
  <2>1. h = [i \in 1 .. n |-> NULL]
    BY <1>2
  <2> HIDE DEF h, n
  <2> QED
    BY <1>1, <2>1 DEF NULL
<1> HIDE DEF g, h
<1>5. Copied(o) = [tag |-> o.tag, id |-> o.id, forward |-> NULL,
                   fields |-> IF o.tag = "string" THEN g ELSE h]
  BY DEF Copied, g, h
<1>6. (IF o.tag = "string" THEN g ELSE h) \in Seq(Nat)
      /\ Len(IF o.tag = "string" THEN g ELSE h) = n
  BY <1>3, <1>4
<1> QED
  BY <1>1, <1>5, <1>6 DEF Object, NULL

\* What a collection knows of the places of objects after a copy. The copy is at
\* p, from the byte cur to the byte cur2.
Placed(m, m2, f, t, x, p, cur, cur2) ==
  /\ p \in Nat /\ p # NULL /\ p % 2 = 0 /\ p \notin DOMAIN m
  /\ cur2 \in Nat /\ cur2 % 2 = 0 /\ cur <= cur2 /\ cur2 < t.end
  /\ DOMAIN m2 = DOMAIN m \union {p}
  /\ In(m2, f) = In(m, f) /\ In(m2, t) = In(m, t) \union {p}
  /\ \A q \in DOMAIN m : /\ First(m2, q) = First(m, q) /\ Behind(m2, q) = Behind(m, q)
                         /\ m2[q].tag = m[q].tag /\ m2[q].id = m[q].id
                         /\ m2[q].fields = m[q].fields
                         /\ q # x => m2[q].forward = m[q].forward
  /\ m2[x].forward = p /\ m2[p] = Copied(m[x])
  /\ First(m2, p) = cur /\ Behind(m2, p) = cur2
  /\ Room(m2, f, t, cur2)

LEMMA CopyPlaced ==
  ASSUME NEW c, NEW m, NEW f, NEW t, NEW cur, NEW r, NEW w,
         Collection(c, m, f, t, cur, r, w),
         NEW x \in In(m, f), m[x].forward = NULL,
         NEW o, o = m[x], NEW p, p = cur + WORD * Header(o.tag),
         NEW cur2, cur2 = cur + WORD * SizeCopied(o.tag, Len(o.fields)),
         NEW m1, Marked(m, m1, x, p), NEW m2, m2 = With(m1, p, Copied(o))
  PROVE  Placed(m, m2, f, t, x, p, cur, cur2) /\ Typed(c, m2)
<1> DEFINE z  == SizeAsked(o.tag, Len(o.fields))
           h  == Header(o.tag)
<1>1. /\ Shape(c, m, f) /\ Typed(c, m) /\ FromOK(f) /\ SpacesOK(f, t, cur) /\ SpaceOK(t)
      /\ SpaceOK(f) /\ Disjoint(t, f)
      /\ Room(m, f, t, cur) /\ Inside(m, f, f.current) /\ Inside(m, t, cur)
      /\ DOMAIN m \subseteq In(m, f) \union In(m, t)
  BY DEF Collection, Shape, SpacesOK, FromOK
<1>2. x \in DOMAIN m /\ o \in Object
  BY <1>1 DEF In, Typed
<1>3. o.tag \in Tags /\ Len(o.fields) \in Nat
  BY <1>2 DEF Object
<1>4. h \in Nat /\ z \in Nat /\ h > 0 /\ z >= h /\ SizeCopied(o.tag, Len(o.fields)) = z
  BY <1>3, SizesAgree
<1>5. cur \in Nat /\ cur % 2 = 0 /\ p = cur + WORD * h /\ cur2 = cur + WORD * z
  BY <1>1, <1>4 DEF SpacesOK
<1>6. p \in Nat /\ p % 2 = 0 /\ cur2 \in Nat /\ cur2 % 2 = 0
  <2> HIDE DEF h, z
  <2> QED
    BY <1>4, <1>5, EvenWords
<1>7. cur < p /\ p <= cur2 /\ p # NULL
  <2> HIDE DEF h, z
  <2> QED
    BY <1>4, <1>5 DEF WORD, NULL
<1>8. Marked(m, m1, x, p)
  OBVIOUS
<1>9. Room(m1, f, t, cur2)
  <2>1. cur2 = cur + WORD * SizeAsked(m[x].tag, Len(m[x].fields))
    BY <1>5
  <2> QED
    BY <1>1, <1>6, <1>7, <1>8, <2>1, RoomForCopy
<1>10. SpacesOK(f, t, cur2)
  BY <1>1, <1>6 DEF SpacesOK
<1>11. t.begin <= cur /\ cur2 < t.end
  BY <1>1, <1>9, <1>10, RoomLeft
<1>12. Typed(c, m1) /\ DOMAIN m1 = DOMAIN m
  BY <1>1, <1>8 DEF Marked, Typed
<1> DEFINE tb == t.begin
           te == t.end
           fb == f.begin
           fe == f.end
<1>13. /\ tb \in Nat /\ te \in Nat /\ fb \in Nat /\ fe \in Nat
       /\ tb <= cur /\ cur2 < te /\ (te <= fb \/ fe <= tb)
  BY <1>1, <1>11 DEF SpaceOK, Space, Disjoint
<1>14. Within(t, p) /\ ~Within(f, p)
  <2>1. /\ tb < p /\ p <= te /\ ~(fb < p /\ p <= fe)
    <3> HIDE DEF tb, te, fb, fe
    <3> QED
      BY <1>5, <1>6, <1>7, <1>13
  <2> QED
    BY <2>1 DEF Within
<1>15. p \notin DOMAIN m
  <2> SUFFICES ASSUME p \in In(m, t)
               PROVE  FALSE
    BY <1>1, <1>14 DEF In
  <2>1. Behind(m, p) <= cur
    BY <1>1 DEF Inside
  <2>2. p \in DOMAIN m
    BY DEF In
  <2>3. p <= Behind(m, p) /\ Behind(m, p) \in Int
    BY <1>1, <2>2, Bounds
  <2> DEFINE y == Behind(m, p)
  <2> HIDE DEF y
  <2>4. y <= cur /\ p <= y /\ y \in Int
    BY <2>1, <2>3 DEF y
  <2> QED
    BY <1>5, <1>6, <1>7, <2>4
<1>16. /\ Copied(o) \in Object /\ Copied(o).tag = o.tag
       /\ Len(Copied(o).fields) = Len(o.fields)
  BY <1>2, CopiedObject
<1>17. Added(c, m1, m2, p, Copied(o), cur)
  <2>1. TO_DATA(p, cur, Copied(o).tag)
    BY <1>16 DEF TO_DATA
  <2>2. p \notin DOMAIN m1
    BY <1>12, <1>15
  <2> QED
    BY <1>5, <1>12, <1>16, <2>1, <2>2, ObjectAdded
<1>18. /\ DOMAIN m2 = DOMAIN m \union {p} /\ Typed(c, m2) /\ m2[p] = Copied(o)
       /\ \A q \in DOMAIN m : m2[q] = m1[q]
       /\ First(m2, p) = cur /\ Behind(m2, p) = cur2
  BY <1>5, <1>12, <1>16, <1>17 DEF Added
<1>19. \A q \in DOMAIN m : /\ m2[q].tag = m[q].tag /\ m2[q].id = m[q].id
                           /\ m2[q].fields = m[q].fields
                           /\ q # x => m2[q].forward = m[q].forward
  BY <1>8, <1>18 DEF Marked
<1>20. m2[x].forward = p
  BY <1>2, <1>8, <1>18 DEF Marked
<1>21. \A q \in DOMAIN m : First(m2, q) = First(m, q) /\ Behind(m2, q) = Behind(m, q)
  BY <1>19 DEF First, Behind
<1>22. In(m2, f) = In(m, f) /\ In(m2, t) = In(m, t) \union {p}
  BY <1>14, <1>15, <1>18 DEF In
<1>23. Room(m2, f, t, cur2)
  <2>1. In(m1, f) = In(m, f) /\ In(m, f) \subseteq DOMAIN m
    BY <1>12 DEF In
  <2>2. \A q \in In(m, f) : m2[q] = m1[q] /\ First(m2, q) = First(m1, q) /\ Behind(m2, q) = Behind(m1, q)
    BY <1>18, <2>1 DEF First, Behind
  <2>3. CopiedBytes(m2, f) = CopiedBytes(m1, f)
    BY <1>22, <2>1, <2>2 DEF CopiedBytes
  <2> QED
    BY <1>9, <2>3 DEF Room
<1>24. cur <= cur2
  BY <1>5, <1>6, <1>7
<1> QED
  BY <1>6, <1>7, <1>11, <1>15, <1>18, <1>19, <1>20, <1>21, <1>22, <1>23, <1>24 DEF Placed

\* After the copy the places of the objects are sound.
LEMMA CopyKeepsShape ==
  ASSUME NEW c, NEW m, NEW f, NEW t, NEW cur, NEW r, NEW w,
         Collection(c, m, f, t, cur, r, w), NEW x \in In(m, f),
         NEW p, NEW cur2, NEW m2, Placed(m, m2, f, t, x, p, cur, cur2), Typed(c, m2)
  PROVE  /\ Shape(c, m2, f) /\ Inside(m2, t, cur2) /\ SpacesOK(f, t, cur2)
         /\ DOMAIN m2 \subseteq In(m2, f) \union In(m2, t)
<1> DEFINE tb == t.begin
           te == t.end
           fb == f.begin
           fk == f.current
           fe == f.end
<1>1. /\ Shape(c, m, f) /\ Typed(c, m) /\ FromOK(f) /\ SpacesOK(f, t, cur) /\ SpaceOK(t)
      /\ Inside(m, f, fk) /\ Inside(m, t, cur) /\ Apart(m) /\ Even(m) /\ UniqueIds(m, f)
      /\ ForwardsTyped(m) /\ Room(m, f, t, cur)
      /\ DOMAIN m \subseteq In(m, f) \union In(m, t)
  BY DEF Collection, Shape, SpacesOK
<1>2. /\ p \in Nat /\ p % 2 = 0 /\ p \notin DOMAIN m
      /\ cur2 \in Nat /\ cur2 % 2 = 0 /\ cur <= cur2 /\ cur2 < te
      /\ DOMAIN m2 = DOMAIN m \union {p}
      /\ In(m2, f) = In(m, f) /\ In(m2, t) = In(m, t) \union {p}
      /\ \A q \in DOMAIN m : /\ First(m2, q) = First(m, q) /\ Behind(m2, q) = Behind(m, q)
                             /\ m2[q].id = m[q].id
                             /\ q # x => m2[q].forward = m[q].forward
      /\ m2[x].forward = p /\ m2[p] = Copied(m[x])
      /\ First(m2, p) = cur /\ Behind(m2, p) = cur2
  BY DEF Placed
<1>3. tb <= cur /\ cur < te
  BY <1>1, RoomLeft
<1>4. /\ tb \in Nat /\ te \in Nat /\ fb \in Nat /\ fk \in Nat /\ fe \in Nat /\ cur \in Nat
      /\ fk < fe /\ (te <= fb \/ fe <= tb)
  BY <1>1 DEF FromOK, SpacesOK, SpaceOK, Space, Disjoint
<1>5. \A q \in DOMAIN m : /\ q \in Nat /\ First(m, q) \in Int /\ Behind(m, q) \in Int
                          /\ First(m, q) < q /\ q <= Behind(m, q)
  BY <1>1, Bounds
<1>6. \A q \in In(m, f) : fb <= First(m, q) /\ Behind(m, q) <= fk
  BY <1>1 DEF Inside
<1>7. \A q \in In(m, t) : tb <= First(m, q) /\ Behind(m, q) <= cur
  BY <1>1 DEF Inside
<1>8. In(m, f) \subseteq DOMAIN m /\ In(m, t) \subseteq DOMAIN m
  BY DEF In
<1>9. cur < p /\ p <= cur2
  <2>1. First(m2, p) < p /\ p <= Behind(m2, p)
    BY <1>2, Bounds
  <2> QED
    BY <1>2, <2>1
<1>10. Inside(m2, f, fk)
  BY <1>2, <1>6, <1>8 DEF Inside
<1>11. Inside(m2, t, cur2)
  <2> SUFFICES ASSUME NEW q \in In(m, t) \union {p}
               PROVE  tb <= First(m2, q) /\ Behind(m2, q) <= cur2
    BY <1>2 DEF Inside
  <2>1. CASE q = p
    BY <1>2, <1>3, <2>1
  <2>2. CASE q \in In(m, t)
    <3> DEFINE y == Behind(m, q)
    <3>1. tb <= First(m, q) /\ y <= cur /\ y \in Int
      BY <1>5, <1>7, <1>8, <2>2
    <3> HIDE DEF y
    <3>2. y <= cur2
      BY <1>2, <1>4, <3>1
    <3> QED
      BY <1>2, <1>8, <2>2, <3>1, <3>2 DEF y
  <2> QED
    BY <2>1, <2>2
<1>12. Apart(m2)
  <2> SUFFICES ASSUME NEW q1 \in DOMAIN m2, NEW q2 \in DOMAIN m2, q1 < q2
               PROVE  Behind(m2, q1) <= First(m2, q2)
    BY DEF Apart
  <2>1. CASE q1 \in DOMAIN m /\ q2 \in DOMAIN m
    BY <1>1, <1>2, <2>1 DEF Apart
  <2>2. CASE q1 \in In(m, t) /\ q2 = p
    BY <1>2, <1>7, <1>8, <2>2
  <2>3. CASE q1 \in In(m, f) /\ q2 = p
    <3> DEFINE y == Behind(m, q1)
               u == First(m, q1)
    <3>1. /\ y \in Int /\ u \in Int /\ q1 \in Nat /\ u < q1 /\ fb <= u /\ y <= fk /\ q1 < p
      BY <1>5, <1>6, <1>8, <2>3
    <3> HIDE DEF y, u, tb, te, fb, fe, fk
    <3>2. y <= cur
      BY <1>2, <1>3, <1>4, <1>9, <3>1
    <3> QED
      BY <1>2, <1>8, <2>3, <3>2 DEF y
  <2>4. CASE q1 = p /\ q2 \in In(m, t)
    <3> DEFINE y == Behind(m, q2)
    <3>1. y \in Int /\ q2 \in Nat /\ q2 <= y /\ y <= cur /\ p < q2
      BY <1>5, <1>7, <1>8, <2>4
    <3> HIDE DEF y
    <3> QED
      BY <1>2, <1>4, <1>9, <3>1
  <2>5. CASE q1 = p /\ q2 \in In(m, f)
    <3> DEFINE y == Behind(m, q2)
               u == First(m, q2)
    <3>1. /\ y \in Int /\ u \in Int /\ q2 \in Nat /\ u < q2 /\ q2 <= y /\ fb <= u /\ y <= fk /\ p < q2
      BY <1>5, <1>6, <1>8, <2>5
    <3> HIDE DEF y, u, tb, te, fb, fe, fk
    <3>2. cur2 <= u
      BY <1>2, <1>3, <1>4, <1>9, <3>1 DEF te
    <3> QED
      BY <1>2, <1>8, <2>5, <3>2 DEF u
  <2>6. q1 # p \/ q2 # p
    BY <1>2
  <2> QED
    BY <1>1, <1>2, <2>1, <2>2, <2>3, <2>4, <2>5, <2>6
<1>13. Even(m2)
  BY <1>1, <1>2 DEF Even
<1>14. UniqueIds(m2, f)
  BY <1>1, <1>2, <1>8 DEF UniqueIds
<1>15. ForwardsTyped(m2)
  <2>1. m[x] \in Object
    BY <1>1, <1>8 DEF Typed
  <2>2. m2[p].forward = NULL
    BY <1>2, <2>1, CopiedObject
  <2> QED
    BY <1>1, <1>2, <2>2 DEF ForwardsTyped
<1>16. SpacesOK(f, t, cur2)
  BY <1>1, <1>2 DEF SpacesOK
<1>17. DOMAIN m2 \subseteq In(m2, f) \union In(m2, t)
  BY <1>1, <1>2
<1> QED
  BY <1>1, <1>10, <1>11, <1>12, <1>13, <1>14, <1>15, <1>16, <1>17 DEF Shape

\* gc_copy: a new copy, the address of it in the original, and an activation to
\* copy the elements.
LEMMA ObjectCopied ==
  ASSUME NEW c, NEW m, NEW f, NEW t, NEW cur, NEW r, NEW w,
         Collection(c, m, f, t, cur, r, w),
         w # <<>> => w[Len(w)].i <= Len(m[w[Len(w)].src].fields),
         w = <<>> => r <= Len(Scan),
         NEW x \in In(m, f), m[x].forward = NULL,
         NEW p, NEW cur2, NEW m2, Placed(m, m2, f, t, x, p, cur, cur2), Typed(c, m2),
         NEW i, i = IF m[x].tag = "string" THEN Len(m[x].fields) + 1 ELSE 1
  PROVE  Collection(c, m2, f, t, cur2, r, Append(w, [src |-> x, dst |-> p, i |-> i]))
<1> DEFINE n  == Len(w)
           a  == [src |-> x, dst |-> p, i |-> i]
           w2 == Append(w, a)
<1>1. /\ Shape(c, m, f) /\ Typed(c, m) /\ SpaceOK(t) /\ SpaceOK(f) /\ Disjoint(t, f)
  BY DEF Collection, Shape, SpacesOK, FromOK
<1>2. /\ Shape(c, m2, f) /\ Inside(m2, t, cur2) /\ SpacesOK(f, t, cur2)
      /\ DOMAIN m2 \subseteq In(m2, f) \union In(m2, t)
  BY CopyKeepsShape
<1>3. /\ p \in Nat /\ p # NULL /\ p \notin DOMAIN m
      /\ DOMAIN m2 = DOMAIN m \union {p}
      /\ In(m2, f) = In(m, f) /\ In(m2, t) = In(m, t) \union {p}
      /\ \A q \in DOMAIN m : /\ m2[q].tag = m[q].tag /\ m2[q].id = m[q].id
                             /\ m2[q].fields = m[q].fields
                             /\ q # x => m2[q].forward = m[q].forward
      /\ m2[x].forward = p /\ m2[p] = Copied(m[x])
      /\ Room(m2, f, t, cur2)
  BY DEF Placed
<1>4. In(m, f) \subseteq DOMAIN m /\ In(m, t) \subseteq DOMAIN m /\ x \notin In(m, t)
  <2>1. x \notin In(m, t)
    BY <1>1, SpacesApart
  <2> QED
    BY <2>1 DEF In
<1>5. m[x] \in Object /\ x \in Nat
  BY <1>1, <1>4 DEF Typed
<1>6. /\ m2[p].tag = m[x].tag /\ m2[p].id = m[x].id /\ m2[p].forward = NULL
      /\ Len(m2[p].fields) = Len(m[x].fields) /\ m2[p].fields \in Seq(Nat)
  <2>1. Copied(m[x]) \in Object
    BY <1>5, CopiedObject
  <2>2. Copied(m[x]).fields \in Seq(Nat)
    BY <2>1 DEF Object
  <2> QED
    BY <1>3, <1>5, <2>2, CopiedObject
<1>7. /\ m[x].fields \in Seq(Nat) /\ Len(m[x].fields) \in Nat
  BY <1>5 DEF Object
<1>8. \A v : (Settled(v, m, f) => Settled(v, m2, f)) /\ (Settled(v, m, t) => Settled(v, m2, t))
  BY <1>3 DEF Settled
<1>9. Copies(m2, f, t)
  <2>1. ASSUME NEW q \in In(m, f), m2[q].forward # NULL
        PROVE  LET y == m2[q].forward
               IN  /\ y \in In(m2, t)
                   /\ m2[y].tag = m2[q].tag /\ m2[y].id = m2[q].id
                   /\ Len(m2[y].fields) = Len(m2[q].fields)
    <3>1. CASE q = x
      BY <1>3, <1>4, <1>6, <3>1
    <3>2. CASE q # x
      <4> DEFINE y == m[q].forward
      <4>1. m2[q].forward = y /\ y # NULL
        BY <1>3, <1>4, <2>1, <3>2
      <4>2. /\ y \in In(m, t) /\ m[y].tag = m[q].tag /\ m[y].id = m[q].id
            /\ Len(m[y].fields) = Len(m[q].fields)
        BY <4>1 DEF Collection, Copies
      <4> HIDE DEF y
      <4>3. /\ m2[y].tag = m2[q].tag /\ m2[y].id = m2[q].id
            /\ Len(m2[y].fields) = Len(m2[q].fields)
        BY <1>3, <1>4, <4>2
      <4> QED
        BY <1>3, <4>1, <4>2, <4>3
    <3> QED
      BY <3>1, <3>2
  <2>2. ASSUME NEW q \in In(m, t)
        PROVE  m2[q].forward = NULL /\ \E y \in In(m2, f) : m2[y].forward = q
    <3>1. m[q].forward = NULL /\ q # x /\ q # NULL
      BY <1>1, <1>4, SpacesAreNotNull DEF Collection, Copies
    <3>2. PICK y \in In(m, f) : m[y].forward = q
      BY DEF Collection, Copies
    <3>3. y # x
      BY <3>1, <3>2
    <3> QED
      BY <1>3, <1>4, <3>1, <3>2, <3>3
  <2>3. m2[p].forward = NULL /\ \E y \in In(m2, f) : m2[y].forward = p
    BY <1>3, <1>6
  <2> QED
    BY <1>3, <2>1, <2>2, <2>3 DEF Copies
<1>10. FieldsSettled(m2, f)
  BY <1>3, <1>4, <1>8 DEF Collection, FieldsSettled
<1>11. w \in Seq(Activation) /\ n \in Nat
  BY DEF Collection, WorkOK
<1>12. a \in Activation /\ i \in 1 .. Len(m[x].fields) + 1
  <2> DEFINE z == Len(m[x].fields)
  <2>1. z \in Nat /\ (i = 1 \/ i = z + 1)
    BY <1>7
  <2> HIDE DEF z
  <2>2. i \in Nat /\ i \in 1 .. z + 1
    BY <2>1
  <2> QED
    BY <1>3, <1>5, <2>2 DEF Activation, z
<1>13. /\ w2 \in Seq(Activation) /\ Len(w2) = n + 1 /\ w2[n + 1] = a
       /\ \A k \in 1 .. n : w2[k] = w[k]
  BY <1>11, <1>12, AppendProperties
<1>14. a.src = x /\ a.dst = p /\ a.i = i
  OBVIOUS
<1> HIDE DEF a, w2
<1>15. \A k \in 1 .. n + 1 : k \in 1 .. n \/ k = n + 1
  BY <1>11
<1>16. WorkOK(m2, f, w2)
  <2>1. ASSUME NEW k \in 1 .. n
        PROVE  /\ w2[k].src \in In(m2, f) /\ m2[w2[k].src].forward = w2[k].dst
               /\ w2[k].dst # NULL
               /\ w2[k].i \in 1 .. Len(m2[w2[k].src].fields) + 1
               /\ m2[w2[k].src].tag = "string" => w2[k].i > Len(m2[w2[k].src].fields)
               /\ w2[k].i <= Len(m2[w2[k].src].fields) \/ k >= n + 1
    <3> DEFINE s == w[k].src
    <3>1. /\ s \in In(m, f) /\ m[s].forward = w[k].dst /\ w[k].dst # NULL
          /\ w[k].i \in 1 .. Len(m[s].fields) + 1
          /\ m[s].tag = "string" => w[k].i > Len(m[s].fields)
          /\ k < n => w[k].i <= Len(m[s].fields)
      BY DEF Collection, WorkOK
    <3>2. s # x
      BY <3>1
    <3>3. k < n \/ (k = n /\ w # <<>>)
      BY <1>11
    <3>4. w[k].i <= Len(m[s].fields)
      BY <3>1, <3>3
    <3> HIDE DEF s
    <3>5. m2[s].forward = m[s].forward /\ m2[s].fields = m[s].fields /\ m2[s].tag = m[s].tag
      BY <1>3, <1>4, <3>1, <3>2
    <3> QED
      BY <1>3, <1>13, <3>1, <3>4, <3>5 DEF s
  <2>2. /\ w2[n + 1].src \in In(m2, f) /\ m2[w2[n + 1].src].forward = w2[n + 1].dst
        /\ w2[n + 1].dst # NULL
        /\ w2[n + 1].i \in 1 .. Len(m2[w2[n + 1].src].fields) + 1
        /\ m2[w2[n + 1].src].tag = "string" => w2[n + 1].i > Len(m2[w2[n + 1].src].fields)
    <3>1. m[x].tag = "string" => i > Len(m[x].fields)
      <4> DEFINE z == Len(m[x].fields)
      <4>1. z \in Nat /\ (m[x].tag = "string" => i = z + 1)
        BY <1>7
      <4> HIDE DEF z
      <4>2. m[x].tag = "string" => i > z
        BY <4>1
      <4> QED
        BY <4>2 DEF z
    <3> QED
      BY <1>3, <1>4, <1>12, <1>13, <1>14, <3>1
  <2>3. \A k \in 1 .. n : ~(k >= n + 1)
    BY <1>11
  <2>4. ~(n + 1 < n + 1)
    BY <1>11
  <2> QED
    BY <1>13, <1>15, <2>1, <2>2, <2>3, <2>4 DEF WorkOK
<1>17. Filled(m2, t, w2)
  <2>0. \A k \in 1 .. n : k \in 1 .. n + 1
    BY <1>11
  <2>1. ASSUME NEW q \in In(m, t), m2[q].tag # "string", NEW j \in DOMAIN m2[q].fields
        PROVE  \/ Settled(m2[q].fields[j], m2, t)
               \/ \E k \in 1 .. Len(w2) : w2[k].dst = q /\ w2[k].i <= j
    <3>1. m2[q].tag = m[q].tag /\ m2[q].fields = m[q].fields
      BY <1>3, <1>4
    <3>2. \/ Settled(m[q].fields[j], m, t)
          \/ \E k \in 1 .. n : w[k].dst = q /\ w[k].i <= j
      BY <2>1, <3>1 DEF Collection, Filled
    <3> QED
      BY <1>8, <1>13, <2>0, <3>1, <3>2
  <2>2. ASSUME m2[p].tag # "string", NEW j \in DOMAIN m2[p].fields
        PROVE  \E k \in 1 .. Len(w2) : w2[k].dst = p /\ w2[k].i <= j
    <3>1. i = 1
      BY <1>6, <2>2
    <3>2. 1 <= j
      BY <1>6
    <3>3. n + 1 \in 1 .. n + 1
      BY <1>11
    <3> QED
      BY <1>13, <1>14, <3>1, <3>2, <3>3
  <2> QED
    BY <1>3, <2>1, <2>2 DEF Filled
<1>18. RootsOK(c, m2, f, t, r)
  BY <1>8 DEF Collection, RootsOK
<1> QED
  BY <1>2, <1>3, <1>9, <1>10, <1>16, <1>17, <1>18 DEF Collection, RootInHand, w2, a

-----------------------------------------------------------------------------
(* The initial state, and the steps of the program. *)

\* A space that mmap has placed.
LEMMA Mapped ==
  ASSUME NEW size \in Nat \ {0}, NEW other, NEW s \in Map(size, other)
  PROVE  /\ SpaceOK(s) /\ Disjoint(s, other) /\ s.size = size /\ s.current = s.begin
         /\ s.begin < s.end
<1>1. PICK b \in Bases : s = [begin |-> b, end |-> b + WORD * size, current |-> b, size |-> size]
  BY DEF Map
<1>2. b \in Nat /\ b % 4 = 0 /\ b > 0
  BY SpacesAssumption DEF WORD
<1>3. b % 2 = 0
  BY <1>2
<1>4. b + WORD * size \in Nat /\ b < b + WORD * size
  BY <1>2 DEF WORD
<1>5. s \in Space
  BY <1>1, <1>2, <1>4 DEF Space
<1> QED
  BY <1>1, <1>2, <1>3, <1>4, <1>5 DEF Map, SpaceOK

\* At the start the heap is empty, and every word holds BOX (0).
LEMMA InitialInv == Init => IInv
<1> SUFFICES ASSUME Init
             PROVE  IInv
  OBVIOUS
<1>1. InitialSize \in Nat \ {0} /\ Len(Scan) \in Nat
  BY SpacesAssumption, RequestsAssumption
<1>2. Map(InitialSize, NoSpace) # {}
  <2>1. PICK b \in Bases : TRUE
    BY SpacesAssumption
  <2>2. b \in Nat
    BY SpacesAssumption
  <2> DEFINE s == [begin |-> b, end |-> b + WORD * InitialSize, current |-> b, size |-> InitialSize]
  <2>3. Disjoint(s, NoSpace)
    BY <2>2 DEF Disjoint, NoSpace, NULL
  <2> QED
    BY <2>3 DEF Map
<1>3. from \in Map(InitialSize, NoSpace)
  BY <1>2 DEF Init
<1>4. /\ SpaceOK(from) /\ from.size = SPACE_SIZE /\ from.current = from.begin
      /\ from.begin < from.end
  BY <1>1, <1>3, Mapped DEF Init
<1>5. FromOK(from)
  BY <1>4 DEF FromOK, SpaceOK, Space
<1>6. DOMAIN mem = {} /\ mem \in [DOMAIN mem -> Object]
  <2>1. mem \in Seq(Object) /\ Len(mem) = 0
    BY DEF Init
  <2> QED
    BY <2>1
<1>7. cells \in [Cells -> Nat] /\ \A x \in Cells : UNBOXED(cells[x])
  BY DEF Init, BOX, UNBOXED
<1>8. Shape(cells, mem, from)
  BY <1>5, <1>6, <1>7 DEF Shape, Typed, Inside, In, Apart, Even, UniqueIds, ForwardsTyped
<1>9. Heap(cells, mem, from)
  BY <1>6, <1>7, <1>8 DEF Heap, Settled, FieldsSettled, In
<1>10. root \in 1 .. Len(Scan) + 1
  BY <1>1 DEF Init
<1> QED
  BY <1>1, <1>4, <1>8, <1>9, <1>10 DEF Init, IInv, Collecting

\* A request fills its object with text, or with words of the heap.
LEMMA NewObject ==
  ASSUME NEW c, NEW m, NEW s, Heap(c, m, s), c = cells,
         NEW req \in Requests, NEW id \in Ids
  PROVE  LET o == New(req, id)
         IN  /\ o \in Object /\ o.forward = NULL /\ o.id = id /\ o.tag = req.tag
             /\ Len(o.fields) = Len(req.args)
             /\ o.tag # "string" => \A i \in DOMAIN o.fields : Settled(o.fields[i], m, s)
<1> DEFINE n == Len(req.args)
           g == [i \in DOMAIN req.args |-> cells[req.args[i]]]
           o == New(req, id)
<1>1. /\ req.tag \in Tags
      /\ req.args \in IF req.tag = "string" THEN Seq(Nat) ELSE Seq(Cells)
  BY RequestsAssumption
<1>2. c \in [Cells -> Nat] /\ \A x \in Cells : Settled(c[x], m, s)
  BY DEF Heap, Shape, Typed
<1>3. CASE req.tag = "string"
  <2>1. o = [tag |-> req.tag, fields |-> req.args, id |-> id, forward |-> NULL]
    BY <1>3 DEF New
  <2>2. req.args \in Seq(Nat)
    BY <1>1, <1>3
  <2> HIDE DEF o
  <2> QED
    BY <1>1, <1>3, <2>1, <2>2 DEF Object, NULL, o
<1>4. CASE req.tag # "string"
  <2>1. o = [tag |-> req.tag, fields |-> g, id |-> id, forward |-> NULL]
    BY <1>4 DEF New
  <2>2. req.args \in Seq(Cells)
    BY <1>1, <1>4
  <2>3. n \in Nat /\ DOMAIN req.args = 1 .. n /\ \A i \in 1 .. n : req.args[i] \in Cells
    BY <2>2
  <2> HIDE DEF n
  <2>4. g \in [1 .. n -> Nat] /\ \A i \in 1 .. n : Settled(g[i], m, s)
    BY <1>2, <2>3
  <2> HIDE DEF g
  <2>5. g \in Seq(Nat) /\ Len(g) = n /\ DOMAIN g = 1 .. n
    BY <2>3, <2>4
  <2> HIDE DEF o
  <2> QED
    BY <1>1, <1>4, <2>1, <2>4, <2>5 DEF Object, NULL, o, n
<1> QED
  BY <1>3, <1>4

\* The new object and its address in a cell; what no word leads to is left out.
LEMMA Given ==
  ASSUME NEW m, NEW s, Heap(cells, m, s), NEW req \in Requests, NEW x \in Cells,
         \E id \in Ids : id \notin UsedIds, \A q \in DOMAIN m : m[q].id \in UsedIds,
         NEW k, k = s.current, NEW top, top = k + WORD * Size(req), top < s.end,
         Give(m, k, req, x)
  PROVE  Heap(cells', mem', [s EXCEPT !.current = top])
<1> DEFINE id == Fresh
           o  == New(req, id)
           p  == k + WORD * Header(req.tag)
           m2 == With(m, p, o)
<1>1. id \in Ids /\ id \notin UsedIds
  BY DEF Fresh
<1> HIDE DEF id
<1>2. /\ o \in Object /\ o.forward = NULL /\ o.id = id /\ o.tag = req.tag
      /\ Len(o.fields) = Len(req.args)
      /\ o.tag # "string" => \A i \in DOMAIN o.fields : Settled(o.fields[i], m, s)
  BY <1>1, NewObject
<1>3. cells' = [cells EXCEPT ![x] = p] /\ mem' = Live(cells', m2)
  BY DEF Give, id
<1> HIDE DEF o
<1>4. /\ top = k + WORD * SizeAsked(o.tag, Len(o.fields))
      /\ p = k + WORD * Header(o.tag)
  BY <1>2 DEF Size
<1>5. \A q \in DOMAIN m : m[q].id # o.id
  BY <1>1, <1>2
<1> HIDE DEF p
<1>6. Heap([cells EXCEPT ![x] = p], m2, [s EXCEPT !.current = top])
  BY <1>2, <1>4, <1>5, NewHeap
<1>7. Heap(cells', m2, [s EXCEPT !.current = top])
  BY <1>3, <1>6
<1> HIDE DEF m2
<1>8. Heap(cells', Live(cells', m2), [s EXCEPT !.current = top])
  BY <1>7, LiveHeap
<1> QED
  BY <1>3, <1>8

LEMMA AllocFitsStep ==
  ASSUME IInv, NEW c \in Cells, NEW req \in Requests, AllocFits(c, req)
  PROVE  IInv'
<1>1. Heap(cells, mem, from) /\ from.size = SPACE_SIZE /\ work = <<>> /\ phase = "mutator"
  BY DEF IInv, AllocFits, MayAsk
<1>2. /\ \E id \in Ids : id \notin UsedIds
      /\ \A q \in DOMAIN mem : mem[q].id \in UsedIds
  <2>1. UsedIds \subseteq Ids
    BY <1>1 DEF UsedIds, Heap, Shape, Typed, Object
  <2> QED
    BY <2>1 DEF AllocFits, MayAsk, UsedIds
<1> DEFINE top == from.current + WORD * Size(req)
           s2  == [from EXCEPT !.current = top]
<1>3. top < from.end
  BY DEF AllocFits, Fits
<1>4. Heap(cells', mem', s2)
  BY <1>1, <1>2, <1>3, Given DEF AllocFits
<1>5. from' = s2 /\ s2.size = from.size
  BY <1>1 DEF AllocFits, Heap, Shape, FromOK, SpaceOK, Space
<1>6. Heap(cells, mem, from)'
  BY <1>4, <1>5
<1> QED
  BY <1>1, <1>5, <1>6 DEF IInv, AllocFits, Heap, Collecting

LEMMA AllocCollectsStep ==
  ASSUME IInv, NEW c \in Cells, NEW req \in Requests, AllocCollects(c, req)
  PROVE  IInv'
<1>1. /\ Heap(cells, mem, from) /\ from.size = SPACE_SIZE /\ work = <<>> /\ phase = "mutator"
      /\ SPACE_SIZE \in Nat \ {0}
  BY DEF IInv, AllocCollects, MayAsk
<1>2. /\ SpaceOK(to') /\ Disjoint(to', from) /\ to'.size = SPACE_SIZE
  BY <1>1, Mapped DEF AllocCollects
<1>3. from.size <= to'.size
  BY <1>1, <1>2
<1>4. Collection(cells, mem, from, to', to'.begin, 1, <<>>)
  BY <1>1, <1>2, <1>3, CollectionStarts
<1>5. Collection(cells, mem, from, to, current, root, work)'
  BY <1>1, <1>4 DEF AllocCollects
<1>6. RequestOK'
  <2>1. UsedIds \subseteq Ids
    BY <1>1 DEF UsedIds, Heap, Shape, Typed, Object
  <2> QED
    BY <2>1 DEF AllocCollects, MayAsk, RequestOK, UsedIds
<1>7. 1 \in 1 .. Len(Scan) + 1
  BY RequestsAssumption
<1> QED
  BY <1>1, <1>2, <1>5, <1>6, <1>7 DEF IInv, AllocCollects, Collecting, Heap

\* A step of the program that leaves the spaces and the phase alone.
LEMMA MutateStep ==
  ASSUME IInv, Mutate, Heap(cells', mem', from)
  PROVE  IInv'
BY DEF IInv, Mutate, Heap, Collecting

LEMMA MoveStep ==
  ASSUME IInv, NEW c \in Cells, NEW v, v = BOX(0) \/ \E d \in Cells : v = cells[d], Move(c, v)
  PROVE  IInv'
<1>1. Heap(cells, mem, from)
  BY DEF IInv, Move, Mutate
<1>2. v \in Nat /\ Settled(v, mem, from)
  BY <1>1 DEF Heap, Shape, Typed, Settled, BOX, UNBOXED
<1>3. Heap([cells EXCEPT ![c] = v], mem, from)
  BY <1>1, <1>2, CellHeap
<1>4. Heap(cells', mem, from)
  BY <1>3 DEF Move
<1>5. Heap(cells', Live(cells', mem), from)
  BY <1>4, LiveHeap
<1> QED
  BY <1>5, MutateStep DEF Move

LEMMA SetFieldStep ==
  ASSUME IInv, NEW c \in Cells, NEW d \in Cells, NEW i, SetField(c, i, d)
  PROVE  IInv'
<1>1. Heap(cells, mem, from)
  BY DEF IInv, SetField, Mutate
<1>2. cells[d] \in Nat /\ Settled(cells[d], mem, from)
  BY <1>1 DEF Heap, Shape, Typed
<1>3. cells[c] \in DOMAIN mem /\ i \in DOMAIN mem[cells[c]].fields
  BY DEF SetField
<1>4. Heap(cells, [mem EXCEPT ![cells[c]].fields[i] = cells[d]], from)
  BY <1>1, <1>2, <1>3, FieldHeap
<1>5. Heap(cells, Live(cells, [mem EXCEPT ![cells[c]].fields[i] = cells[d]]), from)
  BY <1>4, LiveHeap
<1>6. Heap(cells', mem', from)
  BY <1>5 DEF SetField
<1> QED
  BY <1>6, MutateStep DEF SetField

-----------------------------------------------------------------------------
(* The steps of the collector. *)

\* The word being tested leads out of the heap, or to one of the two spaces; an
\* element of an object in from_space does not lead to to_space.
LEMMA TestedWord ==
  ASSUME IInv, MayTest
  PROVE  /\ Collection(cells, mem, from, to, current, root, work)
         /\ phase = "roots" /\ Tested \in Nat
         /\ Settled(Tested, mem, from) \/ Settled(Tested, mem, to)
         /\ work # <<>> => Settled(Tested, mem, from)
         /\ work = <<>> => root <= Len(Scan)
         /\ work # <<>> => work[Len(work)].i <= Len(mem[work[Len(work)].src].fields)
         /\ IS_VALID_HEAP_POINTER(Tested) <=> Tested \in In(mem, from)
<1>1. Collection(cells, mem, from, to, current, root, work) /\ phase = "roots"
  BY DEF IInv, MayTest, Scanning, Collecting
<1>2. ASSUME work = <<>>
      PROVE  /\ root <= Len(Scan) /\ Tested \in Nat
             /\ Settled(Tested, mem, from) \/ Settled(Tested, mem, to)
  <2>1. root <= Len(Scan)
    BY <1>2 DEF MayTest, Scanning
  <2>2. root \in 1 .. Len(Scan) /\ Scan \in Seq(Cells)
    BY <1>1, <2>1, RequestsAssumption DEF Collection, RootsOK
  <2>3. Scan[root] \in Cells
    BY <2>2
  <2> QED
    BY <1>1, <1>2, <2>1, <2>3 DEF Tested, Collection, RootsOK, Shape, Typed
<1>3. ASSUME work # <<>>
      PROVE  /\ Top.i <= Len(mem[Top.src].fields) /\ Tested \in Nat
             /\ Settled(Tested, mem, from)
  <2> DEFINE n == Len(work)
             a == work[n]
             z == Len(mem[a.src].fields)
             i == a.i
  <2>1. work \in Seq(Activation) /\ n \in 1 .. n
    BY <1>1, <1>3 DEF Collection, WorkOK
  <2>2. /\ i \in Nat /\ i > 0 /\ a.src \in In(mem, from)
        /\ mem[a.src].fields \in Seq(Nat)
        /\ i <= z => mem[a.src].tag # "string"
    BY <1>1, <2>1, ActivationFacts
  <2>3. i <= z
    BY <1>3 DEF MayTest, AtElement, Top
  <2>4. z \in Nat /\ DOMAIN mem[a.src].fields = 1 .. z
    BY <2>2
  <2>5. i \in 1 .. z
    <3> HIDE DEF i, z
    <3> QED
      BY <2>2, <2>3, <2>4
  <2>6. mem[a.src].fields[i] \in Nat /\ Settled(mem[a.src].fields[i], mem, from)
    BY <1>1, <2>2, <2>3, <2>4, <2>5 DEF Collection, FieldsSettled
  <2> QED
    BY <1>3, <2>3, <2>6 DEF Tested, Top
<1>4. /\ Tested \in Nat /\ (Settled(Tested, mem, from) \/ Settled(Tested, mem, to))
  BY <1>2, <1>3
<1>5. IS_VALID_HEAP_POINTER(Tested) <=> Tested \in In(mem, from)
  <2> DEFINE v == Tested
  <2>1. Settled(v, mem, from) \/ Settled(v, mem, to)
    BY <1>4
  <2>2. IS_VALID_HEAP_POINTER(v) <=> (~UNBOXED(v) /\ from.begin <= v /\ v < from.end)
    BY DEF IS_VALID_HEAP_POINTER
  <2> HIDE DEF v
  <2>3. (~UNBOXED(v) /\ from.begin <= v /\ v < from.end) <=> v \in In(mem, from)
    BY <1>1, <2>1, PointersIntoFrom
  <2>4. IS_VALID_HEAP_POINTER(v) <=> v \in In(mem, from)
    BY <2>2, <2>3
  <2> QED
    BY <2>4 DEF v
<1> QED
  BY <1>1, <1>2, <1>3, <1>4, <1>5 DEF Top

\* The identities in use do not change while objects are copied.
LEMMA RequestStays ==
  ASSUME RequestOK, request' = request, \A p \in DOMAIN mem' : mem'[p].id \in UsedIds
  PROVE  RequestOK'
<1>1. UsedIds' \subseteq UsedIds
  BY DEF UsedIds
<1> QED
  BY <1>1 DEF RequestOK

\* The caller of gc_copy assigns a value that leads out of from_space.
LEMMA Answered ==
  ASSUME IInv, phase = "roots", phase' = phase, Idle, current' = current,
         NEW w, Collection(cells, mem, from, to, current, root, w),
         w = <<>> => root <= Len(Scan),
         w # <<>> => w[Len(w)].i <= Len(mem[w[Len(w)].src].fields),
         NEW v \in Nat, Settled(v, mem, to),
         Answer(w, mem, v)
  PROVE  IInv'
<1>1. /\ from' = from /\ to' = to /\ SPACE_SIZE' = SPACE_SIZE /\ request' = request
  BY DEF Idle
<1>2. SPACE_SIZE \in Nat \ {0} /\ to.size = SPACE_SIZE /\ RequestOK
  BY DEF IInv, Collecting
<1>3. ASSUME w = <<>>
      PROVE  /\ Collection(cells', mem', from, to, current, root', work')
             /\ \A p \in DOMAIN mem' : mem'[p].id \in UsedIds
  <2>1. /\ cells' = [cells EXCEPT ![Scan[root]] = v] /\ root' = root + 1
        /\ work' = <<>> /\ mem' = mem
    BY <1>3 DEF Answer
  <2>2. Collection([cells EXCEPT ![Scan[root]] = v], mem, from, to, current, root + 1, <<>>)
    BY <1>3, RootAnswered
  <2> QED
    BY <2>1, <2>2 DEF UsedIds
<1>4. ASSUME w # <<>>
      PROVE  /\ Collection(cells', mem', from, to, current, root', work')
             /\ \A p \in DOMAIN mem' : mem'[p].id \in UsedIds
  <2> DEFINE a  == w[Len(w)]
             m2 == [mem EXCEPT ![a.dst].fields[a.i] = v]
             w2 == [w EXCEPT ![Len(w)].i = @ + 1]
  <2>1. mem' = m2 /\ work' = w2 /\ cells' = cells /\ root' = root
    BY <1>4 DEF Answer
  <2>2. a.i <= Len(mem[a.src].fields)
    BY <1>4
  <2>3. Collection(cells, m2, from, to, current, root, w2)
    BY <1>4, <2>2, ElementAnswered
  <2>4. w \in Seq(Activation) /\ Len(w) \in 1 .. Len(w) /\ Typed(cells, mem)
    BY <1>4 DEF Collection, WorkOK, Shape
  <2>5. a.dst \in DOMAIN mem /\ a.i \in DOMAIN mem[a.dst].fields
    BY <2>2, <2>4, ActivationFacts
  <2> HIDE DEF a
  <2>6. Assigned(mem, m2, a.dst, a.i, v)
    BY <2>4, <2>5, ElementAssigned
  <2> HIDE DEF m2, w2
  <2>7. \A p \in DOMAIN m2 : m2[p].id \in UsedIds
    BY <2>6 DEF Assigned, SameObjects, UsedIds
  <2> QED
    BY <2>1, <2>3, <2>7
<1>5. Collection(cells, mem, from, to, current, root, work)'
  BY <1>1, <1>3, <1>4
<1>6. RequestOK'
  BY <1>1, <1>2, <1>3, <1>4, RequestStays
<1>7. Shape(cells', mem', from') /\ root' \in 1 .. Len(Scan) + 1
  BY <1>5 DEF Collection, RootsOK
<1> QED
  BY <1>1, <1>2, <1>5, <1>6, <1>7 DEF IInv, Collecting

LEMMA KeepWordStep ==
  ASSUME IInv, KeepWord
  PROVE  IInv'
<1>1. /\ MayTest /\ ~IS_VALID_HEAP_POINTER(Tested) /\ Answer(work, mem, Tested)
      /\ Idle /\ current' = current /\ phase' = phase
  BY DEF KeepWord
<1>2. /\ Collection(cells, mem, from, to, current, root, work)
      /\ phase = "roots" /\ Tested \in Nat
      /\ Settled(Tested, mem, from) \/ Settled(Tested, mem, to)
      /\ work = <<>> => root <= Len(Scan)
      /\ work # <<>> => work[Len(work)].i <= Len(mem[work[Len(work)].src].fields)
      /\ Tested \notin In(mem, from)
  BY <1>1, TestedWord
<1>3. Settled(Tested, mem, to)
  BY <1>2 DEF Settled
<1> QED
  BY <1>1, <1>2, <1>3, Answered

LEMMA ForwardedStep ==
  ASSUME IInv, Forwarded
  PROVE  IInv'
<1> DEFINE v == mem[Tested].forward
<1>1. /\ MayTest /\ IS_VALID_HEAP_POINTER(Tested) /\ IS_FORWARD_PTR(mem[Tested])
      /\ Answer(work, mem, v)
      /\ Idle /\ current' = current /\ phase' = phase
  BY DEF Forwarded
<1>2. /\ Collection(cells, mem, from, to, current, root, work)
      /\ phase = "roots"
      /\ work = <<>> => root <= Len(Scan)
      /\ work # <<>> => work[Len(work)].i <= Len(mem[work[Len(work)].src].fields)
      /\ Tested \in In(mem, from)
  BY <1>1, TestedWord
<1>3. v # NULL
  BY <1>1 DEF IS_FORWARD_PTR
<1>4. v \in In(mem, to)
  BY <1>2, <1>3 DEF Collection, Copies
<1>5. v \in Nat /\ Settled(v, mem, to)
  BY <1>2, <1>4 DEF Settled, In, Collection, Shape, Typed
<1> HIDE DEF v
<1> QED
  BY <1>1, <1>2, <1>5, Answered

LEMMA ReturnStep ==
  ASSUME IInv, Return
  PROVE  IInv'
<1> DEFINE n == Len(work)
           v == Top.dst
           w == Front(work)
<1>1. /\ phase = "roots" /\ work # <<>> /\ ~AtElement
      /\ Answer(w, mem, v) /\ Idle /\ current' = current /\ phase' = phase
  BY DEF Return, Scanning
<1>2. Collection(cells, mem, from, to, current, root, work)
  BY <1>1 DEF IInv, Collecting
<1>3. work \in Seq(Activation) /\ n \in Nat /\ n > 0 /\ n \in 1 .. n
  BY <1>1, <1>2 DEF Collection, WorkOK
<1>4. /\ work[n].i \in Nat /\ work[n].src \in In(mem, from)
      /\ mem[work[n].src].fields \in Seq(Nat)
      /\ v \in In(mem, to) /\ v \in Nat
  BY <1>2, <1>3, ActivationFacts DEF Top
<1>5. work[n].i > Len(mem[work[n].src].fields)
  <2> DEFINE i == work[n].i
             z == Len(mem[work[n].src].fields)
  <2>1. i \in Nat /\ z \in Nat /\ ~(i <= z)
    BY <1>1, <1>4 DEF AtElement, Top
  <2> HIDE DEF i, z
  <2>2. i > z
    BY <2>1
  <2> QED
    BY <2>2 DEF i, z
<1>6. Collection(cells, mem, from, to, current, root, w)
  BY <1>1, <1>2, <1>5, ActivationEnds
<1>7. w \in Seq(Activation) /\ Len(w) = n - 1 /\ \A k \in 1 .. n - 1 : w[k] = work[k]
  BY <1>1, <1>3, FrontFacts
<1>8. ASSUME w # <<>>
      PROVE  w[Len(w)].i <= Len(mem[w[Len(w)].src].fields)
  <2>1. Len(w) \in Nat /\ Len(w) > 0
    BY <1>7, <1>8
  <2>2. n - 1 \in 1 .. n /\ n - 1 < n /\ n - 1 \in 1 .. n - 1
    BY <1>3, <1>7, <2>1
  <2>3. work[n - 1].i <= Len(mem[work[n - 1].src].fields)
    BY <1>2, <2>2 DEF Collection, WorkOK
  <2> QED
    BY <1>7, <2>2, <2>3
<1>9. ASSUME w = <<>>
      PROVE  root <= Len(Scan)
  BY <1>1, <1>2 DEF Collection, RootInHand
<1>10. Settled(v, mem, to)
  BY <1>4 DEF Settled
<1> HIDE DEF v, w
<1> QED
  BY <1>1, <1>4, <1>6, <1>8, <1>9, <1>10, Answered

LEMMA CopyStep ==
  ASSUME IInv, Copy
  PROVE  IInv'
<1> DEFINE x    == Tested
           o    == mem[x]
           p    == current + WORD * Header(o.tag)
           cur2 == current + WORD * SizeCopied(o.tag, Len(o.fields))
           m1   == [mem EXCEPT ![x].forward = p]
           m2   == With(m1, p, Copied(o))
           i    == IF mem[x].tag = "string" THEN Len(mem[x].fields) + 1 ELSE 1
           w2   == Append(work, [src |-> x, dst |-> p, i |-> i])
<1>1. MayTest /\ IS_VALID_HEAP_POINTER(Tested) /\ mem[x].forward = NULL
  BY DEF Copy
<1>2. /\ Collection(cells, mem, from, to, current, root, work) /\ phase = "roots"
      /\ work = <<>> => root <= Len(Scan)
      /\ work # <<>> => work[Len(work)].i <= Len(mem[work[Len(work)].src].fields)
      /\ x \in In(mem, from)
  BY <1>1, TestedWord
<1>3. /\ current' = cur2 /\ mem' = m2 /\ work' = w2
      /\ from' = from /\ to' = to /\ SPACE_SIZE' = SPACE_SIZE /\ request' = request
      /\ cells' = cells /\ root' = root /\ phase' = phase
  BY DEF Copy, Idle
<1>4. Typed(cells, mem) /\ x \in DOMAIN mem /\ mem[x] \in Object
  BY <1>2 DEF Collection, Shape, Typed, In
<1>5. p \in Nat
  <2> DEFINE h == Header(o.tag)
  <2>1. o.tag \in Tags /\ Len(o.fields) \in Nat
    BY <1>4 DEF Object
  <2>2. h \in Nat /\ current \in Nat
    BY <1>2, <2>1, SizesAgree DEF Collection, SpacesOK
  <2> HIDE DEF h
  <2>3. current + WORD * h \in Nat
    BY <2>2 DEF WORD
  <2> QED
    BY <2>3 DEF h
<1> HIDE DEF x
<1>6. Marked(mem, m1, x, p)
  <2> HIDE DEF p
  <2> QED
    BY <1>4, <1>5, TagReplaced
<1>7. Placed(mem, m2, from, to, x, p, current, cur2) /\ Typed(cells, m2)
  <2> HIDE DEF m1
  <2> QED
    BY <1>1, <1>2, <1>6, CopyPlaced
<1> HIDE DEF m1, m2, p, cur2
<1>8. Collection(cells, m2, from, to, cur2, root, w2)
  BY <1>1, <1>2, <1>7, ObjectCopied
<1>9. \A q \in DOMAIN m2 : m2[q].id \in UsedIds
  <2>1. /\ DOMAIN m2 = DOMAIN mem \union {p} /\ m2[p] = Copied(mem[x])
        /\ \A q \in DOMAIN mem : m2[q].id = mem[q].id
    BY <1>7 DEF Placed
  <2>2. Copied(mem[x]).id = mem[x].id
    BY <1>4, CopiedObject
  <2> QED
    BY <1>4, <2>1, <2>2 DEF UsedIds
<1> HIDE DEF w2
<1>10. SPACE_SIZE \in Nat \ {0} /\ to.size = SPACE_SIZE /\ RequestOK /\ root \in 1 .. Len(Scan) + 1
  BY <1>2 DEF IInv, Collecting
<1>11. RequestOK'
  BY <1>3, <1>9, <1>10, RequestStays
<1>12. Collection(cells, mem, from, to, current, root, work)'
  BY <1>3, <1>8
<1>13. Shape(cells', mem', from')
  BY <1>12 DEF Collection
<1> QED
  BY <1>2, <1>3, <1>10, <1>11, <1>12, <1>13 DEF IInv, Collecting

LEMMA RootsScannedStep ==
  ASSUME IInv, RootsScanned
  PROVE  IInv'
<1>1. /\ Collection(cells, mem, from, to, current, root, work)
      /\ Shape(cells, mem, from) /\ SPACE_SIZE \in Nat \ {0}
      /\ to.size = SPACE_SIZE /\ RequestOK /\ phase = "roots"
  BY DEF IInv, RootsScanned, Collecting
<1>2. /\ Collection(cells, mem, from, to, current, root, work)'
      /\ Shape(cells, mem, from)' /\ (to.size = SPACE_SIZE)' /\ RequestOK'
      /\ phase' = "fit" /\ SPACE_SIZE' \in Nat \ {0}
  BY <1>1 DEF RootsScanned, heap, RequestOK, UsedIds
<1>3. work' = <<>> /\ root' = Len(Scan) + 1 /\ root' \in 1 .. Len(Scan) + 1
  <2>1. work = <<>> /\ ~(root <= Len(Scan))
    BY <1>1 DEF RootsScanned, Scanning
  <2>2. root \in 1 .. Len(Scan) + 1 /\ Len(Scan) \in Nat
    BY <1>1, RequestsAssumption DEF Collection, RootsOK
  <2>3. root = Len(Scan) + 1
    BY <2>1, <2>2
  <2> QED
    BY <2>1, <2>2, <2>3 DEF RootsScanned, heap
<1> QED
  BY <1>2, <1>3 DEF IInv, Collecting

\* to_space may grow as long as it does not reach from_space.
LEMMA SpaceGrows ==
  ASSUME NEW c, NEW m, NEW f, NEW t, NEW cur, NEW r, NEW w,
         Collection(c, m, f, t, cur, r, w),
         NEW t2, SpaceOK(t2), Disjoint(t2, f), t2.begin = t.begin, t.size <= t2.size
  PROVE  Collection(c, m, f, t2, cur, r, w)
<1>1. /\ Shape(c, m, f) /\ Typed(c, m) /\ FromOK(f) /\ SpaceOK(f) /\ SpaceOK(t)
      /\ Disjoint(t, f) /\ SpacesOK(f, t, cur)
      /\ DOMAIN m \subseteq In(m, f) \union In(m, t)
  BY DEF Collection, Shape, SpacesOK, FromOK
<1>2. In(m, t2) = In(m, t)
  <2>1. \A p \in In(m, f) : p \notin In(m, t2)
    BY <1>1, SpacesApart
  <2>2. \A p \in DOMAIN m : Within(t, p) => Within(t2, p)
    <3> SUFFICES ASSUME NEW p \in DOMAIN m, Within(t, p)
                 PROVE  Within(t2, p)
      OBVIOUS
    <3> DEFINE b == t.begin
               z == t.size
               z2 == t2.size
    <3>1. /\ b \in Nat /\ z \in Nat /\ z2 \in Nat /\ p \in Nat /\ z <= z2
          /\ b < p /\ p <= b + WORD * z /\ t2.begin = b /\ t2.end = b + WORD * z2
      BY <1>1 DEF SpaceOK, Space, Within, Typed
    <3> HIDE DEF b, z, z2
    <3>2. p <= b + WORD * z2
      BY <3>1 DEF WORD
    <3> QED
      BY <3>1, <3>2 DEF Within
  <2> QED
    BY <1>1, <2>1, <2>2 DEF In
<1>3. SpacesOK(f, t2, cur)
  <2> DEFINE a == f.size
             z == t.size
             z2 == t2.size
  <2>1. a \in Nat /\ z \in Nat /\ z2 \in Nat /\ a <= z /\ z <= z2
    BY <1>1 DEF SpacesOK, SpaceOK, Space
  <2> HIDE DEF a, z, z2
  <2>2. a <= z2
    BY <2>1
  <2> QED
    BY <1>1, <2>2 DEF SpacesOK, a, z2
<1>4. Inside(m, t2, cur)
  BY <1>2 DEF Collection, Inside
<1>5. Room(m, f, t2, cur)
  BY DEF Collection, Room
<1>6. Copies(m, f, t2)
  BY <1>2 DEF Collection, Copies
<1>7. Filled(m, t2, w) /\ RootsOK(c, m, f, t2, r)
  BY <1>2 DEF Collection, Filled, RootsOK, Settled
<1> QED
  BY <1>1, <1>2, <1>3, <1>4, <1>5, <1>6, <1>7 DEF Collection

LEMMA Resized ==
  ASSUME NEW s \in Space, NEW x, NEW y
  PROVE  [s EXCEPT !.end = x, !.size = y]
           = [begin |-> s.begin, end |-> x, current |-> s.current, size |-> y]
<1> DEFINE b == s.begin
           c == s.current
           z == s.size
           u == [s EXCEPT !.end = x]
           t == [begin |-> b, end |-> x, current |-> c, size |-> z]
<1>1. s = [begin |-> b, end |-> s.end, current |-> c, size |-> z]
  BY DEF Space
<1> HIDE DEF b, c, z
<1>2. u = t
  BY <1>1
<1> HIDE DEF u
<1>3. [t EXCEPT !.size = y] = [begin |-> b, end |-> x, current |-> c, size |-> y]
  OBVIOUS
<1>4. [u EXCEPT !.size = y] = [begin |-> b, end |-> x, current |-> c, size |-> y]
  BY <1>2, <1>3
<1>5. [s EXCEPT !.end = x, !.size = y] = [u EXCEPT !.size = y]
  BY DEF u
<1> QED
  BY <1>4, <1>5 DEF b, c

LEMMA ExtendInPlaceStep ==
  ASSUME IInv, ExtendInPlace
  PROVE  IInv'
<1> DEFINE z == SPACE_SIZE
           b == to.begin
           e == to.end
           t2 == [to EXCEPT !.end = @ + WORD * SPACE_SIZE, !.size = 2 * SPACE_SIZE]
<1>1. /\ Collection(cells, mem, from, to, current, root, work)
      /\ Shape(cells, mem, from) /\ z \in Nat \ {0}
      /\ to.size = z /\ RequestOK /\ phase = "fit" /\ work = <<>> /\ root = Len(Scan) + 1
      /\ root \in 1 .. Len(Scan) + 1
  BY DEF IInv, ExtendInPlace, Collecting
<1>2. SpaceOK(to)
  BY <1>1 DEF Collection, SpacesOK
<1>3. b \in Nat /\ e \in Nat /\ e = b + WORD * z
  <2>1. b \in Nat /\ e \in Nat /\ e = b + WORD * to.size
    BY <1>2 DEF SpaceOK, Space
  <2> QED
    BY <1>1, <2>1
<1>4. /\ t2.begin = b /\ t2.end = e + WORD * z /\ t2.size = 2 * z /\ t2.current = to.current
      /\ t2 = [begin |-> b, end |-> e + WORD * z, current |-> to.current, size |-> 2 * z]
  <2> DEFINE x == e + WORD * z
             y == 2 * z
  <2>1. t2 = [to EXCEPT !.end = x, !.size = y]
    OBVIOUS
  <2> HIDE DEF t2, x, y
  <2>2. t2 = [begin |-> b, end |-> x, current |-> to.current, size |-> y]
    BY <1>2, <2>1, Resized DEF SpaceOK
  <2>3. t2.begin = b /\ t2.end = x /\ t2.size = y /\ t2.current = to.current
    BY <2>2
  <2> QED
    BY <2>2, <2>3 DEF x, y
<1>5. /\ e + WORD * z \in Nat /\ e + WORD * z = b + WORD * (2 * z) /\ 2 * z \in Nat /\ 2 * z > 0
      /\ z <= 2 * z
  <2> HIDE DEF b, e, z
  <2> QED
    BY <1>1, <1>3 DEF WORD
<1> HIDE DEF t2
<1>6. SpaceOK(t2)
  <2>1. t2 \in Space
    BY <1>2, <1>4, <1>5 DEF Space, SpaceOK
  <2> QED
    BY <1>2, <1>4, <1>5, <2>1 DEF SpaceOK
<1>7. to' = t2 /\ SPACE_SIZE' = 2 * z /\ Disjoint(t2, from)
  BY DEF ExtendInPlace, t2
<1>8. Collection(cells, mem, from, t2, current, root, work)
  <2>1. t2.begin = to.begin /\ to.size <= t2.size
    BY <1>1, <1>4, <1>5
  <2> QED
    BY <1>1, <1>6, <1>7, <2>1, SpaceGrows
<1>9. /\ Collection(cells, mem, from, to, current, root, work)'
      /\ Shape(cells, mem, from)' /\ RequestOK' /\ phase' = "fit" /\ work' = <<>>
      /\ root' = Len(Scan) + 1 /\ root' \in 1 .. Len(Scan) + 1
  BY <1>1, <1>7, <1>8 DEF ExtendInPlace, RequestOK, UsedIds
<1>10. SPACE_SIZE' \in Nat \ {0} /\ (to.size = SPACE_SIZE)'
  BY <1>4, <1>5, <1>7
<1> QED
  BY <1>9, <1>10 DEF IInv, Collecting

\* After the swap what is in to_space is the heap of the program.
LEMMA SpacesSwap ==
  ASSUME IInv, phase = "fit"
  PROVE  /\ Heap(cells, Restrict(mem, InSpace(to)), Swapped(current))
         /\ SpaceOK(to) /\ to.size = SPACE_SIZE /\ current \in Nat
         /\ Swapped(current).size = SPACE_SIZE /\ Swapped(current).begin = to.begin
         /\ Swapped(current).end = to.end /\ Swapped(current).current = current
         /\ \A q \in DOMAIN Restrict(mem, InSpace(to)) : Restrict(mem, InSpace(to))[q].id \in UsedIds
<1>1. /\ Collection(cells, mem, from, to, current, root, <<>>)
      /\ root = Len(Scan) + 1 /\ to.size = SPACE_SIZE
  BY DEF IInv, Collecting
<1>2. SpaceOK(to) /\ current \in Nat
  BY <1>1 DEF Collection, SpacesOK
<1>3. Heap(cells, Restrict(mem, In(mem, to)), [to EXCEPT !.current = current])
  BY <1>1, CollectionEnds
<1>4. InSpace(to) = In(mem, to)
  BY DEF InSpace, In
<1>5. \A q \in DOMAIN Restrict(mem, InSpace(to)) : Restrict(mem, InSpace(to))[q].id \in UsedIds
  BY DEF Restrict, InSpace, UsedIds
<1> QED
  BY <1>1, <1>2, <1>3, <1>4, <1>5 DEF Swapped, SpaceOK, Space

LEMMA ExtendMovesStep ==
  ASSUME IInv, ExtendMoves
  PROVE  IInv'
<1> DEFINE z == SPACE_SIZE
           s == Swapped(current)
           m == Restrict(mem, InSpace(to))
<1>1. /\ phase = "fit" /\ from' = s /\ mem' = m /\ SPACE_SIZE' = 2 * z
      /\ to' \in Map(2 * z, to) /\ current' = to'.begin /\ phase' = "roots" /\ root' = 1
      /\ cells' = cells /\ work' = work /\ request' = request
  BY DEF ExtendMoves, MoveTo
<1>2. z \in Nat \ {0} /\ RequestOK /\ work = <<>>
  BY <1>1 DEF IInv, Collecting
<1>3. 2 * z \in Nat \ {0} /\ z <= 2 * z
  BY <1>2
<1>4. /\ Heap(cells, m, s) /\ s.size = z /\ s.begin = to.begin /\ s.end = to.end
      /\ \A q \in DOMAIN m : m[q].id \in UsedIds
  BY <1>1, SpacesSwap
<1>5. SpaceOK(to') /\ Disjoint(to', to) /\ to'.size = 2 * z
  BY <1>1, <1>3, Mapped
<1> HIDE DEF s, m
<1>6. Disjoint(to', s) /\ s.size <= to'.size
  BY <1>3, <1>4, <1>5 DEF Disjoint
<1>7. Collection(cells, m, s, to', to'.begin, 1, <<>>)
  BY <1>4, <1>5, <1>6, CollectionStarts
<1>8. Collection(cells, mem, from, to, current, root, work)'
  BY <1>1, <1>2, <1>7
<1>9. RequestOK'
  BY <1>1, <1>2, <1>4, RequestStays
<1>10. Shape(cells', mem', from') /\ root' \in 1 .. Len(Scan) + 1
  BY <1>8 DEF Collection, RootsOK
<1> QED
  BY <1>1, <1>3, <1>5, <1>8, <1>9, <1>10 DEF IInv, Collecting

LEMMA FinishStep ==
  ASSUME IInv, Finish
  PROVE  IInv'
<1> DEFINE s   == Swapped(current)
           m   == Restrict(mem, InSpace(to))
           top == current + WORD * Size(request.req)
           s2  == [s EXCEPT !.current = top]
<1>1. /\ phase = "fit" /\ top < to.end /\ from' = Swapped(top)
      /\ Give(m, current, request.req, request.cell) /\ phase' = "mutator"
      /\ SPACE_SIZE' = SPACE_SIZE /\ root' = root /\ work' = work
  BY DEF Finish, Needed
<1>2. /\ SPACE_SIZE \in Nat \ {0} /\ RequestOK /\ work = <<>> /\ root \in 1 .. Len(Scan) + 1
  BY <1>1 DEF IInv, Collecting
<1>3. /\ Heap(cells, m, s) /\ s.end = to.end /\ s.current = current /\ s.size = SPACE_SIZE
      /\ SpaceOK(to) /\ to.size = SPACE_SIZE
      /\ \A q \in DOMAIN m : m[q].id \in UsedIds
  BY <1>1, SpacesSwap
<1>4. s2 = Swapped(top) /\ s2.size = SPACE_SIZE
  BY <1>3 DEF Swapped, SpaceOK, Space
<1> HIDE DEF s, m
<1>5. Heap(cells', mem', [s EXCEPT !.current = top])
  BY <1>1, <1>2, <1>3, Given DEF RequestOK
<1>6. Heap(cells, mem, from)' /\ from'.size = SPACE_SIZE
  BY <1>1, <1>4, <1>5
<1> QED
  BY <1>1, <1>2, <1>6 DEF IInv, Collecting, Heap

LEMMA OtherSteps ==
  ASSUME IInv, Toggle \/ MmapFails \/ UNCHANGED vars
  PROVE  IInv'
<1>1. CASE Toggle
  BY <1>1 DEF IInv, Toggle, heap, Collecting, RequestOK, UsedIds
<1>2. CASE MmapFails
  <2>1. /\ SPACE_SIZE' = SPACE_SIZE /\ root' = root /\ cells' = cells /\ mem' = mem
        /\ from' = from /\ phase' = "no memory"
    BY <1>2 DEF MmapFails, heap
  <2> QED
    BY <2>1 DEF IInv, Collecting
<1>3. CASE UNCHANGED vars
  BY <1>3 DEF IInv, vars, heap, Collecting, RequestOK, UsedIds
<1> QED
  BY <1>1, <1>2, <1>3

LEMMA NextInv == IInv /\ [Next]_vars => IInv'
<1> SUFFICES ASSUME IInv, [Next]_vars
             PROVE  IInv'
  OBVIOUS
<1>1. ASSUME NEW c \in Cells, NEW req \in Requests, AllocFits(c, req)
      PROVE  IInv'
  BY <1>1, AllocFitsStep
<1>2. ASSUME NEW c \in Cells, NEW req \in Requests, AllocCollects(c, req)
      PROVE  IInv'
  BY <1>2, AllocCollectsStep
<1>3. ASSUME NEW c \in Cells, Move(c, BOX(0)) \/ \E d \in Cells : Move(c, cells[d])
      PROVE  IInv'
  BY <1>3, MoveStep
<1>4. ASSUME NEW c \in Cells, NEW d \in Cells, NEW i \in 1 .. 2, SetField(c, i, d)
      PROVE  IInv'
  BY <1>4, SetFieldStep
<1>5. CASE CollectorStep
  BY <1>5, KeepWordStep, ForwardedStep, CopyStep, ReturnStep, RootsScannedStep,
     ExtendInPlaceStep, ExtendMovesStep, FinishStep DEF CollectorStep
<1>6. CASE Toggle \/ MmapFails \/ UNCHANGED vars
  BY <1>6, OtherSteps
<1> QED
  BY <1>1, <1>2, <1>3, <1>4, <1>5, <1>6 DEF Next

-----------------------------------------------------------------------------
(* What the invariant says of the spaces. *)

LEMMA TypesAreKept == IInv => TypeOK
<1> SUFFICES ASSUME IInv
             PROVE  TypeOK
  OBVIOUS
<1>1. Shape(cells, mem, from) /\ Typed(cells, mem) /\ FromOK(from) /\ ForwardsTyped(mem)
  BY DEF IInv, Shape
<1>2. \A p \in DOMAIN mem : /\ mem[p].tag \in Tags /\ mem[p].id \in Ids
                            /\ mem[p].fields \in Seq(Nat)
                            /\ mem[p].forward \in {NULL} \union DOMAIN mem
  BY <1>1, Bounds DEF ForwardsTyped
<1>3. /\ cells \in [Cells -> Nat] /\ from.end = from.begin + WORD * from.size
      /\ from.begin <= from.current /\ from.current < from.end
  BY <1>1 DEF Typed, FromOK, SpaceOK
<1>4. /\ phase = "mutator" => from.size = SPACE_SIZE
      /\ phase \in {"roots", "fit"} => to.size = SPACE_SIZE
      /\ root \in 1 .. Len(Scan) + 1
  BY DEF IInv, Collecting
<1> QED
  BY <1>2, <1>3, <1>4 DEF TypeOK

LEMMA PointersRecognised == IInv => PointersAreRecognised
<1> SUFFICES ASSUME IInv, phase = "mutator"
             PROVE  /\ \A c \in Cells : ~UNBOXED(cells[c]) =>
                         cells[c] \in DOMAIN mem /\ IS_VALID_HEAP_POINTER(cells[c])
                    /\ \A p \in DOMAIN mem : \A q \in Pointees(mem, p) : IS_VALID_HEAP_POINTER(q)
  BY DEF PointersAreRecognised
<1>1. /\ Heap(cells, mem, from) /\ Typed(cells, mem) /\ FromOK(from)
      /\ Even(mem) /\ Inside(mem, from, from.current)
  BY DEF IInv, Heap, Shape
<1>2. ASSUME NEW v \in In(mem, from)
      PROVE  IS_VALID_HEAP_POINTER(v)
  <2> DEFINE b == from.begin
             k == from.current
             e == from.end
             x == Behind(mem, v)
  <2>1. v \in DOMAIN mem /\ b < v
    BY <1>2 DEF In, Within
  <2>2. ~UNBOXED(v)
    BY <1>1, <2>1, PointersAreBoxed
  <2>3. x <= k
    BY <1>1, <1>2 DEF Inside
  <2>4. v \in Nat /\ x \in Int /\ v <= x
    BY <1>1, <2>1, Bounds
  <2>5. b \in Nat /\ k \in Nat /\ e \in Nat /\ k < e
    BY <1>1 DEF FromOK, SpaceOK, Space
  <2> HIDE DEF b, k, e, x
  <2>6. b <= v /\ v < e
    BY <2>1, <2>3, <2>4, <2>5
  <2> QED
    BY <2>2, <2>6 DEF IS_VALID_HEAP_POINTER, b, e
<1>3. ASSUME NEW c \in Cells, ~UNBOXED(cells[c])
      PROVE  cells[c] \in DOMAIN mem /\ IS_VALID_HEAP_POINTER(cells[c])
  BY <1>1, <1>2, <1>3 DEF Heap, Settled, In
<1>4. ASSUME NEW p \in DOMAIN mem, NEW q \in Pointees(mem, p)
      PROVE  IS_VALID_HEAP_POINTER(q)
  BY <1>1, <1>2, <1>4 DEF Heap, Pointees
<1> QED
  BY <1>3, <1>4

LEMMA ObjectsApart == IInv => ObjectsAreApart
<1> SUFFICES ASSUME IInv
             PROVE  ObjectsAreApart
  OBVIOUS
<1>1. UniqueIds(mem, from) /\ Apart(mem)
  BY DEF IInv, Shape
<1>2. \A p, q \in InSpace(from) : mem[p].id = mem[q].id => p = q
  BY <1>1 DEF UniqueIds, InSpace, In
<1>3. \A p, q \in DOMAIN mem :
        p < q => p + WORD * (SizeAsked(mem[p].tag, Len(mem[p].fields)) - Header(mem[p].tag))
                  <= q - WORD * Header(mem[q].tag)
  BY <1>1 DEF Apart, Behind, First
<1> QED
  BY <1>2, <1>3 DEF ObjectsAreApart

LEMMA CollectorChecksPass == IInv => ChecksPass
<1> SUFFICES ASSUME IInv
             PROVE  ChecksPass
  OBVIOUS
<1>1. ASSUME phase = "roots"
      PROVE  IN_PASSIVE_SPACE(current)
  <2>1. Collection(cells, mem, from, to, current, root, work)
    BY <1>1 DEF IInv, Collecting
  <2>2. to.begin <= current /\ current < to.end
    BY <2>1, RoomLeft DEF Collection, Shape
  <2> QED
    BY <2>2 DEF IN_PASSIVE_SPACE
<1>2. ASSUME MayTest, IS_VALID_HEAP_POINTER(Tested), mem[Tested].forward # NULL
      PROVE  IS_FORWARD_PTR(mem[Tested])
  <2> DEFINE q == mem[Tested].forward
             b == to.begin
             e == to.end
             x == Behind(mem, q)
  <2>1. /\ Collection(cells, mem, from, to, current, root, work)
        /\ Tested \in In(mem, from)
    BY <1>2, TestedWord
  <2>2. q \in In(mem, to)
    BY <1>2, <2>1 DEF Collection, Copies
  <2>3. q \in DOMAIN mem /\ b < q
    BY <2>2 DEF In, Within
  <2>4. x <= current
    BY <2>1, <2>2 DEF Collection, Inside
  <2>5. Typed(cells, mem) /\ FromOK(from) /\ SpacesOK(from, to, current) /\ Room(mem, from, to, current)
    BY <2>1 DEF Collection, Shape
  <2>6. current < e
    BY <2>5, RoomLeft
  <2>7. b \in Nat /\ e \in Nat /\ current \in Nat
    BY <2>5 DEF SpacesOK, SpaceOK, Space
  <2> HIDE DEF q
  <2>8. q \in Nat /\ x \in Int /\ q <= x
    BY <2>3, <2>5, Bounds
  <2> HIDE DEF b, e, x
  <2>9. b <= q /\ q < e
    BY <2>3, <2>4, <2>6, <2>7, <2>8
  <2> QED
    BY <1>2, <2>9 DEF IS_FORWARD_PTR, IN_PASSIVE_SPACE, q, b, e
<1>3. MayTest => phase = "roots"
  BY DEF MayTest, Scanning
<1>4. ASSUME phase = "fit", ~MustExtend
      PROVE  current + Needed < to.end
  <2> DEFINE z == Size(request.req)
             e == to.end
  <2>1. RequestOK /\ Collection(cells, mem, from, to, current, root, work)
    BY <1>4 DEF IInv, Collecting
  <2>2. z \in Nat
    <3> DEFINE req == request.req
               n   == Len(req.args)
    <3>1. req \in Requests
      BY <2>1 DEF RequestOK
    <3> HIDE DEF req
    <3>2. /\ req.tag \in Tags
          /\ req.args \in IF req.tag = "string" THEN Seq(Nat) ELSE Seq(Cells)
      BY <3>1, RequestsAssumption
    <3>3. n \in Nat
      BY <3>2
    <3> QED
      BY <3>2, <3>3, SizesAgree DEF Size, req
  <2>3. e \in Nat /\ current \in Nat
    BY <2>1 DEF Collection, SpacesOK, SpaceOK, Space
  <2>4. ~(current + WORD * z >= e)
    BY <1>4 DEF MustExtend, Needed
  <2> HIDE DEF z, e
  <2>5. current + WORD * z < e
    BY <2>2, <2>3, <2>4 DEF WORD
  <2> QED
    BY <2>5 DEF Needed, z, e
<1> QED
  BY <1>1, <1>2, <1>3, <1>4 DEF ChecksPass, HasRoom

-----------------------------------------------------------------------------
\* Whatever the program allocates and moves, and however the spaces grow and
\* move: pointers lead to whole objects that do not overlap, an object has one
\* copy at most, to_space never overflows and a tag is a tag or the address of a
\* copy (alloc, gc, gc_copy, copy_elements, extend_spaces).
THEOREM CopyingSpacesAreSound == Spec => []SpacesAreSound
<1>1. Init => IInv
  BY InitialInv
<1>2. IInv /\ [Next]_vars => IInv'
  BY NextInv
<1>3. IInv => SpacesAreSound
  BY TypesAreKept, PointersRecognised, ObjectsApart, CollectorChecksPass DEF SpacesAreSound
<1> QED
  BY <1>1, <1>2, <1>3, PTL DEF Spec

-----------------------------------------------------------------------------
(* Transparency: to the program a collection is no step at all, and its own *)
(* operations are those of the abstract store, provided that no text has a *)
(* zero character (see Strcpy).  Graphs are compared as values: the        *)
(* program's words (CellsIn) and the objects of a space by identity        *)
(* (StoreIn), as operators of the memory.  GInv adds to IInv how copies    *)
(* follow their originals while they are filled (Faithful), which words the *)
(* activations of gc_copy are for (Chain), and that nothing unreachable is *)
(* in the space (AllReached), so that what was not copied is not missed.   *)

\* No request has a text with a zero in it.
TextHasNoZero ==
  \A req \in Requests : req.tag = "string" => \A i \in DOMAIN req.args : req.args[i] # 0

-----------------------------------------------------------------------------
(* The program's view, as a function of the memory. *)

ValueIn(m, v) == IF v \in DOMAIN m THEN <<"ref", m[v].id>> ELSE <<"other", v>>

ContentsIn(m, p) == [tag    |-> m[p].tag,
                     fields |-> IF m[p].tag = "string" THEN m[p].fields
                                ELSE [i \in DOMAIN m[p].fields |-> ValueIn(m, m[p].fields[i])]]

CellsIn(c, m) == [x \in Cells |-> ValueIn(m, c[x])]

IdsOf(m, S) == {m[p].id : p \in S}

StoreIn(m, s) == [id \in IdsOf(m, In(m, s)) |->
                    ContentsIn(m, CHOOSE p \in In(m, s) : m[p].id = id)]

-----------------------------------------------------------------------------
(* The invariant. *)

\* All objects of the space can be reached from the words.
AllReached(c, m, s) == Program!Reach(CellsIn(c, m), StoreIn(m, s)) = IdsOf(m, In(m, s))

Text(m) ==
  \A p \in DOMAIN m : m[p].tag = "string" =>
    \A i \in DOMAIN m[p].fields : m[p].fields[i] # 0

\* An element of a copy stands for what the original's does, or an activation
\* has it to do.
Filling(w, q, j) == \E k \in 1 .. Len(w) : w[k].dst = q /\ w[k].i <= j

Faithful(m, f, w) ==
  \A p \in In(m, f) : m[p].forward # NULL =>
    LET q == m[p].forward
    IN  IF m[p].tag = "string" THEN m[q].fields = m[p].fields
        ELSE \A j \in DOMAIN m[p].fields :
               \/ ValueIn(m, m[q].fields[j]) = ValueIn(m, m[p].fields[j])
               \/ Filling(w, q, j)

\* The word that the caller of the innermost activation is at: a root, or the
\* element of the activation before it.
WordOf(c, m, r, w) ==
  IF w = <<>> THEN c[Scan[r]] ELSE m[w[Len(w)].src].fields[w[Len(w)].i]

\* An activation copies the object that its caller's word leads to.
Chain(c, m, r, w) ==
  \A k \in 1 .. Len(w) :
    w[k].src = IF k = 1 THEN c[Scan[r]] ELSE m[w[k - 1].src].fields[w[k - 1].i]

GInv ==
  /\ Text(mem)
  /\ phase \in {"mutator", "roots", "fit"} => AllReached(cells, mem, from)
  /\ Collecting => Faithful(mem, from, work) /\ Chain(cells, mem, root, work)

-----------------------------------------------------------------------------
(* Stores. *)

\* The entry of an object's identity is what that object holds.
LEMMA StoreEntry ==
  ASSUME NEW m, NEW s, UniqueIds(m, s), NEW p \in In(m, s)
  PROVE  m[p].id \in IdsOf(m, In(m, s)) /\ StoreIn(m, s)[m[p].id] = ContentsIn(m, p)
<1> DEFINE id == m[p].id
           q  == CHOOSE x \in In(m, s) : m[x].id = id
<1>1. id \in IdsOf(m, In(m, s))
  BY DEF IdsOf
<1>2. q \in In(m, s) /\ m[q].id = id
  OBVIOUS
<1>3. q = p
  BY <1>2 DEF UniqueIds
<1>4. StoreIn(m, s)[id] = ContentsIn(m, q)
  BY <1>1 DEF StoreIn
<1> QED
  BY <1>1, <1>3, <1>4

LEMMA StoreDomain ==
  ASSUME NEW m, NEW s
  PROVE  DOMAIN StoreIn(m, s) = IdsOf(m, In(m, s))
BY DEF StoreIn

IsStore(F, m, s) == /\ F = [id \in IdsOf(m, In(m, s)) |-> F[id]]
                    /\ \A p \in In(m, s) : F[m[p].id] = ContentsIn(m, p)

\* A store is known by its entries.
LEMMA StoreIs ==
  ASSUME NEW m, NEW s, UniqueIds(m, s), NEW F, IsStore(F, m, s)
  PROVE  F = StoreIn(m, s)
<1>1. ASSUME NEW id \in IdsOf(m, In(m, s))
      PROVE  F[id] = StoreIn(m, s)[id]
  <2>1. PICK p \in In(m, s) : m[p].id = id
    BY <1>1 DEF IdsOf
  <2> QED
    BY <2>1, StoreEntry DEF IsStore
<1>2. F = [id \in IdsOf(m, In(m, s)) |-> F[id]]
  BY DEF IsStore
<1>3. StoreIn(m, s) = [id \in IdsOf(m, In(m, s)) |-> StoreIn(m, s)[id]]
  BY DEF StoreIn
<1> QED
  BY <1>1, <1>2, <1>3

\* Every object of the one space has one of the other that holds the same.
SameStore(m, s, m2, s2) ==
  /\ \A p \in In(m, s) : \E q \in In(m2, s2) :
       m2[q].id = m[p].id /\ ContentsIn(m2, q) = ContentsIn(m, p)
  /\ \A q \in In(m2, s2) : \E p \in In(m, s) : m2[q].id = m[p].id

LEMMA StoresAgree ==
  ASSUME NEW m, NEW s, UniqueIds(m, s), NEW m2, NEW s2, UniqueIds(m2, s2),
         SameStore(m, s, m2, s2)
  PROVE  StoreIn(m2, s2) = StoreIn(m, s)
<1> DEFINE F == StoreIn(m2, s2)
<1>1. IdsOf(m2, In(m2, s2)) = IdsOf(m, In(m, s))
  BY DEF SameStore, IdsOf
<1>2. F = [id \in IdsOf(m, In(m, s)) |-> F[id]]
  BY <1>1 DEF StoreIn
<1>3. ASSUME NEW p \in In(m, s)
      PROVE  F[m[p].id] = ContentsIn(m, p)
  <2>1. PICK q \in In(m2, s2) : m2[q].id = m[p].id /\ ContentsIn(m2, q) = ContentsIn(m, p)
    BY <1>3 DEF SameStore
  <2>2. F[m2[q].id] = ContentsIn(m2, q)
    BY StoreEntry
  <2> QED
    BY <2>1, <2>2
<1> HIDE DEF F
<1>4. IsStore(F, m, s)
  BY <1>2, <1>3 DEF IsStore
<1> QED
  BY <1>4, StoreIs DEF F

\* What is reached depends on the view alone.
LEMMA ViewReached ==
  ASSUME NEW c, NEW m, NEW s, AllReached(c, m, s),
         NEW c2, NEW m2, NEW s2, CellsIn(c2, m2) = CellsIn(c, m), StoreIn(m2, s2) = StoreIn(m, s)
  PROVE  AllReached(c2, m2, s2)
<1>1. IdsOf(m2, In(m2, s2)) = IdsOf(m, In(m, s))
  BY StoreDomain
<1> QED
  BY <1>1 DEF AllReached

-----------------------------------------------------------------------------
(* What is reached. *)

LEMMA RefsAndOthers ==
  ASSUME NEW m, NEW v
  PROVE  /\ v \in DOMAIN m => ValueIn(m, v)[1] = "ref" /\ ValueIn(m, v)[2] = m[v].id
         /\ v \notin DOMAIN m => ValueIn(m, v)[1] = "other" /\ ValueIn(m, v)[2] = v
BY DEF ValueIn

LEMMA RootsAgree ==
  ASSUME NEW c, NEW m, DOMAIN c = Cells
  PROVE  Program!Roots(CellsIn(c, m)) = IdsOf(m, Range(c) \intersect DOMAIN m)
<1> DEFINE A == CellsIn(c, m)
<1>1. \A x \in Cells : A[x] = ValueIn(m, c[x])
  BY DEF CellsIn
<1>2. \A x \in Cells : /\ c[x] \in DOMAIN m => A[x][1] = "ref" /\ A[x][2] = m[c[x]].id
                       /\ c[x] \notin DOMAIN m => A[x][1] = "other"
  BY <1>1, RefsAndOthers
<1> HIDE DEF A
<1>3. \A x \in Cells : A[x][1] = "ref" <=> c[x] \in DOMAIN m
  BY <1>2
<1>4. Program!Roots(A) = {A[x][2] : x \in {y \in Cells : A[y][1] = "ref"}}
  BY DEF Program!Roots
<1>5. Program!Roots(A) = {m[c[x]].id : x \in {y \in Cells : c[y] \in DOMAIN m}}
  BY <1>2, <1>3, <1>4
<1>6. {m[c[x]].id : x \in {y \in Cells : c[y] \in DOMAIN m}} = IdsOf(m, Range(c) \intersect DOMAIN m)
  BY DEF IdsOf, Range
<1> QED
  BY <1>5, <1>6 DEF A

LEMMA PointeesAgree ==
  ASSUME NEW m, NEW p
  PROVE  Program!Pointees(ContentsIn(m, p)) = IdsOf(m, Pointees(m, p))
<1> DEFINE o == ContentsIn(m, p)
           D == DOMAIN m[p].fields
           g == [i \in D |-> ValueIn(m, m[p].fields[i])]
<1>1. CASE m[p].tag = "string"
  <2>1. o.tag = "string"
    BY <1>1 DEF ContentsIn
  <2>2. Program!Pointees(o) = {}
    BY <2>1 DEF Program!Pointees
  <2>3. IdsOf(m, Pointees(m, p)) = {}
    BY <1>1 DEF IdsOf, Pointees
  <2> QED
    BY <2>2, <2>3
<1>2. CASE m[p].tag # "string"
  <2>1. o.tag # "string" /\ o.fields = g
    BY <1>2 DEF ContentsIn
  <2>2. DOMAIN g = D /\ \A i \in D : g[i] = ValueIn(m, m[p].fields[i])
    OBVIOUS
  <2> HIDE DEF o, g
  <2>3. \A i \in D : /\ m[p].fields[i] \in DOMAIN m => g[i][1] = "ref" /\ g[i][2] = m[m[p].fields[i]].id
                     /\ m[p].fields[i] \notin DOMAIN m => g[i][1] = "other"
    BY <2>2, RefsAndOthers
  <2>4. \A i \in D : g[i][1] = "ref" <=> m[p].fields[i] \in DOMAIN m
    BY <2>3
  <2>5. Program!Pointees(o) = {g[i][2] : i \in {j \in D : g[j][1] = "ref"}}
    BY <2>1, <2>2 DEF Program!Pointees
  <2>6. Program!Pointees(o) = {m[m[p].fields[i]].id : i \in {j \in D : m[p].fields[j] \in DOMAIN m}}
    BY <2>3, <2>4, <2>5
  <2>7. Pointees(m, p) = {m[p].fields[i] : i \in D} \intersect DOMAIN m
    BY <1>2 DEF Pointees, Range
  <2>8. IdsOf(m, Pointees(m, p)) = {m[m[p].fields[i]].id : i \in {j \in D : m[p].fields[j] \in DOMAIN m}}
    BY <2>7 DEF IdsOf
  <2> QED
    BY <2>6, <2>8 DEF o
<1> QED
  BY <1>1, <1>2

\* Identities are one to one, so that sets of objects compare as sets of them.
LEMMA IdsCompare ==
  ASSUME NEW m, NEW s, UniqueIds(m, s), NEW X \in SUBSET In(m, s), NEW Y \in SUBSET In(m, s)
  PROVE  /\ X \subseteq Y <=> IdsOf(m, X) \subseteq IdsOf(m, Y)
         /\ \A p \in In(m, s) : p \in X <=> m[p].id \in IdsOf(m, X)
<1>1. \A p \in In(m, s) : p \in X <=> m[p].id \in IdsOf(m, X)
  BY DEF UniqueIds, IdsOf
<1>2. \A p \in In(m, s) : p \in Y <=> m[p].id \in IdsOf(m, Y)
  BY DEF UniqueIds, IdsOf
<1>3. X \subseteq Y => IdsOf(m, X) \subseteq IdsOf(m, Y)
  BY DEF IdsOf
<1>4. IdsOf(m, X) \subseteq IdsOf(m, Y) => X \subseteq Y
  BY <1>1, <1>2
<1> QED
  BY <1>1, <1>3, <1>4

\* A set of objects is closed if the set of their identities is.
LEMMA ClosedAgree ==
  ASSUME NEW c, NEW m, NEW s, Heap(c, m, s), NEW S \in SUBSET DOMAIN m
  PROVE  Closed(S, c, m) <=> Program!Closed(IdsOf(m, S), CellsIn(c, m), StoreIn(m, s))
<1> DEFINE A == CellsIn(c, m)
           B == StoreIn(m, s)
<1>1. In(m, s) = DOMAIN m /\ UniqueIds(m, s) /\ DOMAIN c = Cells
  BY DEF Heap, Shape, Typed, In
<1>2. Range(c) \intersect DOMAIN m \subseteq S <=> Program!Roots(A) \subseteq IdsOf(m, S)
  <2>1. Program!Roots(A) = IdsOf(m, Range(c) \intersect DOMAIN m)
    BY <1>1, RootsAgree
  <2>2. Range(c) \intersect DOMAIN m \in SUBSET In(m, s) /\ S \in SUBSET In(m, s)
    BY <1>1
  <2> QED
    BY <1>1, <2>1, <2>2, IdsCompare
<1>3. ASSUME NEW p \in S
      PROVE  Pointees(m, p) \subseteq S <=> Program!Pointees(B[m[p].id]) \subseteq IdsOf(m, S)
  <2>1. p \in In(m, s)
    BY <1>1
  <2>2. B[m[p].id] = ContentsIn(m, p)
    BY <1>1, <2>1, StoreEntry
  <2>3. Program!Pointees(B[m[p].id]) = IdsOf(m, Pointees(m, p))
    BY <2>2, PointeesAgree
  <2>4. Pointees(m, p) \in SUBSET In(m, s) /\ S \in SUBSET In(m, s)
    BY <1>1 DEF Pointees
  <2> QED
    BY <1>1, <2>3, <2>4, IdsCompare
<1> HIDE DEF A, B
<1>4. Program!Closed(IdsOf(m, S), A, B) <=>
        /\ Program!Roots(A) \subseteq IdsOf(m, S)
        /\ \A p \in S : Program!Pointees(B[m[p].id]) \subseteq IdsOf(m, S)
  BY DEF Program!Closed, IdsOf
<1> QED
  BY <1>2, <1>3, <1>4 DEF Closed, A, B

\* The two notions of what can be reached are one.
LEMMA ReachAgrees ==
  ASSUME NEW c, NEW m, NEW s, Heap(c, m, s)
  PROVE  Program!Reach(CellsIn(c, m), StoreIn(m, s)) = IdsOf(m, Reached(c, m))
<1> DEFINE A == CellsIn(c, m)
           B == StoreIn(m, s)
<1>1. In(m, s) = DOMAIN m /\ UniqueIds(m, s)
  BY DEF Heap, Shape, In
<1>2. DOMAIN B = IdsOf(m, DOMAIN m)
  BY <1>1, StoreDomain
<1> HIDE DEF A, B
<1>3. Reached(c, m) \subseteq DOMAIN m
  BY ReachedIsClosed
<1>4. ASSUME NEW p \in DOMAIN m
      PROVE  p \in Reached(c, m) <=> m[p].id \in Program!Reach(A, B)
  <2>1. m[p].id \in DOMAIN B
    BY <1>2 DEF IdsOf
  <2>2. ASSUME p \in Reached(c, m), NEW T \in SUBSET DOMAIN B, Program!Closed(T, A, B)
        PROVE  m[p].id \in T
    <3> DEFINE S == {q \in DOMAIN m : m[q].id \in T}
    <3>1. IdsOf(m, S) = T
      BY <1>2 DEF IdsOf
    <3>2. Closed(S, c, m)
      BY <2>2, <3>1, ClosedAgree DEF A, B
    <3> QED
      BY <2>2, <3>2 DEF Reached
  <2>3. ASSUME m[p].id \in Program!Reach(A, B), NEW S \in SUBSET DOMAIN m, Closed(S, c, m)
        PROVE  p \in S
    <3>1. Program!Closed(IdsOf(m, S), A, B)
      BY <2>3, ClosedAgree DEF A, B
    <3>2. IdsOf(m, S) \in SUBSET DOMAIN B
      BY <1>2 DEF IdsOf
    <3>3. m[p].id \in IdsOf(m, S)
      BY <2>3, <3>1, <3>2 DEF Program!Reach
    <3> QED
      BY <1>1, <3>3, IdsCompare
  <2> QED
    BY <2>1, <2>2, <2>3 DEF Reached, Program!Reach
<1>5. Program!Reach(A, B) \subseteq IdsOf(m, DOMAIN m)
  BY <1>2 DEF Program!Reach
<1>6. Program!Reach(A, B) \subseteq IdsOf(m, Reached(c, m))
  <2> SUFFICES ASSUME NEW id \in Program!Reach(A, B)
               PROVE  id \in IdsOf(m, Reached(c, m))
    OBVIOUS
  <2>1. PICK p \in DOMAIN m : m[p].id = id
    BY <1>5 DEF IdsOf
  <2> QED
    BY <1>4, <2>1 DEF IdsOf
<1>7. IdsOf(m, Reached(c, m)) \subseteq Program!Reach(A, B)
  BY <1>3, <1>4 DEF IdsOf
<1> QED
  BY <1>6, <1>7 DEF A, B

\* Leaving out what is not reached is the same on either side, and leaves what
\* is reached.
LEMMA LiveAgrees ==
  ASSUME NEW c, NEW m, NEW s, Heap(c, m, s)
  PROVE  /\ CellsIn(c, Live(c, m)) = CellsIn(c, m)
         /\ StoreIn(Live(c, m), s) = Program!Live(CellsIn(c, m), StoreIn(m, s))
         /\ AllReached(c, Live(c, m), s)
         /\ Text(m) => Text(Live(c, m))
<1> DEFINE R  == Reached(c, m)
           m2 == Live(c, m)
           A  == CellsIn(c, m)
           B  == StoreIn(m, s)
           F  == Program!Live(A, B)
<1>1. /\ In(m, s) = DOMAIN m /\ UniqueIds(m, s) /\ DOMAIN c = Cells
  BY DEF Heap, Shape, Typed, In
<1>2. /\ R \subseteq DOMAIN m /\ Range(c) \intersect DOMAIN m \subseteq R
      /\ \A p \in R : Pointees(m, p) \subseteq R
  BY ReachedIsClosed
<1>3. DOMAIN m2 = R /\ \A p \in R : m2[p] = m[p]
  BY <1>2 DEF Live, Restrict
<1>4. Heap(c, m2, s)
  BY LiveHeap
<1>5. In(m2, s) = R /\ UniqueIds(m2, s)
  BY <1>3, <1>4 DEF Heap, Shape, In
<1> HIDE DEF m2
<1>6. \A v : (v \in DOMAIN m => v \in R) => ValueIn(m2, v) = ValueIn(m, v)
  BY <1>2, <1>3 DEF ValueIn
<1>7. CellsIn(c, m2) = A
  <2>1. \A x \in Cells : c[x] \in DOMAIN m => c[x] \in R
    BY <1>1, <1>2 DEF Range
  <2> QED
    BY <1>6, <2>1 DEF CellsIn
<1>8. ASSUME NEW p \in R
      PROVE  ContentsIn(m2, p) = ContentsIn(m, p)
  <2>1. m2[p] = m[p]
    BY <1>3
  <2>2. ASSUME m[p].tag # "string", NEW i \in DOMAIN m[p].fields
        PROVE  ValueIn(m2, m[p].fields[i]) = ValueIn(m, m[p].fields[i])
    <3>1. m[p].fields[i] \in DOMAIN m => m[p].fields[i] \in Pointees(m, p)
      BY <2>2 DEF Pointees, Range
    <3> QED
      BY <1>2, <1>6, <3>1
  <2> QED
    BY <2>1, <2>2 DEF ContentsIn
<1>9. Program!Reach(A, B) = IdsOf(m, R)
  BY ReachAgrees
<1>10. IdsOf(m2, In(m2, s)) = IdsOf(m, R)
  BY <1>3, <1>5 DEF IdsOf
<1>11. F = [id \in IdsOf(m, R) |-> B[id]]
  BY <1>9 DEF Program!Live
<1>12. \A p \in In(m2, s) : F[m2[p].id] = ContentsIn(m2, p)
  <2> SUFFICES ASSUME NEW p \in R
               PROVE  F[m2[p].id] = ContentsIn(m2, p)
    BY <1>5
  <2>1. m2[p].id = m[p].id /\ m[p].id \in IdsOf(m, R) /\ p \in In(m, s)
    BY <1>1, <1>2, <1>3 DEF IdsOf
  <2>2. F[m[p].id] = B[m[p].id]
    BY <1>11, <2>1
  <2>3. B[m[p].id] = ContentsIn(m, p)
    BY <1>1, <2>1, StoreEntry
  <2> QED
    BY <1>8, <2>1, <2>2, <2>3
<1>13. F = StoreIn(m2, s)
  <2>1. F = [id \in IdsOf(m2, In(m2, s)) |-> F[id]]
    BY <1>10, <1>11
  <2> HIDE DEF F
  <2>2. IsStore(F, m2, s)
    BY <1>12, <2>1 DEF IsStore
  <2> QED
    BY <1>5, <2>2, StoreIs
<1>14. Reached(c, m2) = R
  <2>1. Reached(c, m2) \subseteq R
    BY <1>3, ReachedIsClosed
  <2>2. ASSUME NEW p \in R, NEW S \in SUBSET R, Closed(S, c, m2)
        PROVE  p \in S
    <3>1. Range(c) \intersect DOMAIN m \subseteq S
      BY <1>2, <1>3, <2>2 DEF Closed
    <3>2. ASSUME NEW q \in S
          PROVE  Pointees(m, q) \subseteq S
      <4>1. q \in R /\ m2[q] = m[q]
        BY <1>3, <2>2
      <4>2. Pointees(m, q) \subseteq R /\ Pointees(m2, q) \subseteq S
        BY <1>2, <2>2, <4>1 DEF Closed
      <4>3. Pointees(m, q) = IF m[q].tag = "string" THEN {} ELSE Range(m[q].fields) \intersect DOMAIN m
        BY DEF Pointees
      <4>4. Pointees(m2, q) = IF m[q].tag = "string" THEN {} ELSE Range(m[q].fields) \intersect R
        BY <1>3, <4>1 DEF Pointees
      <4> QED
        BY <4>2, <4>3, <4>4
    <3>3. Closed(S, c, m) /\ S \in SUBSET DOMAIN m
      BY <1>2, <3>1, <3>2 DEF Closed
    <3> QED
      BY <2>2, <3>3 DEF Reached
  <2> QED
    BY <1>3, <2>1, <2>2 DEF Reached
<1>15. AllReached(c, m2, s)
  BY <1>4, <1>5, <1>14, ReachAgrees DEF AllReached
<1>16. Text(m) => Text(m2)
  BY <1>2, <1>3 DEF Text
<1> QED
  BY <1>7, <1>13, <1>15, <1>16 DEF m2

-----------------------------------------------------------------------------
(* The operations of the program, on either side. *)

\* An element of an object, which is no text, is assigned.
FieldView(c, m, s, p, j, v, m2) ==
  /\ CellsIn(c, m2) = CellsIn(c, m)
  /\ StoreIn(m2, s) = [StoreIn(m, s) EXCEPT ![m[p].id].fields[j] = ValueIn(m, v)]
  /\ Text(m) => Text(m2)

LEMMA FieldAgrees ==
  ASSUME NEW c, NEW m, NEW s, Heap(c, m, s), NEW p \in DOMAIN m, m[p].tag # "string",
         NEW j \in DOMAIN m[p].fields, NEW v \in Nat, Settled(v, m, s)
  PROVE  FieldView(c, m, s, p, j, v, [m EXCEPT ![p].fields[j] = v])
<1> DEFINE m2 == [m EXCEPT ![p].fields[j] = v]
           B  == StoreIn(m, s)
           k  == m[p].id
           o  == ContentsIn(m, p)
           u  == ValueIn(m, v)
           F  == [B EXCEPT ![k].fields[j] = u]
           F2 == [B EXCEPT ![k] = [o EXCEPT !.fields = [o.fields EXCEPT ![j] = u]]]
<1>1. /\ Typed(c, m) /\ In(m, s) = DOMAIN m /\ UniqueIds(m, s)
  BY DEF Heap, Shape, In
<1>2. Assigned(m, m2, p, j, v)
  BY <1>1, ElementAssigned
<1>3. Heap(c, m2, s)
  BY FieldHeap
<1> HIDE DEF m2
<1>4. /\ DOMAIN m2 = DOMAIN m /\ In(m2, s) = In(m, s) /\ UniqueIds(m2, s)
      /\ \A q \in DOMAIN m : m2[q].id = m[q].id /\ m2[q].tag = m[q].tag
                             /\ DOMAIN m2[q].fields = DOMAIN m[q].fields
      /\ \A q \in DOMAIN m : q # p => m2[q] = m[q]
      /\ \A i \in DOMAIN m[p].fields : m2[p].fields[i] = IF i = j THEN v ELSE m[p].fields[i]
  BY <1>2, <1>3 DEF Assigned, SameObjects, In, Heap, Shape
<1>5. \A w : ValueIn(m2, w) = ValueIn(m, w)
  BY <1>4 DEF ValueIn
<1>6. CellsIn(c, m2) = CellsIn(c, m)
  BY <1>5 DEF CellsIn
<1>7. B[k] = o /\ k \in DOMAIN B
  BY <1>1, StoreEntry, StoreDomain
<1>8. F = F2
  <2> HIDE DEF B, k, o, u
  <2> QED
    BY <1>7
<1>9. IdsOf(m2, In(m2, s)) = IdsOf(m, In(m, s))
  BY <1>1, <1>4 DEF IdsOf
<1>10. F2 = [id \in IdsOf(m, In(m, s)) |-> F2[id]]
  <2>1. DOMAIN B = IdsOf(m, In(m, s))
    BY StoreDomain
  <2> HIDE DEF B, o, u, k
  <2> QED
    BY <2>1
<1>11. ASSUME NEW q \in DOMAIN m
       PROVE  F2[m[q].id] = ContentsIn(m2, q)
  <2>1. B[m[q].id] = ContentsIn(m, q) /\ m[q].id \in DOMAIN B
    BY <1>1, StoreEntry, StoreDomain
  <2>2. CASE q # p
    <3>1. m[q].id # k
      BY <1>1, <2>2 DEF UniqueIds
    <3>2. F2[m[q].id] = ContentsIn(m, q)
      <4> HIDE DEF B, o, u, k
      <4> QED
        BY <2>1, <3>1
    <3>3. ContentsIn(m2, q) = ContentsIn(m, q)
      BY <1>4, <1>5, <2>2 DEF ContentsIn
    <3> QED
      BY <3>2, <3>3
  <2>3. CASE q = p
    <3> DEFINE g  == [i \in DOMAIN m[p].fields |-> ValueIn(m, m[p].fields[i])]
               g2 == [i \in DOMAIN m2[p].fields |-> ValueIn(m2, m2[p].fields[i])]
    <3>1. o = [tag |-> m[p].tag, fields |-> g]
      BY DEF ContentsIn
    <3>2. ContentsIn(m2, p) = [tag |-> m[p].tag, fields |-> g2]
      BY <1>4 DEF ContentsIn
    <3>3. g2 = [g EXCEPT ![j] = u]
      <4>1. g2 = [i \in DOMAIN m[p].fields |-> ValueIn(m, m2[p].fields[i])]
        BY <1>4, <1>5
      <4> QED
        BY <1>4, <4>1
    <3> HIDE DEF g, g2, u, o
    <3>4. [o EXCEPT !.fields = [o.fields EXCEPT ![j] = u]] = [tag |-> m[p].tag, fields |-> g2]
      BY <3>1, <3>3
    <3>5. F2[k] = [o EXCEPT !.fields = [o.fields EXCEPT ![j] = u]]
      <4> HIDE DEF B, k
      <4> QED
        BY <1>7
    <3> QED
      BY <2>3, <3>2, <3>4, <3>5
  <2> QED
    BY <2>2, <2>3
<1>12. F2 = StoreIn(m2, s)
  <2> HIDE DEF F2
  <2>1. IsStore(F2, m2, s)
    BY <1>1, <1>4, <1>9, <1>10, <1>11 DEF IsStore
  <2> QED
    BY <1>4, <2>1, StoreIs
<1>13. Text(m) => Text(m2)
  BY <1>4 DEF Text
<1> QED
  BY <1>6, <1>8, <1>12, <1>13 DEF FieldView, m2

\* An object is added, and its address assigned to a word.
NewView(c, m, s, x, o, c2, m2, s2) ==
  /\ CellsIn(c2, m2) = [CellsIn(c, m) EXCEPT ![x] = <<"ref", o.id>>]
  /\ StoreIn(m2, s2) =
       [id \in DOMAIN StoreIn(m, s) \union {o.id} |->
          IF id = o.id
            THEN [tag    |-> o.tag,
                  fields |-> IF o.tag = "string" THEN o.fields
                             ELSE [i \in DOMAIN o.fields |-> ValueIn(m, o.fields[i])]]
            ELSE StoreIn(m, s)[id]]

LEMMA NewAgrees ==
  ASSUME NEW c, NEW m, NEW s, Heap(c, m, s), NEW x \in Cells,
         NEW o \in Object, o.forward = NULL, \A q \in DOMAIN m : m[q].id # o.id,
         o.tag # "string" => \A i \in DOMAIN o.fields : Settled(o.fields[i], m, s),
         NEW k, k = s.current,
         NEW top, top = k + WORD * SizeAsked(o.tag, Len(o.fields)), top < s.end,
         NEW p, p = k + WORD * Header(o.tag)
  PROVE  NewView(c, m, s, x, o, [c EXCEPT ![x] = p], With(m, p, o), [s EXCEPT !.current = top])
<1> DEFINE c2 == [c EXCEPT ![x] = p]
           m2 == With(m, p, o)
           s2 == [s EXCEPT !.current = top]
           B  == StoreIn(m, s)
           u  == ContentsIn(m2, p)
           F  == [id \in DOMAIN B \union {o.id} |-> IF id = o.id THEN u ELSE B[id]]
<1>1. Heap(c2, m2, s2)
  BY NewHeap
<1>2. /\ Typed(c, m) /\ In(m, s) = DOMAIN m /\ UniqueIds(m, s) /\ c \in [Cells -> Nat]
      /\ Inside(m, s, k) /\ FromOK(s)
  BY DEF Heap, Shape, Typed, In
<1>3. p \notin DOMAIN m
  <2> SUFFICES ASSUME p \in DOMAIN m
               PROVE  FALSE
    OBVIOUS
  <2> DEFINE h == Header(o.tag)
             b == Behind(m, p)
  <2>1. h \in Nat /\ h > 0
    BY SizesAgree DEF Object
  <2>2. k \in Nat /\ b \in Int /\ p <= b /\ b <= k
    BY <1>2, Bounds DEF FromOK, SpaceOK, Space, Inside
  <2> HIDE DEF h, b
  <2>3. p = k + WORD * h
    BY DEF h
  <2> QED
    BY <2>1, <2>2, <2>3 DEF WORD
<1>4. DOMAIN m2 = DOMAIN m \union {p} /\ m2[p] = o /\ \A q \in DOMAIN m : m2[q] = m[q]
  BY <1>3 DEF With
<1> HIDE DEF m2
<1>5. Even(m2) /\ In(m2, s2) = DOMAIN m2 /\ UniqueIds(m2, s2)
  BY <1>1 DEF Heap, Shape, In
<1>6. ~UNBOXED(p)
  BY <1>4, <1>5, PointersAreBoxed
<1>7. \A v : Settled(v, m, s) => ValueIn(m2, v) = ValueIn(m, v)
  <2> SUFFICES ASSUME NEW v, Settled(v, m, s)
               PROVE  ValueIn(m2, v) = ValueIn(m, v)
    OBVIOUS
  <2>1. CASE UNBOXED(v)
    <3>1. v # p /\ (v \in DOMAIN m2 <=> v \in DOMAIN m)
      BY <1>4, <1>6, <2>1
    <3> QED
      BY <1>4, <3>1 DEF ValueIn
  <2>2. CASE v \in DOMAIN m
    BY <1>4, <2>2 DEF ValueIn
  <2> QED
    BY <1>2, <2>1, <2>2 DEF Settled
<1>8. CellsIn(c2, m2) = [CellsIn(c, m) EXCEPT ![x] = <<"ref", o.id>>]
  <2>1. DOMAIN c = Cells
    BY <1>2
  <2>2. CellsIn(c2, m2) = [CellsIn(c, m2) EXCEPT ![x] = ValueIn(m2, p)]
    <3>1. \A y \in Cells : c2[y] = IF y = x THEN p ELSE c[y]
      BY <2>1
    <3> HIDE DEF c2
    <3> QED
      BY <3>1 DEF CellsIn
  <2>3. CellsIn(c, m2) = CellsIn(c, m)
    BY <1>7 DEF CellsIn, Heap
  <2>4. ValueIn(m2, p) = <<"ref", o.id>>
    BY <1>4 DEF ValueIn
  <2> QED
    BY <2>2, <2>3, <2>4
<1>9. \A q \in DOMAIN m : ContentsIn(m2, q) = ContentsIn(m, q)
  <2> SUFFICES ASSUME NEW q \in DOMAIN m
               PROVE  ContentsIn(m2, q) = ContentsIn(m, q)
    OBVIOUS
  <2>1. m2[q] = m[q]
    BY <1>4
  <2>2. m[q].tag # "string" => \A i \in DOMAIN m[q].fields :
          ValueIn(m2, m[q].fields[i]) = ValueIn(m, m[q].fields[i])
    BY <1>2, <1>7 DEF Heap, FieldsSettled
  <2> QED
    BY <2>1, <2>2 DEF ContentsIn
<1>10. u = [tag    |-> o.tag,
            fields |-> IF o.tag = "string" THEN o.fields
                       ELSE [i \in DOMAIN o.fields |-> ValueIn(m, o.fields[i])]]
  BY <1>4, <1>7 DEF ContentsIn
<1>11. DOMAIN B = IdsOf(m, DOMAIN m) /\ o.id \notin DOMAIN B
  <2>1. DOMAIN B = IdsOf(m, DOMAIN m)
    BY <1>2, StoreDomain
  <2>2. o.id \notin IdsOf(m, DOMAIN m)
    BY DEF IdsOf
  <2> QED
    BY <2>1, <2>2
<1>12. IdsOf(m2, In(m2, s2)) = DOMAIN B \union {o.id}
  BY <1>4, <1>5, <1>11 DEF IdsOf
<1>13. \A q \in In(m2, s2) : F[m2[q].id] = ContentsIn(m2, q)
  <2> SUFFICES ASSUME NEW q \in DOMAIN m2
               PROVE  F[m2[q].id] = ContentsIn(m2, q)
    BY <1>5
  <2>1. CASE q = p
    <3>1. m2[q].id = o.id /\ ContentsIn(m2, q) = u
      BY <1>4, <2>1
    <3> HIDE DEF u, B
    <3> QED
      BY <3>1
  <2>2. CASE q \in DOMAIN m
    <3>1. m2[q].id = m[q].id /\ m[q].id \in DOMAIN B /\ m[q].id # o.id
      BY <1>4, <1>11, <2>2 DEF IdsOf
    <3>2. B[m[q].id] = ContentsIn(m, q)
      BY <1>2, <2>2, StoreEntry
    <3>3. F[m[q].id] = B[m[q].id]
      <4> HIDE DEF u, B
      <4> QED
        BY <3>1
    <3> QED
      BY <1>9, <2>2, <3>1, <3>2, <3>3
  <2> QED
    BY <1>4, <2>1, <2>2
<1>14. F = StoreIn(m2, s2)
  <2>1. F = [id \in IdsOf(m2, In(m2, s2)) |-> F[id]]
    <3> HIDE DEF u, B
    <3> QED
      BY <1>12
  <2> HIDE DEF F
  <2>2. IsStore(F, m2, s2)
    BY <1>13, <2>1 DEF IsStore
  <2> QED
    BY <1>5, <2>2, StoreIs
<1> QED
  BY <1>8, <1>10, <1>14 DEF NewView, m2

\* What alloc's caller does is New of the abstract store.
Allocated(A, B, x, req, A2, B2) ==
  \E id \in Ids \ DOMAIN B :
    /\ A2 = [A EXCEPT ![x] = <<"ref", id>>]
    /\ B2 = Program!Live(A2,
              [y \in DOMAIN B \union {id} |->
                 IF y = id
                   THEN [tag    |-> req.tag,
                         fields |-> IF req.tag = "string" THEN req.args
                                    ELSE [i \in DOMAIN req.args |-> A[req.args[i]]]]
                   ELSE B[y]])

LEMMA GivenAgrees ==
  ASSUME NEW m, NEW s, Heap(cells, m, s), NEW req \in Requests, NEW x \in Cells,
         \E id \in Ids : id \notin UsedIds, \A q \in DOMAIN m : m[q].id \in UsedIds,
         NEW k, k = s.current, NEW top, top = k + WORD * Size(req), top < s.end,
         Give(m, k, req, x), TextHasNoZero, Text(m),
         NEW s2, s2 = [s EXCEPT !.current = top]
  PROVE  /\ Allocated(CellsIn(cells, m), StoreIn(m, s), x, req,
                      CellsIn(cells', mem'), StoreIn(mem', s2))
         /\ AllReached(cells', mem', s2) /\ Text(mem')
<1> DEFINE id == Fresh
           o  == New(req, id)
           p  == k + WORD * Header(req.tag)
           c2 == [cells EXCEPT ![x] = p]
           m2 == With(m, p, o)
           A  == CellsIn(cells, m)
           B  == StoreIn(m, s)
           o2 == [tag    |-> req.tag,
                  fields |-> IF req.tag = "string" THEN req.args
                             ELSE [i \in DOMAIN req.args |-> A[req.args[i]]]]
           B2 == [y \in DOMAIN B \union {id} |-> IF y = id THEN o2 ELSE B[y]]
<1>1. id \in Ids /\ id \notin UsedIds
  BY DEF Fresh
<1>2. id \notin DOMAIN B
  <2>1. \A q \in In(m, s) : m[q].id # id
    BY <1>1 DEF In
  <2>2. id \notin IdsOf(m, In(m, s))
    BY <2>1 DEF IdsOf
  <2> QED
    BY <2>2, StoreDomain
<1> HIDE DEF id
<1>3. /\ o \in Object /\ o.forward = NULL /\ o.id = id /\ o.tag = req.tag
      /\ Len(o.fields) = Len(req.args)
      /\ o.tag # "string" => \A i \in DOMAIN o.fields : Settled(o.fields[i], m, s)
  BY <1>1, NewObject
<1>4. cells' = c2 /\ mem' = Live(cells', m2)
  BY DEF Give, id
<1>5. /\ req.tag \in Tags
      /\ req.args \in IF req.tag = "string" THEN Seq(Nat) ELSE Seq(Cells)
  BY RequestsAssumption
<1>6. o2 = [tag    |-> o.tag,
            fields |-> IF o.tag = "string" THEN o.fields
                       ELSE [i \in DOMAIN o.fields |-> ValueIn(m, o.fields[i])]]
  <2>1. CASE req.tag = "string"
    <3>1. o.fields = req.args
      BY <2>1 DEF New
    <3> HIDE DEF o
    <3> QED
      BY <1>3, <2>1, <3>1
  <2>2. CASE req.tag # "string"
    <3> DEFINE g == [i \in DOMAIN req.args |-> cells[req.args[i]]]
               D == DOMAIN req.args
    <3>1. o.fields = g
      BY <2>2 DEF New
    <3>2. DOMAIN g = D /\ \A i \in D : g[i] = cells[req.args[i]]
      OBVIOUS
    <3>3. \A i \in D : req.args[i] \in Cells
      BY <1>5, <2>2
    <3> HIDE DEF o, g
    <3>4. \A i \in D : A[req.args[i]] = ValueIn(m, g[i])
      BY <3>2, <3>3 DEF CellsIn
    <3> HIDE DEF A
    <3>5. [i \in D |-> A[req.args[i]]] = [i \in D |-> ValueIn(m, g[i])]
      BY <3>4
    <3> QED
      BY <1>3, <2>2, <3>1, <3>2, <3>5
  <2> QED
    BY <2>1, <2>2
<1>7. o.tag = "string" => \A i \in DOMAIN o.fields : o.fields[i] # 0
  BY DEF New, TextHasNoZero
<1> HIDE DEF o, o2, A, B
<1>8. /\ top = k + WORD * SizeAsked(o.tag, Len(o.fields))
      /\ p = k + WORD * Header(o.tag)
  BY <1>3 DEF Size
<1>9. \A q \in DOMAIN m : m[q].id # o.id
  BY <1>1, <1>3
<1> HIDE DEF p
<1>10. Heap(c2, m2, s2) /\ NewView(cells, m, s, x, o, c2, m2, s2)
  BY <1>3, <1>8, <1>9, NewHeap, NewAgrees
<1>11. CellsIn(c2, m2) = [A EXCEPT ![x] = <<"ref", id>>] /\ StoreIn(m2, s2) = B2
  BY <1>3, <1>6, <1>10 DEF NewView, A, B
<1>12. Text(m2)
  BY <1>7 DEF Text, With
<1> HIDE DEF c2, m2, B2
<1>13. /\ CellsIn(c2, Live(c2, m2)) = CellsIn(c2, m2)
       /\ StoreIn(Live(c2, m2), s2) = Program!Live(CellsIn(c2, m2), StoreIn(m2, s2))
       /\ AllReached(c2, Live(c2, m2), s2) /\ Text(Live(c2, m2))
  BY <1>10, <1>12, LiveAgrees
<1>14. /\ CellsIn(cells', mem') = [A EXCEPT ![x] = <<"ref", id>>]
       /\ StoreIn(mem', s2) = Program!Live(CellsIn(cells', mem'), B2)
       /\ AllReached(cells', mem', s2) /\ Text(mem')
  BY <1>4, <1>11, <1>13
<1>15. Allocated(A, B, x, req, CellsIn(cells', mem'), StoreIn(mem', s2))
  BY <1>1, <1>2, <1>14 DEF Allocated, B2, o2
<1> QED
  BY <1>14, <1>15 DEF A, B

-----------------------------------------------------------------------------
(* The refinement mapping. *)

ProgramCells == [c \in Cells |-> Value(cells[c])]

ProgramStore == [id \in {mem[p].id : p \in InSpace(from)} |->
                   Contents(CHOOSE p \in InSpace(from) : mem[p].id = id)]

LEMMA ViewIs ==
  /\ ProgramCells = CellsIn(cells, mem) /\ ProgramStore = StoreIn(mem, from)
  /\ ProgramCells' = CellsIn(cells', mem') /\ ProgramStore' = StoreIn(mem', from')
<1>1. ProgramCells = CellsIn(cells, mem) /\ ProgramCells' = CellsIn(cells', mem')
  BY DEF ProgramCells, CellsIn, Value, ValueIn
<1>2. \A p : Contents(p) = ContentsIn(mem, p) /\ Contents(p)' = ContentsIn(mem', p)
  BY DEF Contents, ContentsIn, Value, ValueIn
<1>3. InSpace(from) = In(mem, from) /\ InSpace(from)' = In(mem', from')
  BY DEF InSpace, In
<1>4. ProgramStore = StoreIn(mem, from)
  BY <1>2, <1>3 DEF ProgramStore, StoreIn, IdsOf
<1>5. ProgramStore' = StoreIn(mem', from')
  BY <1>2, <1>3 DEF ProgramStore, StoreIn, IdsOf
<1> QED
  BY <1>1, <1>4, <1>5

\* The program's view does not change.
Unseen == ProgramCells' = ProgramCells /\ ProgramStore' = ProgramStore

\* The operations of the abstract store, of the program's view.
LEMMA AbstractNew ==
  ASSUME NEW x \in Cells, NEW req \in Requests,
         Allocated(ProgramCells, ProgramStore, x, req, ProgramCells', ProgramStore')
  PROVE  Program!New(x, req)
BY DEF Allocated, Program!New, Program!Contents, Program!Ref, ProgramCells, ProgramStore

LEMMA AbstractMove ==
  ASSUME NEW x \in Cells, NEW d \in Cells,
         ProgramCells' = [ProgramCells EXCEPT ![x] = ProgramCells[d]],
         ProgramStore' = Program!Live(ProgramCells', ProgramStore)
  PROVE  Program!Move(x, d)
BY DEF Program!Move, ProgramCells, ProgramStore

LEMMA AbstractDrop ==
  ASSUME NEW x \in Cells,
         ProgramCells' = [ProgramCells EXCEPT ![x] = <<"other", 1>>],
         ProgramStore' = Program!Live(ProgramCells', ProgramStore)
  PROVE  Program!Drop(x)
BY DEF Program!Drop, Program!Zero, Program!Other, ProgramCells, ProgramStore

LEMMA AbstractSetField ==
  ASSUME NEW x \in Cells, NEW i, NEW d \in Cells,
         ProgramCells[x][1] = "ref", ProgramStore[ProgramCells[x][2]].tag # "string",
         i \in DOMAIN ProgramStore[ProgramCells[x][2]].fields,
         ProgramCells' = ProgramCells,
         ProgramStore' = Program!Live(ProgramCells,
           [ProgramStore EXCEPT ![ProgramCells[x][2]].fields[i] = ProgramCells[d]])
  PROVE  Program!SetField(x, i, d)
BY DEF Program!SetField, ProgramCells, ProgramStore

LEMMA AbstractStep ==
  ASSUME Program!Operation \/ Unseen
  PROVE  [Program!Next]_(Program!vars)
BY DEF Program!Next, Program!vars, Unseen, ProgramCells, ProgramStore

-----------------------------------------------------------------------------
(* The steps of the program. *)

LEMMA InitialView == Init => Program!Init /\ GInv
<1> SUFFICES ASSUME Init
             PROVE  Program!Init /\ GInv
  OBVIOUS
<1>1. mem = << >> /\ cells = [c \in Cells |-> BOX(0)] /\ phase = "mutator"
  BY DEF Init
<1>2. DOMAIN mem = {}
  BY <1>1
<1>3. InSpace(from) = {} /\ In(mem, from) = {}
  BY <1>2 DEF InSpace, In
<1>4. ProgramStore = << >>
  BY <1>3 DEF ProgramStore
<1>5. ProgramCells = [c \in Cells |-> <<"other", 1>>]
  BY <1>1, <1>2 DEF ProgramCells, Value, BOX
<1>6. Program!Init
  BY <1>4, <1>5 DEF Program!Init, Program!Zero, Program!Other, ProgramStore, ProgramCells
<1>7. Text(mem)
  BY <1>2 DEF Text
<1>8. AllReached(cells, mem, from)
  <2>1. IdsOf(mem, In(mem, from)) = {}
    BY <1>3 DEF IdsOf
  <2>2. DOMAIN StoreIn(mem, from) = {}
    BY <2>1, StoreDomain
  <2> QED
    BY <2>1, <2>2 DEF AllReached, Program!Reach
<1> QED
  BY <1>1, <1>6, <1>7, <1>8 DEF GInv, Collecting

LEMMA AllocFitsView ==
  ASSUME IInv, GInv, TextHasNoZero, NEW c \in Cells, NEW req \in Requests, AllocFits(c, req)
  PROVE  GInv' /\ Program!Operation
<1>1. /\ Heap(cells, mem, from) /\ phase = "mutator" /\ phase' = phase
      /\ Text(mem)
  BY DEF IInv, AllocFits, MayAsk, GInv
<1>2. /\ \E id \in Ids : id \notin UsedIds
      /\ \A q \in DOMAIN mem : mem[q].id \in UsedIds
  <2>1. UsedIds \subseteq Ids
    BY <1>1 DEF UsedIds, Heap, Shape, Typed, Object
  <2> QED
    BY <2>1 DEF AllocFits, MayAsk, UsedIds
<1> DEFINE top == from.current + WORD * Size(req)
<1>3. top < from.end
  BY DEF AllocFits, Fits
<1>4. from' = [from EXCEPT !.current = top]
  BY DEF AllocFits
<1>5. Give(mem, from.current, req, c)
  BY DEF AllocFits
<1>6. /\ Allocated(CellsIn(cells, mem), StoreIn(mem, from), c, req,
                   CellsIn(cells', mem'), StoreIn(mem', from'))
      /\ AllReached(cells', mem', from') /\ Text(mem')
  BY <1>1, <1>2, <1>3, <1>4, <1>5, GivenAgrees
<1>7. Program!New(c, req)
  BY <1>6, ViewIs, AbstractNew
<1> QED
  BY <1>1, <1>6, <1>7 DEF GInv, Collecting, Program!Operation

LEMMA AllocCollectsView ==
  ASSUME IInv, GInv, NEW c \in Cells, NEW req \in Requests, AllocCollects(c, req)
  PROVE  GInv' /\ Unseen
<1>1. /\ Heap(cells, mem, from) /\ work = <<>> /\ phase = "mutator"
      /\ Text(mem) /\ AllReached(cells, mem, from)
      /\ cells' = cells /\ mem' = mem /\ from' = from /\ work' = work
  BY DEF IInv, AllocCollects, MayAsk, GInv
<1>2. Faithful(mem, from, <<>>) /\ Chain(cells, mem, 1, <<>>)
  <2>1. Faithful(mem, from, <<>>)
    BY <1>1 DEF Faithful, Heap, In
  <2>2. 1 .. Len(<<>>) = {}
    OBVIOUS
  <2> QED
    BY <2>1, <2>2 DEF Chain
<1>3. root' = 1
  BY DEF AllocCollects
<1>4. GInv'
  BY <1>1, <1>2, <1>3 DEF GInv
<1>5. Unseen
  BY <1>1, ViewIs DEF Unseen
<1> QED
  BY <1>4, <1>5

LEMMA MoveView ==
  ASSUME IInv, GInv, NEW c \in Cells,
         NEW v, v = BOX(0) \/ \E d \in Cells : v = cells[d], Move(c, v)
  PROVE  GInv' /\ Program!Operation
<1> DEFINE c2 == [cells EXCEPT ![c] = v]
<1>1. /\ Heap(cells, mem, from) /\ phase = "mutator" /\ phase' = phase /\ Text(mem)
      /\ from' = from /\ cells' = c2 /\ mem' = Live(c2, mem)
  BY DEF IInv, Move, Mutate, GInv
<1>2. DOMAIN cells = Cells /\ cells \in [Cells -> Nat] /\ Even(mem)
  BY <1>1 DEF Heap, Shape, Typed
<1>3. v \in Nat /\ Settled(v, mem, from)
  <2>1. BOX(0) \in Nat /\ UNBOXED(BOX(0))
    BY DEF BOX, UNBOXED
  <2> QED
    BY <1>1, <1>2, <2>1 DEF Heap, Settled
<1>4. Heap(c2, mem, from)
  BY <1>1, <1>3, CellHeap
<1>5. CellsIn(c2, mem) = [CellsIn(cells, mem) EXCEPT ![c] = ValueIn(mem, v)]
  <2>1. \A y \in Cells : c2[y] = IF y = c THEN v ELSE cells[y]
    BY <1>2
  <2> HIDE DEF c2
  <2> QED
    BY <2>1 DEF CellsIn
<1> HIDE DEF c2
<1>6. /\ CellsIn(cells', mem') = [CellsIn(cells, mem) EXCEPT ![c] = ValueIn(mem, v)]
      /\ StoreIn(mem', from') = Program!Live(CellsIn(cells', mem'), StoreIn(mem, from))
      /\ AllReached(cells', mem', from') /\ Text(mem')
  <2>1. /\ CellsIn(c2, Live(c2, mem)) = CellsIn(c2, mem)
        /\ StoreIn(Live(c2, mem), from) = Program!Live(CellsIn(c2, mem), StoreIn(mem, from))
        /\ AllReached(c2, Live(c2, mem), from)
        /\ Text(Live(c2, mem))
    BY <1>1, <1>4, LiveAgrees
  <2> QED
    BY <1>1, <1>5, <2>1
<1>7. GInv'
  BY <1>1, <1>6 DEF GInv, Collecting
<1>8. /\ ProgramCells' = [ProgramCells EXCEPT ![c] = ValueIn(mem, v)]
      /\ ProgramStore' = Program!Live(ProgramCells', ProgramStore)
  BY <1>6, ViewIs
<1>9. CASE v = BOX(0)
  <2>1. v \notin DOMAIN mem /\ v = 1
    BY <1>2, <1>9 DEF Even, BOX
  <2>2. ValueIn(mem, v) = <<"other", 1>>
    BY <2>1 DEF ValueIn
  <2>3. Program!Drop(c)
    BY <1>8, <2>2, AbstractDrop
  <2> QED
    BY <1>7, <2>3 DEF Program!Operation
<1>10. ASSUME NEW d \in Cells, v = cells[d]
       PROVE  Program!Operation
  <2>1. ProgramCells[d] = ValueIn(mem, v)
    BY <1>10, ViewIs DEF CellsIn
  <2>2. Program!Move(c, d)
    BY <1>8, <2>1, AbstractMove
  <2> QED
    BY <2>2 DEF Program!Operation
<1> QED
  BY <1>7, <1>9, <1>10

LEMMA SetFieldView ==
  ASSUME IInv, GInv, NEW c \in Cells, NEW d \in Cells, NEW i \in 1 .. 2, SetField(c, i, d)
  PROVE  GInv' /\ Program!Operation
<1> DEFINE p  == cells[c]
           v  == cells[d]
           m2 == [mem EXCEPT ![p].fields[i] = v]
           A  == CellsIn(cells, mem)
           B  == StoreIn(mem, from)
<1>1. /\ Heap(cells, mem, from) /\ phase = "mutator" /\ phase' = phase /\ Text(mem)
      /\ from' = from /\ cells' = cells /\ mem' = Live(cells, m2)
      /\ p \in DOMAIN mem /\ mem[p].tag # "string" /\ i \in DOMAIN mem[p].fields
  BY DEF IInv, SetField, Mutate, GInv
<1>2. v \in Nat /\ Settled(v, mem, from)
  BY <1>1 DEF Heap, Shape, Typed
<1>3. UniqueIds(mem, from) /\ p \in In(mem, from)
  BY <1>1 DEF Heap, Shape
<1>4. A[c][1] = "ref" /\ A[c][2] = mem[p].id /\ A[d] = ValueIn(mem, v)
  BY <1>1, RefsAndOthers DEF CellsIn
<1>5. B[mem[p].id] = ContentsIn(mem, p)
  BY <1>3, StoreEntry
<1>6. ContentsIn(mem, p).tag # "string" /\ i \in DOMAIN ContentsIn(mem, p).fields
  BY <1>1 DEF ContentsIn
<1> HIDE DEF p, v
<1>7. Heap(cells, m2, from)
  BY <1>1, <1>2, FieldHeap
<1>8. FieldView(cells, mem, from, p, i, v, m2)
  BY <1>1, <1>2, FieldAgrees
<1>9. Text(m2)
  BY <1>1, <1>8 DEF FieldView
<1> HIDE DEF m2, A, B
<1>10. /\ CellsIn(cells, Live(cells, m2)) = CellsIn(cells, m2)
       /\ StoreIn(Live(cells, m2), from) = Program!Live(CellsIn(cells, m2), StoreIn(m2, from))
       /\ AllReached(cells, Live(cells, m2), from)
       /\ Text(Live(cells, m2))
  BY <1>7, <1>9, LiveAgrees
<1>11. GInv'
  BY <1>1, <1>10 DEF GInv, Collecting
<1>12. /\ CellsIn(cells', mem') = A
       /\ StoreIn(mem', from') = Program!Live(A, [B EXCEPT ![mem[p].id].fields[i] = ValueIn(mem, v)])
  BY <1>1, <1>8, <1>10 DEF FieldView, A, B
<1>13. /\ ProgramCells = A /\ ProgramStore = B /\ ProgramCells' = A
       /\ ProgramStore' = Program!Live(A, [B EXCEPT ![A[c][2]].fields[i] = A[d]])
  BY <1>4, <1>12, ViewIs DEF A, B
<1>14. A[c][1] = "ref" /\ B[A[c][2]].tag # "string" /\ i \in DOMAIN B[A[c][2]].fields
  BY <1>4, <1>5, <1>6 DEF A, B
<1>15. Program!SetField(c, i, d)
  BY <1>13, <1>14, AbstractSetField
<1>16. i \in 1 .. 3
  OBVIOUS
<1> QED
  BY <1>11, <1>15, <1>16 DEF Program!Operation

-----------------------------------------------------------------------------
(* The steps of the collector: none is seen. *)

\* A step of a collection that leads to these values keeps the view.
Transparent(c, m, f, c2, m2, f2, r2, w2) ==
  /\ CellsIn(c2, m2) = CellsIn(c, m) /\ StoreIn(m2, f2) = StoreIn(m, f)
  /\ Text(m2) /\ Faithful(m2, f2, w2) /\ Chain(c2, m2, r2, w2)

LEMMA CollectionUnseen ==
  ASSUME GInv, phase \in {"roots", "fit"},
         Transparent(cells, mem, from, cells', mem', from', root', work')
  PROVE  Unseen /\ GInv'
<1>1. AllReached(cells, mem, from)
  BY DEF GInv
<1>2. CellsIn(cells', mem') = CellsIn(cells, mem) /\ StoreIn(mem', from') = StoreIn(mem, from)
  BY DEF Transparent
<1>3. AllReached(cells', mem', from')
  BY <1>1, <1>2, ViewReached
<1>4. Unseen
  BY <1>2, ViewIs DEF Unseen
<1> QED
  BY <1>3, <1>4 DEF Transparent, GInv

\* A root may be replaced by another address of the same object.
LEMMA RootView ==
  ASSUME NEW c, NEW m, NEW f, NEW r, NEW v, ValueIn(m, v) = ValueIn(m, c[Scan[r]]),
         Text(m), Faithful(m, f, <<>>), DOMAIN c = Cells
  PROVE  Transparent(c, m, f, [c EXCEPT ![Scan[r]] = v], m, f, r + 1, <<>>)
<1> DEFINE c2 == [c EXCEPT ![Scan[r]] = v]
<1>1. \A y \in Cells : ValueIn(m, c2[y]) = ValueIn(m, c[y])
  OBVIOUS
<1>2. CellsIn(c2, m) = CellsIn(c, m)
  BY <1>1 DEF CellsIn
<1>3. 1 .. Len(<<>>) = {}
  OBVIOUS
<1> QED
  BY <1>2, <1>3 DEF Transparent, Chain

\* So may an element of a copy.
LEMMA ElementView ==
  ASSUME NEW c, NEW m, NEW f, NEW t, NEW cur, NEW r, NEW w,
         Collection(c, m, f, t, cur, r, w), w # <<>>,
         NEW a, a = w[Len(w)], a.i <= Len(m[a.src].fields),
         NEW v \in Nat, ValueIn(m, v) = ValueIn(m, m[a.src].fields[a.i]),
         Text(m), Faithful(m, f, w), Chain(c, m, r, w),
         NEW m2, Assigned(m, m2, a.dst, a.i, v),
         NEW w2, w2 = [w EXCEPT ![Len(w)].i = @ + 1]
  PROVE  Transparent(c, m, f, c, m2, f, r, w2)
<1> DEFINE n == Len(w)
<1>1. w \in Seq(Activation) /\ n \in Nat /\ n > 0 /\ n \in 1 .. n
  BY DEF Collection, WorkOK
<1>2. /\ a.i \in Nat /\ a.src \in In(m, f) /\ a.src \in DOMAIN m /\ m[a.src].forward = a.dst
      /\ a.dst \in DOMAIN m /\ a.dst \notin In(m, f)
      /\ m[a.dst].tag = m[a.src].tag /\ m[a.src].tag # "string"
  BY <1>1, ActivationFacts
<1>3. /\ \A k \in 1 .. n : /\ w2[k].src = w[k].src /\ w2[k].dst = w[k].dst
                           /\ k # n => w2[k].i = w[k].i
      /\ w2[n].i = a.i + 1 /\ Len(w2) = n
  BY <1>1, NextElement
<1>4. /\ DOMAIN m2 = DOMAIN m
      /\ \A q \in DOMAIN m : /\ m2[q].id = m[q].id /\ m2[q].tag = m[q].tag
                             /\ m2[q].forward = m[q].forward
                             /\ DOMAIN m2[q].fields = DOMAIN m[q].fields
      /\ \A q \in DOMAIN m : q # a.dst => m2[q] = m[q]
      /\ \A j \in DOMAIN m[a.dst].fields :
           m2[a.dst].fields[j] = IF j = a.i THEN v ELSE m[a.dst].fields[j]
  BY DEF Assigned, SameObjects
<1>5. In(m2, f) = In(m, f) /\ UniqueIds(m, f) /\ UniqueIds(m2, f)
  BY <1>4 DEF In, Collection, Shape, UniqueIds
<1>6. \A u : ValueIn(m2, u) = ValueIn(m, u)
  BY <1>4 DEF ValueIn
<1>7. \A p \in In(m, f) : p \in DOMAIN m /\ m2[p] = m[p]
  BY <1>2, <1>4 DEF In
<1>8. CellsIn(c, m2) = CellsIn(c, m)
  BY <1>6 DEF CellsIn
<1>9. StoreIn(m2, f) = StoreIn(m, f)
  <2>1. \A p \in In(m, f) : ContentsIn(m2, p) = ContentsIn(m, p)
    BY <1>6, <1>7 DEF ContentsIn
  <2>2. SameStore(m, f, m2, f)
    BY <1>5, <1>7, <2>1 DEF SameStore
  <2> QED
    BY <1>5, <2>2, StoresAgree
<1>10. Text(m2)
  BY <1>2, <1>4 DEF Text
<1>11. Chain(c, m2, r, w2)
  <2> SUFFICES ASSUME NEW k \in 1 .. n
               PROVE  w2[k].src = IF k = 1 THEN c[Scan[r]]
                                  ELSE m2[w2[k - 1].src].fields[w2[k - 1].i]
    BY <1>3 DEF Chain
  <2>1. CASE k = 1
    BY <1>3, <2>1 DEF Chain
  <2>2. CASE k # 1
    <3>1. k - 1 \in 1 .. n /\ k - 1 # n
      BY <1>1, <2>2
    <3>2. w2[k - 1].src = w[k - 1].src /\ w2[k - 1].i = w[k - 1].i
      BY <1>3, <3>1
    <3>3. m2[w[k - 1].src] = m[w[k - 1].src]
      BY <1>7, <3>1 DEF Collection, WorkOK
    <3>4. w[k].src = m[w[k - 1].src].fields[w[k - 1].i]
      BY <2>2 DEF Chain
    <3> QED
      BY <1>3, <2>2, <3>2, <3>3, <3>4
  <2> QED
    BY <2>1, <2>2
<1>12. Faithful(m2, f, w2)
  <2> SUFFICES ASSUME NEW p \in In(m, f), m[p].forward # NULL
               PROVE  LET q == m[p].forward
                      IN  IF m[p].tag = "string" THEN m2[q].fields = m[p].fields
                          ELSE \A j \in DOMAIN m[p].fields :
                                 \/ ValueIn(m, m2[q].fields[j]) = ValueIn(m, m[p].fields[j])
                                 \/ Filling(w2, q, j)
    BY <1>5, <1>6, <1>7 DEF Faithful
  <2> DEFINE q == m[p].forward
  <2>1. q \in DOMAIN m /\ m[q].tag = m[p].tag /\ m[q].id = m[p].id /\ Len(m[q].fields) = Len(m[p].fields)
    BY DEF Collection, Copies, In
  <2>2. IF m[p].tag = "string" THEN m[q].fields = m[p].fields
        ELSE \A j \in DOMAIN m[p].fields :
               \/ ValueIn(m, m[q].fields[j]) = ValueIn(m, m[p].fields[j])
               \/ Filling(w, q, j)
    BY DEF Faithful
  <2>3. m[p].fields \in Seq(Nat) /\ m[q].fields \in Seq(Nat)
    <3>1. Typed(c, m)
      BY DEF Collection, Shape
    <3> QED
      BY <1>7, <2>1, <3>1, Bounds
  <2>4. DOMAIN m[q].fields = DOMAIN m[p].fields /\ DOMAIN m[p].fields \subseteq Nat
    BY <2>1, <2>3
  <2> HIDE DEF q
  <2>5. CASE q # a.dst
    <3>1. m2[q] = m[q]
      BY <1>4, <2>1, <2>5
    <3>2. \A j : Filling(w, q, j) => Filling(w2, q, j)
      BY <1>3, <2>5 DEF Filling
    <3> QED
      BY <2>2, <3>1, <3>2 DEF q
  <2>6. CASE q = a.dst
    <3>1. p = a.src
      <4>1. m[a.dst].id = m[a.src].id
        <5>1. a.dst # NULL
          BY <1>1 DEF Collection, WorkOK
        <5> QED
          BY <1>2, <5>1 DEF Collection, Copies
      <4> QED
        BY <1>2, <1>5, <2>1, <2>6, <4>1 DEF UniqueIds
    <3>2. ASSUME NEW j \in DOMAIN m[p].fields
          PROVE  \/ ValueIn(m, m2[q].fields[j]) = ValueIn(m, m[p].fields[j])
                 \/ Filling(w2, q, j)
      <4>1. CASE j = a.i
        BY <1>4, <2>4, <2>6, <3>1, <4>1
      <4>2. CASE j # a.i
        <5>1. m2[q].fields[j] = m[q].fields[j]
          BY <1>4, <2>4, <2>6, <4>2
        <5>2. ASSUME Filling(w, q, j)
              PROVE  Filling(w2, q, j)
          <6>1. PICK k \in 1 .. n : w[k].dst = q /\ w[k].i <= j
            BY <5>2 DEF Filling
          <6>2. CASE k # n
            BY <1>3, <6>1, <6>2 DEF Filling
          <6>3. CASE k = n
            <7>1. a.i + 1 <= j
              BY <1>2, <2>4, <4>2, <6>1, <6>3
            <7> QED
              BY <1>1, <1>3, <6>1, <6>3, <7>1 DEF Filling
          <6> QED
            BY <6>2, <6>3
        <5> QED
          BY <1>2, <2>2, <3>1, <5>1, <5>2
      <4> QED
        BY <4>1, <4>2
    <3> QED
      BY <1>2, <3>1, <3>2 DEF q
  <2> QED
    BY <2>5, <2>6
<1> QED
  BY <1>8, <1>9, <1>10, <1>11, <1>12 DEF Transparent

\* An activation that ends has filled its copy, and answers the word that its
\* caller is at.
LEMMA ReturnView ==
  ASSUME NEW c, NEW m, NEW f, NEW t, NEW cur, NEW r, NEW w,
         Collection(c, m, f, t, cur, r, w), w # <<>>,
         w[Len(w)].i > Len(m[w[Len(w)].src].fields),
         Faithful(m, f, w), Chain(c, m, r, w),
         NEW w2, w2 = Front(w)
  PROVE  /\ Faithful(m, f, w2) /\ Chain(c, m, r, w2)
         /\ WordOf(c, m, r, w2) = w[Len(w)].src
<1> DEFINE n == Len(w)
           a == w[n]
<1>1. w \in Seq(Activation) /\ n \in Nat /\ n > 0 /\ n \in 1 .. n
  BY DEF Collection, WorkOK
<1>2. Len(w2) = n - 1 /\ \A k \in 1 .. n - 1 : w2[k] = w[k]
  BY <1>1, FrontFacts
<1>3. w2 = <<>> <=> n = 1
  <2>1. w2 \in Seq(Activation)
    BY <1>1, FrontFacts
  <2> QED
    BY <1>1, <1>2, <2>1
<1>4. /\ a.i \in Nat /\ a.src \in In(m, f) /\ m[a.src].forward = a.dst
      /\ m[a.src].fields \in Seq(Nat)
  BY <1>1, ActivationFacts
<1>5. Chain(c, m, r, w2)
  <2> SUFFICES ASSUME NEW k \in 1 .. n - 1
               PROVE  w2[k].src = IF k = 1 THEN c[Scan[r]]
                                  ELSE m[w2[k - 1].src].fields[w2[k - 1].i]
    BY <1>2 DEF Chain
  <2>1. k \in 1 .. n /\ w2[k] = w[k] /\ (k # 1 => w2[k - 1] = w[k - 1])
    BY <1>1, <1>2
  <2> QED
    BY <2>1 DEF Chain
<1>6. WordOf(c, m, r, w2) = a.src
  <2>1. CASE n = 1
    BY <1>1, <1>3, <2>1 DEF WordOf, Chain
  <2>2. CASE n # 1
    <3>1. w2[n - 1] = w[n - 1]
      BY <1>1, <1>2, <2>2
    <3> QED
      BY <1>1, <1>2, <1>3, <2>2, <3>1 DEF WordOf, Chain
  <2> QED
    BY <2>1, <2>2
<1>7. Faithful(m, f, w2)
  <2> SUFFICES ASSUME NEW p \in In(m, f), m[p].forward # NULL
               PROVE  LET q == m[p].forward
                      IN  IF m[p].tag = "string" THEN m[q].fields = m[p].fields
                          ELSE \A j \in DOMAIN m[p].fields :
                                 \/ ValueIn(m, m[q].fields[j]) = ValueIn(m, m[p].fields[j])
                                 \/ Filling(w2, q, j)
    BY DEF Faithful
  <2> DEFINE q == m[p].forward
  <2>1. q \in In(m, t) /\ m[q].id = m[p].id
    BY DEF Collection, Copies
  <2>2. ASSUME NEW j \in DOMAIN m[p].fields, Filling(w, q, j)
        PROVE  Filling(w2, q, j)
    <3>1. PICK k \in 1 .. n : w[k].dst = q /\ w[k].i <= j
      BY <2>2 DEF Filling
    <3>2. k # n
      <4> SUFFICES ASSUME k = n
                   PROVE  FALSE
        OBVIOUS
      <4>1. p = a.src
        <5>1. m[a.dst].id = m[a.src].id /\ UniqueIds(m, f)
          BY <1>4 DEF Collection, Copies, WorkOK, Shape
        <5> QED
          BY <1>4, <2>1, <3>1, <5>1 DEF UniqueIds
      <4>2. j \in 1 .. Len(m[a.src].fields)
        BY <1>4, <2>2, <4>1
      <4> DEFINE i == a.i
                 z == Len(m[a.src].fields)
      <4>3. i \in Nat /\ z \in Nat /\ i > z /\ j \in 1 .. z /\ i <= j
        BY <1>4, <3>1, <4>2
      <4> HIDE DEF i, z
      <4> QED
        BY <4>3
    <3> QED
      BY <1>1, <1>2, <3>1, <3>2 DEF Filling
  <2> HIDE DEF q
  <2>3. IF m[p].tag = "string" THEN m[q].fields = m[p].fields
        ELSE \A j \in DOMAIN m[p].fields :
               \/ ValueIn(m, m[q].fields[j]) = ValueIn(m, m[p].fields[j])
               \/ Filling(w, q, j)
    BY DEF Faithful, q
  <2> QED
    BY <2>2, <2>3 DEF q
<1> QED
  BY <1>5, <1>6, <1>7

\* The copy of a text without a zero is the text.
LEMMA TextCopied ==
  ASSUME NEW o \in Object, o.tag = "string", \A i \in DOMAIN o.fields : o.fields[i] # 0
  PROVE  Copied(o).fields = o.fields
<1>1. o.fields \in Seq(Nat)
  BY DEF Object
<1> DEFINE s == o.fields
           n == Len(s)
<1>2. s = [i \in 1 .. n |-> s[i]] /\ DOMAIN s = 1 .. n /\ n \in Nat
  BY <1>1
<1>3. Strcpy(s) = s
  <2> HIDE DEF s, n
  <2>1. \A i \in 1 .. n : ~\E j \in 1 .. i : s[j] = 0
    BY <1>2 DEF s
  <2> QED
    BY <1>2, <2>1 DEF Strcpy
<1> QED
  BY <1>3 DEF Copied

\* A word that stands for the same as a known word goes on doing so.
LEMMA SameWord ==
  ASSUME NEW m, NEW m2,
         \A v : v \in DOMAIN m \/ UNBOXED(v) => ValueIn(m2, v) = ValueIn(m, v),
         NEW u, u \in DOMAIN m \/ UNBOXED(u), NEW v, ValueIn(m, v) = ValueIn(m, u)
  PROVE  ValueIn(m2, v) = ValueIn(m2, u)
<1>1. CASE u \in DOMAIN m
  <2>1. v \in DOMAIN m
    BY <1>1, RefsAndOthers
  <2> QED
    BY <1>1, <2>1
<1>2. CASE u \notin DOMAIN m
  <2>1. v = u
    BY <1>2, RefsAndOthers
  <2> QED
    BY <2>1
<1> QED
  BY <1>1, <1>2

LEMMA CopyView ==
  ASSUME NEW c, NEW m, NEW f, NEW t, NEW cur, NEW r, NEW w,
         Collection(c, m, f, t, cur, r, w), Text(m), Faithful(m, f, w), Chain(c, m, r, w),
         NEW x \in In(m, f), m[x].forward = NULL, x = WordOf(c, m, r, w),
         NEW p, NEW cur2, NEW m2, Placed(m, m2, f, t, x, p, cur, cur2), Typed(c, m2),
         NEW i, i = IF m[x].tag = "string" THEN Len(m[x].fields) + 1 ELSE 1,
         NEW w2, w2 = Append(w, [src |-> x, dst |-> p, i |-> i])
  PROVE  Transparent(c, m, f, c, m2, f, r, w2)
<1> DEFINE n == Len(w)
           a == [src |-> x, dst |-> p, i |-> i]
<1>1. w \in Seq(Activation) /\ n \in Nat
  BY DEF Collection, WorkOK
<1>2. /\ p \in Nat /\ p # NULL /\ ~UNBOXED(p) /\ p \notin DOMAIN m
      /\ DOMAIN m2 = DOMAIN m \union {p} /\ In(m2, f) = In(m, f)
      /\ \A q \in DOMAIN m : /\ m2[q].tag = m[q].tag /\ m2[q].id = m[q].id
                             /\ m2[q].fields = m[q].fields
                             /\ q # x => m2[q].forward = m[q].forward
      /\ m2[x].forward = p /\ m2[p] = Copied(m[x])
  BY DEF Placed, UNBOXED
<1>3. /\ x \in DOMAIN m /\ m[x] \in Object /\ UniqueIds(m, f) /\ UniqueIds(m2, f)
      /\ In(m, f) \subseteq DOMAIN m /\ Typed(c, m)
  BY <1>2 DEF In, Collection, Shape, Typed, UniqueIds
<1>4. \A v : v \in DOMAIN m \/ UNBOXED(v) => ValueIn(m2, v) = ValueIn(m, v)
  BY <1>2 DEF ValueIn
<1>5. CellsIn(c, m2) = CellsIn(c, m)
  <2>1. \A y \in Cells : c[y] \in DOMAIN m \/ UNBOXED(c[y])
    BY DEF Collection, RootsOK, Settled, In
  <2> QED
    BY <1>4, <2>1 DEF CellsIn
<1>6. \A q \in In(m, f) : m[q].tag # "string" =>
        \A j \in DOMAIN m[q].fields : m[q].fields[j] \in DOMAIN m \/ UNBOXED(m[q].fields[j])
  BY DEF Collection, FieldsSettled, Settled, In
<1>7. StoreIn(m2, f) = StoreIn(m, f)
  <2>1. \A q \in In(m, f) : ContentsIn(m2, q) = ContentsIn(m, q) /\ m2[q].id = m[q].id
    <3> SUFFICES ASSUME NEW q \in In(m, f)
                 PROVE  ContentsIn(m2, q) = ContentsIn(m, q) /\ m2[q].id = m[q].id
      OBVIOUS
    <3>1. m2[q].tag = m[q].tag /\ m2[q].fields = m[q].fields /\ m2[q].id = m[q].id
      BY <1>2, <1>3
    <3>2. m[q].tag # "string" => \A j \in DOMAIN m[q].fields :
            ValueIn(m2, m[q].fields[j]) = ValueIn(m, m[q].fields[j])
      BY <1>4, <1>6
    <3> QED
      BY <3>1, <3>2 DEF ContentsIn
  <2>2. SameStore(m, f, m2, f)
    BY <1>2, <2>1 DEF SameStore
  <2> QED
    BY <1>3, <2>2, StoresAgree
<1>8. m[x].tag = "string" => m2[p].fields = m[x].fields
  BY <1>2, <1>3, TextCopied DEF Text
<1>9. Text(m2)
  <2>1. m2[p].tag = m[x].tag
    BY <1>2, <1>3, CopiedObject
  <2> QED
    BY <1>2, <1>3, <1>8, <2>1 DEF Text
<1>10. /\ Len(w2) = n + 1 /\ w2[n + 1] = a /\ \A k \in 1 .. n : w2[k] = w[k]
  <2> HIDE DEF a
  <2>1. w2 = Append(w, a)
    BY DEF a
  <2> QED
    BY <1>1, <2>1
<1>11. Chain(c, m2, r, w2)
  <2> SUFFICES ASSUME NEW k \in 1 .. n + 1
               PROVE  w2[k].src = IF k = 1 THEN c[Scan[r]]
                                  ELSE m2[w2[k - 1].src].fields[w2[k - 1].i]
    BY <1>10 DEF Chain
  <2>1. ASSUME NEW l \in 1 .. n
        PROVE  m2[w2[l].src].fields = m[w[l].src].fields /\ w2[l] = w[l]
    BY <1>2, <1>3, <1>10, <2>1 DEF Collection, WorkOK
  <2>2. CASE k \in 1 .. n
    <3>1. w2[k] = w[k] /\ (k # 1 => k - 1 \in 1 .. n)
      BY <1>1, <1>10, <2>2
    <3> QED
      BY <2>1, <2>2, <3>1 DEF Chain
  <2>3. CASE k = n + 1
    <3>1. w2[k].src = x
      BY <1>10, <2>3
    <3>2. CASE w = <<>>
      <4>1. k = 1
        BY <2>3, <3>2
      <4> QED
        BY <3>1, <3>2, <4>1 DEF WordOf
    <3>3. CASE w # <<>>
      <4>1. n \in 1 .. n /\ k # 1 /\ k - 1 = n
        BY <1>1, <2>3, <3>3
      <4>2. m2[w2[n].src].fields = m[w[n].src].fields /\ w2[n] = w[n]
        BY <2>1, <4>1
      <4> QED
        BY <3>1, <3>3, <4>1, <4>2 DEF WordOf
    <3> QED
      BY <3>2, <3>3
  <2> QED
    BY <1>1, <2>2, <2>3
<1>12. ASSUME NEW q, NEW j, Filling(w, q, j)
       PROVE  Filling(w2, q, j)
  <2>1. PICK k \in 1 .. n : w[k].dst = q /\ w[k].i <= j
    BY <1>12 DEF Filling
  <2>2. k \in 1 .. n + 1 /\ w2[k] = w[k]
    BY <1>1, <1>10
  <2> QED
    BY <1>10, <2>1, <2>2 DEF Filling
<1>13. Faithful(m2, f, w2)
  <2> SUFFICES ASSUME NEW y \in In(m, f), m2[y].forward # NULL
               PROVE  LET q == m2[y].forward
                      IN  IF m[y].tag = "string" THEN m2[q].fields = m[y].fields
                          ELSE \A j \in DOMAIN m[y].fields :
                                 \/ ValueIn(m2, m2[q].fields[j]) = ValueIn(m2, m[y].fields[j])
                                 \/ Filling(w2, q, j)
    BY <1>2, <1>3 DEF Faithful
  <2>1. CASE y = x
    <3>1. m[x].tag # "string" => \A j \in DOMAIN m[x].fields : Filling(w2, p, j)
      <4> SUFFICES ASSUME m[x].tag # "string", NEW j \in DOMAIN m[x].fields
                   PROVE  Filling(w2, p, j)
        OBVIOUS
      <4>1. j \in Nat /\ 1 <= j
        BY <1>3 DEF Object
      <4>2. n + 1 \in 1 .. n + 1 /\ w2[n + 1].dst = p /\ w2[n + 1].i = 1
        BY <1>1, <1>10
      <4> QED
        BY <1>10, <4>1, <4>2 DEF Filling
    <3> QED
      BY <1>2, <1>8, <2>1, <3>1
  <2>2. CASE y # x
    <3> DEFINE q == m[y].forward
    <3>1. m2[y].forward = q /\ q # NULL
      BY <1>2, <1>3, <2>2
    <3>2. q \in DOMAIN m
      BY <3>1 DEF Collection, Copies, In
    <3>3. IF m[y].tag = "string" THEN m[q].fields = m[y].fields
          ELSE \A j \in DOMAIN m[y].fields :
                 \/ ValueIn(m, m[q].fields[j]) = ValueIn(m, m[y].fields[j])
                 \/ Filling(w, q, j)
      BY <3>1 DEF Faithful
    <3> HIDE DEF q
    <3>4. m2[q].fields = m[q].fields
      BY <1>2, <3>2
    <3>5. ASSUME m[y].tag # "string", NEW j \in DOMAIN m[y].fields,
                 ValueIn(m, m[q].fields[j]) = ValueIn(m, m[y].fields[j])
          PROVE  ValueIn(m2, m[q].fields[j]) = ValueIn(m2, m[y].fields[j])
      <4>1. m[y].fields[j] \in DOMAIN m \/ UNBOXED(m[y].fields[j])
        BY <1>6, <3>5
      <4> QED
        BY <1>4, <3>5, <4>1, SameWord
    <3> QED
      BY <1>12, <3>1, <3>3, <3>4, <3>5
  <2> QED
    BY <2>1, <2>2
<1> QED
  BY <1>5, <1>7, <1>9, <1>11, <1>13 DEF Transparent

-----------------------------------------------------------------------------
(* The end of a collection. *)

\* When the roots are scanned and no copy is being filled, all words lead out of
\* the heap or to copies.
LEMMA AllSettled ==
  ASSUME NEW c, NEW m, NEW f, NEW t, NEW cur, NEW r, r = Len(Scan) + 1,
         Collection(c, m, f, t, cur, r, <<>>)
  PROVE  /\ \A x \in Cells : Settled(c[x], m, t)
         /\ \A q \in In(m, t) : m[q].tag # "string" =>
              \A j \in DOMAIN m[q].fields : Settled(m[q].fields[j], m, t)
<1>1. ASSUME NEW x \in Cells
      PROVE  Settled(c[x], m, t)
  <2>1. Scan \in Seq(Cells)
    BY RequestsAssumption
  <2>2. PICK i \in 1 .. Len(Scan) : Scan[i] = x
    BY <2>1 DEF Cells, Range
  <2>3. i < r
    BY <2>1
  <2> QED
    BY <2>2, <2>3 DEF Collection, RootsOK
<1>2. 1 .. Len(<<>>) = {}
  OBVIOUS
<1> QED
  BY <1>1, <1>2 DEF Collection, Filled

\* A settled word that leads to an object leads to the copy of one.
LEMMA SettledIsCopy ==
  ASSUME NEW c, NEW m, NEW f, NEW t, NEW cur, NEW r, NEW w,
         Collection(c, m, f, t, cur, r, w), NEW v \in DOMAIN m, Settled(v, m, t)
  PROVE  \E p \in In(m, f) : m[p].forward # NULL /\ m[p].id = m[v].id
<1>1. Typed(c, m) /\ Even(m) /\ SpaceOK(t)
  BY DEF Collection, Shape, SpacesOK
<1>2. v \in In(m, t)
  BY <1>1, PointersAreBoxed DEF Settled
<1>3. v # NULL
  BY <1>1, <1>2, SpacesAreNotNull
<1>4. PICK p \in In(m, f) : m[p].forward = v
  BY <1>2 DEF Collection, Copies
<1>5. m[v].id = m[p].id
  BY <1>3, <1>4 DEF Collection, Copies
<1> QED
  BY <1>3, <1>4, <1>5

\* Nothing was forgotten: the objects copied are closed, so they are all.
LEMMA AllCopied ==
  ASSUME NEW c, NEW m, NEW f, NEW t, NEW cur, NEW r, r = Len(Scan) + 1,
         Collection(c, m, f, t, cur, r, <<>>),
         AllReached(c, m, f), Faithful(m, f, <<>>)
  PROVE  \A p \in In(m, f) : m[p].forward # NULL
<1> DEFINE G == {p \in In(m, f) : m[p].forward # NULL}
           F == IdsOf(m, G)
           A == CellsIn(c, m)
           B == StoreIn(m, f)
<1>1. UniqueIds(m, f) /\ DOMAIN c = Cells
  BY DEF Collection, Shape, Typed
<1>2. /\ \A x \in Cells : Settled(c[x], m, t)
      /\ \A q \in In(m, t) : m[q].tag # "string" =>
           \A j \in DOMAIN m[q].fields : Settled(m[q].fields[j], m, t)
  BY AllSettled
<1>3. \A v \in DOMAIN m : Settled(v, m, t) => m[v].id \in F
  BY SettledIsCopy DEF IdsOf
<1>4. Program!Roots(A) \subseteq F
  <2>1. Program!Roots(A) = IdsOf(m, Range(c) \intersect DOMAIN m)
    BY <1>1, RootsAgree
  <2>2. \A v \in Range(c) \intersect DOMAIN m : m[v].id \in F
    BY <1>1, <1>2, <1>3 DEF Range
  <2> QED
    BY <2>1, <2>2 DEF IdsOf
<1>5. ASSUME NEW p \in G
      PROVE  Program!Pointees(B[m[p].id]) \subseteq F
  <2>1. B[m[p].id] = ContentsIn(m, p)
    BY <1>1, StoreEntry
  <2>2. Program!Pointees(B[m[p].id]) = IdsOf(m, Pointees(m, p))
    BY <2>1, PointeesAgree
  <2>3. ASSUME NEW v \in Pointees(m, p)
        PROVE  m[v].id \in F
    <3> DEFINE q == m[p].forward
    <3>1. m[p].tag # "string" /\ v \in DOMAIN m
      BY <2>3 DEF Pointees
    <3>2. PICK j \in DOMAIN m[p].fields : m[p].fields[j] = v
      BY <2>3, <3>1 DEF Pointees, Range
    <3>3. /\ q \in In(m, t) /\ m[q].tag # "string" /\ Len(m[q].fields) = Len(m[p].fields)
      BY <3>1 DEF Collection, Copies
    <3>4. ~Filling(<<>>, q, j)
      <4>1. 1 .. Len(<<>>) = {}
        OBVIOUS
      <4> QED
        BY <4>1 DEF Filling
    <3>5. ValueIn(m, m[q].fields[j]) = ValueIn(m, v)
      BY <3>1, <3>2, <3>4 DEF Faithful
    <3>6. j \in DOMAIN m[q].fields
      <4>1. Typed(c, m) /\ p \in DOMAIN m /\ q \in DOMAIN m
        BY <3>3 DEF Collection, Shape, In
      <4> HIDE DEF q
      <4>2. m[p].fields \in Seq(Nat) /\ m[q].fields \in Seq(Nat)
        BY <4>1, Bounds
      <4> QED
        BY <3>3, <4>2
    <3>7. Settled(m[q].fields[j], m, t)
      BY <1>2, <3>3, <3>6
    <3> DEFINE u == m[q].fields[j]
    <3> HIDE DEF q, u
    <3>8. u \in DOMAIN m /\ m[u].id = m[v].id
      BY <3>1, <3>5, RefsAndOthers DEF u
    <3>9. m[u].id \in F
      <4>1. Settled(u, m, t)
        BY <3>7 DEF u
      <4> QED
        BY <1>3, <3>8, <4>1
    <3> QED
      BY <3>8, <3>9
  <2> QED
    BY <2>2, <2>3 DEF IdsOf
<1>6. F \subseteq DOMAIN B
  <2>1. DOMAIN B = IdsOf(m, In(m, f))
    BY StoreDomain
  <2> QED
    BY <2>1 DEF IdsOf
<1>7. Program!Closed(F, A, B)
  BY <1>4, <1>5 DEF Program!Closed, IdsOf
<1>8. Program!Reach(A, B) \subseteq F
  <2> HIDE DEF F, A, B
  <2> QED
    BY <1>6, <1>7 DEF Program!Reach
<1>9. IdsOf(m, In(m, f)) \subseteq F
  BY <1>8 DEF AllReached
<1> SUFFICES ASSUME NEW p \in In(m, f)
             PROVE  p \in G
  OBVIOUS
<1>10. m[p].id \in F
  BY <1>9 DEF IdsOf
<1> QED
  BY <1>1, <1>10 DEF IdsOf, UniqueIds

\* What the copies hold is what the originals hold.
SameView(c, m, s, m2, s2) ==
  CellsIn(c, m2) = CellsIn(c, m) /\ StoreIn(m2, s2) = StoreIn(m, s) /\ Text(m2)

LEMMA SwapView ==
  ASSUME NEW c, NEW m, NEW f, NEW t, NEW cur, NEW r, r = Len(Scan) + 1,
         Collection(c, m, f, t, cur, r, <<>>),
         AllReached(c, m, f), Faithful(m, f, <<>>), Text(m),
         NEW m2, m2 = Restrict(m, In(m, t)), NEW s, Heap(c, m2, s)
  PROVE  SameView(c, m, f, m2, s)
<1>1. /\ UniqueIds(m, f) /\ UniqueIds(m2, s) /\ Even(m) /\ Typed(c, m)
      /\ In(m2, s) = DOMAIN m2
  BY DEF Collection, Heap, Shape, In
<1>2. DOMAIN m2 = In(m, t) /\ \A q \in In(m, t) : m2[q] = m[q]
  BY DEF Restrict, In
<1>3. /\ \A x \in Cells : Settled(c[x], m, t)
      /\ \A q \in In(m, t) : m[q].tag # "string" =>
           \A j \in DOMAIN m[q].fields : Settled(m[q].fields[j], m, t)
  BY AllSettled
<1>4. \A v : Settled(v, m, t) => ValueIn(m2, v) = ValueIn(m, v)
  <2> SUFFICES ASSUME NEW v, Settled(v, m, t)
               PROVE  ValueIn(m2, v) = ValueIn(m, v)
    OBVIOUS
  <2>1. UNBOXED(v) => v \notin DOMAIN m
    BY <1>1, PointersAreBoxed
  <2>2. In(m, t) \subseteq DOMAIN m
    BY DEF In
  <2> QED
    BY <1>2, <2>1, <2>2 DEF ValueIn, Settled
<1>5. CellsIn(c, m2) = CellsIn(c, m)
  BY <1>3, <1>4 DEF CellsIn
<1>6. \A p \in In(m, f) : m[p].forward # NULL
  BY AllCopied
<1>7. ASSUME NEW p \in In(m, f)
      PROVE  LET q == m[p].forward
             IN  /\ q \in In(m, t) /\ m2[q].id = m[p].id
                 /\ ContentsIn(m2, q) = ContentsIn(m, p)
  <2> DEFINE q == m[p].forward
  <2>1. /\ q \in In(m, t) /\ m[q].tag = m[p].tag /\ m[q].id = m[p].id
        /\ Len(m[q].fields) = Len(m[p].fields)
    BY <1>6 DEF Collection, Copies
  <2>2. DOMAIN m[q].fields = DOMAIN m[p].fields
    <3>1. p \in DOMAIN m /\ q \in DOMAIN m
      BY <2>1 DEF In
    <3> HIDE DEF q
    <3>2. m[p].fields \in Seq(Nat) /\ m[q].fields \in Seq(Nat)
      BY <1>1, <3>1, Bounds
    <3> QED
      BY <2>1, <3>2
  <2>3. \A j : ~Filling(<<>>, q, j)
    <3>1. 1 .. Len(<<>>) = {}
      OBVIOUS
    <3> QED
      BY <3>1 DEF Filling
  <2>4. IF m[p].tag = "string" THEN m[q].fields = m[p].fields
        ELSE \A j \in DOMAIN m[p].fields :
               ValueIn(m, m[q].fields[j]) = ValueIn(m, m[p].fields[j])
    BY <1>6, <2>3 DEF Faithful
  <2> HIDE DEF q
  <2>5. m2[q] = m[q]
    BY <1>2, <2>1
  <2>6. ContentsIn(m2, q) = ContentsIn(m, p)
    <3>1. CASE m[p].tag = "string"
      BY <2>1, <2>4, <2>5, <3>1 DEF ContentsIn
    <3>2. CASE m[p].tag # "string"
      <4>1. \A j \in DOMAIN m[p].fields :
              ValueIn(m2, m[q].fields[j]) = ValueIn(m, m[p].fields[j])
        BY <1>3, <1>4, <2>1, <2>2, <2>4, <3>2
      <4> QED
        BY <2>1, <2>2, <2>5, <3>2, <4>1 DEF ContentsIn
    <3> QED
      BY <3>1, <3>2
  <2> QED
    BY <2>1, <2>5, <2>6 DEF q
<1>8. SameStore(m, f, m2, s)
  <2>1. ASSUME NEW q \in In(m2, s)
        PROVE  \E p \in In(m, f) : m2[q].id = m[p].id
    <3>1. q \in In(m, t)
      BY <1>1, <1>2
    <3>2. PICK p \in In(m, f) : m[p].forward = q
      BY <3>1 DEF Collection, Copies
    <3> QED
      BY <1>7, <3>2
  <2> QED
    BY <1>1, <1>2, <1>7, <2>1 DEF SameStore
<1>9. StoreIn(m2, s) = StoreIn(m, f)
  BY <1>1, <1>8, StoresAgree
<1>10. Text(m2)
  BY <1>2 DEF Text, In
<1> QED
  BY <1>5, <1>9, <1>10 DEF SameView

-----------------------------------------------------------------------------
(* The actions of the collector. *)

LEMMA AnsweredView ==
  ASSUME GInv, phase = "roots", phase' = phase, from' = from,
         NEW w, Collection(cells, mem, from, to, current, root, w),
         Faithful(mem, from, w), Chain(cells, mem, root, w),
         w # <<>> => w[Len(w)].i <= Len(mem[w[Len(w)].src].fields),
         NEW v \in Nat, ValueIn(mem, v) = ValueIn(mem, WordOf(cells, mem, root, w)),
         Answer(w, mem, v)
  PROVE  Unseen /\ GInv'
<1>1. Text(mem) /\ DOMAIN cells = Cells
  BY DEF GInv, Collection, Shape, Typed
<1>2. CASE w = <<>>
  <2>1. /\ cells' = [cells EXCEPT ![Scan[root]] = v] /\ root' = root + 1
        /\ work' = <<>> /\ mem' = mem
    BY <1>2 DEF Answer
  <2>2. ValueIn(mem, v) = ValueIn(mem, cells[Scan[root]])
    BY <1>2 DEF WordOf
  <2>3. Faithful(mem, from, <<>>)
    BY <1>2
  <2>4. Transparent(cells, mem, from, [cells EXCEPT ![Scan[root]] = v], mem, from, root + 1, <<>>)
    BY <1>1, <2>2, <2>3, RootView
  <2>5. Transparent(cells, mem, from, cells', mem', from', root', work')
    BY <2>1, <2>4
  <2> QED
    BY <2>5, CollectionUnseen
<1>3. CASE w # <<>>
  <2> DEFINE a  == w[Len(w)]
             m2 == [mem EXCEPT ![a.dst].fields[a.i] = v]
             w2 == [w EXCEPT ![Len(w)].i = @ + 1]
  <2>1. mem' = m2 /\ work' = w2 /\ cells' = cells /\ root' = root
    BY <1>3 DEF Answer
  <2>2. a.i <= Len(mem[a.src].fields)
    BY <1>3
  <2>3. w \in Seq(Activation) /\ Len(w) \in 1 .. Len(w) /\ Typed(cells, mem)
    BY <1>3 DEF Collection, WorkOK, Shape
  <2>4. a.dst \in DOMAIN mem /\ a.i \in DOMAIN mem[a.dst].fields
    BY <2>2, <2>3, ActivationFacts
  <2>5. ValueIn(mem, v) = ValueIn(mem, mem[a.src].fields[a.i])
    BY <1>3 DEF WordOf
  <2> HIDE DEF a
  <2>6. Assigned(mem, m2, a.dst, a.i, v)
    BY <2>3, <2>4, ElementAssigned
  <2> HIDE DEF m2, w2
  <2>7. a = w[Len(w)] /\ w2 = [w EXCEPT ![Len(w)].i = @ + 1]
    BY DEF a, w2
  <2>8. Transparent(cells, mem, from, cells, m2, from, root, w2)
    BY <1>1, <1>3, <2>2, <2>5, <2>6, <2>7, ElementView
  <2>9. Transparent(cells, mem, from, cells', mem', from', root', work')
    BY <2>1, <2>8
  <2> QED
    BY <2>9, CollectionUnseen
<1> QED
  BY <1>2, <1>3

\* The word being tested is the word that the innermost activation is at.
LEMMA TestedIsWordOf == Tested = WordOf(cells, mem, root, work)
BY DEF Tested, WordOf, Top

LEMMA KeepWordView ==
  ASSUME IInv, GInv, KeepWord
  PROVE  Unseen /\ GInv'
<1>1. /\ MayTest /\ Answer(work, mem, Tested)
      /\ from' = from /\ phase' = phase
  BY DEF KeepWord, Idle
<1>2. /\ Collection(cells, mem, from, to, current, root, work)
      /\ phase = "roots" /\ Tested \in Nat
      /\ work # <<>> => work[Len(work)].i <= Len(mem[work[Len(work)].src].fields)
  BY <1>1, TestedWord
<1>3. Faithful(mem, from, work) /\ Chain(cells, mem, root, work)
  BY <1>2 DEF GInv, Collecting
<1> DEFINE v == Tested
<1>4. ValueIn(mem, v) = ValueIn(mem, WordOf(cells, mem, root, work)) /\ v \in Nat
  BY <1>2, TestedIsWordOf
<1>5. Answer(work, mem, v)
  BY <1>1
<1> HIDE DEF v
<1> QED
  BY <1>1, <1>2, <1>3, <1>4, <1>5, AnsweredView

LEMMA ForwardedView ==
  ASSUME IInv, GInv, Forwarded
  PROVE  Unseen /\ GInv'
<1> DEFINE x == Tested
           v == mem[x].forward
<1>1. /\ MayTest /\ IS_VALID_HEAP_POINTER(x) /\ IS_FORWARD_PTR(mem[x])
      /\ Answer(work, mem, v)
      /\ from' = from /\ phase' = phase
  BY DEF Forwarded, Idle
<1>2. /\ Collection(cells, mem, from, to, current, root, work)
      /\ phase = "roots" /\ x \in In(mem, from)
      /\ work # <<>> => work[Len(work)].i <= Len(mem[work[Len(work)].src].fields)
  BY <1>1, TestedWord
<1>3. Faithful(mem, from, work) /\ Chain(cells, mem, root, work)
  BY <1>2 DEF GInv, Collecting
<1>4. x = WordOf(cells, mem, root, work)
  BY TestedIsWordOf
<1> HIDE DEF x
<1>5. v # NULL
  BY <1>1 DEF IS_FORWARD_PTR
<1>6. v \in In(mem, to) /\ mem[v].id = mem[x].id
  BY <1>2, <1>5 DEF Collection, Copies
<1>7. v \in Nat /\ v \in DOMAIN mem /\ x \in DOMAIN mem
  BY <1>2, <1>6 DEF In, Collection, Shape, Typed
<1>8. ValueIn(mem, v) = ValueIn(mem, WordOf(cells, mem, root, work))
  BY <1>4, <1>6, <1>7 DEF ValueIn
<1> HIDE DEF v
<1> QED
  BY <1>1, <1>2, <1>3, <1>7, <1>8, AnsweredView

LEMMA ReturnStepView ==
  ASSUME IInv, GInv, Return
  PROVE  Unseen /\ GInv'
<1> DEFINE n == Len(work)
           v == Top.dst
           w == Front(work)
           x == work[n].src
<1>1. /\ phase = "roots" /\ work # <<>> /\ ~AtElement
      /\ Answer(w, mem, v) /\ from' = from /\ phase' = phase
  BY DEF Return, Scanning, Idle
<1>2. /\ Collection(cells, mem, from, to, current, root, work)
      /\ Faithful(mem, from, work) /\ Chain(cells, mem, root, work)
  BY <1>1 DEF IInv, GInv, Collecting
<1>3. work \in Seq(Activation) /\ n \in Nat /\ n > 0 /\ n \in 1 .. n
  BY <1>1, <1>2 DEF Collection, WorkOK
<1>4. /\ work[n].i \in Nat /\ x \in In(mem, from)
      /\ mem[x].fields \in Seq(Nat) /\ mem[x].forward = v
      /\ v \in In(mem, to) /\ v \in DOMAIN mem /\ x \in DOMAIN mem /\ v \in Nat
  BY <1>2, <1>3, ActivationFacts DEF Top
<1>5. work[n].i > Len(mem[work[n].src].fields)
  <2> DEFINE i == work[n].i
             z == Len(mem[x].fields)
  <2>1. i \in Nat /\ z \in Nat /\ ~(i <= z)
    BY <1>1, <1>4 DEF AtElement, Top
  <2> HIDE DEF i, z
  <2>2. i > z
    BY <2>1
  <2> QED
    BY <2>2 DEF i, z
<1>6. Collection(cells, mem, from, to, current, root, w)
  BY <1>1, <1>2, <1>5, ActivationEnds
<1>7. /\ Faithful(mem, from, w) /\ Chain(cells, mem, root, w)
      /\ WordOf(cells, mem, root, w) = x
  BY <1>1, <1>2, <1>5, ReturnView
<1>8. w \in Seq(Activation) /\ Len(w) = n - 1 /\ \A k \in 1 .. n - 1 : w[k] = work[k]
  BY <1>1, <1>3, FrontFacts
<1>9. ASSUME w # <<>>
      PROVE  w[Len(w)].i <= Len(mem[w[Len(w)].src].fields)
  <2>1. Len(w) \in Nat /\ Len(w) > 0
    BY <1>8, <1>9
  <2>2. n - 1 \in 1 .. n /\ n - 1 < n /\ n - 1 \in 1 .. n - 1
    BY <1>3, <1>8, <2>1
  <2>3. work[n - 1].i <= Len(mem[work[n - 1].src].fields)
    BY <1>2, <2>2 DEF Collection, WorkOK
  <2> QED
    BY <1>8, <2>2, <2>3
<1>10. ValueIn(mem, v) = ValueIn(mem, x)
  <2>1. mem[x].forward # NULL
    BY <1>2, <1>3, <1>4 DEF Collection, WorkOK
  <2>2. mem[v].id = mem[x].id
    BY <1>2, <1>4, <2>1 DEF Collection, Copies
  <2> QED
    BY <1>4, <2>2 DEF ValueIn
<1>11. ValueIn(mem, v) = ValueIn(mem, WordOf(cells, mem, root, w))
  BY <1>7, <1>10
<1> HIDE DEF v, w
<1> QED
  BY <1>1, <1>4, <1>6, <1>7, <1>9, <1>11, AnsweredView

LEMMA CopyStepView ==
  ASSUME IInv, GInv, Copy
  PROVE  Unseen /\ GInv'
<1> DEFINE x    == Tested
           o    == mem[x]
           p    == current + WORD * Header(o.tag)
           cur2 == current + WORD * SizeCopied(o.tag, Len(o.fields))
           m1   == [mem EXCEPT ![x].forward = p]
           m2   == With(m1, p, Copied(o))
           i    == IF mem[x].tag = "string" THEN Len(mem[x].fields) + 1 ELSE 1
           w2   == Append(work, [src |-> x, dst |-> p, i |-> i])
<1>1. MayTest /\ IS_VALID_HEAP_POINTER(Tested) /\ mem[x].forward = NULL
  BY DEF Copy
<1>2. /\ Collection(cells, mem, from, to, current, root, work) /\ phase = "roots"
      /\ x \in In(mem, from)
  BY <1>1, TestedWord
<1>3. /\ mem' = m2 /\ work' = w2 /\ from' = from
      /\ cells' = cells /\ root' = root /\ phase' = phase
  BY DEF Copy, Idle
<1>4. Typed(cells, mem) /\ x \in DOMAIN mem /\ mem[x] \in Object
  BY <1>2 DEF Collection, Shape, Typed, In
<1>5. p \in Nat
  <2> DEFINE h == Header(o.tag)
  <2>1. o.tag \in Tags /\ Len(o.fields) \in Nat
    BY <1>4 DEF Object
  <2>2. h \in Nat /\ current \in Nat
    BY <1>2, <2>1, SizesAgree DEF Collection, SpacesOK
  <2> HIDE DEF h
  <2>3. current + WORD * h \in Nat
    BY <2>2 DEF WORD
  <2> QED
    BY <2>3 DEF h
<1>6. Text(mem) /\ Faithful(mem, from, work) /\ Chain(cells, mem, root, work)
  BY <1>2 DEF GInv, Collecting
<1>7. x = WordOf(cells, mem, root, work)
  BY TestedIsWordOf
<1> HIDE DEF x
<1>8. Marked(mem, m1, x, p)
  <2> HIDE DEF p
  <2> QED
    BY <1>4, <1>5, TagReplaced
<1>9. Placed(mem, m2, from, to, x, p, current, cur2) /\ Typed(cells, m2)
  <2> HIDE DEF m1
  <2> QED
    BY <1>1, <1>2, <1>8, CopyPlaced
<1> HIDE DEF m1, m2, p, cur2
<1>10. i = IF mem[x].tag = "string" THEN Len(mem[x].fields) + 1 ELSE 1
  OBVIOUS
<1> HIDE DEF i
<1>11. w2 = Append(work, [src |-> x, dst |-> p, i |-> i])
  OBVIOUS
<1> HIDE DEF w2
<1>12. Transparent(cells, mem, from, cells, m2, from, root, w2)
  BY <1>1, <1>2, <1>6, <1>7, <1>9, <1>10, <1>11, CopyView
<1>13. Transparent(cells, mem, from, cells', mem', from', root', work')
  BY <1>3, <1>12
<1> QED
  BY <1>2, <1>13, CollectionUnseen

\* Steps that leave the words, the objects and the space they are in alone.
LEMMA StillUnseen ==
  ASSUME GInv, UNCHANGED <<cells, mem, from, work, root>>,
         \/ phase' = phase
         \/ phase = "roots" /\ phase' = "fit"
         \/ phase' = "no memory"
  PROVE  Unseen /\ GInv'
<1>1. Unseen
  BY ViewIs DEF Unseen
<1>2. GInv'
  BY DEF GInv, Collecting
<1> QED
  BY <1>1, <1>2

LEMMA SwappedView ==
  ASSUME IInv, GInv, phase = "fit"
  PROVE  SameView(cells, mem, from, Restrict(mem, InSpace(to)), Swapped(current))
<1> DEFINE m2 == Restrict(mem, InSpace(to))
           s  == Swapped(current)
<1>1. /\ Collection(cells, mem, from, to, current, root, <<>>)
      /\ root = Len(Scan) + 1 /\ Text(mem) /\ AllReached(cells, mem, from)
      /\ Faithful(mem, from, <<>>)
  BY DEF IInv, GInv, Collecting
<1>2. m2 = Restrict(mem, In(mem, to))
  <2>1. InSpace(to) = In(mem, to)
    BY DEF InSpace, In
  <2> QED
    BY <2>1
<1>3. Heap(cells, m2, s)
  BY SpacesSwap
<1> HIDE DEF m2, s
<1>4. SameView(cells, mem, from, m2, s)
  BY <1>1, <1>2, <1>3, SwapView
<1> QED
  BY <1>4 DEF m2, s

LEMMA ExtendMovesView ==
  ASSUME IInv, GInv, ExtendMoves
  PROVE  Unseen /\ GInv'
<1> DEFINE s == Swapped(current)
           m == Restrict(mem, InSpace(to))
<1>1. /\ phase = "fit" /\ from' = s /\ mem' = m /\ phase' = "roots" /\ root' = 1
      /\ cells' = cells /\ work' = work
  BY DEF ExtendMoves, MoveTo
<1>2. work = <<>>
  BY <1>1 DEF IInv
<1>3. SameView(cells, mem, from, m, s) /\ Heap(cells, m, s)
  BY <1>1, SwappedView, SpacesSwap
<1> HIDE DEF s, m
<1>4. Faithful(m, s, <<>>) /\ Chain(cells, m, 1, <<>>)
  <2>1. Faithful(m, s, <<>>)
    BY <1>3 DEF Faithful, Heap, In
  <2>2. 1 .. Len(<<>>) = {}
    OBVIOUS
  <2> QED
    BY <2>1, <2>2 DEF Chain
<1>5. Transparent(cells, mem, from, cells, m, s, 1, <<>>)
  BY <1>3, <1>4 DEF SameView, Transparent
<1>6. Transparent(cells, mem, from, cells', mem', from', root', work')
  BY <1>1, <1>2, <1>5
<1> QED
  BY <1>1, <1>6, CollectionUnseen

LEMMA FinishView ==
  ASSUME IInv, GInv, TextHasNoZero, Finish
  PROVE  GInv' /\ Program!Operation
<1> DEFINE s   == Swapped(current)
           m   == Restrict(mem, InSpace(to))
           x   == request.cell
           req == request.req
           top == current + WORD * Size(req)
<1>1. /\ phase = "fit" /\ top < to.end /\ from' = Swapped(top)
      /\ Give(m, current, req, x) /\ phase' = "mutator"
  BY DEF Finish, Needed
<1>2. RequestOK
  BY <1>1 DEF IInv, Collecting
<1>3. x \in Cells /\ req \in Requests /\ \E id \in Ids : id \notin UsedIds
  BY <1>2 DEF RequestOK
<1>4. /\ Heap(cells, m, s) /\ s.end = to.end /\ s.current = current
      /\ \A q \in DOMAIN m : m[q].id \in UsedIds
      /\ SameView(cells, mem, from, m, s)
  BY <1>1, SwappedView, SpacesSwap
<1>5. from' = [s EXCEPT !.current = top]
  <2>1. SpaceOK(to)
    BY <1>1, SpacesSwap
  <2>2. to \in Space
    BY <2>1 DEF SpaceOK
  <2> HIDE DEF top
  <2>3. [[to EXCEPT !.current = current] EXCEPT !.current = top] = [to EXCEPT !.current = top]
    BY <2>2 DEF Space
  <2> QED
    BY <1>1, <2>3 DEF Swapped
<1> HIDE DEF s, m, x, req
<1>6. CellsIn(cells, m) = CellsIn(cells, mem) /\ StoreIn(m, s) = StoreIn(mem, from) /\ Text(m)
  BY <1>4 DEF SameView
<1>7. top < s.end /\ current = s.current
  BY <1>1, <1>4
<1>8. /\ Allocated(CellsIn(cells, m), StoreIn(m, s), x, req,
                   CellsIn(cells', mem'), StoreIn(mem', from'))
      /\ AllReached(cells', mem', from') /\ Text(mem')
  BY <1>1, <1>3, <1>4, <1>5, <1>6, <1>7, GivenAgrees
<1>9. Allocated(ProgramCells, ProgramStore, x, req, ProgramCells', ProgramStore')
  BY <1>6, <1>8, ViewIs
<1>10. PICK c \in Cells, r \in Requests : c = x /\ r = req
  BY <1>3
<1>11. Allocated(ProgramCells, ProgramStore, c, r, ProgramCells', ProgramStore')
  BY <1>9, <1>10
<1>12. Program!New(c, r)
  BY <1>11, AbstractNew
<1>13. Program!Operation
  BY <1>12 DEF Program!Operation
<1>14. GInv'
  BY <1>1, <1>8 DEF GInv, Collecting
<1> QED
  BY <1>13, <1>14

-----------------------------------------------------------------------------
LEMMA StepImplements ==
  ASSUME IInv, GInv, TextHasNoZero, [Next]_vars
  PROVE  GInv' /\ (Program!Operation \/ Unseen)
<1>1. ASSUME NEW c \in Cells, NEW req \in Requests, AllocFits(c, req) \/ AllocCollects(c, req)
      PROVE  GInv' /\ (Program!Operation \/ Unseen)
  BY <1>1, AllocFitsView, AllocCollectsView
<1>2. ASSUME NEW c \in Cells, Move(c, BOX(0)) \/ \E d \in Cells : Move(c, cells[d])
      PROVE  GInv' /\ (Program!Operation \/ Unseen)
  BY <1>2, MoveView
<1>3. ASSUME NEW c \in Cells, NEW d \in Cells, NEW i \in 1 .. 2, SetField(c, i, d)
      PROVE  GInv' /\ (Program!Operation \/ Unseen)
  BY <1>3, SetFieldView
<1>4. CASE CollectorStep
  <2>1. CASE KeepWord \/ Forwarded \/ Copy \/ Return
    BY <2>1, KeepWordView, ForwardedView, CopyStepView, ReturnStepView
  <2>2. CASE RootsScanned \/ ExtendInPlace
    BY <2>2, StillUnseen DEF RootsScanned, ExtendInPlace, heap
  <2>3. CASE ExtendMoves \/ Finish
    BY <2>3, ExtendMovesView, FinishView
  <2> QED
    BY <1>4, <2>1, <2>2, <2>3 DEF CollectorStep
<1>5. CASE Toggle \/ MmapFails \/ UNCHANGED vars
  BY <1>5, StillUnseen DEF Toggle, MmapFails, vars, heap
<1> QED
  BY <1>1, <1>2, <1>3, <1>4, <1>5 DEF Next

\* With texts that have no zero the program never notices a collection: the
\* objects it can reach keep their tags, their elements and their sharing, and a
\* new object is none of them (alloc, gc, gc_copy, copy_elements, extend_spaces).
THEOREM CollectionIsTransparent == TextHasNoZero => (Spec => KeepsTheGraph)
<1> SUFFICES ASSUME TextHasNoZero
             PROVE  Spec => Program!Spec
  BY DEF KeepsTheGraph
<1>1. Init => IInv /\ GInv /\ Program!Init
  BY InitialInv, InitialView
<1>2. IInv /\ GInv /\ [Next]_vars => IInv' /\ GInv' /\ [Program!Next]_(Program!vars)
  BY NextInv, StepImplements, AbstractStep
<1> QED
  BY <1>1, <1>2, PTL DEF Spec, Program!Spec
=============================================================================
