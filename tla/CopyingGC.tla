------------------------------ MODULE CopyingGC ------------------------------
(***************************************************************************)
(* The collector of the 32-bit runtime (src/runtime32/runtime.c): mark-    *)
(* and-copy between two spaces.  alloc bumps from_space.current; when the  *)
(* space is full it maps to_space and copies into it everything reached    *)
(* from the roots, depth first, leaving the address of the copy in the tag *)
(* of the original.  If the request still does not fit, to_space grows in  *)
(* place, or, when mremap cannot do that, becomes from_space and everything*)
(* is copied again to a space of twice the size.                           *)
(*                                                                         *)
(* Addresses are in bytes; an odd value is an integer.  An object is known *)
(* by the address of its contents, one word after its tag (TO_DATA).  The  *)
(* id of an object is not in the code: it says which copy is of which      *)
(* object, for the abstract specification to be stated.                    *)
(***************************************************************************)
EXTENDS Integers, Sequences, FiniteSets, SequencesExt

CONSTANTS
  Scan,        \* the words a collection visits, in order: custom data, the
               \* Lama stack, the extra roots; a word may be visited twice
  InitialSize, \* SPACE_SIZE at the start, in words
  Bases,       \* where mmap may place a space
  Requests,    \* the objects the program may ask for (see ObjectStore)
  MaxObjects   \* bound: objects reachable at one time

WORD == 4

Cells == Range(Scan)

Tags == {"string", "array", "closure", "sexp"}

ASSUME SpacesAssumption ==
  /\ InitialSize \in Nat \ {0}
  /\ Bases # {} /\ \A b \in Bases : b \in Nat /\ b % WORD = 0 /\ b > 0

ASSUME RequestsAssumption ==
  /\ Scan \in Seq(Cells)
  /\ MaxObjects \in Nat
  /\ \A req \in Requests : /\ req.tag \in Tags
                           /\ req.args \in IF req.tag = "string" THEN Seq(Nat) ELSE Seq(Cells)

VARIABLES
  cells,       \* the words that hold the program's values
  mem,         \* the objects in both spaces, by address
  from, to,    \* from_space, to_space
  current,     \* where the next copy goes; not used between collections
  SPACE_SIZE,
  enable_GC,
  phase,       \* "mutator", "roots", "fit", or why the process ended
  root,        \* index in Scan of the root being scanned
  work,        \* activations of copy_elements, outermost first
  request      \* the allocation that started the collection

heap   == <<mem, from, to, SPACE_SIZE, current>>
vars   == <<cells, heap, enable_GC, phase, root, work, request>>

NULL == 0

NoSpace == [begin |-> NULL, end |-> NULL, current |-> NULL, size |-> 0]
NoRequest == [cell |-> NULL]

Disjoint(s, t) == s.end <= t.begin \/ t.end <= s.begin

\* init_to_space: a space of the given size, where mmap can place it.
Map(size, other) ==
  {s \in {[begin |-> b, end |-> b + WORD * size, current |-> b, size |-> size] : b \in Bases} :
     Disjoint(s, other)}

UNBOXED(x) == x % 2 = 1
BOX(n)     == 2 * n + 1

IS_VALID_HEAP_POINTER(p) == ~UNBOXED(p) /\ from.begin <= p /\ p < from.end
IN_PASSIVE_SPACE(p) == to.begin <= p /\ p < to.end

\* The words before the contents: an S-expression has two tags.
Header(tag) == IF tag = "sexp" THEN 2 ELSE 1

(***************************************************************************)
(* Sizes in words: what the allocating function asked for (n is the number *)
(* of elements or characters), and what gc_copy makes of LEN of the tag.   *)
(***************************************************************************)
Words(bytes) == (bytes - 1) \div WORD + 1     \* alloc

SizeAsked(tag, n) == CASE tag = "string" -> Words(n + 1 + WORD)
                       [] tag = "sexp"   -> Words(WORD * (n + 2))
                       [] OTHER          -> Words(WORD * (n + 1))

SizeCopied(tag, n) ==
  CASE tag = "string"  -> (n + WORD) \div WORD + 1
    [] tag = "array"   -> ((n + 1) * WORD - 1) \div WORD + 1
    [] tag = "closure" -> n + 1
    [] tag = "sexp"    -> n + 2

\* strcpy: nothing after the first zero is copied, and a fresh space is zero.
Strcpy(text) ==
  [i \in DOMAIN text |-> IF \E j \in 1 .. i : text[j] = 0 THEN 0 ELSE text[i]]

-----------------------------------------------------------------------------
(***************************************************************************)
(* The program's view of the heap: the objects in from_space.  While they  *)
(* are copied they keep their fields, and a word that already leads to the *)
(* copy stands for the same object.  What no word leads to any more is     *)
(* never looked at again: the model leaves it out of mem.                  *)
(***************************************************************************)
Within(space, p) == space.begin < p /\ p <= space.end

InSpace(space) == {p \in DOMAIN mem : Within(space, p)}

\* The objects of m, and o at p.
With(m, p, o) == [q \in DOMAIN m \union {p} |-> IF q = p THEN o ELSE m[q]]

Pointees(m, p) == IF m[p].tag = "string" THEN {} ELSE Range(m[p].fields) \intersect DOMAIN m

Closed(S, c, m) == /\ Range(c) \intersect DOMAIN m \subseteq S
                   /\ \A p \in S : Pointees(m, p) \subseteq S

Reached(c, m) == {p \in DOMAIN m : \A S \in SUBSET DOMAIN m : Closed(S, c, m) => p \in S}

Live(c, m) == Restrict(m, Reached(c, m))

Ids == 1 .. MaxObjects

UsedIds == {mem[p].id : p \in DOMAIN mem}

Value(v) == IF v \in DOMAIN mem THEN <<"ref", mem[v].id>> ELSE <<"other", v>>

Contents(p) == [tag    |-> mem[p].tag,
                fields |-> IF mem[p].tag = "string" THEN mem[p].fields
                           ELSE [i \in DOMAIN mem[p].fields |-> Value(mem[p].fields[i])]]

Program == INSTANCE ObjectStore WITH
  cells <- [c \in Cells |-> Value(cells[c])],
  store <- [id \in {mem[p].id : p \in InSpace(from)} |->
              Contents(CHOOSE p \in InSpace(from) : mem[p].id = id)]

-----------------------------------------------------------------------------
(***************************************************************************)
(* The program and alloc.                                                  *)
(***************************************************************************)
\* The runtime function fills the object it was given from its arguments,
\* words of the stack that a collection has updated.
New(req, id) == [tag     |-> req.tag,
                 fields  |-> IF req.tag = "string" THEN req.args
                             ELSE [i \in DOMAIN req.args |-> cells[req.args[i]]],
                 id      |-> id,
                 forward |-> NULL]

Fresh == CHOOSE id \in Ids : id \notin UsedIds

Give(m, base, req, c) ==
  LET p == base + WORD * Header(req.tag)
  IN  /\ cells' = [cells EXCEPT ![c] = p]
      /\ mem' = Live(cells', With(m, p, New(req, Fresh)))

Size(req) == SizeAsked(req.tag, Len(req.args))

\* Mutant: a request may end where the space ends.
FitsExactly(req) == from.current + WORD * Size(req) <= from.end

Fits(req) == from.current + WORD * Size(req) < from.end

MayAsk == phase = "mutator" /\ UsedIds # Ids

AllocFits(c, req) ==
  /\ MayAsk
  /\ Fits(req)
  /\ Give(mem, from.current, req, c)
  /\ from' = [from EXCEPT !.current = @ + WORD * Size(req)]
  /\ UNCHANGED <<to, current, SPACE_SIZE, enable_GC, phase, root, work, request>>

\* init_to_space (0) and the entry of gc: the scan of the roots begins.
AllocCollects(c, req) ==
  /\ MayAsk
  /\ ~Fits(req)
  /\ to' \in Map(SPACE_SIZE, from)
  /\ current' = to'.begin
  /\ phase' = IF enable_GC THEN "roots" ELSE "GC disabled"
  /\ root' = 1
  /\ request' = [cell |-> c, req |-> req]
  /\ UNCHANGED <<cells, mem, from, SPACE_SIZE, enable_GC, work>>

Mutate == /\ phase = "mutator"
          /\ UNCHANGED <<from, to, current, SPACE_SIZE, enable_GC, phase, root, work, request>>

Move(c, v) == /\ Mutate
              /\ cells' = [cells EXCEPT ![c] = v]
              /\ mem' = Live(cells', mem)

\* Bsta into an array, an S-expression or a closure.
SetField(c, i, d) ==
  /\ Mutate
  /\ cells[c] \in DOMAIN mem /\ mem[cells[c]].tag # "string"
  /\ i \in DOMAIN mem[cells[c]].fields
  /\ mem' = Live(cells, [mem EXCEPT ![cells[c]].fields[i] = cells[d]])
  /\ UNCHANGED cells

\* LenableGC and LdisableGC.
Toggle == /\ phase = "mutator"
          /\ enable_GC' = ~enable_GC
          /\ UNCHANGED <<cells, heap, phase, root, work, request>>

-----------------------------------------------------------------------------
(***************************************************************************)
(* gc_copy, called by gc_test_and_copy_root for a root and by copy_elements*)
(* for an element.  An activation is the object copied, its copy and the   *)
(* element the loop is at.                                                 *)
(***************************************************************************)
Top == work[Len(work)]

Scanning == phase = "roots" /\ (work # <<>> \/ root <= Len(Scan))

AtElement == work # <<>> /\ Top.i <= Len(mem[Top.src].fields)

\* The word being tested: *root, or from[i].
Tested == IF work = <<>> THEN cells[Scan[root]] ELSE mem[Top.src].fields[Top.i]

MayTest == Scanning /\ (work = <<>> \/ AtElement)

\* What the caller does with the answer: *root = v, or *where++ = v.
Answer(w, m, v) ==
  IF w = <<>>
    THEN /\ cells' = [cells EXCEPT ![Scan[root]] = v]
         /\ root' = root + 1
         /\ work' = w /\ mem' = m
    ELSE LET f == w[Len(w)] IN
         /\ mem' = [m EXCEPT ![f.dst].fields[f.i] = v]
         /\ work' = [w EXCEPT ![Len(w)].i = @ + 1]
         /\ UNCHANGED <<cells, root>>

Idle == UNCHANGED <<from, to, SPACE_SIZE, enable_GC, request>>

KeepWord == /\ MayTest
            /\ ~IS_VALID_HEAP_POINTER(Tested)
            /\ Answer(work, mem, Tested)
            /\ Idle /\ UNCHANGED <<current, phase>>

HasRoom == IN_PASSIVE_SPACE(current) \/ current = to.end

\* IS_FORWARD_PTR (d->tag)
IS_FORWARD_PTR(o) == o.forward # NULL /\ IN_PASSIVE_SPACE(o.forward)

Forwarded == /\ MayTest
             /\ IS_VALID_HEAP_POINTER(Tested)
             /\ HasRoom
             /\ IS_FORWARD_PTR(mem[Tested])
             /\ Answer(work, mem, mem[Tested].forward)
             /\ Idle /\ UNCHANGED <<current, phase>>

Copied(o) ==
  [tag |-> o.tag, id |-> o.id, forward |-> NULL,
   fields |-> IF o.tag = "string" THEN Strcpy(o.fields) ELSE [i \in DOMAIN o.fields |-> NULL]]

\* The copy takes its place, and the original its address, before the elements.
Copy ==
  /\ MayTest
  /\ IS_VALID_HEAP_POINTER(Tested)
  /\ HasRoom
  /\ mem[Tested].forward = NULL
  /\ LET o    == mem[Tested]
         copy == current + WORD * Header(o.tag)
         n    == Len(o.fields)
     IN /\ current' = current + WORD * SizeCopied(o.tag, n)
        /\ mem' = With([mem EXCEPT ![Tested].forward = copy], copy, Copied(o))
        /\ work' = Append(work, [src |-> Tested, dst |-> copy,
                                 i |-> IF o.tag = "string" THEN n + 1 ELSE 1])
  /\ Idle /\ UNCHANGED <<cells, root, phase>>

\* gc_copy returns the copy.
Return == /\ Scanning /\ work # <<>> /\ ~AtElement
          /\ Answer(Front(work), mem, Top.dst)
          /\ Idle /\ UNCHANGED <<current, phase>>

-----------------------------------------------------------------------------
(***************************************************************************)
(* The rest of gc: make room for the request, then swap the spaces.        *)
(***************************************************************************)
RootsScanned ==
  /\ phase = "roots" /\ ~Scanning
  /\ IN_PASSIVE_SPACE(current)
  /\ phase' = "fit"
  /\ UNCHANGED <<cells, heap, enable_GC, root, work, request>>

Needed == WORD * Size(request.req)

\* The condition of the loop.
MustExtend == current + Needed >= to.end

\* mremap grows to_space where it is, if nothing is mapped after it.
ExtendInPlace ==
  /\ phase = "fit" /\ MustExtend
  /\ to' = [to EXCEPT !.end = @ + WORD * SPACE_SIZE, !.size = 2 * SPACE_SIZE]
  /\ Disjoint(to', from)
  /\ SPACE_SIZE' = 2 * SPACE_SIZE
  /\ UNCHANGED <<cells, mem, from, current, enable_GC, phase, root, work, request>>

\* gc_swap_spaces: what was not copied goes with the old space.
Swapped(cur) == [to EXCEPT !.current = cur]

\* mremap cannot: swap the spaces, map one of twice the size, collect again.
MoveTo(size, first) ==
  /\ phase = "fit" /\ MustExtend
  /\ from' = Swapped(current)
  /\ mem' = Restrict(mem, InSpace(to))
  /\ SPACE_SIZE' = size
  /\ to' \in Map(size, to)
  /\ current' = to'.begin
  /\ phase' = "roots"
  /\ root' = first
  /\ UNCHANGED <<cells, enable_GC, work, request>>

\* Mutants: the new space is as large as the old; the roots are not scanned.
ExtendMovesSameSize == MoveTo(SPACE_SIZE, 1)

ExtendMovesOnce == MoveTo(2 * SPACE_SIZE, root)

ExtendMoves == MoveTo(2 * SPACE_SIZE, 1)

Finish ==
  /\ phase = "fit" /\ ~MustExtend
  /\ IN_PASSIVE_SPACE(current) /\ current + Needed < to.end
  /\ from' = Swapped(current + Needed)
  /\ to' = NoSpace
  /\ Give(Restrict(mem, InSpace(to)), current, request.req, request.cell)
  /\ phase' = "mutator"
  /\ request' = NoRequest
  /\ current' = NULL
  /\ UNCHANGED <<SPACE_SIZE, enable_GC, root, work>>

\* mmap may refuse a new space, in alloc or when the space must move.
MmapFails ==
  /\ \/ MayAsk /\ \E req \in Requests : ~Fits(req)
     \/ phase = "fit" /\ MustExtend
  /\ phase' = "no memory"
  /\ UNCHANGED <<cells, heap, enable_GC, root, work, request>>

\* __init
Init ==
  /\ cells = [c \in Cells |-> BOX(0)]
  /\ mem = << >>
  /\ SPACE_SIZE = InitialSize
  /\ from = CHOOSE s \in Map(InitialSize, NoSpace) : TRUE
  /\ to = NoSpace
  /\ current = NULL
  /\ enable_GC = TRUE
  /\ phase = "mutator"
  /\ root = 1
  /\ work = << >>
  /\ request = NoRequest

CollectorStep == \/ KeepWord \/ Forwarded \/ Copy \/ Return \/ RootsScanned
                 \/ ExtendInPlace \/ ExtendMoves \/ Finish

Next == \/ \E c \in Cells, req \in Requests : AllocFits(c, req) \/ AllocCollects(c, req)
        \/ \E c \in Cells : Move(c, BOX(0)) \/ \E d \in Cells : Move(c, cells[d])
        \/ \E c, d \in Cells, i \in 1 .. 2 : SetField(c, i, d)
        \/ Toggle \/ CollectorStep \/ MmapFails

Spec == Init /\ [][Next]_vars

\* The collector runs in the process that called alloc: it does not stop.
FairSpec == Spec /\ WF_vars(CollectorStep)

-----------------------------------------------------------------------------
\* The variables keep their types, the spaces have the size SPACE_SIZE says, and
\* the next object starts inside its space: from_space is never full to the end.
TypeOK ==
  /\ cells \in [Cells -> Nat]
  /\ \A p \in DOMAIN mem : /\ mem[p].tag \in Tags
                           /\ mem[p].id \in Ids
                           /\ mem[p].fields \in Seq(Nat)
                           /\ mem[p].forward \in {NULL} \union DOMAIN mem
  /\ from.end = from.begin + WORD * from.size
  /\ from.begin <= from.current /\ from.current < from.end
  /\ phase = "mutator" => from.size = SPACE_SIZE
  /\ phase \in {"roots", "fit"} => to.size = SPACE_SIZE
  /\ root \in 1 .. Len(Scan) + 1

\* The program never notices a collection: the objects it can reach keep their
\* tags, their fields and their sharing, wherever they are moved and however
\* often, and a new object is none of them (see ObjectStore).
KeepsTheGraph == Program!Spec

\* Every pointer of the program leads to an object that IS_VALID_HEAP_POINTER
\* recognises, also an empty array allocated last in the space: a collection
\* would take an address it does not recognise for one outside the heap.
PointersAreRecognised ==
  phase = "mutator" =>
    /\ \A c \in Cells : ~UNBOXED(cells[c]) => /\ cells[c] \in DOMAIN mem
                                              /\ IS_VALID_HEAP_POINTER(cells[c])
    /\ \A p \in DOMAIN mem : \A q \in Pointees(mem, p) : IS_VALID_HEAP_POINTER(q)

\* An object is copied at most once, so that a space holds it once, and objects
\* do not overlap: gc_copy takes from the tag the words that alloc gave.
ObjectsAreApart ==
  /\ \A p, q \in InSpace(from) : mem[p].id = mem[q].id => p = q
  /\ \A p, q \in DOMAIN mem :
       p < q => p + WORD * (SizeAsked(mem[p].tag, Len(mem[p].fields)) - Header(mem[p].tag))
               <= q - WORD * Header(mem[q].tag)

\* The checks of the collector never fail: to_space has room for every object
\* reached, a tag is either a tag or the address of a copy in to_space, room is
\* left when the roots are scanned, and the request fits when the loop is left.
ChecksPass ==
  /\ MayTest /\ IS_VALID_HEAP_POINTER(Tested) =>
       /\ HasRoom
       /\ mem[Tested].forward = NULL \/ IS_FORWARD_PTR(mem[Tested])
  /\ phase = "roots" /\ ~Scanning => IN_PASSIVE_SPACE(current)
  /\ phase = "fit" /\ ~MustExtend => current + Needed < to.end

\* Between any two steps of the program or the collector the spaces are sound.
SpacesAreSound == TypeOK /\ PointersAreRecognised /\ ObjectsAreApart /\ ChecksPass

\* A collection that starts comes to an end, though the space may have to grow,
\* or to move, more than once.
CollectionsEnd == phase \in {"roots", "fit"} ~> phase \notin {"roots", "fit"}
=============================================================================
