---------------------------- MODULE RuntimeValues ----------------------------
(***************************************************************************)
(* Values at run time (src/runtime/runtime.c): comparison, hashing, the    *)
(* tests that pattern matching compiles to, element access and assignment. *)
(* A value is a word: odd, an integer; even, an address, of an object if   *)
(* it lies in the heap.  Arithmetic on words wraps as it does in the C     *)
(* code.                                                                   *)
(*                                                                         *)
(* The functions that call themselves on the elements of an object are     *)
(* functions of the depth to which they do: d is for d nested calls.       *)
(***************************************************************************)
EXTENDS Integers, Sequences, FiniteSets, SequencesExt

CONSTANTS
  Half,            \* how many values half a word has (2^32 in the code)
  InitialHeaps,    \* the objects the program has built, by address
  Words,           \* the words the program passes to the runtime
  Stored,          \* the words it stores in objects
  Chars,           \* how many characters names are made of (64, shifted by 6 bits)
  MAX_SEXP_TAGLEN, \* characters of a tag that count (10)
  Names            \* names of constructors, as sequences of positions in chars

ASSUME WidthsAssumption == /\ Half \in Nat \ {0, 4} /\ Half % 4 = 0
                           /\ Chars \in Nat \ {0, 1}
                           /\ MAX_SEXP_TAGLEN \in Nat \ {0}

VARIABLE heap      \* the objects, by address

-----------------------------------------------------------------------------
STRING_TAG  == 1
ARRAY_TAG   == 3
SEXP_TAG    == 5
CLOSURE_TAG == 7
UNBOXED_TAG == 9

HASH_DEPTH == 3

\* How many values a word has.
Modulus == Half * Half

\* A machine integer, signed and unsigned.
Signed(n)   == ((n + Modulus \div 2) % Modulus) - Modulus \div 2
Unsigned(n) == n % Modulus

UNBOXED(x) == x % 2 = 1
UNBOX(x)   == x \div 2
BOX(n)     == Signed(2 * n + 1)

Bool(b) == BOX(IF b THEN 1 ELSE 0)

\* Numbers whose differences are integers too: compare subtracts addresses,
\* tags and lengths.
Number == 0 .. Modulus \div 4 - 1

\* Of the integers the half whose differences are integers.
Value == {x \in -(Modulus \div 4) .. Modulus \div 4 - 1 : UNBOXED(x) \/ x >= 0}

Character == -(Half \div 2) .. Half \div 2 - 1

IsObject(o) ==
  /\ o \in [tag : {STRING_TAG, ARRAY_TAG, SEXP_TAG, CLOSURE_TAG}, sexp : Number,
            contents : Seq(Int)]
  /\ Len(o.contents) \in Number
  /\ o.tag # SEXP_TAG => o.sexp = 0
  /\ o.tag = CLOSURE_TAG => o.contents # <<>>
  /\ \A i \in 1 .. Len(o.contents) :
       o.contents[i] \in CASE o.tag = STRING_TAG             -> Character
                          [] o.tag = CLOSURE_TAG /\ i = 1 -> Number
                          [] OTHER                        -> Value

IsHeap(h) == /\ IsFiniteSet(DOMAIN h)
             /\ \A p \in DOMAIN h : p \in Number /\ ~UNBOXED(p) /\ IsObject(h[p])

ASSUME ValuesAssumption == /\ \A h \in InitialHeaps : IsHeap(h)
                           /\ Words \subseteq Value /\ Stored \subseteq Value

\* The tags of n characters.
TagSpace[n \in Nat] == IF n = 0 THEN 1 ELSE Chars * TagSpace[n - 1]

\* A tag fits a word as an integer.  A constructor's name begins with a letter,
\* so not with the first character of chars.
ASSUME TagsAssumption ==
  /\ TagSpace[MAX_SEXP_TAGLEN] <= Modulus \div 4
  /\ \A s \in Names : s \in Seq(0 .. Chars - 1) /\ s # <<>> /\ s[1] # 0

is_valid_heap_pointer(p) == p \in DOMAIN heap

TAG(p) == heap[p].tag
LEN(p) == Len(heap[p].contents)

\* What C sees of a string: the characters before the first zero.
CString(p) ==
  LET zeros == {i \in 1 .. LEN(p) : heap[p].contents[i] = 0}
  IN  SubSeq(heap[p].contents, 1, IF zeros = {} THEN LEN(p) ELSE Min(zeros) - 1)

\* The first difference decides, the characters taken as unsigned.
strcmp(p, q) ==
  LET a == Append(CString(p), 0)
      b == Append(CString(q), 0)
      differ == {i \in 1 .. Min({Len(a), Len(b)}) : a[i] # b[i]}
  IN  IF differ = {} THEN 0 ELSE (a[Min(differ)] % Half) - (b[Min(differ)] % Half)

-----------------------------------------------------------------------------
(***************************************************************************)
(* Comparison.                                                             *)
(***************************************************************************)
Difference(n, m) == BOX(Signed(n - m))

FirstNonZero(answers) ==
  LET differ == {i \in DOMAIN answers : answers[i] # BOX(0)}
  IN  IF differ = {} THEN BOX(0) ELSE answers[Min(differ)]

\* What is compared before the elements, and where the elements begin.
Leading(p) ==
  CASE TAG(p) = CLOSURE_TAG -> <<heap[p].contents[1], LEN(p)>>
    [] TAG(p) = ARRAY_TAG   -> <<LEN(p)>>
    [] OTHER                -> <<heap[p].sexp, LEN(p)>>

FirstElement(p) == IF TAG(p) = CLOSURE_TAG THEN 2 ELSE 1

\* cmp compares elements.
CompareElements(cmp, p, q) ==
  FirstNonZero([i \in 1 .. Min({LEN(p), LEN(q)}) |->
    IF i < FirstElement(p) THEN BOX(0)
    ELSE cmp[heap[p].contents[i]][heap[q].contents[i]]])

CompareObjects(cmp, p, q) ==
  IF TAG(p) # TAG(q) THEN Difference(TAG(p), TAG(q))
  ELSE IF TAG(p) = STRING_TAG THEN BOX(strcmp(p, q))
  ELSE LET a == Leading(p)
           b == Leading(q)
           leading == FirstNonZero([i \in DOMAIN a |-> Difference(a[i], b[i])])
       IN  IF leading # BOX(0) THEN leading ELSE CompareElements(cmp, p, q)

\* Mutant: an integer and an object, either way round.
CompareOneSided(cmp, p, q) ==
  CASE p = q                      -> BOX(0)
    [] UNBOXED(p) /\ UNBOXED(q)   -> Difference(UNBOX(p), UNBOX(q))
    [] UNBOXED(p) # UNBOXED(q)    -> BOX(-1)
    [] OTHER -> IF is_valid_heap_pointer(p) /\ is_valid_heap_pointer(q)
                  THEN CompareObjects(cmp, p, q) ELSE Difference(p, q)

Compare(cmp, p, q) ==
  CASE p = q                        -> BOX(0)
    [] UNBOXED(p) /\ UNBOXED(q)     -> Difference(UNBOX(p), UNBOX(q))
    [] UNBOXED(p) /\ ~UNBOXED(q)    -> BOX(-1)
    [] ~UNBOXED(p) /\ UNBOXED(q)    -> BOX(1)
    [] OTHER -> IF is_valid_heap_pointer(p)
                  THEN IF is_valid_heap_pointer(q) THEN CompareObjects(cmp, p, q) ELSE BOX(-1)
                  ELSE IF is_valid_heap_pointer(q) THEN BOX(1) ELSE Difference(p, q)

compare[d \in Nat] ==
  [p \in Int |-> [q \in Int |-> IF d = 0 THEN BOX(0) ELSE Compare(compare[d - 1], p, q)]]

\* A path that leads through more objects than there are is a cycle's, on
\* which the function never returns.
Lcompare(p, q) == compare[Cardinality(DOMAIN heap) + 1][p][q]

\* The test of the second word for a boxed first one is ~UNBOXED (q), which is
\* never zero in C: the last branch of the function is not reached.
LflatCompare(p, q) ==
  CASE UNBOXED(p) /\ UNBOXED(q)  -> Difference(UNBOX(p), UNBOX(q))
    [] UNBOXED(p) /\ ~UNBOXED(q) -> -1
    [] OTHER                     -> Difference(p, q)

LcompareTags(p, q) == Difference(heap[p].sexp, heap[q].sexp)

-----------------------------------------------------------------------------
(***************************************************************************)
(* Hashing.  The answer keeps the lower half of a word (22 bits in the     *)
(* code).                                                                  *)
(***************************************************************************)
HASH_APPEND(acc, x) ==
  LET sum == Unsigned(acc + x)
  IN  (sum % Half) * Half + (sum \div Half)

\* inner hashes elements.
HashElements(inner, acc, elements) ==
  FoldLeft(LAMBDA a, c : inner[c][a], acc, elements)

\* Mutant: an object is hashed by its address, not its contents.
HashAddress(inner, acc, p) ==
  HASH_APPEND(HASH_APPEND(HASH_APPEND(acc, TAG(p)), p), LEN(p))

HashObject(inner, acc, p) ==
  LET start == HASH_APPEND(HASH_APPEND(acc, TAG(p)), LEN(p)) IN
  CASE TAG(p) = STRING_TAG  -> FoldLeft(HASH_APPEND, start, CString(p))
    [] TAG(p) = CLOSURE_TAG -> HashElements(inner, HASH_APPEND(start, heap[p].contents[1]),
                                            Tail(heap[p].contents))
    [] TAG(p) = ARRAY_TAG   -> HashElements(inner, start, heap[p].contents)
    [] TAG(p) = SEXP_TAG    -> HashElements(inner, HASH_APPEND(start, heap[p].sexp),
                                            heap[p].contents)

Hash(inner, acc, p) ==
  IF UNBOXED(p) THEN HASH_APPEND(acc, UNBOX(p))
  ELSE IF is_valid_heap_pointer(p) THEN HashObject(inner, acc, p)
  ELSE HASH_APPEND(acc, p)

inner_hash[d \in Nat] ==
  [p \in Int |-> [acc \in Nat |-> IF d = 0 THEN acc ELSE Hash(inner_hash[d - 1], acc, p)]]

\* The depths from 0 to HASH_DEPTH.
Lhash(p) == BOX(inner_hash[HASH_DEPTH + 1][p][0] % Half)

-----------------------------------------------------------------------------
(***************************************************************************)
(* The tests of pattern matching.                                          *)
(***************************************************************************)
LkindOf(p) == IF UNBOXED(p) THEN UNBOXED_TAG ELSE TAG(p)

HasTag(x, t) == Bool(~UNBOXED(x) /\ TAG(x) = t)

Bboxed_patt(x)       == Bool(~UNBOXED(x))
Bunboxed_patt(x)     == Bool(UNBOXED(x))
Bclosure_tag_patt(x) == HasTag(x, CLOSURE_TAG)
Barray_tag_patt(x)   == HasTag(x, ARRAY_TAG)
Bstring_tag_patt(x)  == HasTag(x, STRING_TAG)
Bsexp_tag_patt(x)    == HasTag(x, SEXP_TAG)

Btag(d, t, n) == Bool(/\ ~UNBOXED(d)
                      /\ TAG(d) = SEXP_TAG
                      /\ heap[d].sexp = UNBOX(t)
                      /\ LEN(d) = UNBOX(n))

Barray_patt(d, n) == Bool(~UNBOXED(d) /\ TAG(d) = ARRAY_TAG /\ LEN(d) = UNBOX(n))

\* Mutant: only as many characters as the pattern has are compared.
Bstring_pattPrefix(x, y) ==
  Bool(~UNBOXED(x) /\ TAG(x) = STRING_TAG /\ IsPrefix(CString(y), CString(x)))

Bstring_patt(x, y) == Bool(~UNBOXED(x) /\ TAG(x) = STRING_TAG /\ strcmp(x, y) = 0)

-----------------------------------------------------------------------------
(***************************************************************************)
(* Tags.  A name is a sequence of positions in the string chars, whose     *)
(* position 0 is the underscore.                                           *)
(***************************************************************************)
Shifted(h, c) == h * Chars + c

\* Mutant: the loop of the runtime reads one character more.
LtagHashLonger(s) == FoldLeft(Shifted, 0, SubSeq(s, 1, Min({Len(s), MAX_SEXP_TAGLEN + 1})))

\* The runtime, for the tags it makes itself and for the program.
LtagHash(s) == FoldLeft(Shifted, 0, SubSeq(s, 1, Min({Len(s), MAX_SEXP_TAGLEN})))

\* The compiler: for i = 0 to min (String.length tag - 1) 9
hash(tag) ==
  LET last == Min({Len(tag) - 1, MAX_SEXP_TAGLEN - 1})
      h[i \in 0 .. last + 1] == IF i = 0 THEN 0 ELSE Shifted(h[i - 1], tag[i])
  IN  h[last + 1]

\* The loop fills a buffer from its end: rest[i] is what is left of n after i
\* characters.
de_hash(n) ==
  LET rest[i \in Nat] == IF i = 0 THEN n ELSE rest[i - 1] \div Chars
      count == Min({i \in 0 .. MAX_SEXP_TAGLEN + 1 : rest[i] = 0})
  IN  [k \in 1 .. count |-> rest[count - k] % Chars]

-----------------------------------------------------------------------------
\* Belem, and the assignment that builds further heaps.
Char(n) == ((n + Half \div 2) % Half) - Half \div 2

Belem(p, i) == IF TAG(p) = STRING_TAG THEN BOX(heap[p].contents[i]) ELSE heap[p].contents[i]

Bsta(x, i, v) ==
  heap' = [heap EXCEPT ![x].contents[i] =
             IF TAG(x) = STRING_TAG THEN Char(UNBOX(v)) ELSE v]

Pointees(p) == IF TAG(p) = STRING_TAG THEN {} ELSE Range(heap[p].contents) \intersect DOMAIN heap

\* The objects from which a path of n pointers leads on.
Deep[n \in Nat] ==
  IF n = 0 THEN DOMAIN heap
  ELSE LET next == Deep[n - 1] IN {p \in DOMAIN heap : Pointees(p) \intersect next # {}}

\* From which a path leads that is longer than the heap has objects.
Cyclic(p) == p \in Deep[Cardinality(DOMAIN heap)]

Init == heap \in InitialHeaps

Assign == \E x \in Words \intersect DOMAIN heap, v \in Stored : \E i \in 1 .. LEN(x) :
            /\ TAG(x) = CLOSURE_TAG => i > 1
            /\ TAG(x) = STRING_TAG => UNBOXED(v)
            /\ Bsta(x, i, v)

Spec == Init /\ [][Assign]_heap

-----------------------------------------------------------------------------
\* Assignment keeps the objects what they are, and their elements values.
TypeOK == IsHeap(heap)

\* Values of one structure: the same word, or two objects of the same kind and
\* constructor with the same characters, up to the first zero as everywhere in
\* the runtime, or with elements of one structure.
Alike(same, p, q) ==
  \/ p = q
  \/ /\ {p, q} \subseteq DOMAIN heap
     /\ TAG(p) = TAG(q) /\ heap[p].sexp = heap[q].sexp
     /\ IF TAG(p) = STRING_TAG THEN CString(p) = CString(q)
        ELSE /\ LEN(p) = LEN(q)
             /\ \A i \in 1 .. LEN(p) :
                  IF i < FirstElement(p) THEN heap[p].contents[i] = heap[q].contents[i]
                  ELSE same[heap[p].contents[i]][heap[q].contents[i]]

alike[d \in Nat] ==
  [p \in Int |-> [q \in Int |-> IF d = 0 THEN FALSE ELSE Alike(alike[d - 1], p, q)]]

SameStructure(p, q) == alike[Cardinality(DOMAIN heap) + 1][p][q]

Comparable == {p \in Words : ~Cyclic(p)}

Negative(c) == UNBOX(c) < 0
Positive(c) == UNBOX(c) > 0

\* compare is a linear order of the values the program builds, objects,
\* integers and outside addresses mixed: antisymmetric and transitive, the
\* sign being what the program looks at.  It answers zero exactly for the
\* values of equal structure, at different addresses too.
CompareIsLinear ==
  \A p, q \in Comparable :
    /\ Negative(Lcompare(p, q)) <=> Positive(Lcompare(q, p))
    /\ Lcompare(p, q) = BOX(0) <=> SameStructure(p, q)
    /\ \A r \in Comparable :
         ~Positive(Lcompare(p, q)) /\ ~Positive(Lcompare(q, r)) => ~Positive(Lcompare(p, r))

\* compare sees a string up to its first zero, but hash its length as well.
TextHasNoZero ==
  \A p \in DOMAIN heap : TAG(p) = STRING_TAG => 0 \notin Range(heap[p].contents)

\* The hash is an integer, on cyclic values too, and two values that compare as
\* equal hash alike, wherever they are in the heap: what a hash table relies on.
HashFollowsCompare ==
  /\ \A p \in Words : UNBOXED(Lhash(p))
  /\ TextHasNoZero =>
       \A p, q \in Comparable : Lcompare(p, q) = BOX(0) => Lhash(p) = Lhash(q)

\* A value passes exactly one of the five tests of kind, the one LkindOf names,
\* and the tests against a string, an array length or a constructor agree with
\* compare: two values that pass the same one differ in their elements only.
PatternsFollowCompare ==
  /\ \A x \in DOMAIN heap \union {w \in Words : UNBOXED(w)} :
       LET tests == <<Bunboxed_patt(x), Bstring_tag_patt(x), Barray_tag_patt(x),
                      Bsexp_tag_patt(x), Bclosure_tag_patt(x)>>
           kinds == <<UNBOXED_TAG, STRING_TAG, ARRAY_TAG, SEXP_TAG, CLOSURE_TAG>>
       IN /\ \A i \in 1 .. 5 : tests[i] = Bool(LkindOf(x) = kinds[i])
          /\ Bboxed_patt(x) # Bunboxed_patt(x)
  /\ \A x, y \in DOMAIN heap :
       /\ TAG(y) = STRING_TAG => (Bstring_patt(x, y) = Bool(Lcompare(x, y) = BOX(0)))
       /\ TAG(x) = SEXP_TAG /\ TAG(y) = SEXP_TAG =>
            (LcompareTags(x, y) = BOX(0) <=>
               \E n \in 0 .. LEN(x) : Btag(x, BOX(heap[y].sexp), BOX(n)) = Bool(TRUE))
       /\ TAG(y) = ARRAY_TAG /\ LEN(y) = 0 /\ Barray_patt(x, BOX(0)) = Bool(TRUE) =>
            Lcompare(x, y) = BOX(0)

\* The compiler and the runtime give a name one hash, from which its first
\* characters are read back: an S-expression that either of them built passes
\* the test compiled for a name exactly if the first characters agree.
TagsAreFaithful ==
  LET known(n) == SubSeq(n, 1, Min({Len(n), MAX_SEXP_TAGLEN})) IN
  \A p \in {x \in DOMAIN heap : TAG(x) = SEXP_TAG} :
    \A s \in {n \in Names : LtagHash(n) = heap[p].sexp} :
      /\ de_hash(heap[p].sexp) = known(s)
      /\ \A t \in Names : Btag(p, BOX(hash(t)), BOX(LEN(p))) = Bool(known(s) = known(t))
=============================================================================
