-------------------------- MODULE GCCompactProofs ---------------------------
(***************************************************************************)
(* Theorems about compact_phase (GCCompact), for every heap, every graph   *)
(* and every set of root cells.                                            *)
(***************************************************************************)
EXTENDS GCCompact, TLAPS

USE CountAssumption, ValueAssumption
    DEF Obj, Field, Extra, HeaderWords, ExtraRoomHeapCoefficient

\* Arithmetic of the layout.
LEMMA LayoutFacts ==
  ASSUME Layout
  PROVE  /\ start \in [1..(N + 1) -> Nat]
         /\ \A i, j \in 1..(N + 1) : i <= j => start[i] <= start[j]
         /\ \A o \in Obj : /\ o + 1 \in 1..(N + 1)
                           /\ SizeOf(o) \in Nat /\ SizeOf(o) >= 2
                           /\ start[o + 1] = start[o] + SizeOf(o)
                           /\ start[o + 1] <= start[N + 1]
         /\ \A o, p \in Obj : o < p => start[o] + SizeOf(o) <= start[p]
<1>1. start \in [1..(N + 1) -> Nat]
  BY DEF Layout
<1>2. \A i, j \in 1..(N + 1) : i <= j => start[i] <= start[j]
  BY <1>1 DEF Layout
<1>3. \A o \in Obj : /\ o + 1 \in 1..(N + 1)
                     /\ SizeOf(o) \in Nat /\ SizeOf(o) >= 2
                     /\ start[o + 1] = start[o] + SizeOf(o)
  BY <1>1 DEF Layout, SizeOf
<1>4. \A o \in Obj : start[o + 1] <= start[N + 1]
  BY <1>1, <1>2, <1>3
<1>5. \A o, p \in Obj : o < p => start[o] + SizeOf(o) <= start[p]
  <2> SUFFICES ASSUME NEW o \in Obj, NEW p \in Obj, o < p
               PROVE  start[o] + SizeOf(o) <= start[p]
    OBVIOUS
  <2>1. o + 1 \in 1..(N + 1) /\ o + 1 <= p
    OBVIOUS
  <2>. QED  BY <1>2, <1>3, <2>1
<1>. QED  BY <1>1, <1>2, <1>3, <1>4, <1>5

\* Redirecting a pointer to a live object yields its new address, whether it
\* is redirected once or twice.
LEMMA FixedPointer ==
  ASSUME TypeOK, Layout, \A o \in Obj : IntactAt(o, start[o]),
         NEW t \in Obj
  PROVE  /\ Fixed(OldPointer(t)) = NewPointer(t)
         /\ Fixed(NewPointer(t)) = NewPointer(t)
         /\ Fixed(NotHeap) = NotHeap
         /\ OldPointer(t) \in Value /\ NewPointer(t) \in Value
         /\ OldPointer(t) # NotHeap /\ NewPointer(t) # NotHeap
<1>1. start[t] \in Nat /\ Content(t) = start[t] + 2 /\ forward[t] + 2 \in Nat
  BY LayoutFacts DEF TypeOK, Content
<1>2. OldPointer(t) \in Pointer /\ NewPointer(t) \in Pointer
  BY <1>1 DEF OldPointer, NewPointer, Pointer, Chunk
<1>3. OldPointer(t) \in Value /\ NewPointer(t) \in Value
  BY <1>2 DEF Value
<1>4. OldPointer(t) # NotHeap /\ NewPointer(t) # NotHeap
  BY <1>2
<1>5. mem[start[t]] = <<t, 0>>
  <2>1. 0 \in 0..(SizeOf(t) - 1)
    BY LayoutFacts
  <2>2. mem[start[t] + 0] = <<t, 0>>
    BY <2>1 DEF IntactAt
  <2>. QED  BY <1>1, <2>2
<1>6. OldPointer(t)[1] = "old" /\ OldPointer(t)[2] = start[t] + 2 /\ NewPointer(t)[1] = "new"
  BY <1>1 DEF OldPointer, NewPointer
<1>7. start[t] + 2 <= start[N + 1]
  <2>1. start[t + 1] = start[t] + SizeOf(t) /\ SizeOf(t) >= 2 /\ start[t + 1] <= start[N + 1]
    BY LayoutFacts
  <2>2. SizeOf(t) \in Nat /\ start[N + 1] \in Nat
    BY LayoutFacts
  <2>. QED  BY <1>1, <2>1, <2>2
<1>8. Fixed(OldPointer(t)) = NewPointer(t)
  <2>1. PointsToOldHeap(OldPointer(t))
    BY <1>4, <1>6, <1>7 DEF PointsToOldHeap
  <2>2. OldPointer(t)[2] - 2 = start[t]
    BY <1>1, <1>6
  <2>3. mem[OldPointer(t)[2] - 2][1] = t
    BY <1>5, <2>2
  <2>. QED  BY <2>1, <2>3 DEF Fixed, NewAddress
<1>9. Fixed(NewPointer(t)) = NewPointer(t) /\ Fixed(NotHeap) = NotHeap
  BY <1>6 DEF Fixed, PointsToOldHeap
<1>. QED  BY <1>3, <1>4, <1>8, <1>9

\* The same for any value the collection starts from.
LEMMA FixedGiven ==
  ASSUME TypeOK, Layout, \A o \in Obj : IntactAt(o, start[o]),
         NEW v0 \in {OldPointer(t) : t \in live} \union {NotHeap}
  PROVE  /\ v0 \in Value /\ Fixed(v0) \in Value
         /\ SameObject(v0, Fixed(v0))
         /\ \A v : SameObject(v0, v) => v \in Value /\ Fixed(v) = v
<1>0. live \subseteq Obj
  BY DEF TypeOK
<1>1. CASE v0 = NotHeap
  <2>1. Fixed(v0) = NotHeap
    BY <1>1 DEF Fixed, PointsToOldHeap
  <2>2. \A v : SameObject(v0, v) => v = NotHeap
    <3> SUFFICES ASSUME NEW t \in live, v0 = OldPointer(t) PROVE FALSE
      BY <1>1 DEF SameObject
    <3>. QED  BY <1>0, <1>1, FixedPointer
  <2>. QED  BY <1>1, <2>1, <2>2 DEF Value, SameObject
<1>2. ASSUME NEW t \in live, v0 = OldPointer(t)
      PROVE  /\ v0 \in Value /\ Fixed(v0) \in Value
             /\ SameObject(v0, Fixed(v0))
             /\ \A v : SameObject(v0, v) => v \in Value /\ Fixed(v) = v
  <2>1. t \in Obj /\ v0 # NotHeap
    BY <1>0, <1>2, FixedPointer
  <2>2. v0 \in Value /\ Fixed(v0) = NewPointer(t) /\ NewPointer(t) \in Value
    BY <1>2, <2>1, FixedPointer
  <2>3. SameObject(v0, Fixed(v0))
    BY <1>2, <2>2 DEF SameObject
  <2>4. ASSUME NEW v, SameObject(v0, v) PROVE v \in Value /\ Fixed(v) = v
    <3>1. PICK u \in live : v = NewPointer(u)
      BY <2>1, <2>4 DEF SameObject
    <3>. QED  BY <1>0, <3>1, FixedPointer
  <2>. QED  BY <2>2, <2>3, <2>4
<1>. QED  BY <1>1, <1>2

-----------------------------------------------------------------------------
\* Before the collection every word lies where its object starts.
LEMMA InitialWords ==
  ASSUME Init
  PROVE  /\ mem \in [0..(start[N + 1] - 1) -> Obj \X Nat]
         /\ \A o \in Obj : IntactAt(o, start[o])
<1> DEFINE Place(w) == {x \in Obj \X (0..HeapWords) : start[x[1]] + x[2] = w /\ x[2] < SizeOf(x[1])}
<1>0. Layout /\ start \in [1..(N + 1) -> 0..HeapWords]
  BY DEF Init, Layout
<1>1. \A w \in 0..(start[N + 1] - 1) : mem[w] = CHOOSE x \in Obj \X (0..HeapWords) : x \in Place(w)
  BY DEF Init, WordAt
<1>2. ASSUME NEW o \in Obj, NEW k \in 0..(SizeOf(o) - 1)
      PROVE  /\ start[o] + k \in 0..(start[N + 1] - 1)
             /\ Place(start[o] + k) = {<<o, k>>}
  <2>1. /\ start[o] \in Nat /\ SizeOf(o) \in Nat
        /\ start[o + 1] = start[o] + SizeOf(o) /\ start[o + 1] <= start[N + 1]
        /\ start[N + 1] \in Nat /\ start[N + 1] <= HeapWords
    BY <1>0, LayoutFacts
  <2>2. start[o] + k \in 0..(start[N + 1] - 1) /\ k \in 0..HeapWords
    BY <2>1
  <2>3. <<o, k>> \in Place(start[o] + k)
    BY <2>1, <2>2
  <2>4. ASSUME NEW p \in Obj, NEW m \in 0..HeapWords,
               start[p] + m = start[o] + k, m < SizeOf(p)
        PROVE  p = o /\ m = k
    <3>1. start[p] \in Nat /\ SizeOf(p) \in Nat
      BY <1>0, LayoutFacts
    <3>2. CASE p < o
      <4>1. start[p] + SizeOf(p) <= start[o]
        BY <1>0, <3>2, LayoutFacts
      <4>. QED  BY <2>1, <2>4, <3>1, <4>1
    <3>3. CASE o < p
      <4>1. start[o] + SizeOf(o) <= start[p]
        BY <1>0, <3>3, LayoutFacts
      <4>. QED  BY <2>1, <2>4, <3>1, <4>1
    <3>4. CASE o = p
      BY <2>1, <2>4, <3>4
    <3>. QED  BY <3>2, <3>3, <3>4
  <2>5. \A x \in Place(start[o] + k) : x = <<o, k>>
    BY <2>4
  <2>. QED  BY <2>2, <2>3, <2>5
<1>3. ASSUME NEW o \in Obj, NEW k \in 0..(SizeOf(o) - 1)
      PROVE  mem[start[o] + k] = <<o, k>>
  <2>1. start[o] + k \in 0..(start[N + 1] - 1) /\ Place(start[o] + k) = {<<o, k>>}
    BY <1>2
  <2>2. <<o, k>> \in Obj \X (0..HeapWords)
    BY <2>1
  <2>3. mem[start[o] + k] \in Place(start[o] + k)
    <3>1. mem[start[o] + k] = CHOOSE x \in Obj \X (0..HeapWords) : x \in Place(start[o] + k)
      BY <1>1, <2>1
    <3>2. \E x \in Obj \X (0..HeapWords) : x \in Place(start[o] + k)
      BY <2>1, <2>2
    <3>. HIDE DEF Place
    <3>. QED  BY <3>1, <3>2
  <2>. QED  BY <2>1, <2>3
<1>4. ASSUME NEW w \in 0..(start[N + 1] - 1) PROVE mem[w] \in Obj \X Nat
  <2>1. PICK o \in Obj : start[o] <= w /\ w < start[o + 1]
    BY <1>0 DEF Layout
  <2>2. w \in Nat /\ start[o] \in Nat /\ start[o + 1] = start[o] + SizeOf(o) /\ SizeOf(o) \in Nat
    BY <1>0, LayoutFacts
  <2>3. PICK k \in 0..(SizeOf(o) - 1) : start[o] + k = w
    <3>1. w - start[o] \in 0..(SizeOf(o) - 1) /\ start[o] + (w - start[o]) = w
      BY <2>1, <2>2
    <3>. QED  BY <3>1
  <2>4. mem[start[o] + k] = <<o, k>>
    BY <1>3
  <2>5. mem[w] = <<o, k>>
    BY <2>3, <2>4, Zenon
  <2>6. k \in Nat
    BY <2>2
  <2>. QED  BY <2>5, <2>6
<1>5. mem = [w \in 0..(start[N + 1] - 1) |-> mem[w]]
  <2>1. mem = [w \in 0..(start[N + 1] - 1) |-> WordAt(w)]
    BY DEF Init
  <2>. QED  BY <2>1
<1>. QED  BY <1>3, <1>4, <1>5 DEF IntactAt

LEMMA InitIInv == Init => IInv
<1> SUFFICES ASSUME Init PROVE IInv
  OBVIOUS
<1>0. Layout /\ live \subseteq Obj
  BY DEF Init
<1>1. TypeOK
  <2>1. /\ start \in [1..(N + 1) -> 0..HeapWords] /\ start[N + 1] \in Nat
        /\ extra \in [Extra -> Cell]
        /\ live \subseteq Obj /\ marked = live
        /\ fields0 = fields /\ cells0 = cells
        /\ forward \in [Obj -> Nat]
        /\ free = 0 /\ scan = 1 /\ current = start[N + 1]
        /\ size \in Nat /\ request \in Nat /\ mapped = {"old"} /\ pc = "locate"
    <3>1. start \in [1..(N + 1) -> 0..HeapWords] /\ start[N + 1] \in Nat
      BY <1>0 DEF Layout
    <3>2. /\ extra \in [Extra -> Cell] /\ live \subseteq Obj /\ marked = live
          /\ fields0 = fields /\ cells0 = cells
      BY DEF Init
    <3>3. forward = [o \in Obj |-> 0] /\ free = 0 /\ scan = 1 /\ current = start[N + 1]
      BY DEF Init
    <3>4. /\ size \in HeapSizes /\ request \in Requests
          /\ mapped = {"old"} /\ pc = "locate"
      BY DEF Init
    <3>. QED  BY <3>1, <3>2, <3>3, <3>4
  <2>2. \A t \in Obj : OldPointer(t) \in Value
    <3> SUFFICES ASSUME NEW t \in Obj PROVE OldPointer(t) \in Value
      OBVIOUS
    <3>1. start[t] + 2 \in Nat
      BY <1>0, LayoutFacts
    <3>. QED  BY <3>1 DEF OldPointer, Content, Value, Pointer, Chunk
  <2>3. fields \in [Obj -> [Field -> Value]]
    <3>1. {NotHeap} \union {OldPointer(o) : o \in Obj} \subseteq Value
      BY <2>2 DEF Value
    <3>2. fields \in [Obj -> [Field -> {NotHeap} \union {OldPointer(o) : o \in Obj}]]
      BY DEF Init
    <3>. QED  BY <3>1, <3>2
  <2>4. cells \in [Cell -> Value]
    <3>1. {NotHeap} \union {OldPointer(o) : o \in live} \subseteq Value
      BY <1>0, <2>2 DEF Value
    <3>2. cells \in [Cell -> {NotHeap} \union {OldPointer(o) : o \in live}]
      BY DEF Init
    <3>. QED  BY <3>1, <3>2
  <2>. QED  BY <2>1, <2>3, <2>4, InitialWords DEF TypeOK, Chunk
<1>2. Given
  BY DEF Init, Given, MarkPhaseDone, FrameWords
<1>3. ForwardsSlideDown
  BY <1>0 DEF Init, ForwardsSlideDown, Located, Layout
<1>4. ReferencesFollow
  BY DEF Init, ReferencesFollow, FixedObjects, FixedCells, FrameWords
<1>5. WordsInPlace
  BY InitialWords DEF Init, WordsInPlace, NothingOverwritten
<1>6. RegionsInStep
  BY DEF Init, RegionsInStep
<1>. QED  BY <1>1, <1>2, <1>3, <1>4, <1>5, <1>6 DEF IInv

-----------------------------------------------------------------------------
\* What the heap was given stays what it was.
LEMMA GivenStays ==
  ASSUME Given, UNCHANGED layout PROVE Given'
BY DEF Given, layout, Layout, SizeOf, MarkPhaseDone, FrameWords, RootCells, OldPointer, Content

\* Facts about one object.
LEMMA ObjectFacts ==
  ASSUME IInv, NEW o \in Obj
  PROVE  /\ start[o] \in Nat /\ SizeOf(o) \in Nat /\ SizeOf(o) >= 2
         /\ start[o + 1] = start[o] + SizeOf(o) /\ start[o + 1] <= start[N + 1]
         /\ start[N + 1] \in Nat /\ o + 1 \in 1..(N + 1)
         /\ forward[o] \in Nat
<1>1. Layout
  BY DEF IInv, Given
<1>2. start[N + 1] \in Nat
  BY <1>1, LayoutFacts
<1>3. forward[o] \in Nat
  BY DEF IInv, TypeOK
<1>. QED  BY <1>1, <1>2, <1>3, LayoutFacts

LEMMA LayoutStays ==
  ASSUME UNCHANGED layout
  PROVE  /\ start' = start /\ live' = live /\ extra' = extra
         /\ request' = request /\ fields0' = fields0 /\ cells0' = cells0
         /\ \A o : SizeOf(o)' = SizeOf(o) /\ OldPointer(o)' = OldPointer(o)
         /\ RootCells' = RootCells
BY DEF layout, SizeOf, OldPointer, Content, RootCells

LEMMA LocateStep == ASSUME IInv, Locate PROVE IInv'
<1>0. TypeOK /\ Given /\ ForwardsSlideDown /\ ReferencesFollow /\ WordsInPlace /\ RegionsInStep
  BY DEF IInv
<1>1. /\ UNCHANGED layout
      /\ start' = start /\ live' = live /\ extra' = extra
      /\ request' = request /\ fields0' = fields0 /\ cells0' = cells0
      /\ RootCells' = RootCells
  BY LayoutStays DEF Locate
<1>2. Given'
  BY <1>0, <1>1, GivenStays
<1>3. scan \in Obj /\ scan' = scan + 1 /\ pc = "locate" /\ pc' = "locate"
  BY <1>0 DEF Locate, ForwardsSlideDown
<1>4. \A o : SizeOf(o)' = SizeOf(o)
  BY <1>1, LayoutStays
<1>10. /\ fields' = fields /\ cells' = cells /\ marked' = marked /\ mem' = mem
       /\ size' = size /\ current' = current /\ mapped' = mapped
  BY DEF Locate
<1>5. TypeOK'
  <2>1. SizeOf(scan) \in Nat
    BY <1>3, ObjectFacts
  <2>2. free \in Nat /\ forward \in [Obj -> Nat] /\ scan \in Nat
    BY <1>0 DEF TypeOK
  <2>3. forward' \in [Obj -> Nat] /\ free' \in Nat
    BY <1>3, <2>1, <2>2 DEF Locate
  <2>4. scan' \in Nat
    BY <1>3, <2>2
  <2>. QED  BY <1>0, <1>1, <1>3, <1>10, <2>3, <2>4 DEF TypeOK
<1>6. ForwardsSlideDown'
  <2>0. /\ free \in Nat /\ free <= start[scan] /\ scan' \in 1..(N + 1)
        /\ start[scan] \in Nat /\ SizeOf(scan) \in Nat
        /\ start[scan + 1] = start[scan] + SizeOf(scan)
        /\ start[scan + 1] <= start[N + 1] /\ start[N + 1] \in Nat
    BY <1>0, <1>3, ObjectFacts DEF ForwardsSlideDown, TypeOK
  <2>1. CASE scan \in marked
    <3> PICK s \in Obj : s = scan
      BY <1>3
    <3>1. /\ forward' = [forward EXCEPT ![s] = free]
          /\ free' = free + SizeOf(s)
          /\ s \in live
      BY <1>0, <2>1 DEF Locate, TypeOK
    <3>2. Located' = Located \union {s} /\ \A o \in Located : o < scan
      <4>1. live \subseteq Obj
        BY <1>0 DEF TypeOK
      <4>2. Located = {o \in live : o < scan} /\ Located' = {o \in live : o < scan + 1}
        BY <1>1, <1>3 DEF Located
      <4>3. \A o \in live : o < scan + 1 <=> o < scan \/ o = s
        BY <1>3, <4>1
      <4>. QED  BY <3>1, <4>2, <4>3
    <3>3. \A o \in Located : o \in Obj /\ forward'[o] = forward[o]
      BY <1>0, <1>3, <3>1, <3>2 DEF TypeOK, Located
    <3>4. forward'[s] = free
      BY <1>0, <1>3, <3>1 DEF TypeOK
    <3>5. \A o \in Located' : forward'[o] <= start'[o] /\ forward'[o] + SizeOf(o)' <= free'
      <4>1. ASSUME NEW o \in Located
            PROVE  forward'[o] <= start'[o] /\ forward'[o] + SizeOf(o)' <= free'
        <5>1. o \in Obj /\ forward[o] <= start[o] /\ forward[o] + SizeOf(o) <= free
          BY <1>0, <3>3 DEF ForwardsSlideDown
        <5>2. start[o] \in Nat /\ SizeOf(o) \in Nat /\ forward[o] \in Nat
          BY <5>1, ObjectFacts
        <5>. QED  BY <1>1, <1>4, <2>0, <3>1, <3>3, <5>1, <5>2
      <4>2. forward'[s] <= start'[s] /\ forward'[s] + SizeOf(s)' <= free'
        <5>1. forward'[s] = free /\ start'[s] = start[s] /\ SizeOf(s)' = SizeOf(s)
          BY <1>1, <1>4, <3>4
        <5>. QED  BY <2>0, <3>1, <5>1
      <4>. QED  BY <3>2, <4>1, <4>2
    <3>6. \A o, p \in Located' : o < p => forward'[o] + SizeOf(o)' <= forward'[p]
      <4> SUFFICES ASSUME NEW o \in Located', NEW p \in Located', o < p
                   PROVE  forward'[o] + SizeOf(o)' <= forward'[p]
        OBVIOUS
      <4>1. CASE p = s
        <5>1. o \in Located
          BY <1>3, <3>2, <4>1
        <5>2. forward[o] + SizeOf(o) <= free
          BY <1>0, <5>1 DEF ForwardsSlideDown
        <5>. QED  BY <1>4, <3>3, <3>4, <4>1, <5>1, <5>2
      <4>2. CASE p \in Located
        <5>1. p < scan /\ p \in Obj
          BY <3>2, <3>3, <4>2
        <5>2. o \in Located
          BY <1>3, <3>2, <3>3, <5>1
        <5>3. forward[o] + SizeOf(o) <= forward[p]
          BY <1>0, <4>2, <5>2 DEF ForwardsSlideDown
        <5>. QED  BY <1>4, <3>3, <4>2, <5>2, <5>3
      <4>. QED  BY <3>2, <4>1, <4>2
    <3>7. ASSUME NEW w \in 0..(free' - 1)
          PROVE  \E o \in Located' : forward'[o] <= w /\ w < forward'[o] + SizeOf(o)'
      <4>1. CASE w < free
        <5>1. w \in 0..(free - 1)
          BY <2>0, <3>1, <4>1
        <5>2. PICK o \in Located : forward[o] <= w /\ w < forward[o] + SizeOf(o)
          BY <1>0, <5>1 DEF ForwardsSlideDown
        <5>. QED  BY <1>4, <3>2, <3>3, <5>2
      <4>2. CASE w >= free
        <5>1. forward'[s] <= w /\ w < forward'[s] + SizeOf(s)'
          <6>1. forward'[s] = free /\ SizeOf(s)' = SizeOf(s)
            BY <1>4, <3>4
          <6>. QED  BY <2>0, <3>1, <4>2, <6>1
        <5>. QED  BY <3>2, <5>1
      <4>. QED  BY <2>0, <3>1, <4>1, <4>2
    <3>8. free' <= start'[scan'] /\ free' <= start'[N + 1]
      BY <1>1, <1>3, <2>0, <3>1
    <3>. QED  BY <1>3, <2>0, <3>5, <3>6, <3>7, <3>8 DEF ForwardsSlideDown
  <2>2. CASE scan \notin marked
    <3>1. UNCHANGED <<forward, free>> /\ scan \notin live
      BY <1>0, <1>3, <2>2 DEF Locate, WordsInPlace
    <3>2. Located' = Located
      <4>1. live \subseteq Obj
        BY <1>0 DEF TypeOK
      <4>2. Located = {o \in live : o < scan} /\ Located' = {o \in live : o < scan + 1}
        BY <1>1, <1>3 DEF Located
      <4>3. \A o \in live : o < scan + 1 <=> o < scan
        BY <1>3, <3>1, <4>1
      <4>. QED  BY <4>2, <4>3
    <3>3. free' <= start'[scan'] /\ free' <= start'[N + 1]
      BY <1>1, <1>3, <2>0, <3>1
    <3>4. \A o \in Located : o \in Obj
      BY <1>0 DEF Located, TypeOK
    <3>. QED  BY <1>0, <1>1, <1>3, <1>4, <2>0, <3>1, <3>2, <3>3, <3>4 DEF ForwardsSlideDown
  <2>. QED  BY <2>1, <2>2
<1>7. ReferencesFollow'
  <2>1. FixedObjects' = {} /\ FixedCells' = {} /\ FixedObjects = {} /\ FixedCells = {}
    BY <1>3 DEF FixedObjects, FixedCells
  <2>. QED  BY <1>0, <1>1, <1>3, <1>10, <2>1 DEF ReferencesFollow
<1>8. WordsInPlace'
  BY <1>0, <1>1, <1>3, <1>4, <1>10 DEF WordsInPlace, NothingOverwritten, IntactAt
<1>9. RegionsInStep'
  BY <1>0, <1>1, <1>3, <1>10 DEF RegionsInStep
<1>. QED  BY <1>2, <1>5, <1>6, <1>7, <1>8, <1>9 DEF IInv

\* Once all objects are located their forward addresses stay as they are.
LEMMA ForwardsKept ==
  ASSUME IInv, UNCHANGED layout, forward' = forward, free' = free,
         pc' # "locate", pc = "locate" => scan = N + 1,
         pc' = "exited" => scan' = N + 1
  PROVE  /\ ForwardsSlideDown'
         /\ Located = live /\ Located' = live
<1>0. TypeOK /\ ForwardsSlideDown
  BY DEF IInv
<1>1. start' = start /\ live' = live
  BY LayoutStays
<1>2. \A o : SizeOf(o)' = SizeOf(o)
  BY LayoutStays
<1>3. Located = live /\ Located' = live
  <2>1. live \subseteq Obj
    BY <1>0 DEF TypeOK
  <2>2. \A o \in live : o < N + 1
    BY <2>1
  <2>3. \A o \in live : pc = "locate" => o < scan
    BY <2>2
  <2>. QED  BY <1>1, <2>3 DEF Located
<1>4. \A o \in Located' : forward'[o] <= start'[o] /\ forward'[o] + SizeOf(o)' <= free'
  BY <1>0, <1>1, <1>2, <1>3 DEF ForwardsSlideDown
<1>5. \A o, p \in Located' : o < p => forward'[o] + SizeOf(o)' <= forward'[p]
  BY <1>0, <1>2, <1>3 DEF ForwardsSlideDown
<1>6. \A w \in 0..(free' - 1) :
        \E o \in Located' : forward'[o] <= w /\ w < forward'[o] + SizeOf(o)'
  BY <1>0, <1>2, <1>3 DEF ForwardsSlideDown
<1>7. free' <= start'[N + 1]
  BY <1>0, <1>1 DEF ForwardsSlideDown
<1>8. pc' # "locate" /\ (pc' = "exited" => scan' = N + 1)
  OBVIOUS
<1>. QED  BY <1>3, <1>4, <1>5, <1>6, <1>7, <1>8 DEF ForwardsSlideDown

\* Words that stay where they are while nothing is relocated.
LEMMA WordsKept ==
  ASSUME IInv, UNCHANGED layout, mem' = mem, marked' = marked,
         pc \in {"locate", "fields", "extra"}, pc' \in {"locate", "fields", "extra"}
  PROVE  WordsInPlace'
<1>1. start' = start /\ live' = live /\ \A o : SizeOf(o)' = SizeOf(o)
  BY LayoutStays
<1>2. WordsInPlace
  BY DEF IInv
<1>3. marked' = live' /\ \A o \in Obj : IntactAt(o, start[o])'
  BY <1>1, <1>2 DEF WordsInPlace, IntactAt
<1>. QED  BY <1>3 DEF WordsInPlace, NothingOverwritten

LEMMA MapAndCopyStep == ASSUME IInv, MapAndCopy PROVE IInv'
<1>0. TypeOK /\ Given /\ ForwardsSlideDown /\ ReferencesFollow /\ WordsInPlace /\ RegionsInStep
  BY DEF IInv
<1>1. /\ UNCHANGED layout
      /\ start' = start /\ live' = live /\ extra' = extra
      /\ request' = request /\ fields0' = fields0 /\ cells0' = cells0
      /\ RootCells' = RootCells
  BY LayoutStays DEF MapAndCopy
<1>2. /\ pc = "locate" /\ scan = N + 1 /\ pc' = "fields" /\ scan' = 1
      /\ fields' = fields /\ cells' = cells /\ marked' = marked /\ mem' = mem
      /\ forward' = forward /\ free' = free /\ current' = current
      /\ mapped' = mapped \union {"new"} /\ size' = NextHeapSize
  BY DEF MapAndCopy
<1>3. NextHeapSize \in Nat /\ free * 2 + request <= NextHeapSize
  <2>1. free \in Nat /\ request \in Nat /\ size \in Nat
    BY <1>0 DEF TypeOK
  <2>2. free * 2 + request \in Nat
    BY <2>1
  <2>. QED  BY <2>1, <2>2 DEF NextHeapSize, Larger
<1>4. TypeOK'
  BY <1>0, <1>1, <1>2, <1>3 DEF TypeOK, Chunk
<1>5. Given' /\ ForwardsSlideDown' /\ WordsInPlace'
  BY <1>0, <1>1, <1>2, GivenStays, ForwardsKept, WordsKept
<1>6. ReferencesFollow'
  <2>1. live \subseteq Obj
    BY <1>0 DEF TypeOK
  <2>2. FixedObjects' = {} /\ FixedCells' = {} /\ FixedObjects = {} /\ FixedCells = {}
    <3>1. FixedCells' = {} /\ FixedCells = {} /\ FixedObjects = {}
      BY <1>2 DEF FixedObjects, FixedCells
    <3>2. FixedObjects' = {o \in live : o < 1}
      BY <1>1, <1>2 DEF FixedObjects
    <3>3. {o \in live : o < 1} = {}
      <4>1. \A o \in live : ~(o < 1)
        BY <2>1
      <4>. QED  BY <4>1
    <3>. QED  BY <3>1, <3>2, <3>3
  <2>. QED  BY <1>0, <1>1, <1>2, <2>2 DEF ReferencesFollow
<1>7. RegionsInStep'
  <2>1. current' = start'[N + 1]
    BY <1>0, <1>1, <1>2 DEF RegionsInStep
  <2>2. "old" \in mapped' /\ "new" \in mapped'
    <3>1. "old" \in mapped <=> pc # "done"
      BY <1>0 DEF RegionsInStep
    <3>2. mapped' = mapped \union {"new"} /\ pc # "done"
      BY <1>2
    <3>. QED  BY <3>1, <3>2
  <2>3. free' * 2 + request' <= size'
    BY <1>1, <1>2, <1>3
  <2>. QED  BY <1>2, <2>1, <2>2, <2>3 DEF RegionsInStep
<1>. QED  BY <1>4, <1>5, <1>6, <1>7 DEF IInv

LEMMA MapFailsStep == ASSUME IInv, MapFails PROVE IInv'
<1>0. TypeOK /\ Given /\ ForwardsSlideDown /\ ReferencesFollow /\ WordsInPlace /\ RegionsInStep
  BY DEF IInv
<1>1. /\ UNCHANGED layout
      /\ start' = start /\ live' = live /\ extra' = extra
      /\ request' = request /\ fields0' = fields0 /\ cells0' = cells0
      /\ RootCells' = RootCells
  BY LayoutStays DEF MapFails
<1>2. /\ pc = "locate" /\ scan = N + 1 /\ pc' = "exited" /\ scan' = scan
      /\ fields' = fields /\ cells' = cells /\ marked' = marked /\ mem' = mem
      /\ forward' = forward /\ free' = free /\ current' = current
      /\ mapped' = mapped /\ size' = size
  BY DEF MapFails
<1>4. TypeOK'
  BY <1>0, <1>1, <1>2 DEF TypeOK
<1>5. Given' /\ ForwardsSlideDown'
  BY <1>0, <1>1, <1>2, GivenStays, ForwardsKept
<1>6. ReferencesFollow'
  <2>1. FixedObjects' = {} /\ FixedCells' = {} /\ FixedObjects = {} /\ FixedCells = {}
    BY <1>1, <1>2 DEF FixedObjects, FixedCells
  <2>. QED  BY <1>0, <1>1, <1>2, <2>1 DEF ReferencesFollow
<1>7. RegionsInStep' /\ WordsInPlace'
  BY <1>0, <1>1, <1>2 DEF RegionsInStep, WordsInPlace, NothingOverwritten
<1>. QED  BY <1>4, <1>5, <1>6, <1>7 DEF IInv

\* What Fixed does to a word the collection was given.
LEMMA FixedWord ==
  ASSUME IInv, pc \in {"fields", "extra"}
  PROVE  /\ \A o \in live : \A f \in Field :
              /\ Fixed(fields0[o][f]) \in Value
              /\ SameObject(fields0[o][f], Fixed(fields0[o][f]))
         /\ \A a \in RootCells :
              /\ Fixed(cells0[a]) \in Value
              /\ SameObject(cells0[a], Fixed(cells0[a]))
              /\ \A v : SameObject(cells0[a], v) => v \in Value /\ Fixed(v) = v
<1>1. TypeOK /\ Layout /\ \A o \in Obj : IntactAt(o, start[o])
  BY DEF IInv, Given, WordsInPlace
<1>2. MarkPhaseDone(fields0, cells0)
  BY DEF IInv, Given
<1>3. ASSUME NEW o \in live, NEW f \in Field
      PROVE  Fixed(fields0[o][f]) \in Value /\ SameObject(fields0[o][f], Fixed(fields0[o][f]))
  <2>1. fields0[o][f] \in {OldPointer(t) : t \in live} \union {NotHeap}
    BY <1>2 DEF MarkPhaseDone
  <2>. QED  BY <1>1, <2>1, FixedGiven
<1>4. ASSUME NEW a \in RootCells
      PROVE  /\ Fixed(cells0[a]) \in Value
             /\ SameObject(cells0[a], Fixed(cells0[a]))
             /\ \A v : SameObject(cells0[a], v) => v \in Value /\ Fixed(v) = v
  <2>1. cells0[a] \in {OldPointer(t) : t \in live} \union {NotHeap}
    BY <1>2 DEF MarkPhaseDone
  <2>. QED  BY <1>1, <2>1, FixedGiven
<1>. QED  BY <1>3, <1>4

\* SameObject depends on nothing the update of the references changes.
LEMMA SameObjectStays ==
  ASSUME UNCHANGED layout, forward' = forward, NEW CONSTANT x, NEW CONSTANT y
  PROVE  SameObject(x, y)' <=> SameObject(x, y)
<1>1. start' = start /\ live' = live
  BY LayoutStays
<1>. QED  BY <1>1 DEF SameObject, OldPointer, NewPointer, Content

LEMMA UpdateFieldsStep == ASSUME IInv, UpdateFields PROVE IInv'
<1>0. TypeOK /\ Given /\ ForwardsSlideDown /\ ReferencesFollow /\ WordsInPlace /\ RegionsInStep
  BY DEF IInv
<1>1. /\ UNCHANGED layout
      /\ start' = start /\ live' = live /\ extra' = extra
      /\ request' = request /\ fields0' = fields0 /\ cells0' = cells0
      /\ RootCells' = RootCells
  BY LayoutStays DEF UpdateFields
<1>2. /\ pc = "fields" /\ pc' = "fields" /\ scan' = scan + 1 /\ scan \in Obj
      /\ cells' = cells /\ marked' = marked /\ mem' = mem
      /\ forward' = forward /\ free' = free /\ current' = current
      /\ mapped' = mapped /\ size' = size
  BY <1>0 DEF UpdateFields, ReferencesFollow
<1>3. /\ fields' = IF scan \in live
                   THEN [fields EXCEPT ![scan] = [f \in Field |-> Fixed(fields[scan][f])]]
                   ELSE fields
      /\ live \subseteq Obj
  BY <1>0, <1>2 DEF UpdateFields, WordsInPlace, TypeOK
<1>4. FixedObjects = {o \in live : o < scan} /\ FixedObjects' = {o \in live : o < scan + 1}
  BY <1>1, <1>2 DEF FixedObjects
<1>5. scan \in live => \A f \in Field : fields[scan][f] = fields0[scan][f]
  BY <1>0, <1>2, <1>4 DEF ReferencesFollow
<1>6. TypeOK'
  <2>1. fields' \in [Obj -> [Field -> Value]]
    <3>1. CASE scan \in live
      <4>1. [f \in Field |-> Fixed(fields[scan][f])] \in [Field -> Value]
        BY <1>2, <1>5, <3>1, FixedWord
      <4>2. fields' = [fields EXCEPT ![scan] = [f \in Field |-> Fixed(fields[scan][f])]]
        BY <1>3, <3>1
      <4>3. fields \in [Obj -> [Field -> Value]]
        BY <1>0 DEF TypeOK
      <4>. QED  BY <1>2, <4>1, <4>2, <4>3
    <3>2. CASE scan \notin live
      BY <1>0, <1>3, <3>2 DEF TypeOK
    <3>. QED  BY <3>1, <3>2
  <2>. QED  BY <1>0, <1>1, <1>2, <2>1 DEF TypeOK
<1>7. Given' /\ ForwardsSlideDown' /\ WordsInPlace'
  BY <1>0, <1>1, <1>2, GivenStays, ForwardsKept, WordsKept
<1>8. ReferencesFollow'
  <2>1. ASSUME NEW o \in live, NEW f \in Field
        PROVE  IF o \in FixedObjects' THEN SameObject(fields0[o][f], fields'[o][f])
                                      ELSE fields'[o][f] = fields0[o][f]
    <3>0. o \in Obj /\ fields \in [Obj -> [Field -> Value]]
      BY <1>0, <1>3 DEF TypeOK
    <3>1. CASE o = scan
      <4>1. fields'[o][f] = Fixed(fields0[o][f])
        BY <1>3, <1>5, <2>1, <3>0, <3>1
      <4>2. SameObject(fields0[o][f], Fixed(fields0[o][f]))
        BY <1>2, <2>1, FixedWord
      <4>3. o \in FixedObjects'
        BY <1>2, <1>4, <2>1, <3>1
      <4>. QED  BY <4>1, <4>2, <4>3
    <3>2. CASE o # scan
      <4>1. fields'[o] = fields[o]
        BY <1>3, <3>0, <3>2
      <4>2. o \in FixedObjects' <=> o \in FixedObjects
        BY <1>2, <1>4, <3>0, <3>2
      <4>3. IF o \in FixedObjects THEN SameObject(fields0[o][f], fields[o][f])
                                  ELSE fields[o][f] = fields0[o][f]
        BY <1>0, <2>1 DEF ReferencesFollow
      <4>. QED  BY <4>1, <4>2, <4>3
    <3>. QED  BY <3>1, <3>2
  <2>2. \A x, y : SameObject(x, y)' <=> SameObject(x, y)
    BY <1>1, <1>2, SameObjectStays
  <2>3. ASSUME NEW o \in live, NEW f \in Field
        PROVE  IF o \in FixedObjects' THEN SameObject(fields0[o][f], fields[o][f])'
                                      ELSE fields'[o][f] = fields0'[o][f]
    <3>1. SameObject(fields0[o][f], fields[o][f])' <=> SameObject(fields0[o][f], fields'[o][f])
      BY <1>1, <1>2 DEF SameObject, OldPointer, NewPointer, Content
    <3>. QED  BY <1>1, <2>1, <3>1
  <2>4. FixedCells' = {} /\ FixedCells = {}
    BY <1>2 DEF FixedCells
  <2>5. \A a \in RootCells : cells'[a] = cells0'[a]
    BY <1>0, <1>1, <1>2, <2>4 DEF ReferencesFollow
  <2>6. cells'[StackBottom] = NotHeap /\ scan' \in 1..(N + 1)
    BY <1>0, <1>2 DEF ReferencesFollow
  <2>. QED  BY <1>1, <1>2, <2>3, <2>4, <2>5, <2>6 DEF ReferencesFollow
<1>9. RegionsInStep'
  BY <1>0, <1>1, <1>2 DEF RegionsInStep
<1>. QED  BY <1>6, <1>7, <1>8, <1>9 DEF IInv

\* Live fields keep leading to the new region once they all do.
LEMMA FieldsKept ==
  ASSUME IInv, UNCHANGED layout, fields' = fields, forward' = forward,
         FixedObjects = live, FixedObjects' = live
  PROVE  \A o \in live : \A f \in Field :
           /\ SameObject(fields0[o][f], fields[o][f])
           /\ SameObject(fields0[o][f], fields[o][f])'
<1>1. start' = start /\ live' = live /\ fields0' = fields0
  BY LayoutStays
<1>2. \A o \in live : \A f \in Field : SameObject(fields0[o][f], fields[o][f])
  BY DEF IInv, ReferencesFollow
<1>3. \A o \in live : \A f \in Field :
        SameObject(fields0[o][f], fields[o][f])' <=> SameObject(fields0[o][f], fields[o][f])
  BY <1>1 DEF SameObject, OldPointer, NewPointer, Content
<1>. QED  BY <1>2, <1>3

\* Where the root cells lie.
LEMMA CellFacts ==
  ASSUME IInv
  PROVE  /\ RootCells \subseteq Cell
         /\ StackBottom \in Cell /\ StackBottom \notin RootCells
         /\ \A a \in RootCells : a \in (StackTop + 1)..StackBottom <=> a \in MarkedStack
         /\ \A a \in RootCells : a \in MarkedGlobal <=> a \in StartCustom..(StopCustom - 1)
         /\ \A i \in Extra : SkippedExtra(extra[i]) =>
              extra[i] \in MarkedStack \union MarkedGlobal
<1> USE DEF StackTop, StackBottom, StartCustom, StopCustom, MarkedStack, MarkedGlobal, Cell
<1>1. /\ extra \in [Extra -> Cell]
      /\ \A i \in Extra : extra[i] \notin {StackTop, StackBottom, StopCustom}
  BY DEF IInv, TypeOK, Given, FrameWords
<1>2. StackWords \in Nat \ {0} /\ CCells \in Nat /\ GlobalWords \in Nat
  OBVIOUS
<1>3. \A a \in RootCells :
        a \in Int /\ (a \in MarkedStack \/ a \in MarkedGlobal \/ \E i \in Extra : a = extra[i])
  BY <1>1, <1>2 DEF RootCells
<1>4. MarkedStack \subseteq Cell /\ MarkedGlobal \subseteq Cell /\ StackBottom \in Cell
  BY <1>2
<1>5. RootCells \subseteq Cell
  BY <1>1, <1>4 DEF RootCells
<1>6. StackBottom \notin RootCells
  BY <1>1, <1>2, <1>3
<1>7. \A a \in RootCells : a \in (StackTop + 1)..StackBottom <=> a \in MarkedStack
  BY <1>2, <1>3, <1>6
<1>8. \A i \in Extra : SkippedExtra(extra[i]) => extra[i] \in MarkedStack \union MarkedGlobal
  <2> SUFFICES ASSUME NEW i \in Extra, SkippedExtra(extra[i])
               PROVE  extra[i] \in MarkedStack \union MarkedGlobal
    OBVIOUS
  <2>1. extra[i] \in Cell /\ extra[i] # 0 /\ extra[i] # StopCustom
    BY <1>1
  <2>2. extra[i] \in Int
    BY <1>2, <2>1
  <2>. QED  BY <1>2, <2>1, <2>2 DEF SkippedExtra
<1>. QED  BY <1>4, <1>5, <1>6, <1>7, <1>8

\* Redirecting a root word once more, or for the first time, is the same.
LEMMA FixedCell ==
  ASSUME IInv, pc \in {"fields", "extra"}, NEW a \in RootCells
  PROVE  Fixed(cells[a]) \in Value /\ SameObject(cells0[a], Fixed(cells[a]))
<1>1. CASE a \in FixedCells
  <2>1. SameObject(cells0[a], cells[a])
    BY <1>1 DEF IInv, ReferencesFollow
  <2>2. cells[a] \in Value /\ Fixed(cells[a]) = cells[a]
    BY <2>1, FixedWord
  <2>. QED  BY <2>1, <2>2
<1>2. CASE a \notin FixedCells
  <2>1. cells[a] = cells0[a]
    BY <1>2 DEF IInv, ReferencesFollow
  <2>. QED  BY <2>1, FixedWord
<1>. QED  BY <1>1, <1>2

\* SameObject between the words of one cell, in the next state.
LEMMA CellKept ==
  ASSUME UNCHANGED layout, forward' = forward
  PROVE  \A a : SameObject(cells0[a], cells[a])' <=> SameObject(cells0[a], cells'[a])
<1>1. start' = start /\ live' = live /\ cells0' = cells0
  BY LayoutStays
<1>. QED  BY <1>1 DEF SameObject, OldPointer, NewPointer, Content

LEMMA UpdateStackStep == ASSUME IInv, UpdateStack PROVE IInv'
<1>0. TypeOK /\ Given /\ ForwardsSlideDown /\ ReferencesFollow /\ WordsInPlace /\ RegionsInStep
  BY DEF IInv
<1>1. /\ UNCHANGED layout
      /\ start' = start /\ live' = live /\ extra' = extra
      /\ request' = request /\ fields0' = fields0 /\ cells0' = cells0
      /\ RootCells' = RootCells
  BY LayoutStays DEF UpdateStack
<1>2. /\ pc = "fields" /\ pc' = "extra" /\ scan = N + 1 /\ scan' = 1
      /\ fields' = fields /\ marked' = marked /\ mem' = mem
      /\ forward' = forward /\ free' = free /\ current' = current
      /\ mapped' = mapped /\ size' = size
  BY DEF UpdateStack
<1>3. cells' = [a \in Cell |-> IF a \in (StackTop + 1)..StackBottom
                              THEN Fixed(cells[a]) ELSE cells[a]]
  BY DEF UpdateStack, FixRegion
<1>4. \A a \in RootCells :
        cells'[a] = IF a \in MarkedStack THEN Fixed(cells[a]) ELSE cells[a]
  BY <1>3, CellFacts
<1>5. cells'[StackBottom] = NotHeap
  <2>1. Fixed(cells[StackBottom]) = NotHeap /\ cells[StackBottom] = NotHeap
    BY <1>0 DEF ReferencesFollow, Fixed, PointsToOldHeap
  <2>. QED  BY <1>3, <2>1, CellFacts
<1>6. cells' \in [Cell -> Value]
  <2>1. ASSUME NEW a \in Cell PROVE cells'[a] \in Value
    <3>1. CASE a \in (StackTop + 1)..StackBottom
      <4>1. a = StackBottom \/ a \in MarkedStack
        BY <3>1 DEF MarkedStack, StackTop, StackBottom
      <4>2. CASE a = StackBottom
        BY <1>5, <4>2 DEF Value
      <4>3. CASE a \in MarkedStack
        <5>1. a \in RootCells
          BY <4>3 DEF RootCells
        <5>. QED  BY <1>2, <1>4, <4>3, <5>1, FixedCell
      <4>. QED  BY <4>1, <4>2, <4>3
    <3>2. CASE a \notin (StackTop + 1)..StackBottom
      BY <1>0, <1>3, <3>2 DEF TypeOK
    <3>. QED  BY <3>1, <3>2
  <2>. QED  BY <1>3, <2>1
<1>7. TypeOK'
  BY <1>0, <1>1, <1>2, <1>6 DEF TypeOK
<1>8. Given' /\ ForwardsSlideDown' /\ WordsInPlace'
  BY <1>0, <1>1, <1>2, GivenStays, ForwardsKept, WordsKept
<1>9. ReferencesFollow'
  <2>1. FixedObjects = live /\ FixedObjects' = live
    <3>1. live \subseteq Obj
      BY <1>0 DEF TypeOK
    <3>2. \A o \in live : o < scan
      BY <1>2, <3>1
    <3>. QED  BY <1>1, <1>2, <3>2 DEF FixedObjects
  <2>2. \A o \in live : \A f \in Field : SameObject(fields0[o][f], fields[o][f])'
    BY <1>1, <1>2, <2>1, FieldsKept
  <2>3. FixedCells = {}
    BY <1>2 DEF FixedCells
  <2>4. FixedCells' = MarkedStack
    <3>1. \A i \in Extra : ~(i < 1)
      OBVIOUS
    <3>2. FixedCells' = {a \in RootCells : a \in MarkedStack}
      BY <1>1, <1>2, <3>1 DEF FixedCells
    <3>. QED  BY <3>2 DEF RootCells
  <2>5. ASSUME NEW a \in RootCells
        PROVE  IF a \in FixedCells' THEN SameObject(cells0[a], cells[a])' ELSE cells'[a] = cells0'[a]
    <3>1. CASE a \in MarkedStack
      <4>1. SameObject(cells0[a], cells'[a])
        BY <1>2, <1>4, <3>1, FixedCell
      <4>. QED  BY <1>1, <1>2, <2>4, <3>1, <4>1, CellKept
    <3>2. CASE a \notin MarkedStack
      BY <1>0, <1>1, <1>4, <2>3, <2>4, <3>2 DEF ReferencesFollow
    <3>. QED  BY <3>1, <3>2
  <2>6. pc' = "extra" /\ scan' \in 1..(ExtraRoots + 1)
    BY <1>2
  <2>. QED  BY <1>1, <1>5, <2>1, <2>2, <2>5, <2>6 DEF ReferencesFollow
<1>10. RegionsInStep'
  BY <1>0, <1>1, <1>2 DEF RegionsInStep
<1>. QED  BY <1>7, <1>8, <1>9, <1>10 DEF IInv

LEMMA UpdateExtraStep == ASSUME IInv, UpdateExtra PROVE IInv'
<1>0. TypeOK /\ Given /\ ForwardsSlideDown /\ ReferencesFollow /\ WordsInPlace /\ RegionsInStep
  BY DEF IInv
<1>1. /\ UNCHANGED layout
      /\ start' = start /\ live' = live /\ extra' = extra
      /\ request' = request /\ fields0' = fields0 /\ cells0' = cells0
      /\ RootCells' = RootCells
  BY LayoutStays DEF UpdateExtra
<1>2. /\ pc = "extra" /\ pc' = "extra" /\ scan' = scan + 1 /\ scan \in Extra
      /\ fields' = fields /\ marked' = marked /\ mem' = mem
      /\ forward' = forward /\ free' = free /\ current' = current
      /\ mapped' = mapped /\ size' = size
  BY <1>0 DEF UpdateExtra, ReferencesFollow
<1>3. extra[scan] \in RootCells /\ extra[scan] # StackBottom /\ extra[scan] \in Cell
  BY <1>2, CellFacts DEF RootCells
<1>4. cells' = IF SkippedExtra(extra[scan]) THEN cells
               ELSE [cells EXCEPT ![extra[scan]] = Fixed(cells[extra[scan]])]
  BY DEF UpdateExtra
<1>5. /\ cells' \in [Cell -> Value]
      /\ \A a \in Cell : cells'[a] = IF a = extra[scan] /\ ~SkippedExtra(a)
                                     THEN Fixed(cells[a]) ELSE cells[a]
  <2>1. Fixed(cells[extra[scan]]) \in Value
    BY <1>2, <1>3, FixedCell
  <2>2. cells \in [Cell -> Value]
    BY <1>0 DEF TypeOK
  <2>. QED  BY <1>3, <1>4, <2>1, <2>2
<1>6. TypeOK'
  <2>1. cells' \in [Cell -> Value]
    BY <1>5
  <2>2. scan' \in Nat
    BY <1>2
  <2>. QED  BY <1>0, <1>1, <1>2, <2>1, <2>2 DEF TypeOK
<1>7. Given' /\ ForwardsSlideDown' /\ WordsInPlace'
  BY <1>0, <1>1, <1>2, GivenStays, ForwardsKept, WordsKept
<1>8. ReferencesFollow'
  <2>1. FixedObjects = live /\ FixedObjects' = live
    BY <1>1, <1>2 DEF FixedObjects
  <2>2. \A o \in live : \A f \in Field : SameObject(fields0[o][f], fields[o][f])'
    BY <1>1, <1>2, <2>1, FieldsKept
  <2>3. \A a \in RootCells :
          a \in FixedCells' <=> a \in FixedCells \/ (a = extra[scan] /\ ~SkippedExtra(a))
    <3>1. \A i \in Extra : i < scan + 1 <=> i < scan \/ i = scan
      BY <1>2
    <3>2. \A a : SkippedExtra(a)' <=> SkippedExtra(a)
      BY DEF SkippedExtra
    <3>3. FixedCells = {a \in RootCells :
             \/ a \in MarkedStack
             \/ \E i \in Extra : i < scan /\ ~SkippedExtra(extra[i]) /\ a = extra[i]}
      BY <1>2 DEF FixedCells
    <3>4. FixedCells' = {a \in RootCells :
             \/ a \in MarkedStack
             \/ \E i \in Extra : i < scan + 1 /\ ~SkippedExtra(extra[i]) /\ a = extra[i]}
      BY <1>1, <1>2, <3>2 DEF FixedCells
    <3>. QED  BY <1>2, <3>1, <3>3, <3>4
  <2>4. ASSUME NEW a \in RootCells
        PROVE  IF a \in FixedCells' THEN SameObject(cells0[a], cells[a])' ELSE cells'[a] = cells0'[a]
    <3>0. a \in Cell
      BY CellFacts
    <3>1. CASE a = extra[scan] /\ ~SkippedExtra(a)
      <4>1. cells'[a] = Fixed(cells[a])
        BY <1>5, <3>0, <3>1
      <4>2. SameObject(cells0[a], cells'[a])
        BY <1>2, <4>1, FixedCell
      <4>. QED  BY <1>1, <1>2, <2>3, <3>1, <4>2, CellKept
    <3>2. CASE ~(a = extra[scan] /\ ~SkippedExtra(a))
      <4>1. cells'[a] = cells[a] /\ (a \in FixedCells' <=> a \in FixedCells)
        BY <1>5, <2>3, <3>0, <3>2
      <4>2. IF a \in FixedCells THEN SameObject(cells0[a], cells[a]) ELSE cells[a] = cells0[a]
        BY <1>0 DEF ReferencesFollow
      <4>. QED  BY <1>1, <1>2, <4>1, <4>2, CellKept
    <3>. QED  BY <3>1, <3>2
  <2>5. cells'[StackBottom] = NotHeap
    BY <1>0, <1>3, <1>5, CellFacts DEF ReferencesFollow
  <2>6. pc' = "extra" /\ scan' \in 1..(ExtraRoots + 1)
    BY <1>2
  <2>. QED  BY <1>1, <2>1, <2>2, <2>4, <2>5, <2>6 DEF ReferencesFollow
<1>9. RegionsInStep'
  BY <1>0, <1>1, <1>2 DEF RegionsInStep
<1>. QED  BY <1>6, <1>7, <1>8, <1>9 DEF IInv

LEMMA UpdateGlobalStep == ASSUME IInv, UpdateGlobal PROVE IInv'
<1>0. TypeOK /\ Given /\ ForwardsSlideDown /\ ReferencesFollow /\ WordsInPlace /\ RegionsInStep
  BY DEF IInv
<1>1. /\ UNCHANGED layout
      /\ start' = start /\ live' = live /\ extra' = extra
      /\ request' = request /\ fields0' = fields0 /\ cells0' = cells0
      /\ RootCells' = RootCells
  BY LayoutStays DEF UpdateGlobal
<1>2. /\ pc = "extra" /\ pc' = "relocate" /\ scan = ExtraRoots + 1 /\ scan' = 0
      /\ fields' = fields /\ marked' = marked /\ mem' = mem
      /\ forward' = forward /\ free' = free /\ current' = current
      /\ mapped' = mapped /\ size' = size
  BY DEF UpdateGlobal
<1>3. cells' = [a \in Cell |-> IF a \in MarkedGlobal THEN Fixed(cells[a]) ELSE cells[a]]
  BY DEF UpdateGlobal, FixRegion, MarkedGlobal
<1>4. cells' \in [Cell -> Value]
  <2>1. ASSUME NEW a \in Cell PROVE cells'[a] \in Value
    <3>1. CASE a \in MarkedGlobal
      BY <1>2, <1>3, <3>1, FixedCell DEF RootCells
    <3>2. CASE a \notin MarkedGlobal
      BY <1>0, <1>3, <3>2 DEF TypeOK
    <3>. QED  BY <3>1, <3>2
  <2>. QED  BY <1>3, <2>1
<1>5. TypeOK'
  BY <1>0, <1>1, <1>2, <1>4 DEF TypeOK
<1>6. Given' /\ ForwardsSlideDown'
  BY <1>0, <1>1, <1>2, GivenStays, ForwardsKept
<1>7. ReferencesFollow'
  <2>1. FixedObjects = live /\ FixedObjects' = live
    BY <1>1, <1>2 DEF FixedObjects
  <2>2. \A o \in live : \A f \in Field : SameObject(fields0[o][f], fields[o][f])'
    BY <1>1, <1>2, <2>1, FieldsKept
  <2>3. ASSUME NEW a \in RootCells PROVE SameObject(cells0[a], cells[a])'
    <3>0. a \in Cell
      BY CellFacts
    <3>1. CASE a \in MarkedGlobal
      <4>1. SameObject(cells0[a], cells'[a])
        BY <1>2, <1>3, <3>0, <3>1, FixedCell
      <4>. QED  BY <1>1, <1>2, <4>1, CellKept
    <3>2. CASE a \notin MarkedGlobal
      <4>1. a \in FixedCells
        <5>1. \A i \in Extra : i < scan
          BY <1>2
        <5>2. CASE a \in MarkedStack
          BY <1>2, <5>2 DEF FixedCells
        <5>3. CASE \E i \in Extra : a = extra[i]
          <6>1. PICK i \in Extra : a = extra[i]
            BY <5>3
          <6>2. a \in MarkedStack \/ ~SkippedExtra(extra[i])
            BY <3>2, <6>1, CellFacts
          <6>. QED  BY <1>2, <5>1, <6>1, <6>2 DEF FixedCells
        <5>. QED  BY <3>2, <5>2, <5>3 DEF RootCells
      <4>2. SameObject(cells0[a], cells[a]) /\ cells'[a] = cells[a]
        BY <1>0, <1>3, <3>0, <3>2, <4>1 DEF ReferencesFollow
      <4>. QED  BY <1>1, <1>2, <4>2, CellKept
    <3>. QED  BY <3>1, <3>2
  <2>4. cells'[StackBottom] = NotHeap
    <3>1. StackBottom \notin MarkedGlobal
      BY CellFacts DEF RootCells
    <3>. QED  BY <1>0, <1>3, <3>1, CellFacts DEF ReferencesFollow
  <2>5. FixedCells' = RootCells
    BY <1>1, <1>2 DEF FixedCells
  <2>. QED  BY <1>1, <1>2, <2>1, <2>2, <2>3, <2>4, <2>5 DEF ReferencesFollow
<1>8. WordsInPlace'
  <2>1. \A o \in Obj : IntactAt(o, start[o])'
    BY <1>0, <1>1, <1>2, LayoutStays DEF WordsInPlace, IntactAt
  <2>2. Layout /\ start[1] = 0 /\ 1 \in 1..(N + 1)
    BY <1>0 DEF Given, Layout
  <2>3. \A o \in Obj : start[o] \in Nat /\ start[o] >= 0
    BY <2>2, LayoutFacts
  <2>4. live \subseteq Obj /\ marked = live
    BY <1>0, <1>2 DEF TypeOK, WordsInPlace
  <2>5. marked' = {o \in live' : start'[o] >= scan'}
    BY <1>1, <1>2, <2>3, <2>4
  <2>6. NothingOverwritten'
    <3>1. \A o \in live' : ~(start'[o] < scan')
      BY <1>1, <1>2, <2>3, <2>4
    <3>. QED  BY <2>1, <3>1 DEF NothingOverwritten
  <2>. QED  BY <1>1, <1>2, <2>2, <2>5, <2>6 DEF WordsInPlace
<1>9. RegionsInStep'
  BY <1>0, <1>1, <1>2 DEF RegionsInStep
<1>. QED  BY <1>5, <1>6, <1>7, <1>8, <1>9 DEF IInv

\* memmove of a whole object to its forward address, which lies at or below
\* it: the object is whole there, and no word from its old end on is touched.
LEMMA MoveObject ==
  ASSUME IInv, NEW o \in live, pc = "relocate", scan = start[o],
         MemMove(forward[o], scan, SizeOf(o))
  PROVE  /\ mem' \in [0..(start[N + 1] - 1) -> Obj \X Nat]
         /\ \A k \in 0..(SizeOf(o) - 1) : mem'[forward[o] + k] = <<o, k>>
         /\ \A w \in 0..(start[N + 1] - 1) :
              (w < forward[o] \/ w >= start[o + 1]) => mem'[w] = mem[w]
<1>0. TypeOK /\ ForwardsSlideDown /\ WordsInPlace
  BY DEF IInv
<1>1. o \in Obj /\ Located = live
  BY <1>0 DEF TypeOK, Located
<1>2. /\ start[o] \in Nat /\ SizeOf(o) \in Nat /\ SizeOf(o) >= 2
      /\ start[o + 1] = start[o] + SizeOf(o) /\ start[o + 1] <= start[N + 1]
      /\ start[N + 1] \in Nat /\ forward[o] \in Nat
  BY <1>1, ObjectFacts
<1>3. forward[o] <= start[o]
  BY <1>0, <1>1 DEF ForwardsSlideDown
<1>4. mem \in [0..(start[N + 1] - 1) -> Obj \X Nat]
  BY <1>0 DEF TypeOK
<1>5. mem' = [w \in 0..(start[N + 1] - 1) |->
               IF forward[o] <= w /\ w < forward[o] + SizeOf(o)
                 THEN mem[start[o] + (w - forward[o])] ELSE mem[w]]
  BY <1>4 DEF MemMove
<1>6. ASSUME NEW w \in 0..(start[N + 1] - 1), forward[o] <= w, w < forward[o] + SizeOf(o)
      PROVE  start[o] + (w - forward[o]) \in 0..(start[N + 1] - 1)
  BY <1>2, <1>6
<1>7. mem' \in [0..(start[N + 1] - 1) -> Obj \X Nat]
  BY <1>4, <1>5, <1>6
<1>8. IntactAt(o, start[o])
  BY <1>0, <1>1, <1>2 DEF WordsInPlace, NothingOverwritten
<1>9. ASSUME NEW k \in 0..(SizeOf(o) - 1) PROVE mem'[forward[o] + k] = <<o, k>>
  <2>1. /\ forward[o] + k \in 0..(start[N + 1] - 1)
        /\ forward[o] <= forward[o] + k /\ forward[o] + k < forward[o] + SizeOf(o)
        /\ start[o] + ((forward[o] + k) - forward[o]) = start[o] + k
    BY <1>2, <1>3
  <2>2. mem'[forward[o] + k] = mem[start[o] + k]
    BY <1>5, <2>1
  <2>. QED  BY <1>8, <2>2 DEF IntactAt
<1>10. ASSUME NEW w \in 0..(start[N + 1] - 1), w < forward[o] \/ w >= start[o + 1]
       PROVE  mem'[w] = mem[w]
  <2>1. ~(forward[o] <= w /\ w < forward[o] + SizeOf(o))
    BY <1>2, <1>3, <1>10
  <2>. QED  BY <1>5, <2>1
<1>. QED  BY <1>7, <1>9, <1>10

LEMMA RelocateStep == ASSUME IInv, Relocate PROVE IInv'
<1>0. TypeOK /\ Given /\ ForwardsSlideDown /\ ReferencesFollow /\ WordsInPlace /\ RegionsInStep
  BY DEF IInv
<1>1. /\ UNCHANGED layout
      /\ start' = start /\ live' = live /\ extra' = extra
      /\ request' = request /\ fields0' = fields0 /\ cells0' = cells0
      /\ RootCells' = RootCells
  BY LayoutStays DEF Relocate
<1>2. /\ pc = "relocate" /\ pc' = "relocate" /\ scan < start[N + 1]
      /\ fields' = fields /\ cells' = cells
      /\ forward' = forward /\ free' = free /\ current' = current
      /\ mapped' = mapped /\ size' = size
  BY <1>0 DEF Relocate, RegionsInStep
<1>3. PICK o \in Obj : scan = start[o]
  <2>1. PICK i \in 1..(N + 1) : scan = start[i]
    BY <1>0, <1>2 DEF WordsInPlace
  <2>2. start[N + 1] \in Nat
    BY <1>0, LayoutFacts DEF Given
  <2>3. i # N + 1
    BY <1>2, <2>1, <2>2
  <2>. QED  BY <2>1, <2>3
<1>4. /\ start[o] \in Nat /\ SizeOf(o) \in Nat /\ SizeOf(o) >= 2
      /\ start[o + 1] = start[o] + SizeOf(o) /\ start[o + 1] <= start[N + 1]
      /\ start[N + 1] \in Nat /\ forward[o] \in Nat /\ o + 1 \in 1..(N + 1)
  BY ObjectFacts
<1>5. mem[scan][1] = o
  <2>1. IntactAt(o, start[o])
    BY <1>0, <1>2, <1>3, <1>4 DEF WordsInPlace, NothingOverwritten
  <2>2. mem[start[o] + 0] = <<o, 0>>
    BY <1>4, <2>1 DEF IntactAt
  <2>3. start[o] + 0 = start[o]
    BY <1>4
  <2>. QED  BY <1>3, <2>2, <2>3
<1>6. /\ scan' = start[o + 1]
      /\ \/ /\ o \in marked
            /\ MemMove(forward[o], scan, SizeOf(o))
            /\ marked' = marked \ {o}
         \/ /\ o \notin marked
            /\ mem' = mem /\ marked' = marked
  BY <1>3, <1>4, <1>5 DEF Relocate
<1>7. marked = {p \in live : start[p] >= scan} /\ live \subseteq Obj
  BY <1>0, <1>2 DEF WordsInPlace, TypeOK
<1>8. o \in marked <=> o \in live
  BY <1>3, <1>4, <1>7
<1>9. \A p \in Obj : /\ start[p] \in Nat /\ SizeOf(p) \in Nat
                     /\ p < o => start[p] + SizeOf(p) <= start[o]
                     /\ o < p => start[o + 1] <= start[p]
  BY <1>0, <1>4, LayoutFacts DEF Given
<1>10. marked' = {p \in live : start[p] >= start[o + 1]}
  <2>1. \A p \in live : start[p] >= start[o + 1] <=> start[p] >= start[o] /\ p # o
    <3> SUFFICES ASSUME NEW p \in live
                 PROVE  start[p] >= start[o + 1] <=> start[p] >= start[o] /\ p # o
      OBVIOUS
    <3>1. p \in Obj /\ (p < o \/ p = o \/ o < p)
      BY <1>7
    <3>2. SizeOf(p) >= 2
      BY <3>1, ObjectFacts
    <3>. QED  BY <1>4, <1>9, <3>1, <3>2
  <2>2. marked \ {o} = {p \in live : start[p] >= start[o + 1]}
    BY <1>3, <1>7, <2>1
  <2>3. marked' = marked \ {o}
    BY <1>6
  <2>. QED  BY <2>2, <2>3
<1>11. mem' \in [0..(start[N + 1] - 1) -> Obj \X Nat]
  <2>1. CASE o \in marked
    BY <1>2, <1>3, <1>6, <1>8, <2>1, MoveObject
  <2>2. CASE o \notin marked
    BY <1>0, <1>6, <2>2 DEF TypeOK
  <2>. QED  BY <2>1, <2>2
<1>12. TypeOK'
  <2>1. scan' \in Nat /\ marked' \subseteq live'
    BY <1>1, <1>4, <1>6, <1>10
  <2>. QED  BY <1>0, <1>1, <1>2, <1>11, <2>1 DEF TypeOK
<1>13. Given' /\ ForwardsSlideDown'
  BY <1>0, <1>1, <1>2, GivenStays, ForwardsKept
<1>14. ReferencesFollow'
  <2>1. FixedObjects = live /\ FixedObjects' = live
    BY <1>1, <1>2 DEF FixedObjects
  <2>2. \A p \in live : \A f \in Field : SameObject(fields0[p][f], fields[p][f])'
    BY <1>1, <1>2, <2>1, FieldsKept
  <2>3. FixedCells = RootCells /\ FixedCells' = RootCells
    BY <1>1, <1>2 DEF FixedCells
  <2>4. \A a \in RootCells : SameObject(cells0[a], cells[a])'
    BY <1>0, <1>1, <1>2, <2>3, CellKept DEF ReferencesFollow
  <2>5. cells'[StackBottom] = NotHeap
    BY <1>0, <1>2 DEF ReferencesFollow
  <2>. QED  BY <1>1, <1>2, <2>1, <2>2, <2>3, <2>4, <2>5 DEF ReferencesFollow
<1>15. \A w \in 0..(start[N + 1] - 1) :
         (o \in live => w < forward[o] \/ w >= start[o + 1]) => mem'[w] = mem[w]
  <2>1. CASE o \in live
    BY <1>2, <1>3, <1>6, <1>8, <2>1, MoveObject
  <2>2. CASE o \notin live
    BY <1>6, <1>8, <2>2
  <2>. QED  BY <2>1, <2>2
<1>16. NothingOverwritten'
  <2>1. ASSUME NEW p \in Obj, start[p] >= start[o + 1], NEW k \in 0..(SizeOf(p) - 1)
        PROVE  mem'[start[p] + k] = <<p, k>>
    <3>1. IntactAt(p, start[p])
      BY <1>0, <1>2, <1>3, <1>4, <1>9, <2>1 DEF WordsInPlace, NothingOverwritten
    <3>2. start[p] + k \in 0..(start[N + 1] - 1) /\ start[p] + k >= start[o + 1]
      <4>1. start[p] + SizeOf(p) <= start[N + 1] /\ start[p] \in Nat /\ SizeOf(p) \in Nat
        <5>1. start[p + 1] = start[p] + SizeOf(p) /\ start[p + 1] <= start[N + 1]
          BY ObjectFacts
        <5>. QED  BY <1>9, <5>1
      <4>. QED  BY <1>4, <2>1, <4>1
    <3>. QED  BY <1>15, <3>1, <3>2 DEF IntactAt
  <2>2. ASSUME NEW p \in live, start[p] < start[o + 1], NEW k \in 0..(SizeOf(p) - 1)
        PROVE  mem'[forward[p] + k] = <<p, k>>
    <3>0. p \in Obj
      BY <1>7
    <3>1. CASE p = o
      BY <1>2, <1>3, <1>6, <1>8, <2>2, <3>1, MoveObject
    <3>2. CASE p # o
      <4>1. p < o
        BY <1>4, <1>9, <2>2, <3>0, <3>2
      <4>2. /\ start[p] < start[o] /\ start[p] \in Nat /\ SizeOf(p) \in Nat
            /\ forward[p] \in Nat /\ SizeOf(p) >= 2
            /\ start[p] + SizeOf(p) <= start[o]
        BY <1>4, <1>9, <3>0, <4>1, ObjectFacts
      <4>3. IntactAt(p, forward[p])
        BY <1>0, <1>2, <1>3, <2>2, <4>2 DEF WordsInPlace, NothingOverwritten
      <4>4. Located = live
        BY <1>2 DEF Located
      <4>5. forward[p] <= start[p]
        BY <1>0, <2>2, <4>4 DEF ForwardsSlideDown
      <4>6. o \in live => forward[p] + SizeOf(p) <= forward[o]
        BY <1>0, <2>2, <4>1, <4>4 DEF ForwardsSlideDown
      <4>7. forward[p] + k \in 0..(start[N + 1] - 1) /\ (o \in live => forward[p] + k < forward[o])
        BY <1>4, <4>2, <4>5, <4>6
      <4>. QED  BY <1>15, <4>3, <4>7 DEF IntactAt
    <3>. QED  BY <3>1, <3>2
  <2>. QED  BY <1>1, <1>2, <1>6, <2>1, <2>2, LayoutStays DEF NothingOverwritten, IntactAt
<1>17. WordsInPlace'
  BY <1>1, <1>2, <1>4, <1>6, <1>10, <1>16 DEF WordsInPlace
<1>18. RegionsInStep'
  BY <1>0, <1>1, <1>2 DEF RegionsInStep
<1>. QED  BY <1>12, <1>13, <1>14, <1>17, <1>18 DEF IInv

LEMMA FinishStep == ASSUME IInv, Finish PROVE IInv'
<1>0. TypeOK /\ Given /\ ForwardsSlideDown /\ ReferencesFollow /\ WordsInPlace /\ RegionsInStep
  BY DEF IInv
<1>1. /\ UNCHANGED layout
      /\ start' = start /\ live' = live /\ extra' = extra
      /\ request' = request /\ fields0' = fields0 /\ cells0' = cells0
      /\ RootCells' = RootCells
  BY LayoutStays DEF Finish
<1>2. /\ pc = "relocate" /\ pc' = "done" /\ scan >= start[N + 1] /\ scan' = scan
      /\ fields' = fields /\ cells' = cells /\ marked' = marked /\ mem' = mem
      /\ forward' = forward /\ free' = free /\ size' = size
      /\ current' = free /\ mapped' = mapped \ {"old"}
  BY <1>0 DEF Finish, RegionsInStep
<1>3. TypeOK'
  BY <1>0, <1>1, <1>2 DEF TypeOK
<1>4. Given' /\ ForwardsSlideDown'
  BY <1>0, <1>1, <1>2, GivenStays, ForwardsKept
<1>5. ReferencesFollow'
  <2>1. FixedObjects = live /\ FixedObjects' = live
    BY <1>1, <1>2 DEF FixedObjects
  <2>2. \A p \in live : \A f \in Field : SameObject(fields0[p][f], fields[p][f])'
    BY <1>1, <1>2, <2>1, FieldsKept
  <2>3. FixedCells = RootCells /\ FixedCells' = RootCells
    BY <1>1, <1>2 DEF FixedCells
  <2>4. \A a \in RootCells : SameObject(cells0[a], cells[a])'
    BY <1>0, <1>1, <1>2, <2>3, CellKept DEF ReferencesFollow
  <2>5. cells'[StackBottom] = NotHeap
    BY <1>0, <1>2 DEF ReferencesFollow
  <2>. QED  BY <1>1, <1>2, <2>1, <2>2, <2>3, <2>4, <2>5 DEF ReferencesFollow
<1>6. WordsInPlace'
  <2>1. NothingOverwritten'
    BY <1>0, <1>1, <1>2, LayoutStays DEF WordsInPlace, NothingOverwritten, IntactAt
  <2>. QED  BY <1>0, <1>1, <1>2, <2>1 DEF WordsInPlace
<1>7. RegionsInStep'
  BY <1>0, <1>1, <1>2 DEF RegionsInStep, TypeOK, Chunk
<1>. QED  BY <1>3, <1>4, <1>5, <1>6, <1>7 DEF IInv

LEMMA NextIInv == IInv /\ [Next]_vars => IInv'
<1> SUFFICES ASSUME IInv, [Next]_vars PROVE IInv'
  OBVIOUS
<1>1. CASE Locate
  BY <1>1, LocateStep
<1>2. CASE MapAndCopy
  BY <1>2, MapAndCopyStep
<1>3. CASE MapFails
  BY <1>3, MapFailsStep
<1>4. CASE UpdateFields
  BY <1>4, UpdateFieldsStep
<1>5. CASE UpdateStack
  BY <1>5, UpdateStackStep
<1>6. CASE UpdateExtra
  BY <1>6, UpdateExtraStep
<1>7. CASE UpdateGlobal
  BY <1>7, UpdateGlobalStep
<1>8. CASE Relocate
  BY <1>8, RelocateStep
<1>9. CASE Finish
  BY <1>9, FinishStep
<1>10. CASE UNCHANGED vars
  <2>1. /\ UNCHANGED layout
        /\ fields' = fields /\ cells' = cells /\ marked' = marked /\ forward' = forward
        /\ free' = free /\ scan' = scan /\ mem' = mem /\ size' = size
        /\ current' = current /\ mapped' = mapped /\ pc' = pc
    BY <1>10 DEF vars, layout
  <2>2. /\ start' = start /\ live' = live /\ extra' = extra
        /\ request' = request /\ fields0' = fields0 /\ cells0' = cells0
        /\ RootCells' = RootCells
    BY <2>1, LayoutStays
  <2>3. /\ TypeOK /\ Given /\ ForwardsSlideDown
        /\ ReferencesFollow /\ WordsInPlace /\ RegionsInStep
    BY DEF IInv
  <2>4. TypeOK' /\ RegionsInStep'
    BY <2>1, <2>2, <2>3 DEF TypeOK, RegionsInStep
  <2>5. Given'
    BY <2>1, <2>3, GivenStays
  <2>6. ForwardsSlideDown'
    BY <2>1, <2>2, <2>3 DEF ForwardsSlideDown, Located, SizeOf
  <2>7. ReferencesFollow'
    BY <2>1, <2>2, <2>3 DEF ReferencesFollow, FixedObjects, FixedCells, SkippedExtra,
                            SameObject, OldPointer, NewPointer, Content
  <2>8. WordsInPlace'
    BY <2>1, <2>2, <2>3 DEF WordsInPlace, NothingOverwritten, IntactAt, SizeOf
  <2>. QED  BY <2>4, <2>5, <2>6, <2>7, <2>8 DEF IInv
<1>. QED  BY <1>1, <1>2, <1>3, <1>4, <1>5, <1>6, <1>7, <1>8, <1>9, <1>10 DEF Next

LEMMA AlwaysIInv == Spec => []IInv
BY InitIInv, NextIInv, PTL DEF Spec

-----------------------------------------------------------------------------
\* A pointer a collection starts from leads into the old region while it is
\* in use, and the pointer that replaces it into the new one.
LEMMA PointersOnHeap ==
  ASSUME IInv, NEW t \in live
  PROVE  /\ pc # "done" => OldPointer(t)[1] \in mapped /\ OldPointer(t)[2] <= current
         /\ pc \notin {"locate", "exited"} =>
              NewPointer(t)[1] \in mapped /\ NewPointer(t)[2] <= current
<1>0. TypeOK /\ ForwardsSlideDown /\ RegionsInStep
  BY DEF IInv
<1>1. t \in Obj
  BY <1>0 DEF TypeOK
<1>2. /\ start[t] \in Nat /\ SizeOf(t) \in Nat /\ SizeOf(t) >= 2
      /\ start[t + 1] = start[t] + SizeOf(t) /\ start[t + 1] <= start[N + 1]
      /\ start[N + 1] \in Nat /\ forward[t] \in Nat
  BY <1>1, ObjectFacts
<1>3. OldPointer(t)[1] = "old" /\ OldPointer(t)[2] = start[t] + 2
  BY DEF OldPointer, Content
<1>4. NewPointer(t)[1] = "new" /\ NewPointer(t)[2] = forward[t] + 2
  BY DEF NewPointer
<1>5. ASSUME pc # "done" PROVE OldPointer(t)[1] \in mapped /\ OldPointer(t)[2] <= current
  BY <1>0, <1>2, <1>3, <1>5 DEF RegionsInStep
<1>6. ASSUME pc \notin {"locate", "exited"}
      PROVE  NewPointer(t)[1] \in mapped /\ NewPointer(t)[2] <= current
  <2>1. t \in Located
    BY <1>6 DEF Located
  <2>2. forward[t] + SizeOf(t) <= free /\ free <= start[N + 1] /\ free \in Nat
    BY <1>0, <2>1 DEF ForwardsSlideDown, TypeOK
  <2>3. "new" \in mapped /\ (current = free \/ current = start[N + 1])
    BY <1>0, <1>6 DEF RegionsInStep
  <2>4. forward[t] + 2 <= current
    BY <1>2, <2>2, <2>3
  <2>. QED  BY <1>4, <2>3, <2>4
<1>. QED  BY <1>5, <1>6

LEMMA IInvNoDangling == IInv => NoDanglingPointer
<1> SUFFICES ASSUME IInv PROVE NoDanglingPointer
  OBVIOUS
<1> DEFINE OnHeap(v) == v # NotHeap => v[1] \in mapped /\ v[2] <= current
<1>0. ReferencesFollow /\ Given
  BY DEF IInv
<1>1. ASSUME NEW v0, NEW v, SameObject(v0, v), pc \notin {"locate", "exited"} PROVE OnHeap(v)
  BY <1>1, PointersOnHeap DEF SameObject
<1>2. ASSUME NEW v \in {OldPointer(t) : t \in live} \union {NotHeap}, pc # "done" PROVE OnHeap(v)
  BY <1>2, PointersOnHeap
<1>3. ASSUME NEW o \in live, NEW f \in Field PROVE OnHeap(fields[o][f])
  <2>1. CASE o \in FixedObjects
    <3>1. SameObject(fields0[o][f], fields[o][f]) /\ pc \notin {"locate", "exited"}
      BY <1>0, <2>1 DEF ReferencesFollow, FixedObjects
    <3>. QED  BY <1>1, <3>1
  <2>2. CASE o \notin FixedObjects
    <3>1. fields[o][f] = fields0[o][f] /\ pc # "done"
      BY <1>0, <2>2 DEF ReferencesFollow, FixedObjects
    <3>2. fields0[o][f] \in {OldPointer(t) : t \in live} \union {NotHeap}
      BY <1>0 DEF Given, MarkPhaseDone
    <3>. QED  BY <1>2, <3>1, <3>2
  <2>. QED  BY <2>1, <2>2
<1>4. ASSUME NEW a \in RootCells PROVE OnHeap(cells[a])
  <2>1. CASE a \in FixedCells
    <3>1. SameObject(cells0[a], cells[a]) /\ pc \notin {"locate", "exited"}
      BY <1>0, <2>1 DEF ReferencesFollow, FixedCells
    <3>. QED  BY <1>1, <3>1
  <2>2. CASE a \notin FixedCells
    <3>1. cells[a] = cells0[a] /\ pc # "done"
      BY <1>0, <2>2 DEF ReferencesFollow, FixedCells
    <3>2. cells0[a] \in {OldPointer(t) : t \in live} \union {NotHeap}
      BY <1>0 DEF Given, MarkPhaseDone
    <3>. QED  BY <1>2, <3>1, <3>2
  <2>. QED  BY <2>1, <2>2
<1>. QED  BY <1>3, <1>4 DEF NoDanglingPointer

LEMMA IInvGraphPreserved == IInv => GraphPreserved
<1> SUFFICES ASSUME IInv, pc = "done"
             PROVE  /\ \A o \in live : \A f \in Field : SameObject(fields0[o][f], fields[o][f])
                    /\ \A a \in RootCells : SameObject(cells0[a], cells[a])
                    /\ marked = {}
  BY DEF GraphPreserved
<1>0. TypeOK /\ ReferencesFollow /\ WordsInPlace
  BY DEF IInv
<1>1. FixedObjects = live /\ FixedCells = RootCells
  BY DEF FixedObjects, FixedCells
<1>2. \A o \in live : ~(start[o] >= scan)
  <2> SUFFICES ASSUME NEW o \in live PROVE ~(start[o] >= scan)
    OBVIOUS
  <2>1. o \in Obj /\ scan \in Nat /\ scan >= start[N + 1]
    BY <1>0 DEF TypeOK, WordsInPlace
  <2>2. /\ start[o] \in Nat /\ SizeOf(o) \in Nat /\ SizeOf(o) >= 2
        /\ start[o + 1] = start[o] + SizeOf(o) /\ start[o + 1] <= start[N + 1]
        /\ start[N + 1] \in Nat
    BY <2>1, ObjectFacts
  <2>. QED  BY <2>1, <2>2
<1>3. marked = {}
  BY <1>0, <1>2 DEF WordsInPlace
<1>. QED  BY <1>0, <1>1, <1>3 DEF ReferencesFollow

LEMMA IInvDense == IInv => HeapIsDense
<1> SUFFICES ASSUME IInv, pc = "done" PROVE HeapIsDense
  BY DEF HeapIsDense
<1>1. Located = live /\ current = free
  BY DEF Located, IInv, RegionsInStep
<1>. QED  BY <1>1 DEF IInv, ForwardsSlideDown, HeapIsDense

LEMMA IInvFits == IInv => RequestFits
<1> SUFFICES ASSUME IInv, pc = "done" PROVE current + request <= size
  BY DEF RequestFits
<1>1. current = free /\ free * 2 + request <= size
  BY DEF IInv, RegionsInStep
<1>2. free \in Nat /\ request \in Nat /\ size \in Nat
  BY DEF IInv, TypeOK
<1>. QED  BY <1>1, <1>2

\* The words of memory, the pointers and the phase keep their types.
THEOREM TypeCorrect == Spec => []TypeOK
<1>1. IInv => TypeOK
  BY DEF IInv
<1>. QED  BY <1>1, AlwaysIInv, PTL

\* Whatever lies on the heap and whatever of it is marked, sliding overwrites
\* no object before it is moved and none after.
THEOREM SlidingIsSafe == Spec => []NothingOverwritten
<1>1. IInv => NothingOverwritten
  BY DEF IInv, WordsInPlace
<1>. QED  BY <1>1, AlwaysIInv, PTL

\* A collection leaves the object graph, as seen from the roots, as it was.
THEOREM CompactionPreservesGraph == Spec => []GraphPreserved
BY IInvGraphPreserved, AlwaysIInv, PTL

\* No field of a live object and no root leads out of the mapped heap, before,
\* during or after the collection.
THEOREM NoDangling == Spec => []NoDanglingPointer
BY IInvNoDangling, AlwaysIInv, PTL

\* The compacted heap consists of the live objects, in order and without gaps.
THEOREM CompactedHeap == Spec => []HeapIsDense
BY IInvDense, AlwaysIInv, PTL

\* The allocation that started a collection succeeds after it.
THEOREM AllocationFits == Spec => []RequestFits
BY IInvFits, AlwaysIInv, PTL
=============================================================================
