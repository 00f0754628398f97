----------------------- MODULE RuntimeProtocolProofs -----------------------
(***************************************************************************)
(* Why the functions of the two runtimes keep the protocol.  A discipline  *)
(* says of each function, for every number of arguments, what holds before *)
(* each of its steps: which words it has in the pool, whether it is        *)
(* between PRE_GC and POST_GC, and which of its words are no stale         *)
(* pointers.  WellTyped is the local condition on a function: each step    *)
(* leads from what holds before it to what holds after it.  The lemmas     *)
(* show that functions which satisfy it keep Sound, whichever calls        *)
(* which; RuntimeAllocProofs and RuntimeAlloc32Proofs give the disciplines *)
(* of the two runtimes and check each function.                            *)
(***************************************************************************)
EXTENDS RuntimeProtocol, TLAPS, SequenceTheorems

-----------------------------------------------------------------------------
(* Disciplines. *)

Locals == {Local(i) : i \in Words}

\* Words of the Lama stack beyond the arguments.
Olders == {Older(i) : i \in Words}

Operands(n) == ArgSet(1, n) \union Locals \union Olders \union {Sysargs}

\* What holds before a step: held is what the function has in the pool, inside
\* that it is between PRE_GC and POST_GC, live what is not stale, fresh what
\* is a pointer to an object.
Points(n) == [held : Seq(Operands(n)), inside : BOOLEAN,
              live : SUBSET Operands(n), fresh : SUBSET Operands(n)]

\* rank: how deep the functions may nest that it calls.  scanned: its arguments
\* are words of the Lama stack, for it is called by compiled code only, or by
\* functions that may pass on stale words (lax).
Rules(n) == [points : Seq(Points(n)), rank : 1 .. MaxDepth, scanned : BOOLEAN, lax : BOOLEAN]

\* The functions of the two runtimes.
Named == {"set_args", "LmakeString", "LmakeArray", "Bstring", "Lstringcat", "Lstring",
          "Lsubstring", "LcloneString", "LcloneBlock", "Bclosure", "Barray", "Bsexp",
          "Ls__Infix_58", "Li__Infix_4343", "Lsprintf", "Bsprintf", "LgetEnv", "LreadLine",
          "Lfread"}

Steps(k) == Body(k[1], k[2])

Shaped(D, k) ==
  /\ k = <<k[1], k[2]>> /\ k[1] \in Named /\ k[2] \in 0 .. NArgs
  /\ D[k] \in Rules(k[2])
  /\ Len(Steps(k)) \in Nat
  /\ Len(D[k].points) = Len(Steps(k)) + 1
  /\ k[1] \in Unguarded \union {"set_args"} => D[k].rank = MaxDepth
  /\ k[1] \in Unguarded => k[1] # "set_args"

\* A word registered is not stale, a pointer is not stale; the word of sysargs
\* is the business of set_args alone.
PointFits(k, p) ==
  /\ Range(p.held) \subseteq p.live
  /\ p.fresh \subseteq p.live
  /\ Sysargs \in p.live => k[1] = "set_args"
  /\ k[1] \in Unguarded => ~p.inside

EntryFits(p, n) ==
  /\ p.held = <<>> /\ ~p.inside
  /\ p.live \subseteq ArgSet(1, n) \union Olders
  /\ p.fresh = {}

ExitFits(k, p) ==
  /\ ~p.inside
  /\ IF k[1] = "set_args" THEN p.held = <<Sysargs>> /\ Sysargs \in p.fresh
     ELSE p.held = <<>> /\ Result \in p.fresh

\* Neither the pool nor the words change.
Same(p, q) == q.held = p.held /\ q.live \subseteq p.live /\ q.fresh \subseteq p.fresh

\* What a collection leaves current: words in the pool, arguments in the Lama
\* stack, and the frame of a function that is not inside, below the end of
\* the scanned stack.
Visited(D, k, p) == {c \in p.live : \/ c \in Range(p.held)
                                    \/ D[k].scanned /\ c \in ArgSet(1, k[2])
                                    \/ k[1] \in Unguarded}

PreFits(p, q) == Same(p, q) /\ ~p.inside /\ q.inside

PostFits(p, q) == Same(p, q) /\ p.inside /\ ~q.inside

PushFits(s, p, q) ==
  /\ s.cell \in p.live
  /\ q.held = Append(p.held, s.cell)
  /\ q.live \subseteq p.live /\ q.fresh \subseteq p.fresh
  /\ q.inside = p.inside

PopFits(s, p, q) ==
  /\ p.held = Append(q.held, s.cell)
  /\ q.live \subseteq p.live /\ q.fresh \subseteq p.fresh
  /\ q.inside = p.inside

AllocStepFits(D, k, p, q) ==
  /\ p.inside /\ q.inside
  /\ q.held = p.held
  /\ q.live \subseteq Visited(D, k, p) \union {Result}
  /\ q.fresh \subseteq (p.fresh \intersect Range(p.held)) \union {Result}
  /\ Sysargs \notin p.live

UseFits(s, p, q) == s.cells \subseteq p.live /\ Same(p, q) /\ q.inside = p.inside

CopyFits(k, s, p, q) ==
  /\ s.from \in p.live
  /\ \/ s.to \in Locals
     \/ s.to = Sysargs /\ k[1] = "set_args" /\ s.from \in p.fresh /\ Sysargs \in q.live
  /\ q.held = p.held /\ q.inside = p.inside
  /\ q.live \subseteq p.live \union {s.to}
  /\ q.fresh \subseteq (p.fresh \ {s.to}) \union (IF s.from \in p.fresh THEN {s.to} ELSE {})

SetFits(s, p, q) ==
  /\ s.kind \in LamaValues
  /\ s.to \in Locals
  /\ q.held = p.held /\ q.inside = p.inside
  /\ q.live \subseteq p.live \union {s.to}
  /\ q.fresh \subseteq p.fresh \ {s.to}

CallFits(D, k, s, p, q) ==
  LET g == <<s.fn, Len(s.args)>>
  IN  /\ g \in DOMAIN D
      /\ D[g].rank < D[k].rank
      /\ D[g].scanned => D[k].lax /\ D[k].rank = MaxDepth
      /\ s.args \in Seq(p.live \intersect (ArgSet(1, k[2]) \union Locals))
      /\ s.to \in Locals \ Range(p.held)
      /\ p.inside \/ k[1] \in Unguarded
      /\ q.inside = p.inside /\ q.held = p.held
      /\ q.live \subseteq Visited(D, k, p) \union {s.to}
      /\ q.fresh \subseteq (p.fresh \intersect Range(p.held)) \union {s.to}
      /\ Sysargs \notin p.live

\* sysargs, once live, stays so.
KeepsSysargs(p, q) == Sysargs \in p.live => Sysargs \in q.live

StepFits(D, k, s, p, q) ==
  /\ s.op = "pre"   => PreFits(p, q)
  /\ s.op = "post"  => PostFits(p, q)
  /\ s.op = "push"  => PushFits(s, p, q)
  /\ s.op = "pop"   => PopFits(s, p, q)
  /\ s.op = "alloc" => AllocStepFits(D, k, p, q)
  /\ s.op = "use"   => UseFits(s, p, q)
  /\ s.op = "copy"  => CopyFits(k, s, p, q)
  /\ s.op = "set"   => SetFits(s, p, q)
  /\ s.op = "call"  => CallFits(D, k, s, p, q)
  /\ KeepsSysargs(p, q)

BodyFits(D, k) ==
  LET P == D[k].points
  IN  /\ \A pc \in 1 .. Len(P) : PointFits(k, P[pc])
      /\ EntryFits(P[1], k[2])
      /\ ExitFits(k, P[Len(P)])
      /\ \A pc \in 1 .. Len(Steps(k)) : StepFits(D, k, Steps(k)[pc], P[pc], P[pc + 1])

WellTyped(D) == \A k \in DOMAIN D : Shaped(D, k) /\ BodyFits(D, k)

\* The discipline has every function that is called from outside.
Covers(D) ==
  /\ \A n \in 0 .. NArgs : <<"set_args", n>> \in DOMAIN D
  /\ \A f \in Functions : \A n \in Lengths(f) :
       /\ <<f, n>> \in DOMAIN D /\ f # "set_args"
       /\ \A i \in 1 .. n : Passed(f, n, i) \subseteq LamaValues

\* A body leads from point to point.
Typed(D, k, body, points) ==
  /\ Len(body) \in Nat /\ points \in Seq(Points(k[2])) /\ Len(points) = Len(body) + 1
  /\ \A pc \in 1 .. Len(points) : PointFits(k, points[pc])
  /\ EntryFits(points[1], k[2])
  /\ ExitFits(k, points[Len(points)])
  /\ \A pc \in 1 .. Len(body) : StepFits(D, k, body[pc], points[pc], points[pc + 1])

Pt(held, inside, live, fresh) ==
  [held |-> held, inside |-> inside, live |-> live, fresh |-> fresh]

-----------------------------------------------------------------------------
(* The invariant. *)

Key(fr) == <<fr.fn, Len(fr.args)>>

Frame == [fn : Named, pc : Nat, flag : BOOLEAN, args : Seq(Cells), to : Cells]

\* What holds in frame d, and the words its operands stand for.
At(D, fs, d) == D[Key(fs[d])].points[fs[d].pc]

Place(fs, d, c) == Word(fs[d], d, c)

FrameFits(D, fs, d) ==
  /\ Key(fs[d]) \in DOMAIN D
  /\ fs[d].pc \in 1 .. Len(D[Key(fs[d])].points)
  /\ D[Key(fs[d])].rank + d <= MaxDepth + 1
  /\ \A i \in 1 .. Len(fs[d].args) : /\ fs[d].args[i][1] \in 0 .. d - 1
                                     /\ d = 1 => fs[d].args[i] = <<0, i>>
  /\ d = 1 => fs[d].to = IF fs[d].fn = "set_args" THEN <<1, 0>> ELSE <<0, 0>>
  /\ d > 1 /\ D[Key(fs[d])].scanned => D[Key(fs[1])].lax

\* Frame d has called frame d + 1.
Waits(fs, d) ==
  LET s == Steps(Key(fs[d]))[fs[d].pc - 1]
  IN  /\ fs[d].pc > 1
      /\ s.op = "call"
      /\ Key(fs[d + 1]) = <<s.fn, Len(s.args)>>
      /\ fs[d + 1].to = Place(fs, d, s.to)

FramesFit(D, fs) ==
  /\ fs \in Seq(Frame) /\ Len(fs) <= MaxDepth
  /\ \A d \in 1 .. Len(fs) : FrameFits(D, fs, d)
  /\ \A d \in 1 .. Len(fs) - 1 : Waits(fs, d)

\* t is the outermost frame between PRE_GC and POST_GC.
GuardFits(D, fs, t) ==
  /\ t \in 0 .. Len(fs)
  /\ t > 0 => At(D, fs, t).inside
  /\ \A d \in 1 .. Len(fs) : (d < t \/ t = 0) => ~At(D, fs, d).inside

\* Where the words of frame d begin in the pool.
Offset(D, fs, b, d) == b + (IF d > 1 THEN Len(At(D, fs, 1).held) ELSE 0)
                         + (IF d > 2 THEN Len(At(D, fs, 2).held) ELSE 0)
                         + (IF d > 3 THEN Len(At(D, fs, 3).held) ELSE 0)

PoolFits(D, fs, p, b) ==
  /\ p \in Seq(Cells)
  /\ b \in 0 .. 1
  /\ Len(p) = Offset(D, fs, b, Len(fs) + 1)
  /\ b = 1 => p[1] = GlobalSysargs
  /\ \A d \in 1 .. Len(fs) : \A i \in 1 .. Len(At(D, fs, d).held) :
       p[Offset(D, fs, b, d) + i] = Place(fs, d, At(D, fs, d).held[i])

\* The word is to receive what the next frame returns.
Awaited(fs, d, c) == d < Len(fs) /\ Place(fs, d, c) = fs[d + 1].to

LiveFits(D, fs, m) ==
  \A d \in 1 .. Len(fs) :
    (d = 1 \/ ~D[Key(fs[1])].lax) =>
      \A c \in At(D, fs, d).live : Awaited(fs, d, c) \/ m[Place(fs, d, c)] # "old"

FreshFits(D, fs, m) ==
  \A d \in 1 .. Len(fs) :
    \A c \in At(D, fs, d).fresh : Awaited(fs, d, c) \/ m[Place(fs, d, c)] = "current"

\* sysargs is an integer until set_args assigns it, and registered since.
GlobalFits(D, fs, m, b) ==
  /\ m[GlobalSysargs] # "old"
  /\ fs = <<>> => (b = 0 <=> m[GlobalSysargs] = "unboxed")
  /\ fs # <<>> => (b = 0 <=> fs[1].fn = "set_args")
  /\ fs # <<>> => IF fs[1].fn # "set_args" THEN m[GlobalSysargs] # "unboxed"
                  ELSE Sysargs \in At(D, fs, 1).live \/ m[GlobalSysargs] = "unboxed"

OuterFits(m) == /\ m \in [Cells -> Kinds]
                /\ \A c \in Cells : c[1] <= 0 => m[c] # "old"

Sound(D, m, fs, t, p, b) == /\ FramesFit(D, fs)
                            /\ GuardFits(D, fs, t)
                            /\ PoolFits(D, fs, p, b)
                            /\ LiveFits(D, fs, m)
                            /\ FreshFits(D, fs, m)
                            /\ GlobalFits(D, fs, m, b)
                            /\ OuterFits(m)

\* The inductive invariant, but for what each runtime adds to it.
ProtocolInv(D) == /\ \E b \in 0 .. 1 : Sound(D, mem, frames, top, pool, b)
                  /\ Len(pool) <= MaxRoots
                  /\ exited \in BOOLEAN

-----------------------------------------------------------------------------
(* Frames. *)

\* An argument lies below the frame, a local in it.
Below(d, w) == w \in Cells /\ w[1] \in 0 .. d - 1

Places(fs, d) ==
  /\ \A i : Place(fs, d, Arg(i)) = fs[d].args[i]
  /\ \A i : Place(fs, d, Local(i)) = <<d, i>>
  /\ \A i : Place(fs, d, Older(i)) = <<-1, i>>
  /\ Place(fs, d, Sysargs) = GlobalSysargs

LEMMA PlaceOf ==
  ASSUME NEW fs, NEW d
  PROVE  Places(fs, d)
BY DEF Places, Place, Word, Arg, Local, Older, Sysargs

ArgumentsBelow(fs, d) == \A c \in ArgSet(1, Len(fs[d].args)) : Below(d, Place(fs, d, c))

LEMMA ArgumentPlaces ==
  ASSUME NEW D, NEW fs, FramesFit(D, fs), NEW d \in 1 .. Len(fs)
  PROVE  ArgumentsBelow(fs, d)
<1>1. fs[d] \in Frame /\ FrameFits(D, fs, d)
  BY DEF FramesFit
<1>2. fs[d].args \in Seq(Cells)
  BY <1>1 DEF Frame
<1> SUFFICES ASSUME NEW i \in 1 .. Len(fs[d].args)
             PROVE  Below(d, Place(fs, d, Arg(i)))
  BY DEF ArgumentsBelow, ArgSet
<1>3. fs[d].args[i] \in Cells /\ fs[d].args[i][1] \in 0 .. d - 1
  BY <1>1, <1>2 DEF FrameFits
<1> QED
  BY <1>3, PlaceOf DEF Places, Below

LEMMA Depths ==
  ASSUME NEW D, NEW fs, FramesFit(D, fs), NEW d \in 1 .. Len(fs)
  PROVE  d \in 1 .. 3
BY DEF FramesFit, MaxDepth

\* The level of the word of an operand: at most that of the frame, but for the
\* word of sysargs.
Level(fs, d, c) ==
  /\ Place(fs, d, c) \in Cells
  /\ c # Sysargs => Place(fs, d, c)[1] \in -1 .. d
  /\ c = Sysargs => Place(fs, d, c) = GlobalSysargs
  /\ c \in ArgSet(1, Len(fs[d].args)) => Place(fs, d, c)[1] \in 0 .. d - 1
  /\ c \in Locals => Place(fs, d, c)[1] = d
  /\ \A i : Place(fs, d, c) = <<d, i>> => c = Local(i)

LEMMA PlaceLevel ==
  ASSUME NEW D, NEW fs, FramesFit(D, fs), NEW d \in 1 .. Len(fs),
         NEW c \in Operands(Len(fs[d].args))
  PROVE  Level(fs, d, c)
<1>1. d \in 1 .. 3
  BY Depths
<1>2. CASE c \in ArgSet(1, Len(fs[d].args))
  <2>1. Below(d, Place(fs, d, c))
    BY <1>2, ArgumentPlaces DEF ArgumentsBelow
  <2>2. c \notin Locals /\ c # Sysargs
    BY <1>2 DEF ArgSet, Arg, Locals, Local, Sysargs
  <2>3. \A i : Place(fs, d, c) # <<d, i>>
    BY <1>1, <2>1 DEF Below
  <2>4. Place(fs, d, c) \in Cells /\ Place(fs, d, c)[1] \in 0 .. d - 1 /\ Place(fs, d, c)[1] \in -1 .. d
    BY <1>1, <2>1 DEF Below
  <2> QED
    BY <2>2, <2>3, <2>4 DEF Level
<1>3. CASE c \in Locals
  <2>1. PICK i \in Words : c = Local(i)
    BY <1>3 DEF Locals
  <2>2. Place(fs, d, c) = <<d, i>>
    BY <2>1, PlaceOf DEF Places
  <2>3. c \notin ArgSet(1, Len(fs[d].args)) /\ c # Sysargs
    BY <2>1 DEF ArgSet, Arg, Local, Sysargs
  <2>4. <<d, i>> \in Cells
    BY <1>1 DEF Cells, MaxDepth
  <2>5. \A j : <<d, i>> = <<d, j>> => c = Local(j)
    BY <2>1
  <2>6. Place(fs, d, c)[1] = d /\ d \in -1 .. d
    BY <1>1, <2>2
  <2> QED
    BY <2>2, <2>3, <2>4, <2>5, <2>6 DEF Level
<1>4. CASE c \in Olders
  <2>1. PICK i \in Words : c = Older(i)
    BY <1>4 DEF Olders
  <2>2. Place(fs, d, c) = <<-1, i>>
    BY <2>1, PlaceOf DEF Places
  <2>3. c \notin ArgSet(1, Len(fs[d].args)) /\ c # Sysargs /\ c \notin Locals
    BY <2>1 DEF ArgSet, Arg, Local, Locals, Sysargs, Older
  <2>4. <<-1, i>> \in Cells
    BY DEF Cells, MaxDepth
  <2>5. Place(fs, d, c)[1] \in -1 .. d /\ \A j : Place(fs, d, c) # <<d, j>>
    BY <1>1, <2>2
  <2> QED
    BY <2>2, <2>3, <2>4, <2>5 DEF Level
<1>5. CASE c = Sysargs
  <2>1. Place(fs, d, c) = GlobalSysargs
    BY <1>5, PlaceOf DEF Places
  <2>2. c \notin ArgSet(1, Len(fs[d].args)) /\ c \notin Locals
    BY <1>5 DEF ArgSet, Arg, Local, Locals, Sysargs
  <2>3. GlobalSysargs \in Cells /\ GlobalSysargs = <<4, 0>>
    BY DEF Cells, GlobalSysargs, MaxDepth
  <2>4. \A j : Place(fs, d, c) # <<d, j>>
    BY <1>1, <2>1, <2>3
  <2> QED
    BY <1>5, <2>1, <2>2, <2>3, <2>4 DEF Level
<1> QED
  BY <1>2, <1>3, <1>4, <1>5 DEF Operands

\* The words beyond the arguments are in no frame.
LEMMA OldersOutside ==
  ASSUME NEW fs, NEW d, NEW c \in Olders
  PROVE  Place(fs, d, c) \in Cells /\ Place(fs, d, c)[1] = -1
<1>1. PICK i \in Words : c = Older(i)
  BY DEF Olders
<1>2. Place(fs, d, c) = <<-1, i>>
  <2>1. Places(fs, d)
    BY PlaceOf
  <2>2. Place(fs, d, Older(i)) = <<-1, i>>
    BY <2>1 DEF Places
  <2> QED
    BY <1>1, <2>2
<1>3. <<-1, i>> \in Cells
  BY DEF Cells, MaxDepth
<1> QED
  BY <1>2, <1>3

-----------------------------------------------------------------------------
(* A step of the running function. *)

\* What a well-typed body says of its step at pc.
StepHere(D, k, pc, p, q) ==
  /\ pc \in 1 .. Len(Steps(k)) /\ pc + 1 \in 1 .. Len(D[k].points)
  /\ p = D[k].points[pc] /\ q = D[k].points[pc + 1]
  /\ p \in Points(k[2]) /\ q \in Points(k[2])
  /\ PointFits(k, p) /\ PointFits(k, q)
  /\ StepFits(D, k, Steps(k)[pc], p, q)

LEMMA StepsFit ==
  ASSUME NEW D, WellTyped(D), NEW k \in DOMAIN D, NEW pc \in 1 .. Len(Steps(k))
  PROVE  StepHere(D, k, pc, D[k].points[pc], D[k].points[pc + 1])
<1> DEFINE P == D[k].points
           n == Len(Steps(k))
<1>1. Shaped(D, k) /\ BodyFits(D, k)
  BY DEF WellTyped
<1>2. P \in Seq(Points(k[2])) /\ n \in Nat /\ Len(P) = n + 1
  BY <1>1 DEF Shaped, Rules
<1>3. pc \in 1 .. Len(P) /\ pc + 1 \in 1 .. Len(P)
  BY <1>2
<1>4. P[pc] \in Points(k[2]) /\ P[pc + 1] \in Points(k[2])
  BY <1>2, <1>3
<1>5. PointFits(k, P[pc]) /\ PointFits(k, P[pc + 1]) /\ StepFits(D, k, Steps(k)[pc], P[pc], P[pc + 1])
  BY <1>1, <1>3 DEF BodyFits
<1> QED
  BY <1>3, <1>4, <1>5 DEF StepHere

LEMMA PointsFit ==
  ASSUME NEW D, WellTyped(D), NEW fs, FramesFit(D, fs), NEW d \in 1 .. Len(fs)
  PROVE  /\ Shaped(D, Key(fs[d]))
         /\ At(D, fs, d) \in Points(Len(fs[d].args))
         /\ PointFits(Key(fs[d]), At(D, fs, d))
<1> DEFINE k == Key(fs[d])
<1>1. k \in DOMAIN D /\ fs[d].pc \in 1 .. Len(D[k].points) /\ k[2] = Len(fs[d].args)
  BY DEF FramesFit, FrameFits, Key
<1>2. Shaped(D, k) /\ BodyFits(D, k)
  BY <1>1 DEF WellTyped
<1>3. D[k].points \in Seq(Points(k[2]))
  BY <1>2 DEF Shaped, Rules
<1>4. D[k].points[fs[d].pc] \in Points(k[2])
  BY <1>1, <1>3
<1>5. PointFits(k, D[k].points[fs[d].pc])
  BY <1>1, <1>2 DEF BodyFits
<1> QED
  BY <1>1, <1>2, <1>4, <1>5 DEF At

\* The innermost frame advances, and nothing else of the frames changes.
Stepped(fs, fs2) ==
  /\ fs2 \in Seq(Frame) /\ Len(fs2) = Len(fs)
  /\ \A i \in 1 .. Len(fs) - 1 : fs2[i] = fs[i]
  /\ LET a == fs[Len(fs)]
         b == fs2[Len(fs)]
     IN  b.fn = a.fn /\ b.args = a.args /\ b.to = a.to /\ b.pc = a.pc + 1

\* The innermost frame is not at its end.
Ready(fs) == fs[Len(fs)].pc <= Len(Steps(Key(fs[Len(fs)])))

LEMMA DepthIn ==
  ASSUME NEW D, NEW fs, FramesFit(D, fs), Len(fs) > 0
  PROVE  Len(fs) \in 1 .. 3 /\ fs \in Seq(Frame)
<1>1. fs \in Seq(Frame) /\ Len(fs) <= 3
  BY DEF FramesFit, MaxDepth
<1>2. PICK n \in Nat : n = Len(fs)
  BY <1>1
<1> QED
  BY <1>1, <1>2

Moves(D, fs, fs2, p, q) ==
  /\ FramesFit(D, fs2) /\ Len(fs2) = Len(fs) /\ Len(fs) \in 1 .. 3
  /\ \A i \in 1 .. Len(fs) : /\ Key(fs2[i]) = Key(fs[i]) /\ fs2[i].to = fs[i].to
                             /\ fs2[i].args = fs[i].args
                             /\ \A c : Place(fs2, i, c) = Place(fs, i, c)
  /\ \A i \in 1 .. Len(fs) : i < Len(fs) => At(D, fs2, i) = At(D, fs, i)
  /\ At(D, fs, Len(fs)) = p /\ At(D, fs2, Len(fs)) = q

LEMMA StepMoves ==
  ASSUME NEW D, WellTyped(D), NEW fs, FramesFit(D, fs), Len(fs) > 0,
         NEW fs2, Stepped(fs, fs2), Ready(fs)
  PROVE  LET k == Key(fs[Len(fs)])
             P == D[k].points
             pc == fs[Len(fs)].pc
         IN  /\ k \in DOMAIN D /\ StepHere(D, k, pc, P[pc], P[pc + 1])
             /\ Moves(D, fs, fs2, P[pc], P[pc + 1])
<1> DEFINE d  == Len(fs)
           k  == Key(fs[d])
           P  == D[k].points
           pc == fs[d].pc
<1>1. d \in 1 .. 3 /\ fs \in Seq(Frame)
  BY DepthIn
<1>2. FrameFits(D, fs, d)
  BY <1>1 DEF FramesFit
<1>3. k \in DOMAIN D /\ pc \in 1 .. Len(P)
  BY <1>2 DEF FrameFits
<1>4. Len(Steps(k)) \in Nat /\ Len(P) = Len(Steps(k)) + 1
  BY <1>3 DEF WellTyped, Shaped
<1>5. pc \in 1 .. Len(Steps(k))
  BY <1>3, <1>4 DEF Ready
<1>6. StepHere(D, k, pc, P[pc], P[pc + 1])
  BY <1>3, <1>5, StepsFit
<1>7. \A i \in 1 .. d : /\ fs2[i].fn = fs[i].fn /\ fs2[i].args = fs[i].args /\ fs2[i].to = fs[i].to
                        /\ fs2[i].pc = IF i = d THEN pc + 1 ELSE fs[i].pc
  <2>1. \A i \in 1 .. d : i # d => i \in 1 .. d - 1
    BY <1>1
  <2> QED
    BY <2>1 DEF Stepped
<1>8. \A i \in 1 .. d : Key(fs2[i]) = Key(fs[i])
  BY <1>7 DEF Key
<1>9. \A i \in 1 .. d : \A c : Place(fs2, i, c) = Place(fs, i, c)
  BY <1>7 DEF Place, Word
<1>10. FramesFit(D, fs2)
  <2>1. fs2 \in Seq(Frame) /\ Len(fs2) = d /\ d <= MaxDepth
    BY DEF Stepped, FramesFit
  <2>2. ASSUME NEW i \in 1 .. d PROVE FrameFits(D, fs2, i)
    <3>1. FrameFits(D, fs, i)
      BY DEF FramesFit
    <3>2. 1 \in 1 .. d
      BY <1>1
    <3>3. fs2[i].pc \in 1 .. Len(D[Key(fs2[i])].points)
      <4>1. CASE i = d
        BY <1>6, <1>7, <1>8, <4>1 DEF StepHere
      <4>2. CASE i # d
        BY <1>7, <1>8, <3>1, <4>2 DEF FrameFits
      <4> QED
        BY <4>1, <4>2
    <3> QED
      BY <1>7, <1>8, <3>1, <3>2, <3>3 DEF FrameFits
  <2>3. ASSUME NEW i \in 1 .. d - 1 PROVE Waits(fs2, i)
    <3>1. Waits(fs, i)
      BY DEF FramesFit
    <3>2. i \in 1 .. d /\ i + 1 \in 1 .. d /\ i # d
      BY <1>1
    <3> QED
      BY <1>7, <1>8, <1>9, <3>1, <3>2 DEF Waits
  <2> QED
    BY <2>1, <2>2, <2>3 DEF FramesFit
<1>11. /\ \A i \in 1 .. d : i < d => At(D, fs2, i) = At(D, fs, i)
       /\ At(D, fs, d) = P[pc] /\ At(D, fs2, d) = P[pc + 1]
  BY <1>1, <1>7, <1>8 DEF At
<1>12. Len(fs2) = d
  BY DEF Stepped
<1>13. Moves(D, fs, fs2, P[pc], P[pc + 1])
  BY <1>1, <1>7, <1>8, <1>9, <1>10, <1>11, <1>12 DEF Moves
<1> QED
  BY <1>3, <1>6, <1>13

-----------------------------------------------------------------------------
(* __gc_stack_top. *)

LEMMA GuardStays ==
  ASSUME NEW D, NEW fs, NEW fs2, NEW p, NEW q, Moves(D, fs, fs2, p, q), q.inside = p.inside,
         NEW t, GuardFits(D, fs, t)
  PROVE  GuardFits(D, fs2, t)
<1>1. \A i \in 1 .. Len(fs) : At(D, fs2, i).inside = At(D, fs, i).inside
  BY DEF Moves
<1>2. Len(fs2) = Len(fs) /\ Len(fs) \in 1 .. 3
  BY DEF Moves
<1> QED
  BY <1>1, <1>2 DEF GuardFits

LEMMA GuardEnters ==
  ASSUME NEW D, NEW fs, NEW fs2, NEW p, NEW q, Moves(D, fs, fs2, p, q), PreFits(p, q),
         NEW t, GuardFits(D, fs, t)
  PROVE  GuardFits(D, fs2, IF t = 0 THEN Len(fs) ELSE t) /\ t <= Len(fs)
<1>1. Len(fs2) = Len(fs) /\ Len(fs) \in 1 .. 3 /\ t \in 0 .. Len(fs)
  BY DEF Moves, GuardFits
<1>2. /\ \A i \in 1 .. Len(fs) : i < Len(fs) => At(D, fs2, i).inside = At(D, fs, i).inside
      /\ ~At(D, fs, Len(fs)).inside /\ At(D, fs2, Len(fs)).inside
  BY DEF Moves, PreFits
<1>3. CASE t = 0
  <2>1. \A i \in 1 .. Len(fs) : i < Len(fs) => ~At(D, fs2, i).inside
    BY <1>2, <1>3 DEF GuardFits
  <2> QED
    BY <1>1, <1>2, <1>3, <2>1 DEF GuardFits
<1>4. CASE t # 0
  <2>1. At(D, fs, t).inside /\ t < Len(fs) /\ At(D, fs2, t).inside
    BY <1>1, <1>2, <1>4 DEF GuardFits
  <2>2. \A i \in 1 .. Len(fs) : i < t => ~At(D, fs2, i).inside
    BY <1>1, <1>2, <1>4, <2>1 DEF GuardFits
  <2> QED
    BY <1>1, <1>4, <2>1, <2>2 DEF GuardFits
<1> QED
  BY <1>3, <1>4

LEMMA GuardLeaves ==
  ASSUME NEW D, NEW fs, NEW fs2, NEW p, NEW q, Moves(D, fs, fs2, p, q), PostFits(p, q),
         NEW t, GuardFits(D, fs, t)
  PROVE  GuardFits(D, fs2, IF t = Len(fs) THEN 0 ELSE t) /\ t \in 1 .. Len(fs)
<1>1. Len(fs2) = Len(fs) /\ Len(fs) \in 1 .. 3 /\ t \in 0 .. Len(fs)
  BY DEF Moves, GuardFits
<1>2. /\ \A i \in 1 .. Len(fs) : i < Len(fs) => At(D, fs2, i).inside = At(D, fs, i).inside
      /\ At(D, fs, Len(fs)).inside /\ ~At(D, fs2, Len(fs)).inside
  BY DEF Moves, PostFits
<1>3. t # 0
  BY <1>1, <1>2 DEF GuardFits
<1>4. \A i \in 1 .. Len(fs) : i < t => ~At(D, fs2, i).inside
  BY <1>1, <1>2, <1>3 DEF GuardFits
<1>5. CASE t = Len(fs)
  BY <1>1, <1>2, <1>4, <1>5 DEF GuardFits
<1>6. CASE t # Len(fs)
  BY <1>1, <1>2, <1>3, <1>4, <1>6 DEF GuardFits
<1> QED
  BY <1>1, <1>3, <1>5, <1>6

-----------------------------------------------------------------------------
(* The pool. *)

\* The words of the frames lie one behind the other.
Stacked(D, fs, b) ==
  /\ Offset(D, fs, b, 1) = b
  /\ \A d \in 1 .. Len(fs) :
       /\ Offset(D, fs, b, d) \in Nat /\ Offset(D, fs, b, d + 1) \in Nat
       /\ At(D, fs, d).held \in Seq(Operands(Len(fs[d].args)))
       /\ Len(At(D, fs, d).held) \in Nat
       /\ Offset(D, fs, b, d + 1) = Offset(D, fs, b, d) + Len(At(D, fs, d).held)
       /\ b <= Offset(D, fs, b, d)
       /\ Offset(D, fs, b, d + 1) <= Offset(D, fs, b, Len(fs) + 1)

LEMMA HeldTyped ==
  ASSUME NEW D, WellTyped(D), NEW fs, FramesFit(D, fs), NEW d \in 1 .. Len(fs)
  PROVE  At(D, fs, d).held \in Seq(Operands(Len(fs[d].args))) /\ Len(At(D, fs, d).held) \in Nat
<1>1. At(D, fs, d).held \in Seq(Operands(Len(fs[d].args)))
  BY PointsFit DEF Points
<1> QED
  BY <1>1

LEMMA PoolIsStacked ==
  ASSUME NEW D, WellTyped(D), NEW fs, FramesFit(D, fs), NEW b \in 0 .. 1
  PROVE  Stacked(D, fs, b)
<1> DEFINE H(d) == Len(At(D, fs, d).held)
<1>1. \A d \in 1 .. Len(fs) : /\ At(D, fs, d).held \in Seq(Operands(Len(fs[d].args)))
                              /\ H(d) \in Nat
  BY HeldTyped
<1>2. PICK n \in Nat : n = Len(fs)
  BY DEF FramesFit
<1>3. n <= 3
  BY <1>2 DEF FramesFit, MaxDepth
<1>4. \A e : Offset(D, fs, b, e) = b + (IF e > 1 THEN H(1) ELSE 0) + (IF e > 2 THEN H(2) ELSE 0)
                                     + (IF e > 3 THEN H(3) ELSE 0)
  BY DEF Offset
<1> HIDE DEF H
<1>5. /\ Offset(D, fs, b, 1) = b
      /\ n >= 1 => Offset(D, fs, b, 2) = b + H(1)
      /\ n >= 2 => Offset(D, fs, b, 3) = b + H(1) + H(2)
      /\ n >= 3 => Offset(D, fs, b, 4) = b + H(1) + H(2) + H(3)
  BY <1>1, <1>2, <1>3, <1>4
<1>6. ASSUME NEW d \in 1 .. n
      PROVE  /\ Offset(D, fs, b, d) \in Nat /\ Offset(D, fs, b, d + 1) \in Nat
             /\ Offset(D, fs, b, d + 1) = Offset(D, fs, b, d) + H(d)
             /\ b <= Offset(D, fs, b, d)
             /\ Offset(D, fs, b, d + 1) <= Offset(D, fs, b, n + 1)
  <2>1. \A e \in 1 .. n : H(e) \in Nat
    BY <1>1, <1>2
  <2>2. d = 1 \/ d = 2 \/ d = 3
    BY <1>3
  <2>3. n = 1 \/ n = 2 \/ n = 3
    BY <1>3
  <2> QED
    BY <1>5, <2>1, <2>2, <2>3
<1>7. \A d \in 1 .. Len(fs) : H(d) = Len(At(D, fs, d).held)
  BY DEF H
<1> QED
  BY <1>1, <1>2, <1>5, <1>6, <1>7 DEF Stacked

\* A step of the innermost frame leaves the offsets alone, up to its own words.
LEMMA OffsetsMove ==
  ASSUME NEW D, NEW fs, NEW fs2, NEW p, NEW q, Moves(D, fs, fs2, p, q), NEW b \in 0 .. 1
  PROVE  \A d \in 1 .. Len(fs) : Offset(D, fs2, b, d) = Offset(D, fs, b, d)
<1>1. \A i \in 1 .. Len(fs) : i < Len(fs) => At(D, fs2, i) = At(D, fs, i)
  BY DEF Moves
<1>2. PICK n \in 1 .. 3 : n = Len(fs)
  BY DEF Moves
<1>3. SUFFICES ASSUME NEW d \in 1 .. n PROVE Offset(D, fs2, b, d) = Offset(D, fs, b, d)
  BY <1>2
<1>4. \A i \in 1 .. 3 : i < d => Len(At(D, fs2, i).held) = Len(At(D, fs, i).held)
  BY <1>1, <1>2
<1>5. d = 1 \/ d = 2 \/ d = 3
  BY <1>2
<1>6. CASE d = 1
  BY <1>6 DEF Offset
<1>7. CASE d = 2
  <2>1. Len(At(D, fs2, 1).held) = Len(At(D, fs, 1).held)
    BY <1>4, <1>7
  <2> QED
    BY <1>7, <2>1 DEF Offset
<1>8. CASE d = 3
  <2>1. /\ Len(At(D, fs2, 1).held) = Len(At(D, fs, 1).held)
        /\ Len(At(D, fs2, 2).held) = Len(At(D, fs, 2).held)
    BY <1>4, <1>8
  <2>2. \A gs : Offset(D, gs, b, 3) = b + Len(At(D, gs, 1).held) + Len(At(D, gs, 2).held) + 0
    BY DEF Offset
  <2> QED
    BY <1>8, <2>1, <2>2
<1> QED
  BY <1>5, <1>6, <1>7, <1>8

\* The words of frame d are in the pool behind those of the frames around it.
Block(D, fs, p, b, d) ==
  \A i \in 1 .. Len(At(D, fs, d).held) :
    p[Offset(D, fs, b, d) + i] = Place(fs, d, At(D, fs, d).held[i])

\* The words of the frames around the innermost one, in two pools that agree
\* as far as these reach.
LEMMA OuterBlocks ==
  ASSUME NEW D, WellTyped(D), NEW fs, FramesFit(D, fs), NEW fs2,
         NEW p, NEW q, Moves(D, fs, fs2, p, q),
         NEW pool1, NEW b, PoolFits(D, fs, pool1, b), NEW pool2,
         \A i \in 1 .. Offset(D, fs, b, Len(fs)) : pool2[i] = pool1[i]
  PROVE  /\ \A d \in 1 .. Len(fs2) : d < Len(fs2) => Block(D, fs2, pool2, b, d)
         /\ b = 1 => pool2[1] = GlobalSysargs
<1> DEFINE n == Len(fs)
<1>1. b \in 0 .. 1 /\ n \in 1 .. 3 /\ Len(fs2) = n
  BY DEF PoolFits, Moves
<1>2. Stacked(D, fs, b) /\ \A d \in 1 .. n : Offset(D, fs2, b, d) = Offset(D, fs, b, d)
  BY <1>1, PoolIsStacked, OffsetsMove
<1>3. ASSUME NEW d \in 1 .. n, d < n PROVE Block(D, fs2, pool2, b, d)
  <2>1. At(D, fs2, d) = At(D, fs, d) /\ \A c : Place(fs2, d, c) = Place(fs, d, c)
    BY <1>3 DEF Moves
  <2>2. /\ Offset(D, fs, b, d) \in Nat /\ Len(At(D, fs, d).held) \in Nat
        /\ Offset(D, fs, b, d + 1) = Offset(D, fs, b, d) + Len(At(D, fs, d).held)
    BY <1>2 DEF Stacked
  <2>3. Offset(D, fs, b, d + 1) <= Offset(D, fs, b, n) /\ Offset(D, fs, b, n) \in Nat
    <3>1. CASE d + 1 = n
      BY <1>1, <1>2, <3>1 DEF Stacked
    <3>2. CASE d + 1 # n
      <4>0. PICK e \in 1 .. 3 : e = n
        BY <1>1
      <4>1. d + 1 \in 1 .. n /\ d = 1 /\ n = 3
        <5>1. d \in 1 .. e /\ d < e /\ d + 1 # e
          BY <1>3, <3>2, <4>0
        <5>2. d + 1 \in 1 .. e /\ d = 1 /\ e = 3
          BY <5>1
        <5> QED
          BY <4>0, <5>2
      <4>2. Offset(D, fs, b, 2) <= Offset(D, fs, b, 3)
        <5>1. /\ Offset(D, fs, b, 3) = Offset(D, fs, b, 2) + Len(At(D, fs, 2).held)
              /\ Offset(D, fs, b, 2) \in Nat /\ Len(At(D, fs, 2).held) \in Nat
          <6>1. 2 \in 1 .. Len(fs) /\ 2 + 1 = 3
            BY <4>1
          <6> QED
            BY <1>2, <6>1 DEF Stacked
        <5> QED
          BY <5>1
      <4> QED
        BY <1>1, <1>2, <4>1, <4>2 DEF Stacked
    <3> QED
      BY <3>1, <3>2
  <2>4. ASSUME NEW i \in 1 .. Len(At(D, fs, d).held)
        PROVE  pool2[Offset(D, fs, b, d) + i] = Place(fs2, d, At(D, fs2, d).held[i])
    <3>1. Offset(D, fs, b, d) + i \in 1 .. Offset(D, fs, b, n)
      BY <2>2, <2>3
    <3>2. pool1[Offset(D, fs, b, d) + i] = Place(fs, d, At(D, fs, d).held[i])
      BY DEF PoolFits
    <3> QED
      BY <2>1, <3>1, <3>2
  <2> QED
    BY <1>2, <2>1, <2>4 DEF Block
<1>4. b = 1 => pool2[1] = GlobalSysargs
  <2>1. b <= Offset(D, fs, b, n) /\ Offset(D, fs, b, n) \in Nat
    BY <1>1, <1>2 DEF Stacked
  <2>2. b = 1 => 1 \in 1 .. Offset(D, fs, b, n) /\ pool1[1] = GlobalSysargs
    BY <2>1 DEF PoolFits
  <2> QED
    BY <2>2
<1> QED
  BY <1>1, <1>3, <1>4

\* The pool is in order once the words of the innermost frame are.
LEMMA PoolOf ==
  ASSUME NEW D, WellTyped(D), NEW fs, FramesFit(D, fs), NEW fs2,
         NEW p, NEW q, Moves(D, fs, fs2, p, q),
         NEW pool1, NEW b, PoolFits(D, fs, pool1, b), NEW pool2 \in Seq(Cells),
         \A i \in 1 .. Offset(D, fs, b, Len(fs)) : pool2[i] = pool1[i],
         Len(pool2) = Offset(D, fs, b, Len(fs)) + Len(q.held),
         \A i \in 1 .. Len(q.held) :
           pool2[Offset(D, fs, b, Len(fs)) + i] = Place(fs, Len(fs), q.held[i])
  PROVE  PoolFits(D, fs2, pool2, b)
<1> DEFINE n == Len(fs)
<1>1. b \in 0 .. 1 /\ n \in 1 .. 3 /\ Len(fs2) = n /\ FramesFit(D, fs2)
  BY DEF PoolFits, Moves
<1>2. /\ \A d \in 1 .. n : d < n => Block(D, fs2, pool2, b, d)
      /\ b = 1 => pool2[1] = GlobalSysargs
  BY <1>1, OuterBlocks
<1>3. Offset(D, fs2, b, n) = Offset(D, fs, b, n) /\ At(D, fs2, n) = q
      /\ \A c : Place(fs2, n, c) = Place(fs, n, c)
  <2>1. n \in 1 .. n
    BY <1>1
  <2>2. Offset(D, fs2, b, n) = Offset(D, fs, b, n)
    BY <1>1, <2>1, OffsetsMove
  <2> QED
    BY <2>1, <2>2 DEF Moves
<1>4. Block(D, fs2, pool2, b, n)
  BY <1>3 DEF Block
<1>5. Stacked(D, fs2, b)
  BY <1>1, PoolIsStacked
<1>6. Offset(D, fs2, b, n + 1) = Offset(D, fs2, b, n) + Len(q.held)
  <2>1. n \in 1 .. Len(fs2)
    BY <1>1
  <2>2. Offset(D, fs2, b, n + 1) = Offset(D, fs2, b, n) + Len(At(D, fs2, n).held)
    BY <1>5, <2>1 DEF Stacked
  <2> QED
    BY <1>3, <2>2
<1>7. \A d \in 1 .. n : Block(D, fs2, pool2, b, d)
  BY <1>1, <1>2, <1>4
<1> QED
  BY <1>1, <1>2, <1>3, <1>6, <1>7 DEF PoolFits, Block

LEMMA PoolStays ==
  ASSUME NEW D, WellTyped(D), NEW fs, FramesFit(D, fs), NEW fs2,
         NEW p, NEW q, Moves(D, fs, fs2, p, q), q.held = p.held,
         NEW pl, NEW b, PoolFits(D, fs, pl, b)
  PROVE  PoolFits(D, fs2, pl, b)
<1>1. b \in 0 .. 1 /\ Len(fs) \in 1 .. 3 /\ At(D, fs, Len(fs)) = p
  BY DEF PoolFits, Moves
<1>2. Stacked(D, fs, b)
  BY <1>1, PoolIsStacked
<1>3. pl \in Seq(Cells)
  BY DEF PoolFits
<1>4. Len(fs) \in 1 .. Len(fs)
  BY <1>1
<1>5. Offset(D, fs, b, Len(fs) + 1) = Offset(D, fs, b, Len(fs)) + Len(q.held)
  BY <1>1, <1>2, <1>4 DEF Stacked
<1>6. Len(pl) = Offset(D, fs, b, Len(fs)) + Len(q.held)
  BY <1>5 DEF PoolFits
<1>7. \A i \in 1 .. Len(q.held) :
        pl[Offset(D, fs, b, Len(fs)) + i] = Place(fs, Len(fs), q.held[i])
  BY <1>1, <1>4 DEF PoolFits
<1> QED
  BY <1>3, <1>6, <1>7, PoolOf

\* The last word of a pool, and the pool without it.
LEMMA LastWord ==
  ASSUME NEW S, NEW s \in Seq(S), NEW n \in Nat, Len(s) = n + 1
  PROVE  /\ s # <<>> /\ Last(s) = s[n + 1]
         /\ Front(s) \in Seq(S) /\ Len(Front(s)) = n
         /\ \A i \in 1 .. n : Front(s)[i] = s[i]
BY DEF Last, Front

LEMMA PoolGrows ==
  ASSUME NEW D, WellTyped(D), NEW fs, FramesFit(D, fs), NEW fs2,
         NEW p, NEW q, Moves(D, fs, fs2, p, q),
         NEW s, PushFits(s, p, q), NEW c \in Operands(Len(fs[Len(fs)].args)), c = s.cell,
         NEW pl, NEW b, PoolFits(D, fs, pl, b)
  PROVE  PoolFits(D, fs2, Append(pl, Place(fs, Len(fs), c)), b)
<1> DEFINE n == Len(fs)
           w == Place(fs, n, c)
           z == Offset(D, fs, b, n)
<1>1. b \in 0 .. 1 /\ n \in 1 .. n /\ At(D, fs, n) = p
  BY DEF PoolFits, Moves
<1>2. Stacked(D, fs, b) /\ Level(fs, n, c)
  BY <1>1, PoolIsStacked, PlaceLevel
<1>3. w \in Cells
  BY <1>2 DEF Level
<1>4. p.held \in Seq(Operands(Len(fs[n].args))) /\ z \in Nat /\ Offset(D, fs, b, n + 1) = z + Len(p.held)
  BY <1>1, <1>2 DEF Stacked
<1>5. /\ pl \in Seq(Cells) /\ Len(pl) = z + Len(p.held)
      /\ \A i \in 1 .. Len(p.held) : pl[z + i] = Place(fs, n, p.held[i])
  <2>1. pl \in Seq(Cells) /\ Len(pl) = Offset(D, fs, b, n + 1)
    BY DEF PoolFits
  <2>2. \A i \in 1 .. Len(p.held) : pl[z + i] = Place(fs, n, p.held[i])
    BY <1>1 DEF PoolFits
  <2> QED
    BY <1>4, <2>1, <2>2
<1> DEFINE pl2 == Append(pl, w)
<1> HIDE DEF w, z, n
<1>6. /\ pl2 \in Seq(Cells) /\ Len(pl2) = Len(pl) + 1 /\ pl2[Len(pl) + 1] = w
      /\ \A i \in 1 .. Len(pl) : pl2[i] = pl[i]
  BY <1>3, <1>5
<1>7. /\ Len(q.held) = Len(p.held) + 1 /\ q.held[Len(p.held) + 1] = c
      /\ \A i \in 1 .. Len(p.held) : q.held[i] = p.held[i]
      /\ Len(p.held) \in Nat
  <2>1. q.held = Append(p.held, c)
    BY DEF PushFits
  <2> QED
    BY <1>4, <2>1
<1> HIDE DEF pl2
<1>8. \A i \in 1 .. z : pl2[i] = pl[i]
  <2>1. \A i \in 1 .. z : i \in 1 .. Len(pl)
    BY <1>4, <1>5, <1>7
  <2> QED
    BY <1>6, <2>1
<1>9. Len(pl2) = z + Len(q.held)
  BY <1>4, <1>5, <1>6, <1>7
<1>10. ASSUME NEW i \in 1 .. Len(q.held) PROVE pl2[z + i] = Place(fs, n, q.held[i])
  <2>1. CASE i = Len(p.held) + 1
    <3>1. z + i = Len(pl) + 1
      BY <1>4, <1>5, <1>7, <2>1
    <3> QED
      BY <1>6, <1>7, <2>1, <3>1 DEF w
  <2>2. CASE i # Len(p.held) + 1
    <3>1. i \in 1 .. Len(p.held)
      BY <1>7, <2>2
    <3>2. z \in Nat /\ Len(pl) = z + Len(p.held) /\ Len(p.held) \in Nat
      BY <1>4, <1>5, <1>7
    <3>3. z + i \in 1 .. Len(pl)
      BY <3>1, <3>2
    <3> QED
      BY <1>5, <1>6, <1>7, <3>1, <3>3
  <2> QED
    BY <2>1, <2>2
<1>11. PoolFits(D, fs2, pl2, b)
  <2>1. pl2 \in Seq(Cells)
    BY <1>6
  <2>2. /\ \A i \in 1 .. Offset(D, fs, b, Len(fs)) : pl2[i] = pl[i]
        /\ Len(pl2) = Offset(D, fs, b, Len(fs)) + Len(q.held)
        /\ \A i \in 1 .. Len(q.held) :
             pl2[Offset(D, fs, b, Len(fs)) + i] = Place(fs, Len(fs), q.held[i])
    BY <1>8, <1>9, <1>10 DEF n, z
  <2> QED
    BY <2>1, <2>2, PoolOf
<1> QED
  BY <1>11 DEF pl2, w, n

Popped(D, fs, fs2, pl, b, c) ==
  /\ pl # <<>> /\ Last(pl) = Place(fs, Len(fs), c)
  /\ PoolFits(D, fs2, Front(pl), b)

LEMMA PoolShrinks ==
  ASSUME NEW D, WellTyped(D), NEW fs, FramesFit(D, fs), NEW fs2,
         NEW p, NEW q, Moves(D, fs, fs2, p, q),
         NEW c, p.held = Append(q.held, c),
         NEW pl, NEW b, PoolFits(D, fs, pl, b)
  PROVE  Popped(D, fs, fs2, pl, b, c)
<1> DEFINE n == Len(fs)
           z == Offset(D, fs, b, n)
<1>1. b \in 0 .. 1 /\ n \in 1 .. n /\ At(D, fs, n) = p /\ At(D, fs2, n) = q
      /\ FramesFit(D, fs2) /\ Len(fs2) = n
  <2>1. b \in 0 .. 1 /\ n \in 1 .. 3
    BY DEF PoolFits, Moves
  <2>2. At(D, fs, n) = p /\ At(D, fs2, n) = q /\ FramesFit(D, fs2) /\ Len(fs2) = n
    BY DEF Moves
  <2> QED
    BY <2>1, <2>2
<1>2. Stacked(D, fs, b) /\ Stacked(D, fs2, b)
  BY <1>1, PoolIsStacked
<1>3. /\ z \in Nat /\ Offset(D, fs, b, n + 1) = z + Len(p.held)
      /\ q.held \in Seq(Operands(Len(fs2[n].args)))
  BY <1>1, <1>2 DEF Stacked
<1>4. /\ pl \in Seq(Cells) /\ Len(pl) = z + Len(p.held)
      /\ \A i \in 1 .. Len(p.held) : pl[z + i] = Place(fs, n, p.held[i])
  <2>1. pl \in Seq(Cells) /\ Len(pl) = Offset(D, fs, b, n + 1)
    BY DEF PoolFits
  <2>2. \A i \in 1 .. Len(p.held) : pl[z + i] = Place(fs, n, p.held[i])
    BY <1>1 DEF PoolFits
  <2> QED
    BY <1>3, <2>1, <2>2
<1>5. /\ Len(p.held) = Len(q.held) + 1 /\ p.held[Len(q.held) + 1] = c
      /\ \A i \in 1 .. Len(q.held) : p.held[i] = q.held[i]
      /\ Len(q.held) \in Nat
  BY <1>3
<1> HIDE DEF n, z
<1> DEFINE pl2 == Front(pl)
           m   == z + Len(q.held)
<1>6. m \in Nat /\ Len(pl) = m + 1
  BY <1>3, <1>4, <1>5
<1> HIDE DEF m
<1>7. /\ pl # <<>> /\ Last(pl) = pl[m + 1]
      /\ pl2 \in Seq(Cells) /\ Len(pl2) = m
      /\ \A i \in 1 .. m : pl2[i] = pl[i]
  BY <1>4, <1>6, LastWord
<1> HIDE DEF pl2
<1>8. Last(pl) = Place(fs, n, c)
  <2>1. m + 1 = z + Len(p.held) /\ Len(p.held) \in 1 .. Len(p.held)
    BY <1>3, <1>5 DEF m
  <2> QED
    BY <1>4, <1>5, <1>7, <2>1
<1>9. \A i \in 1 .. z : pl2[i] = pl[i]
  BY <1>3, <1>5, <1>7 DEF m
<1>10. ASSUME NEW i \in 1 .. Len(q.held) PROVE pl2[z + i] = Place(fs, n, q.held[i])
  <2>1. z + i \in 1 .. m /\ i \in 1 .. Len(p.held)
    BY <1>3, <1>5 DEF m
  <2> QED
    BY <1>4, <1>5, <1>7, <2>1
<1>11. PoolFits(D, fs2, pl2, b)
  BY <1>7, <1>9, <1>10, PoolOf DEF n, z, m
<1> QED
  BY <1>7, <1>8, <1>11 DEF Popped, pl2, n

-----------------------------------------------------------------------------
(* The words. *)

\* Words of frames around the innermost one are not in it.
LEMMA OuterPlaces ==
  ASSUME NEW D, WellTyped(D), NEW fs, FramesFit(D, fs),
         NEW d \in 1 .. Len(fs), d < Len(fs), NEW c \in Operands(Len(fs[d].args)), NEW w,
         Len(fs) = 1 \/ w[1] = Len(fs)
  PROVE  Place(fs, d, c) # w /\ Place(fs, d, c) \in Cells
<1>1. Level(fs, d, c)
  BY PlaceLevel
<1>2. PICK n \in 1 .. 3 : n = Len(fs)
  <2>1. Len(fs) \in 1 .. Len(fs)
    BY DEF FramesFit
  <2> QED
    BY <2>1, Depths
<1>3. w[1] = n /\ d < n
  BY <1>2
<1>4. GlobalSysargs[1] = 4
  BY DEF GlobalSysargs, MaxDepth
<1> QED
  BY <1>1, <1>2, <1>3, <1>4 DEF Level

\* What live and fresh say is said of operands.
LEMMA LiveTyped ==
  ASSUME NEW D, WellTyped(D), NEW fs, FramesFit(D, fs), NEW d \in 1 .. Len(fs)
  PROVE  /\ At(D, fs, d).live \subseteq Operands(Len(fs[d].args))
         /\ At(D, fs, d).fresh \subseteq At(D, fs, d).live
         /\ Range(At(D, fs, d).held) \subseteq At(D, fs, d).live
BY PointsFit DEF Points, PointFits

Trusted(D, fs, d) == d = 1 \/ ~D[Key(fs[1])].lax

LEMMA AwaitedMoves ==
  ASSUME NEW D, NEW fs, NEW fs2, NEW p, NEW q, Moves(D, fs, fs2, p, q), NEW d \in 1 .. Len(fs)
  PROVE  /\ \A c : Awaited(fs2, d, c) <=> Awaited(fs, d, c)
         /\ Trusted(D, fs2, d) <=> Trusted(D, fs, d)
<1>1. Len(fs2) = Len(fs) /\ \A c : Place(fs2, d, c) = Place(fs, d, c)
  BY DEF Moves
<1>2. Key(fs2[1]) = Key(fs[1])
  BY DEF Moves
<1>3. d < Len(fs) => fs2[d + 1].to = fs[d + 1].to
  <2>1. PICK n \in 1 .. 3 : n = Len(fs)
    BY DEF Moves
  <2>2. d < n => d + 1 \in 1 .. n
    BY <2>1
  <2> QED
    BY <2>1, <2>2 DEF Moves
<1> QED
  BY <1>1, <1>2, <1>3 DEF Awaited, Trusted

\* The word w alone has changed.
Writes(m, m2, w) == \A c \in Cells : c # w => m2[c] = m[c]

\* w is a word of the innermost frame, or no other frame can name it.
InFrame(fs, w) == Len(fs) = 1 \/ w[1] = Len(fs)

LiveWritten(D, fs, p, q, m2, w) ==
  /\ Trusted(D, fs, Len(fs)) => m2[w] # "old"
  /\ \A c \in q.live : c \in p.live \/ Place(fs, Len(fs), c) = w

FreshWritten(fs, p, q, m2, w) ==
  \A c \in q.fresh : IF Place(fs, Len(fs), c) = w THEN m2[w] = "current" ELSE c \in p.fresh

GlobalWritten(fs, q, m, m2) ==
  \/ m2[GlobalSysargs] = m[GlobalSysargs]
  \/ Len(fs) = 1 /\ Sysargs \in q.live /\ m2[GlobalSysargs] = "current"

LEMMA LiveMoves ==
  ASSUME NEW D, WellTyped(D), NEW fs, FramesFit(D, fs), NEW fs2,
         NEW p, NEW q, Moves(D, fs, fs2, p, q),
         NEW m, LiveFits(D, fs, m), NEW m2, NEW w, Writes(m, m2, w),
         InFrame(fs, w), LiveWritten(D, fs, p, q, m2, w)
  PROVE  LiveFits(D, fs2, m2)
<1>1. Len(fs2) = Len(fs) /\ FramesFit(D, fs2) /\ Len(fs) \in 1 .. 3
  BY DEF Moves
<1> SUFFICES ASSUME NEW d \in 1 .. Len(fs), Trusted(D, fs2, d),
                    NEW c \in At(D, fs2, d).live
             PROVE  Awaited(fs2, d, c) \/ m2[Place(fs2, d, c)] # "old"
  BY <1>1 DEF LiveFits, Trusted
<1>2. /\ Trusted(D, fs, d) /\ Place(fs2, d, c) = Place(fs, d, c)
      /\ Awaited(fs2, d, c) <=> Awaited(fs, d, c)
  BY AwaitedMoves DEF Moves
<1>3. CASE d < Len(fs)
  <2>1. At(D, fs2, d) = At(D, fs, d)
    BY <1>3 DEF Moves
  <2>2. c \in At(D, fs, d).live /\ c \in Operands(Len(fs[d].args))
    BY <2>1, LiveTyped
  <2>3. Place(fs, d, c) # w /\ Place(fs, d, c) \in Cells
    BY <1>3, <2>2, OuterPlaces DEF InFrame
  <2>4. Awaited(fs, d, c) \/ m[Place(fs, d, c)] # "old"
    BY <1>2, <2>2 DEF LiveFits, Trusted
  <2> QED
    BY <1>2, <2>3, <2>4 DEF Writes
<1>4. CASE d = Len(fs)
  <2>1. At(D, fs2, d) = q /\ At(D, fs, d) = p
    BY <1>4 DEF Moves
  <2>2. CASE Place(fs, d, c) = w
    BY <1>2, <1>4, <2>2 DEF LiveWritten
  <2>3. CASE Place(fs, d, c) # w
    <3>1. c \in At(D, fs, d).live /\ c \in Operands(Len(fs[d].args))
      BY <1>4, <2>1, <2>3, LiveTyped DEF LiveWritten
    <3>2. Place(fs, d, c) \in Cells
      BY <3>1, PlaceLevel DEF Level
    <3>3. ~Awaited(fs, d, c)
      BY <1>1, <1>4 DEF Awaited
    <3>4. m[Place(fs, d, c)] # "old"
      BY <1>2, <3>1, <3>3 DEF LiveFits, Trusted
    <3> QED
      BY <1>2, <2>3, <3>2, <3>4 DEF Writes
  <2> QED
    BY <2>2, <2>3
<1> QED
  BY <1>1, <1>3, <1>4

LEMMA FreshMoves ==
  ASSUME NEW D, WellTyped(D), NEW fs, FramesFit(D, fs), NEW fs2,
         NEW p, NEW q, Moves(D, fs, fs2, p, q),
         NEW m, FreshFits(D, fs, m), NEW m2, NEW w, Writes(m, m2, w),
         InFrame(fs, w), FreshWritten(fs, p, q, m2, w)
  PROVE  FreshFits(D, fs2, m2)
<1>1. Len(fs2) = Len(fs) /\ FramesFit(D, fs2) /\ Len(fs) \in 1 .. 3
  BY DEF Moves
<1> SUFFICES ASSUME NEW d \in 1 .. Len(fs), NEW c \in At(D, fs2, d).fresh
             PROVE  Awaited(fs2, d, c) \/ m2[Place(fs2, d, c)] = "current"
  BY <1>1 DEF FreshFits
<1>2. /\ Place(fs2, d, c) = Place(fs, d, c)
      /\ Awaited(fs2, d, c) <=> Awaited(fs, d, c)
  BY AwaitedMoves DEF Moves
<1>3. CASE d < Len(fs)
  <2>1. At(D, fs2, d) = At(D, fs, d)
    BY <1>3 DEF Moves
  <2>2. c \in At(D, fs, d).fresh /\ c \in Operands(Len(fs[d].args))
    BY <2>1, LiveTyped
  <2>3. Place(fs, d, c) # w /\ Place(fs, d, c) \in Cells
    BY <1>3, <2>2, OuterPlaces DEF InFrame
  <2>4. Awaited(fs, d, c) \/ m[Place(fs, d, c)] = "current"
    BY <2>2 DEF FreshFits
  <2> QED
    BY <1>2, <2>3, <2>4 DEF Writes
<1>4. CASE d = Len(fs)
  <2>1. At(D, fs2, d) = q /\ At(D, fs, d) = p
    BY <1>4 DEF Moves
  <2>2. CASE Place(fs, d, c) = w
    BY <1>2, <1>4, <2>1, <2>2 DEF FreshWritten
  <2>3. CASE Place(fs, d, c) # w
    <3>1. c \in At(D, fs, d).fresh /\ c \in Operands(Len(fs[d].args))
      BY <1>4, <2>1, <2>3, LiveTyped DEF FreshWritten
    <3>2. Place(fs, d, c) \in Cells
      BY <3>1, PlaceLevel DEF Level
    <3>3. ~Awaited(fs, d, c)
      BY <1>1, <1>4 DEF Awaited
    <3>4. m[Place(fs, d, c)] = "current"
      BY <3>1, <3>3 DEF FreshFits
    <3> QED
      BY <1>2, <2>3, <3>2, <3>4 DEF Writes
  <2> QED
    BY <2>2, <2>3
<1> QED
  BY <1>1, <1>3, <1>4

LEMMA WordsStay ==
  ASSUME NEW D, WellTyped(D), NEW fs, FramesFit(D, fs), NEW fs2,
         NEW p, NEW q, Moves(D, fs, fs2, p, q),
         q.live \subseteq p.live, q.fresh \subseteq p.fresh,
         NEW m, LiveFits(D, fs, m), FreshFits(D, fs, m)
  PROVE  LiveFits(D, fs2, m) /\ FreshFits(D, fs2, m)
<1>1. Len(fs2) = Len(fs) /\ Len(fs) \in 1 .. 3
  BY DEF Moves
<1>2. ASSUME NEW d \in 1 .. Len(fs)
      PROVE  At(D, fs2, d).live \subseteq At(D, fs, d).live /\ At(D, fs2, d).fresh \subseteq At(D, fs, d).fresh
  <2>1. CASE d < Len(fs)
    BY <2>1 DEF Moves
  <2>2. CASE d = Len(fs)
    BY <2>2 DEF Moves
  <2> QED
    BY <1>1, <2>1, <2>2
<1>3. \A d \in 1 .. Len(fs) : /\ \A c : Awaited(fs2, d, c) <=> Awaited(fs, d, c)
                              /\ Trusted(D, fs2, d) <=> Trusted(D, fs, d)
                              /\ \A c : Place(fs2, d, c) = Place(fs, d, c)
  BY AwaitedMoves DEF Moves
<1>4. LiveFits(D, fs2, m)
  BY <1>1, <1>2, <1>3 DEF LiveFits, Trusted
<1>5. FreshFits(D, fs2, m)
  BY <1>1, <1>2, <1>3 DEF FreshFits
<1> QED
  BY <1>4, <1>5

LEMMA GlobalMoves ==
  ASSUME NEW D, NEW fs, FramesFit(D, fs), NEW fs2,
         NEW p, NEW q, Moves(D, fs, fs2, p, q),
         NEW m, NEW b, GlobalFits(D, fs, m, b), NEW m2,
         KeepsSysargs(p, q), GlobalWritten(fs, q, m, m2)
  PROVE  GlobalFits(D, fs2, m2, b)
<1>1. Len(fs2) = Len(fs) /\ Len(fs) \in 1 .. 3 /\ 1 \in 1 .. Len(fs)
  BY DEF Moves
<1>2. fs # <<>> /\ fs2 # <<>>
  BY <1>1
<1>3. fs2[1].fn = fs[1].fn
  BY <1>1 DEF Moves, Key
<1>4. IF Len(fs) = 1 THEN At(D, fs, 1) = p /\ At(D, fs2, 1) = q ELSE At(D, fs2, 1) = At(D, fs, 1)
  BY <1>1 DEF Moves
<1>5. m2[GlobalSysargs] # "old" /\ (b = 0 <=> fs2[1].fn = "set_args")
  BY <1>2, <1>3 DEF GlobalFits, GlobalWritten
<1>6. CASE fs[1].fn # "set_args"
  BY <1>2, <1>3, <1>5, <1>6 DEF GlobalFits, GlobalWritten
<1>7. CASE fs[1].fn = "set_args"
  <2>1. Sysargs \in At(D, fs, 1).live \/ m[GlobalSysargs] = "unboxed"
    BY <1>2, <1>7 DEF GlobalFits
  <2>2. Sysargs \in At(D, fs2, 1).live \/ m2[GlobalSysargs] = "unboxed"
    BY <1>4, <2>1 DEF KeepsSysargs, GlobalWritten
  <2> QED
    BY <1>2, <1>3, <1>5, <1>7, <2>2 DEF GlobalFits
<1> QED
  BY <1>6, <1>7

LEMMA OuterMoves ==
  ASSUME NEW m, OuterFits(m), NEW m2 \in [Cells -> Kinds], NEW w \in Cells, Writes(m, m2, w), w[1] > 0
  PROVE  OuterFits(m2)
<1> SUFFICES ASSUME NEW c \in Cells, c[1] <= 0
             PROVE  m2[c] # "old"
  BY DEF OuterFits
<1>1. c[1] \in Int
  BY DEF Cells, GlobalSysargs, MaxDepth
<1>2. c # w
  BY <1>1
<1> QED
  BY <1>2 DEF OuterFits, Writes

-----------------------------------------------------------------------------
(* Frames that wait, and what a collection leaves current. *)

\* The words of frame d that no collection makes stale.
Kept(D, fs, d) ==
  {c \in At(D, fs, d).live : \/ c \in Range(At(D, fs, d).held)
                             \/ D[Key(fs[d])].scanned /\ c \in ArgSet(1, Len(fs[d].args))
                             \/ fs[d].fn \in Unguarded}

Waiting(D, fs, d) ==
  /\ \A c \in At(D, fs, d).live : Awaited(fs, d, c) \/ c \in Kept(D, fs, d)
  /\ \A c \in At(D, fs, d).fresh : Awaited(fs, d, c) \/ c \in Range(At(D, fs, d).held)
  /\ \A c \in Range(At(D, fs, d).held) : ~Awaited(fs, d, c)
  /\ Sysargs \notin At(D, fs, d).live
  /\ At(D, fs, d).inside \/ fs[d].fn \in Unguarded
  /\ \E j \in Words : fs[d + 1].to = <<d, j>>

LEMMA CallersWait ==
  ASSUME NEW D, WellTyped(D), NEW fs, FramesFit(D, fs), NEW d \in 1 .. Len(fs), d < Len(fs)
  PROVE  Waiting(D, fs, d)
<1> DEFINE k  == Key(fs[d])
           pc == fs[d].pc - 1
           s  == Steps(k)[pc]
           p  == D[k].points[pc]
           q  == D[k].points[pc + 1]
<1>1. Waits(fs, d) /\ FrameFits(D, fs, d) /\ fs[d] \in Frame
  <2>1. d \in 1 .. Len(fs) - 1
    <3>1. PICK n \in Nat : n = Len(fs)
      BY DEF FramesFit
    <3> QED
      BY <3>1
  <2> QED
    BY <2>1 DEF FramesFit
<1>2. k \in DOMAIN D /\ fs[d].pc \in 1 .. Len(D[k].points) /\ fs[d].pc > 1
  BY <1>1 DEF FrameFits, Waits
<1>3. Len(Steps(k)) \in Nat /\ Len(D[k].points) = Len(Steps(k)) + 1
  BY <1>2 DEF WellTyped, Shaped
<1>4. pc \in 1 .. Len(Steps(k)) /\ pc + 1 = fs[d].pc
  BY <1>2, <1>3
<1>5. StepHere(D, k, pc, p, q)
  BY <1>2, <1>4, StepsFit
<1>6. At(D, fs, d) = q
  BY <1>4 DEF At
<1>7. s.op = "call" /\ fs[d + 1].to = Place(fs, d, s.to)
  BY <1>1 DEF Waits
<1>8. CallFits(D, k, s, p, q)
  BY <1>5, <1>7 DEF StepHere, StepFits
<1>9. \A c : c = s.to => Awaited(fs, d, c)
  BY <1>7 DEF Awaited
<1>10. q.held = p.held /\ q.inside = p.inside /\ k[1] = fs[d].fn /\ k[2] = Len(fs[d].args)
  BY <1>8 DEF CallFits, Key
<1>11. \A c \in q.live : Awaited(fs, d, c) \/ c \in Kept(D, fs, d)
  BY <1>6, <1>8, <1>9, <1>10 DEF CallFits, Visited, Kept
<1>12. \A c \in q.fresh : Awaited(fs, d, c) \/ c \in Range(q.held)
  BY <1>8, <1>9, <1>10 DEF CallFits
<1>13. PICK j \in Words : s.to = Local(j) /\ Place(fs, d, s.to) = <<d, j>>
  <2>1. PICK j \in Words : s.to = Local(j)
    BY <1>8 DEF CallFits, Locals
  <2>2. Places(fs, d)
    BY PlaceOf
  <2>3. Place(fs, d, Local(j)) = <<d, j>>
    BY <2>2 DEF Places
  <2> QED
    BY <2>1, <2>3
<1>16. ASSUME NEW c \in Range(q.held) PROVE ~Awaited(fs, d, c)
  <2>1. c \in Operands(Len(fs[d].args))
    BY <1>6, LiveTyped
  <2>2. s.to # c
    BY <1>8, <1>10 DEF CallFits
  <2>3. Place(fs, d, c) # <<d, j>>
    BY <1>13, <2>1, <2>2, PlaceLevel DEF Level
  <2> QED
    BY <1>7, <1>13, <2>3 DEF Awaited
<1>17. \E i \in Words : fs[d + 1].to = <<d, i>>
  BY <1>7, <1>13
<1>14. Sysargs \notin q.live
  <2>1. Sysargs \notin p.live /\ s.to \in Locals
    BY <1>8 DEF CallFits
  <2>2. s.to # Sysargs
    BY <2>1 DEF Locals, Local, Sysargs
  <2> QED
    BY <1>8, <2>1, <2>2 DEF CallFits, Visited
<1>15. q.inside \/ fs[d].fn \in Unguarded
  BY <1>8, <1>10 DEF CallFits
<1> QED
  BY <1>6, <1>11, <1>12, <1>14, <1>15, <1>16, <1>17 DEF Waiting

-----------------------------------------------------------------------------
(* A collection. *)

Reached(t, pl) == {c \in Cells : c[1] < t} \union Range(pl)

\* The words the collector visits stay what they were; w receives the object.
Swept(m, m2, t, pl, w) ==
  /\ m2 \in [Cells -> Kinds] /\ m2[w] = "current"
  /\ \A c \in Cells : c # w => m2[c] = m[c] \/ (c \notin Reached(t, pl) /\ m[c] = "current")

LEMMA HeldInPool ==
  ASSUME NEW D, WellTyped(D), NEW fs, FramesFit(D, fs), NEW pl, NEW b, PoolFits(D, fs, pl, b),
         NEW d \in 1 .. Len(fs), NEW c \in Range(At(D, fs, d).held)
  PROVE  Place(fs, d, c) \in Range(pl)
<1>1. b \in 0 .. 1 /\ pl \in Seq(Cells) /\ Len(pl) = Offset(D, fs, b, Len(fs) + 1)
  BY DEF PoolFits
<1>2. Stacked(D, fs, b)
  BY <1>1, PoolIsStacked
<1> DEFINE h == At(D, fs, d).held
           z == Offset(D, fs, b, d)
<1>3. /\ h \in Seq(Operands(Len(fs[d].args))) /\ Len(h) \in Nat /\ z \in Nat
      /\ z + Len(h) <= Len(pl)
  BY <1>1, <1>2 DEF Stacked
<1>4. PICK i \in 1 .. Len(h) : c = h[i]
  BY <1>3, SMTT(30) DEF Range
<1>5. pl[z + i] = Place(fs, d, c)
  BY <1>4 DEF PoolFits
<1> HIDE DEF h, z
<1>6. z + i \in 1 .. Len(pl)
  BY <1>1, <1>3
<1> QED
  BY <1>1, <1>5, <1>6 DEF Range

LEMMA KeptReached ==
  ASSUME NEW D, WellTyped(D), NEW fs, FramesFit(D, fs), NEW pl, NEW b, PoolFits(D, fs, pl, b),
         NEW t, GuardFits(D, fs, t), t # 0,
         NEW d \in 1 .. Len(fs), Trusted(D, fs, d), NEW c \in Kept(D, fs, d), c # Sysargs
  PROVE  Place(fs, d, c) \in Reached(t, pl)
<1>1. c \in At(D, fs, d).live /\ c \in Operands(Len(fs[d].args)) /\ Level(fs, d, c)
  BY LiveTyped, PlaceLevel DEF Kept
<1>2. d \in 1 .. 3 /\ t \in 1 .. Len(fs)
  BY Depths DEF GuardFits
<1>3. FrameFits(D, fs, d) /\ Shaped(D, Key(fs[d])) /\ PointFits(Key(fs[d]), At(D, fs, d))
  BY PointsFit DEF FramesFit
<1>4. CASE c \in Range(At(D, fs, d).held)
  BY <1>4, HeldInPool DEF Reached
<1>5. CASE D[Key(fs[d])].scanned /\ c \in ArgSet(1, Len(fs[d].args))
  <2>1. d = 1
    BY <1>2, <1>3, <1>5 DEF FrameFits, Trusted
  <2>2. Place(fs, d, c) \in Cells /\ Place(fs, d, c)[1] \in 0 .. d - 1
    BY <1>1, <1>5 DEF Level
  <2>3. Place(fs, d, c)[1] < t
    BY <1>2, <2>1, <2>2
  <2> QED
    BY <2>2, <2>3 DEF Reached
<1>6. CASE fs[d].fn \in Unguarded
  <2>1. D[Key(fs[d])].rank = 3 /\ ~At(D, fs, d).inside
    BY <1>3, <1>6 DEF Shaped, PointFits, Key, MaxDepth
  <2>2. d = 1
    BY <1>2, <1>3, <2>1 DEF FrameFits, MaxDepth
  <2>3. t # 1
    BY <1>2, <2>1, <2>2 DEF GuardFits
  <2>4. Place(fs, d, c) \in Cells /\ Place(fs, d, c)[1] \in -1 .. 1
    BY <1>1, <2>2 DEF Level
  <2>5. Place(fs, d, c)[1] < t
    BY <1>2, <2>3, <2>4
  <2> QED
    BY <2>4, <2>5 DEF Reached
<1> QED
  BY <1>4, <1>5, <1>6 DEF Kept

LEMMA KeptStays ==
  ASSUME NEW D, WellTyped(D), NEW fs, FramesFit(D, fs), NEW pl, NEW b, PoolFits(D, fs, pl, b),
         NEW t, GuardFits(D, fs, t), t # 0,
         NEW m, NEW m2, NEW w, Swept(m, m2, t, pl, w), LiveFits(D, fs, m),
         NEW d \in 1 .. Len(fs), Trusted(D, fs, d), NEW c \in Kept(D, fs, d), c # Sysargs,
         ~Awaited(fs, d, c)
  PROVE  m2[Place(fs, d, c)] # "old"
<1>1. c \in At(D, fs, d).live /\ c \in Operands(Len(fs[d].args)) /\ Level(fs, d, c)
  BY LiveTyped, PlaceLevel DEF Kept
<1>2. Place(fs, d, c) \in Cells /\ m[Place(fs, d, c)] # "old"
  BY <1>1 DEF Level, LiveFits, Trusted
<1>3. Place(fs, d, c) \in Reached(t, pl)
  BY KeptReached
<1> QED
  BY <1>2, <1>3 DEF Swept

LEMMA HeldStays ==
  ASSUME NEW D, WellTyped(D), NEW fs, FramesFit(D, fs), NEW pl, NEW b, PoolFits(D, fs, pl, b),
         NEW t, NEW m, NEW m2, NEW w, Swept(m, m2, t, pl, w),
         NEW d \in 1 .. Len(fs), NEW c \in Range(At(D, fs, d).held),
         m[Place(fs, d, c)] = "current"
  PROVE  m2[Place(fs, d, c)] = "current"
<1>1. c \in Operands(Len(fs[d].args)) /\ Level(fs, d, c)
  BY LiveTyped, PlaceLevel
<1>2. Place(fs, d, c) \in Cells /\ Place(fs, d, c) \in Reached(t, pl)
  BY <1>1, HeldInPool DEF Level, Reached
<1> QED
  BY <1>2 DEF Swept

LEMMA SweptLive ==
  ASSUME NEW D, WellTyped(D), NEW fs, FramesFit(D, fs), NEW pl, NEW b, PoolFits(D, fs, pl, b),
         NEW t, GuardFits(D, fs, t), t # 0,
         NEW fs2, NEW p, NEW q, Moves(D, fs, fs2, p, q), AllocStepFits(D, Key(fs[Len(fs)]), p, q),
         NEW m, NEW m2, Swept(m, m2, t, pl, <<Len(fs), 0>>), LiveFits(D, fs, m)
  PROVE  LiveFits(D, fs2, m2)
<1>1. Len(fs2) = Len(fs) /\ Len(fs) \in 1 .. 3
  BY DEF Moves
<1> SUFFICES ASSUME NEW d \in 1 .. Len(fs), Trusted(D, fs2, d),
                    NEW c \in At(D, fs2, d).live, ~Awaited(fs2, d, c)
             PROVE  m2[Place(fs2, d, c)] # "old"
  BY <1>1 DEF LiveFits, Trusted
<1>2. Trusted(D, fs, d) /\ ~Awaited(fs, d, c) /\ Place(fs2, d, c) = Place(fs, d, c)
  BY AwaitedMoves DEF Moves
<1>3. CASE d < Len(fs)
  <2>1. At(D, fs2, d) = At(D, fs, d) /\ Waiting(D, fs, d)
    BY <1>3, CallersWait DEF Moves
  <2>2. c \in Kept(D, fs, d) /\ c # Sysargs
    BY <1>2, <2>1 DEF Waiting
  <2> QED
    BY <1>2, <2>2, KeptStays
<1>4. CASE d = Len(fs)
  <2>1. At(D, fs2, d) = q /\ At(D, fs, d) = p
    BY <1>4 DEF Moves
  <2>2. CASE c = Result
    <3>1. Place(fs, d, c) = <<Len(fs), 0>>
      BY <1>4, <2>2, PlaceOf DEF Places, Result
    <3> QED
      BY <1>2, <3>1 DEF Swept
  <2>3. CASE c # Result
    <3>1. c \in Visited(D, Key(fs[d]), p) /\ Sysargs \notin p.live
      BY <1>4, <2>1, <2>3 DEF AllocStepFits
    <3>2. c \in Kept(D, fs, d) /\ c # Sysargs
      BY <2>1, <3>1 DEF Visited, Kept, Key
    <3> QED
      BY <1>2, <3>2, KeptStays
  <2> QED
    BY <2>2, <2>3
<1> QED
  BY <1>1, <1>3, <1>4

LEMMA SweptFresh ==
  ASSUME NEW D, WellTyped(D), NEW fs, FramesFit(D, fs), NEW pl, NEW b, PoolFits(D, fs, pl, b),
         NEW t, NEW fs2, NEW p, NEW q, Moves(D, fs, fs2, p, q),
         AllocStepFits(D, Key(fs[Len(fs)]), p, q),
         NEW m, NEW m2, Swept(m, m2, t, pl, <<Len(fs), 0>>), FreshFits(D, fs, m)
  PROVE  FreshFits(D, fs2, m2)
<1>1. Len(fs2) = Len(fs) /\ Len(fs) \in 1 .. 3
  BY DEF Moves
<1> SUFFICES ASSUME NEW d \in 1 .. Len(fs), NEW c \in At(D, fs2, d).fresh, ~Awaited(fs2, d, c)
             PROVE  m2[Place(fs2, d, c)] = "current"
  BY <1>1 DEF FreshFits
<1>2. ~Awaited(fs, d, c) /\ Place(fs2, d, c) = Place(fs, d, c)
  BY AwaitedMoves DEF Moves
<1>3. ASSUME c \in At(D, fs, d).fresh, c \in Range(At(D, fs, d).held)
      PROVE  m2[Place(fs, d, c)] = "current"
  <2>1. m[Place(fs, d, c)] = "current"
    BY <1>2, <1>3 DEF FreshFits
  <2> QED
    BY <1>3, <2>1, HeldStays
<1>4. CASE d < Len(fs)
  <2>1. At(D, fs2, d) = At(D, fs, d) /\ Waiting(D, fs, d)
    BY <1>4, CallersWait DEF Moves
  <2> QED
    BY <1>2, <1>3, <2>1 DEF Waiting
<1>5. CASE d = Len(fs)
  <2>1. At(D, fs2, d) = q /\ At(D, fs, d) = p
    BY <1>5 DEF Moves
  <2>2. CASE c = Result
    <3>1. Place(fs, d, c) = <<Len(fs), 0>>
      BY <1>5, <2>2, PlaceOf DEF Places, Result
    <3> QED
      BY <1>2, <3>1 DEF Swept
  <2>3. CASE c # Result
    BY <1>2, <1>3, <2>1, <2>3 DEF AllocStepFits
  <2> QED
    BY <2>2, <2>3
<1> QED
  BY <1>1, <1>4, <1>5

LEMMA SweptOuter ==
  ASSUME NEW m, OuterFits(m), NEW m2, NEW t \in Nat, t # 0, NEW pl, NEW w, Swept(m, m2, t, pl, w)
  PROVE  OuterFits(m2)
<1>1. m2 \in [Cells -> Kinds]
  BY DEF Swept
<1>2. ASSUME NEW c \in Cells, c[1] <= 0 PROVE m2[c] # "old"
  <2>1. c[1] \in Int
    BY DEF Cells, GlobalSysargs, MaxDepth
  <2>2. c \in Reached(t, pl)
    BY <1>2, <2>1 DEF Reached
  <2>3. m[c] # "old"
    BY <1>2 DEF OuterFits
  <2> QED
    BY <2>2, <2>3 DEF Swept
<1> QED
  BY <1>1, <1>2 DEF OuterFits

\* The word of sysargs is registered, or was never assigned.
LEMMA SweptGlobal ==
  ASSUME NEW D, WellTyped(D), NEW fs, FramesFit(D, fs), NEW pl, NEW b, PoolFits(D, fs, pl, b),
         Len(fs) > 0, Sysargs \notin At(D, fs, 1).live,
         NEW t, NEW m, NEW m2, NEW w, Swept(m, m2, t, pl, w), w # GlobalSysargs,
         GlobalFits(D, fs, m, b)
  PROVE  m2[GlobalSysargs] = m[GlobalSysargs]
<1>1. GlobalSysargs \in Cells
  BY DEF Cells, GlobalSysargs, MaxDepth
<1>2. b \in 0 .. 1 /\ fs # <<>>
  <2>1. fs # <<>>
    OBVIOUS
  <2> QED
    BY <2>1 DEF PoolFits
<1>3. CASE b = 1
  <2>1. Stacked(D, fs, b) /\ Len(fs) \in 1 .. 3
    BY <1>2, PoolIsStacked, DepthIn
  <2>2. 1 \in 1 .. Len(pl) /\ pl \in Seq(Cells)
    <3>1. Len(fs) \in 1 .. Len(fs) /\ Len(pl) = Offset(D, fs, b, Len(fs) + 1) /\ pl \in Seq(Cells)
      BY <2>1 DEF PoolFits
    <3>2. /\ b <= Offset(D, fs, b, Len(fs)) /\ Offset(D, fs, b, Len(fs)) \in Nat
          /\ Offset(D, fs, b, Len(fs) + 1) = Offset(D, fs, b, Len(fs)) + Len(At(D, fs, Len(fs)).held)
          /\ Len(At(D, fs, Len(fs)).held) \in Nat
      BY <2>1, <3>1 DEF Stacked
    <3>3. Len(pl) \in Nat /\ Len(pl) >= 1
      BY <1>3, <3>1, <3>2
    <3> QED
      BY <3>1, <3>3
  <2>3. GlobalSysargs \in Range(pl)
    BY <1>3, <2>2 DEF PoolFits, Range
  <2> QED
    BY <1>1, <2>3 DEF Swept, Reached
<1>4. CASE b = 0
  <2>1. m[GlobalSysargs] = "unboxed"
    BY <1>2, <1>4 DEF GlobalFits
  <2> QED
    BY <1>1, <2>1 DEF Swept
<1> QED
  BY <1>2, <1>3, <1>4

-----------------------------------------------------------------------------
(* Steps within a function keep the invariant. *)

\* No word changes: PRE_GC, POST_GC, push, pop, use.
LEMMA SoundStill ==
  ASSUME NEW D, WellTyped(D), NEW m, NEW fs, NEW t, NEW pl, NEW b, Sound(D, m, fs, t, pl, b),
         NEW fs2, NEW p, NEW q, Moves(D, fs, fs2, p, q),
         q.live \subseteq p.live, q.fresh \subseteq p.fresh,
         KeepsSysargs(p, q),
         NEW t2, GuardFits(D, fs2, t2), NEW pl2, PoolFits(D, fs2, pl2, b)
  PROVE  Sound(D, m, fs2, t2, pl2, b)
<1>1. FramesFit(D, fs) /\ FramesFit(D, fs2)
  BY DEF Sound, Moves
<1>2. LiveFits(D, fs2, m) /\ FreshFits(D, fs2, m)
  BY <1>1, WordsStay DEF Sound
<1>3. GlobalFits(D, fs2, m, b)
  BY <1>1, GlobalMoves DEF Sound, GlobalWritten
<1> QED
  BY <1>1, <1>2, <1>3 DEF Sound

\* What is written, and to where.
WriteFits(D, fs, p, q, to, v) ==
  /\ \/ to \in Locals
     \/ to = Sysargs /\ fs[Len(fs)].fn = "set_args" /\ v = "current" /\ Sysargs \in q.live
  /\ v \in Kinds
  /\ Trusted(D, fs, Len(fs)) => v # "old"
  /\ q.held = p.held /\ q.inside = p.inside
  /\ q.live \subseteq p.live \union {to}
  /\ \A c \in q.fresh : IF c = to THEN v = "current" ELSE c \in p.fresh
  /\ KeepsSysargs(p, q)

Written(fs, m, m2, to, v) == m2 = [m EXCEPT ![Place(fs, Len(fs), to)] = v]

LEMMA SoundWrite ==
  ASSUME NEW D, WellTyped(D), NEW m, NEW fs, NEW t, NEW pl, NEW b, Sound(D, m, fs, t, pl, b),
         NEW fs2, NEW p, NEW q, Moves(D, fs, fs2, p, q),
         NEW to, NEW v, WriteFits(D, fs, p, q, to, v),
         NEW m2, Written(fs, m, m2, to, v)
  PROVE  Sound(D, m2, fs2, t, pl, b)
<1> DEFINE n == Len(fs)
           w == Place(fs, n, to)
<1>1. FramesFit(D, fs) /\ FramesFit(D, fs2) /\ n \in 1 .. 3 /\ n \in 1 .. n
  BY DEF Sound, Moves
<1>2. m \in [Cells -> Kinds]
  BY DEF Sound, OuterFits
<1>3. to \in Operands(Len(fs[n].args))
  BY DEF WriteFits, Operands
<1>4. Level(fs, n, to)
  BY <1>1, <1>3, PlaceLevel
<1>5. w \in Cells /\ v \in Kinds
  BY <1>4 DEF Level, WriteFits
<1>6. m2 \in [Cells -> Kinds] /\ Writes(m, m2, w) /\ m2[w] = v
  BY <1>2, <1>5 DEF Writes, Written
<1>7. CASE to \in Locals
  <2>1. w[1] = n
    BY <1>4, <1>7 DEF Level
  <2>2. FreshWritten(fs, p, q, m2, w)
    <3> SUFFICES ASSUME NEW c \in q.fresh
                 PROVE  IF Place(fs, n, c) = w THEN m2[w] = "current" ELSE c \in p.fresh
      BY DEF FreshWritten
    <3>1. CASE Place(fs, n, c) = w
      <4>1. PICK i \in Words : to = Local(i)
        BY <1>7 DEF Locals
      <4>p. Places(fs, n)
        BY PlaceOf
      <4>2. w = <<n, i>>
        BY <4>1, <4>p DEF Places
      <4>3. c \in Operands(Len(fs2[n].args)) /\ fs2[n].args = fs[n].args
        <5>1. c \in At(D, fs2, n).fresh /\ n \in 1 .. Len(fs2)
          BY <1>1 DEF Moves
        <5>2. c \in Operands(Len(fs2[n].args))
          BY <1>1, <5>1, LiveTyped
        <5> QED
          BY <1>1, <5>2 DEF Moves
      <4>4. c = Local(i)
        BY <1>1, <3>1, <4>2, <4>3, PlaceLevel DEF Level
      <4> QED
        BY <1>6, <3>1, <4>1, <4>4 DEF WriteFits
    <3>2. CASE Place(fs, n, c) # w
      BY <3>2 DEF WriteFits
    <3> QED
      BY <3>1, <3>2
  <2>3. LiveWritten(D, fs, p, q, m2, w) /\ InFrame(fs, w)
    BY <1>6, <2>1 DEF WriteFits, LiveWritten, InFrame
  <2>4. LiveFits(D, fs2, m2)
    BY <1>1, <1>6, <2>3, LiveMoves DEF Sound
  <2>5. FreshFits(D, fs2, m2)
    BY <1>1, <1>6, <2>2, <2>3, FreshMoves DEF Sound
  <2>6. GlobalWritten(fs, q, m, m2)
    <3>1. GlobalSysargs \in Cells /\ GlobalSysargs[1] = 4
      BY DEF GlobalSysargs, MaxDepth, Cells
    <3>2. n # 4
      BY <1>1, SMTT(30)
    <3>3. GlobalSysargs # w
      BY <2>1, <3>1, <3>2
    <3> QED
      BY <1>6, <3>1, <3>3 DEF Writes, GlobalWritten
  <2>7. GlobalFits(D, fs2, m2, b)
    BY <1>1, <2>6, GlobalMoves DEF Sound, WriteFits
  <2>8. OuterFits(m2)
    <3>1. w[1] > 0
      BY <1>1, <2>1
    <3> QED
      BY <1>5, <1>6, <3>1, OuterMoves DEF Sound
  <2>9. GuardFits(D, fs2, t)
    BY GuardStays DEF Sound, WriteFits
  <2>10. PoolFits(D, fs2, pl, b)
    BY <1>1, PoolStays DEF Sound, WriteFits
  <2> QED
    BY <1>1, <2>4, <2>5, <2>7, <2>8, <2>9, <2>10 DEF Sound
<1>8. CASE to \notin Locals
  <2>1. to = Sysargs /\ fs[n].fn = "set_args" /\ v = "current" /\ Sysargs \in q.live
    BY <1>8 DEF WriteFits
  <2>2. w = GlobalSysargs
    BY <2>1, PlaceOf DEF Places
  <2>3. n = 1
    <3>1. FrameFits(D, fs, n) /\ Shaped(D, Key(fs[n]))
      BY <1>1, PointsFit DEF FramesFit
    <3>2. D[Key(fs[n])].rank = 3
      BY <2>1, <3>1 DEF Shaped, Key, MaxDepth
    <3>3. D[Key(fs[n])].rank + n <= 4
      BY <3>1 DEF FrameFits, MaxDepth
    <3>4. PICK e \in 1 .. 3 : e = n
      BY <1>1
    <3>5. D[Key(fs[n])].rank + e <= 4
      BY <3>3, <3>4
    <3>6. e = 1
      BY <3>2, <3>5
    <3> QED
      BY <3>4, <3>6
  <2>4. FreshWritten(fs, p, q, m2, w)
    BY <1>6, <2>1 DEF WriteFits, FreshWritten
  <2>5. LiveWritten(D, fs, p, q, m2, w) /\ InFrame(fs, w)
    BY <1>6, <2>3 DEF WriteFits, LiveWritten, InFrame
  <2>6. LiveFits(D, fs2, m2)
    BY <1>1, <1>6, <2>5, LiveMoves DEF Sound
  <2>7. FreshFits(D, fs2, m2)
    BY <1>1, <1>6, <2>4, <2>5, FreshMoves DEF Sound
  <2>8. GlobalFits(D, fs2, m2, b)
    <3>1. GlobalWritten(fs, q, m, m2)
      BY <1>6, <2>1, <2>2, <2>3 DEF GlobalWritten
    <3> QED
      BY <1>1, <3>1, GlobalMoves DEF Sound, WriteFits
  <2>9. OuterFits(m2)
    <3>1. w[1] > 0
      BY <2>2 DEF GlobalSysargs, MaxDepth
    <3> QED
      BY <1>5, <1>6, <3>1, OuterMoves DEF Sound
  <2>10. GuardFits(D, fs2, t)
    BY GuardStays DEF Sound, WriteFits
  <2>11. PoolFits(D, fs2, pl, b)
    BY <1>1, PoolStays DEF Sound, WriteFits
  <2> QED
    BY <1>1, <2>6, <2>7, <2>8, <2>9, <2>10, <2>11 DEF Sound
<1> QED
  BY <1>7, <1>8

LEMMA CopyWrites ==
  ASSUME NEW D, WellTyped(D), NEW m, NEW fs, NEW t, NEW pl, NEW b, Sound(D, m, fs, t, pl, b),
         NEW fs2, NEW p, NEW q, Moves(D, fs, fs2, p, q), NEW s,
         CopyFits(Key(fs[Len(fs)]), s, p, q), KeepsSysargs(p, q)
  PROVE  WriteFits(D, fs, p, q, s.to, m[Place(fs, Len(fs), s.from)])
<1> DEFINE n == Len(fs)
           w == Place(fs, n, s.from)
<1>1. FramesFit(D, fs) /\ n \in 1 .. 3 /\ n \in 1 .. n /\ At(D, fs, n) = p
  BY DEF Sound, Moves
<1>2. s.from \in p.live /\ s.from \in Operands(Len(fs[n].args)) /\ ~Awaited(fs, n, s.from)
  BY <1>1, LiveTyped DEF CopyFits, Awaited
<1>3. w \in Cells
  BY <1>1, <1>2, PlaceLevel DEF Level
<1>4. m[w] \in Kinds
  BY <1>3 DEF Sound, OuterFits
<1>5. Trusted(D, fs, n) => m[w] # "old"
  BY <1>1, <1>2 DEF Sound, LiveFits, Trusted
<1>6. s.from \in p.fresh => m[w] = "current"
  BY <1>1, <1>2 DEF Sound, FreshFits
<1>7. \/ s.to \in Locals
      \/ s.to = Sysargs /\ fs[n].fn = "set_args" /\ m[w] = "current" /\ Sysargs \in q.live
  <2>1. Key(fs[n])[1] = fs[n].fn
    BY DEF Key
  <2> QED
    BY <1>6, <2>1 DEF CopyFits
<1>8. \A c \in q.fresh : IF c = s.to THEN m[w] = "current" ELSE c \in p.fresh
  BY <1>6 DEF CopyFits
<1>9. q.held = p.held /\ q.inside = p.inside /\ q.live \subseteq p.live \union {s.to}
  BY DEF CopyFits
<1> QED
  BY <1>4, <1>5, <1>7, <1>8, <1>9 DEF WriteFits

LEMMA SetWrites ==
  ASSUME NEW D, NEW fs, NEW p, NEW q, NEW s,
         SetFits(s, p, q), KeepsSysargs(p, q)
  PROVE  WriteFits(D, fs, p, q, s.to, s.kind)
<1>1. s.kind \in Kinds /\ s.kind # "old"
  BY DEF SetFits, LamaValues, Kinds
<1>2. \A c \in q.fresh : c # s.to /\ c \in p.fresh
  BY DEF SetFits
<1>3. /\ s.to \in Locals /\ q.held = p.held /\ q.inside = p.inside
      /\ q.live \subseteq p.live \union {s.to}
  BY DEF SetFits
<1> QED
  BY <1>1, <1>2, <1>3 DEF WriteFits

\* An allocation, whether it collects or not.
LEMMA SoundAlloc ==
  ASSUME NEW D, WellTyped(D), NEW m, NEW fs, NEW t, NEW pl, NEW b, Sound(D, m, fs, t, pl, b),
         NEW fs2, NEW p, NEW q, Moves(D, fs, fs2, p, q), AllocStepFits(D, Key(fs[Len(fs)]), p, q),
         KeepsSysargs(p, q),
         NEW m2, Swept(m, m2, t, pl, <<Len(fs), 0>>)
  PROVE  Sound(D, m2, fs2, t, pl, b) /\ t # 0
<1> DEFINE n == Len(fs)
<1>1. FramesFit(D, fs) /\ FramesFit(D, fs2) /\ n \in 1 .. 3 /\ n \in 1 .. n /\ At(D, fs, n) = p
  BY DEF Sound, Moves
<1>2. t \in 0 .. n /\ t # 0
  BY <1>1 DEF Sound, GuardFits, AllocStepFits
<1>3. LiveFits(D, fs2, m2)
  BY <1>1, <1>2, SweptLive DEF Sound
<1>4. FreshFits(D, fs2, m2)
  BY <1>1, SweptFresh DEF Sound
<1>5. OuterFits(m2)
  BY <1>1, <1>2, SweptOuter DEF Sound
<1>6. Sysargs \notin At(D, fs, 1).live
  <2>1. CASE n = 1
    BY <1>1, <2>1 DEF AllocStepFits
  <2>2. CASE n # 1
    <3>1. 1 \in 1 .. n /\ 1 < n
      <4>1. PICK e \in 1 .. 3 : e = n
        BY <1>1
      <4> QED
        BY <2>2, <4>1
    <3> QED
      BY <1>1, <3>1, CallersWait DEF Waiting
  <2> QED
    BY <2>1, <2>2
<1>7. m2[GlobalSysargs] = m[GlobalSysargs]
  <2>1. Len(fs) > 0
    BY <1>1
  <2>2. n # 4
    BY <1>1
  <2>3. <<n, 0>> # GlobalSysargs
    BY <2>2 DEF GlobalSysargs, MaxDepth
  <2> QED
    BY <1>1, <1>6, <2>1, <2>3, SweptGlobal DEF Sound
<1>8. GlobalFits(D, fs2, m2, b)
  <2>1. GlobalWritten(fs, q, m, m2)
    BY <1>7 DEF GlobalWritten
  <2> QED
    BY <1>1, <2>1, GlobalMoves DEF Sound
<1>9. GuardFits(D, fs2, t)
  BY GuardStays DEF Sound, AllocStepFits
<1>10. PoolFits(D, fs2, pl, b)
  BY <1>1, PoolStays DEF Sound, AllocStepFits
<1> QED
  BY <1>1, <1>2, <1>3, <1>4, <1>5, <1>8, <1>9, <1>10 DEF Sound

-----------------------------------------------------------------------------
(* A call of one runtime function by another. *)

\* The innermost frame has taken its step s, a call.
Calling(D, fs, fs2, s, p, q) ==
  /\ Stepped(fs, fs2) /\ Moves(D, fs, fs2, p, q)
  /\ s = Steps(Key(fs[Len(fs)]))[fs[Len(fs)].pc]
  /\ s.op = "call"
  /\ CallFits(D, Key(fs[Len(fs)]), s, p, q)

CalledFrame(fs, s) ==
  NewFrame(s.fn, [i \in 1 .. Len(s.args) |-> Place(fs, Len(fs), s.args[i])],
           Place(fs, Len(fs), s.to))

Pushed(fs2, fs3, fr) ==
  /\ fs3 \in Seq(Frame) /\ Len(fs3) = Len(fs2) + 1
  /\ \A i \in 1 .. Len(fs2) : fs3[i] = fs2[i]
  /\ fs3[Len(fs2) + 1] = fr

LEMMA FramePushed ==
  ASSUME NEW fs2 \in Seq(Frame), NEW fr \in Frame
  PROVE  Pushed(fs2, Append(fs2, fr), fr)
BY DEF Pushed

\* What is known of the frame of the function that is called.
CalleeFits(D, fs, s, p, fr) ==
  /\ fr \in Frame /\ fr.pc = 1 /\ fr.to = Place(fs, Len(fs), s.to)
  /\ Key(fr) = <<s.fn, Len(s.args)>> /\ Len(fr.args) = Len(s.args) /\ Len(s.args) \in Nat
  /\ \A i \in 1 .. Len(s.args) : /\ s.args[i] \in p.live
                                 /\ fr.args[i] = Place(fs, Len(fs), s.args[i])
                                 /\ fr.args[i] \in Cells /\ fr.args[i][1] \in 0 .. Len(fs)

LEMMA CalleeFrame ==
  ASSUME NEW D, WellTyped(D), NEW fs, FramesFit(D, fs), NEW fs2, NEW s, NEW p, NEW q,
         Calling(D, fs, fs2, s, p, q)
  PROVE  CalleeFits(D, fs, s, p, CalledFrame(fs, s))
<1> DEFINE n == Len(fs)
           k == Key(fs[n])
           g == <<s.fn, Len(s.args)>>
           fr == CalledFrame(fs, s)
<1>1. n \in 1 .. 3 /\ n \in 1 .. n /\ At(D, fs, n) = p
  BY DEF Calling, Moves
<1>2. CallFits(D, k, s, p, q) /\ k[2] = Len(fs[n].args)
  BY DEF Calling, Key
<1>3. g \in DOMAIN D /\ Shaped(D, g)
  BY <1>2 DEF CallFits, WellTyped
<1>4. s.fn \in Named /\ Len(s.args) \in Nat
  <2>1. g[1] = s.fn /\ g[2] = Len(s.args)
    OBVIOUS
  <2>2. g[1] \in Named /\ g[2] \in 0 .. NArgs
    BY <1>3 DEF Shaped
  <2> QED
    BY <2>1, <2>2, ConstantsAssumption
<1>5. s.args \in Seq(p.live \intersect (ArgSet(1, Len(fs[n].args)) \union Locals))
  BY <1>2 DEF CallFits
<1>6. ASSUME NEW c \in ArgSet(1, Len(fs[n].args)) \union Locals
      PROVE  Place(fs, n, c) \in Cells /\ Place(fs, n, c)[1] \in 0 .. n
  <2>1. c \in Operands(Len(fs[n].args))
    BY DEF Operands
  <2>2. Level(fs, n, c)
    BY <1>1, <2>1, PlaceLevel
  <2>3. CASE c \in Locals
    BY <1>1, <2>2, <2>3 DEF Level
  <2>4. CASE c \in ArgSet(1, Len(fs[n].args))
    <3>1. Place(fs, n, c) \in Cells /\ Place(fs, n, c)[1] \in 0 .. n - 1
      BY <2>2, <2>4 DEF Level
    <3> QED
      BY <1>1, <3>1
  <2> QED
    BY <2>3, <2>4
<1>7. \A i \in 1 .. Len(s.args) : /\ s.args[i] \in p.live
                                  /\ s.args[i] \in ArgSet(1, Len(fs[n].args)) \union Locals
  BY <1>5
<1>8. \A i \in 1 .. Len(s.args) : /\ s.args[i] \in p.live
                                  /\ Place(fs, n, s.args[i]) \in Cells
                                  /\ Place(fs, n, s.args[i])[1] \in 0 .. n
  BY <1>6, <1>7
<1>9. Place(fs, n, s.to) \in Cells
  <2>1. s.to \in Locals
    BY <1>2 DEF CallFits
  <2> QED
    BY <1>6, <2>1
<1> DEFINE as == [i \in 1 .. Len(s.args) |-> Place(fs, n, s.args[i])]
<1>10. as \in Seq(Cells) /\ Len(as) = Len(s.args)
  BY <1>4, <1>8
<1>11. fr.fn = s.fn /\ fr.pc = 1 /\ fr.flag = FALSE /\ fr.args = as /\ fr.to = Place(fs, n, s.to)
  BY DEF CalledFrame, NewFrame
<1>12. fr \in Frame
  BY <1>4, <1>9, <1>10 DEF CalledFrame, NewFrame, Frame
<1>13. Key(fr) = g
  BY <1>10, <1>11 DEF Key
<1>14. \A i \in 1 .. Len(s.args) : fr.args[i] = Place(fs, n, s.args[i])
  BY <1>11
<1> QED
  BY <1>4, <1>8, <1>10, <1>11, <1>12, <1>13, <1>14 DEF CalleeFits

\* A frame has been added to fs2, and is at its entry.
Grows(D, fs2, fs3) ==
  /\ FramesFit(D, fs3) /\ Len(fs3) = Len(fs2) + 1 /\ Len(fs2) \in 1 .. 2
  /\ \A i \in 1 .. Len(fs2) : /\ At(D, fs3, i) = At(D, fs2, i)
                              /\ fs3[i] = fs2[i]
                              /\ \A c : Place(fs3, i, c) = Place(fs2, i, c)
  /\ EntryFits(At(D, fs3, Len(fs3)), Len(fs3[Len(fs3)].args))

LEMMA CallGrows ==
  ASSUME NEW D, WellTyped(D), NEW fs, FramesFit(D, fs), NEW fs2, NEW s, NEW p, NEW q,
         Calling(D, fs, fs2, s, p, q), NEW fr, CalleeFits(D, fs, s, p, fr),
         NEW fs3, Pushed(fs2, fs3, fr)
  PROVE  Grows(D, fs2, fs3)
<1> DEFINE n == Len(fs)
           k == Key(fs[n])
           g == Key(fr)
<1>1. n \in 1 .. 3 /\ n \in 1 .. n /\ Len(fs2) = n /\ FramesFit(D, fs2) /\ Moves(D, fs, fs2, p, q)
  BY DEF Calling, Moves
<1>2. /\ Len(fs3) = n + 1 /\ fs3[n + 1] = fr /\ fs3 \in Seq(Frame)
      /\ \A i \in 1 .. n : fs3[i] = fs2[i]
  BY <1>1 DEF Pushed
<1>3. g \in DOMAIN D /\ D[g].rank < D[k].rank /\ (D[g].scanned => D[k].lax /\ D[k].rank = 3)
  BY DEF CalleeFits, Calling, CallFits, MaxDepth
<1>4. FrameFits(D, fs, n) /\ k \in DOMAIN D
  BY <1>1 DEF FramesFit, FrameFits
<1>5. D[k].rank \in 1 .. 3 /\ D[g].rank \in 1 .. 3 /\ D[k].rank + n <= 4
  BY <1>3, <1>4 DEF WellTyped, Shaped, Rules, FrameFits, MaxDepth
<1>6. n \in 1 .. 2 /\ D[g].rank + (n + 1) <= 4
  BY <1>1, <1>3, <1>5
<1>7. Shaped(D, g) /\ BodyFits(D, g)
  BY <1>3 DEF WellTyped
<1>8. 1 \in 1 .. Len(D[g].points)
  BY <1>7 DEF Shaped
<1>9. EntryFits(At(D, fs3, n + 1), Len(fr.args))
  BY <1>2, <1>7 DEF BodyFits, At, CalleeFits, Key
<1>10. 1 \in 1 .. n /\ Key(fs3[1]) = Key(fs[1])
  BY <1>1, <1>2 DEF Moves
<1>11. FrameFits(D, fs3, n + 1)
  <2>1. \A i \in 1 .. Len(fr.args) : fr.args[i][1] \in 0 .. (n + 1) - 1
    BY <1>1 DEF CalleeFits
  <2>2. D[g].scanned => D[Key(fs3[1])].lax
    <3>1. CASE n = 1
      BY <1>3, <1>10, <3>1
    <3>2. CASE n # 1
      BY <1>3, <1>5, <1>6, <3>2, SMTT(30)
    <3> QED
      BY <3>1, <3>2
  <2>3. n + 1 # 1
    BY <1>1
  <2> QED
    BY <1>2, <1>3, <1>6, <1>8, <2>1, <2>2, <2>3, SMTT(30) DEF FrameFits, MaxDepth, CalleeFits
<1>12. \A i \in 1 .. n : FrameFits(D, fs3, i)
  <2>1. \A i \in 1 .. n : FrameFits(D, fs2, i)
    BY <1>1 DEF FramesFit
  <2> QED
    BY <1>2, <1>10, <2>1, SMTT(30) DEF FrameFits
<1>13. Waits(fs3, n)
  <2>1. /\ Key(fs2[n]) = k /\ fs2[n].pc = fs[n].pc + 1
        /\ \A c : Place(fs2, n, c) = Place(fs, n, c)
    BY <1>1 DEF Calling, Stepped, Moves
  <2>2. fs[n].pc \in 1 .. Len(D[k].points) /\ fs[n].pc \in Nat
    BY <1>4 DEF FrameFits
  <2>3. (fs3[n].pc - 1) = fs[n].pc /\ fs3[n].pc > 1
    BY <1>1, <1>2, <2>1, <2>2
  <2>4. Steps(Key(fs3[n]))[fs3[n].pc - 1] = s
    BY <1>1, <1>2, <2>1, <2>3 DEF Calling
  <2>5. \A c : Place(fs3, n, c) = Place(fs, n, c)
    BY <1>1, <1>2, <2>1 DEF Place
  <2> QED
    BY <1>2, <2>3, <2>4, <2>5 DEF Waits, CalleeFits, Calling
<1>14. ASSUME NEW i \in 1 .. n, i < n PROVE Waits(fs3, i)
  <2>1. i \in 1 .. Len(fs2) - 1 /\ i + 1 \in 1 .. n
    BY <1>1, <1>14
  <2>2. Waits(fs2, i)
    BY <1>1, <2>1 DEF FramesFit
  <2> QED
    BY <1>2, <2>1, <2>2 DEF Waits, Place
<1>15. FramesFit(D, fs3)
  <2>1. \A i \in 1 .. Len(fs3) : FrameFits(D, fs3, i)
    <3>1. \A i \in 1 .. n + 1 : i \in 1 .. n \/ i = n + 1
      BY <1>1
    <3> QED
      BY <1>2, <1>11, <1>12, <3>1
  <2>2. \A i \in 1 .. Len(fs3) - 1 : Waits(fs3, i)
    <3>1. \A i \in 1 .. (n + 1) - 1 : i \in 1 .. n /\ (i < n \/ i = n)
      BY <1>1
    <3> QED
      BY <1>2, <1>13, <1>14, <3>1
  <2>3. Len(fs3) <= MaxDepth
    <3>1. PICK e \in 1 .. 2 : e = n
      BY <1>6
    <3>2. e + 1 <= 3
      OBVIOUS
    <3> QED
      BY <1>2, <3>1, <3>2 DEF MaxDepth
  <2> QED
    BY <1>2, <2>1, <2>2, <2>3 DEF FramesFit
<1>16. \A i \in 1 .. n : /\ At(D, fs3, i) = At(D, fs2, i)
                         /\ \A c : Place(fs3, i, c) = Place(fs2, i, c)
  BY <1>2 DEF At, Place
<1> QED
  BY <1>1, <1>2, <1>6, <1>9, <1>15, <1>16 DEF Grows

LEMMA GuardOfCallee ==
  ASSUME NEW D, NEW fs2, NEW fs3, Grows(D, fs2, fs3), NEW t, GuardFits(D, fs2, t)
  PROVE  GuardFits(D, fs3, t)
<1>1. PICK n \in 1 .. 2 : n = Len(fs2) /\ Len(fs3) = n + 1
  BY DEF Grows
<1>2. \A i \in 1 .. n : At(D, fs3, i) = At(D, fs2, i)
  BY <1>1 DEF Grows
<1>3. ~At(D, fs3, n + 1).inside
  BY <1>1 DEF Grows, EntryFits
<1>4. t \in 0 .. n /\ t \in 0 .. n + 1 /\ (t > 0 => At(D, fs3, t).inside)
  BY <1>1, <1>2 DEF GuardFits
<1>5. ASSUME NEW i \in 1 .. n + 1, i < t \/ t = 0 PROVE ~At(D, fs3, i).inside
  <2>1. CASE i = n + 1
    BY <1>3, <2>1
  <2>2. CASE i # n + 1
    <3>1. i \in 1 .. n
      BY <2>2
    <3> QED
      BY <1>1, <1>2, <1>5, <3>1 DEF GuardFits
  <2> QED
    BY <2>1, <2>2
<1> QED
  BY <1>1, <1>4, <1>5 DEF GuardFits

LEMMA PoolOfCallee ==
  ASSUME NEW D, WellTyped(D), NEW fs2, FramesFit(D, fs2), NEW fs3, Grows(D, fs2, fs3),
         NEW pl, NEW b, PoolFits(D, fs2, pl, b)
  PROVE  PoolFits(D, fs3, pl, b)
<1>1. PICK n \in 1 .. 2 : n = Len(fs2) /\ Len(fs3) = n + 1
  BY DEF Grows
<1>2. FramesFit(D, fs3) /\ b \in 0 .. 1 /\ pl \in Seq(Cells)
  BY DEF Grows, PoolFits
<1>3. Stacked(D, fs3, b) /\ Stacked(D, fs2, b)
  BY <1>2, PoolIsStacked
<1>4. \A i \in 1 .. n : /\ At(D, fs3, i) = At(D, fs2, i)
                        /\ \A c : Place(fs3, i, c) = Place(fs2, i, c)
  BY <1>1 DEF Grows
<1>5. Len(At(D, fs3, n + 1).held) = 0
  BY <1>1 DEF Grows, EntryFits
<1>6. \A i \in 1 .. n + 1 : Offset(D, fs3, b, i) = Offset(D, fs2, b, i)
  <2>1. Offset(D, fs3, b, 1) = Offset(D, fs2, b, 1)
    BY <1>3 DEF Stacked
  <2>2. /\ 1 \in 1 .. Len(fs2) /\ 1 \in 1 .. Len(fs3) /\ 1 \in 1 .. n
        /\ n = 2 => 2 \in 1 .. Len(fs2) /\ 2 \in 1 .. Len(fs3) /\ 2 \in 1 .. n
    BY <1>1
  <2>3. Offset(D, fs3, b, 2) = Offset(D, fs2, b, 2)
    <3>1. /\ Offset(D, fs3, b, 1 + 1) = Offset(D, fs3, b, 1) + Len(At(D, fs3, 1).held)
          /\ Offset(D, fs2, b, 1 + 1) = Offset(D, fs2, b, 1) + Len(At(D, fs2, 1).held)
      BY <1>3, <2>2 DEF Stacked
    <3> QED
      BY <1>4, <2>1, <2>2, <3>1
  <2>4. n = 2 => Offset(D, fs3, b, 3) = Offset(D, fs2, b, 3)
    <3>1. n = 2 => /\ Offset(D, fs3, b, 2 + 1) = Offset(D, fs3, b, 2) + Len(At(D, fs3, 2).held)
                   /\ Offset(D, fs2, b, 2 + 1) = Offset(D, fs2, b, 2) + Len(At(D, fs2, 2).held)
      BY <1>3, <2>2 DEF Stacked
    <3> QED
      BY <1>4, <2>2, <2>3, <3>1
  <2> QED
    BY <2>1, <2>3, <2>4
<1>7. n + 1 \in 1 .. Len(fs3) /\ (n + 1) + 1 = Len(fs3) + 1
  BY <1>1
<1>8. Len(pl) = Offset(D, fs3, b, Len(fs3) + 1)
  <2>1. Len(pl) = Offset(D, fs2, b, n + 1)
    BY <1>1 DEF PoolFits
  <2>2. /\ Offset(D, fs3, b, (n + 1) + 1) = Offset(D, fs3, b, n + 1) + 0
        /\ Offset(D, fs3, b, n + 1) \in Nat
    BY <1>3, <1>5, <1>7 DEF Stacked
  <2>3. n + 1 \in 1 .. n + 1
    OBVIOUS
  <2> QED
    BY <1>6, <1>7, <2>1, <2>2, <2>3
<1>9. ASSUME NEW d \in 1 .. Len(fs3), NEW i \in 1 .. Len(At(D, fs3, d).held)
      PROVE  pl[Offset(D, fs3, b, d) + i] = Place(fs3, d, At(D, fs3, d).held[i])
  <2>1. CASE d = n + 1
    BY <1>5, <2>1
  <2>2. CASE d # n + 1
    <3>1. d \in 1 .. n /\ d \in 1 .. n + 1
      BY <1>1, <2>2
    <3> QED
      BY <1>1, <1>4, <1>6, <3>1 DEF PoolFits
  <2> QED
    BY <2>1, <2>2
<1>10. b = 1 => pl[1] = GlobalSysargs
  BY DEF PoolFits
<1> QED
  BY <1>2, <1>8, <1>9, <1>10 DEF PoolFits

\* The new frame's words aside, no word has changed.
LEMMA EnteredWords ==
  ASSUME NEW m \in [Cells -> Kinds], NEW d \in 1 .. 3
  PROVE  /\ Entered(m, d) \in [Cells -> Kinds]
         /\ \A c \in Cells : c[1] # d => Entered(m, d)[c] = m[c]
<1>1. "old" \in Kinds
  BY DEF Kinds
<1> QED
  BY <1>1 DEF Entered

LEMMA Successor ==
  ASSUME NEW n \in 1 .. 2
  PROVE  /\ n + 1 \in 1 .. 3 /\ n + 1 # 1 /\ n + 1 # 4
         /\ n \in 1 .. n /\ 1 \in 1 .. n /\ n < n + 1
         /\ \A d \in 1 .. n : \A x \in -1 .. d : x # n + 1
         /\ \A d \in 1 .. n : d < n => d + 1 \in 1 .. n
         /\ \A d \in 1 .. n + 1 : (d \in 1 .. n /\ d < n) \/ d = n \/ d = n + 1
OBVIOUS

LEMMA LiveOfCallee ==
  ASSUME NEW D, WellTyped(D), NEW fs, FramesFit(D, fs), NEW fs2, NEW s, NEW p, NEW q,
         Calling(D, fs, fs2, s, p, q), NEW fr, CalleeFits(D, fs, s, p, fr),
         NEW fs3, Pushed(fs2, fs3, fr), Grows(D, fs2, fs3),
         NEW m \in [Cells -> Kinds], LiveFits(D, fs, m), OuterFits(m)
  PROVE  LiveFits(D, fs3, Entered(m, Len(fs) + 1))
<1> DEFINE n  == Len(fs)
           m2 == Entered(m, n + 1)
<1>1. Moves(D, fs, fs2, p, q) /\ CallFits(D, Key(fs[n]), s, p, q) /\ Len(fs2) = n
  BY DEF Calling, Moves
<1>2. n \in 1 .. 2 /\ Len(fs3) = n + 1 /\ FramesFit(D, fs3)
  BY <1>1 DEF Grows
<1>3. \A i \in 1 .. n : /\ At(D, fs3, i) = At(D, fs2, i) /\ fs3[i] = fs2[i]
                        /\ \A c : Place(fs3, i, c) = Place(fs, i, c)
  BY <1>1 DEF Grows, Moves
<1>4. n + 1 \in 1 .. 3
  BY <1>2, Successor
<1>5. \A c \in Cells : c[1] # n + 1 => m2[c] = m[c]
  BY <1>4, EnteredWords
<1> HIDE DEF m2
<1>6. Key(fs3[1]) = Key(fs[1])
  <2>1. 1 \in 1 .. n
    BY <1>2
  <2> QED
    BY <1>1, <1>3, <2>1 DEF Moves
<1>7. \A i \in 1 .. n : Trusted(D, fs3, i) <=> Trusted(D, fs, i)
  BY <1>6 DEF Trusted
<1>8. fs3[n + 1] = fr
  BY <1>1 DEF Pushed
<1>9. ASSUME NEW d \in 1 .. n, NEW c \in Operands(Len(fs[d].args))
      PROVE  m2[Place(fs, d, c)] = m[Place(fs, d, c)]
  <2>1. Level(fs, d, c)
    BY PlaceLevel
  <2>2. GlobalSysargs[1] = 4
    BY DEF GlobalSysargs, MaxDepth
  <2>3. Place(fs, d, c) \in Cells /\ (Place(fs, d, c)[1] \in -1 .. d \/ Place(fs, d, c)[1] = 4)
    BY <2>1, <2>2 DEF Level
  <2>4. Place(fs, d, c)[1] # n + 1
    BY <1>2, <2>3, Successor
  <2> QED
    BY <1>5, <2>3, <2>4
<1>10. ASSUME NEW d \in 1 .. n, d < n, Trusted(D, fs3, d), NEW c \in At(D, fs3, d).live
       PROVE  Awaited(fs3, d, c) \/ m2[Place(fs3, d, c)] # "old"
  <2>1. At(D, fs3, d) = At(D, fs, d)
    BY <1>1, <1>3, <1>10 DEF Moves
  <2>2. c \in At(D, fs, d).live /\ c \in Operands(Len(fs[d].args))
    BY <2>1, LiveTyped
  <2>3. Awaited(fs3, d, c) <=> Awaited(fs, d, c)
    <3>1. d + 1 \in 1 .. n
      BY <1>2, <1>10
    <3>2. fs3[d + 1].to = fs[d + 1].to
      BY <1>1, <1>3, <3>1 DEF Moves
    <3>3. d < n + 1
      BY <1>2, <1>10
    <3> QED
      BY <1>2, <1>3, <1>10, <3>2, <3>3 DEF Awaited
  <2>4. Awaited(fs, d, c) \/ m[Place(fs, d, c)] # "old"
    BY <1>7, <1>10, <2>2 DEF LiveFits, Trusted
  <2> QED
    BY <1>3, <1>9, <2>2, <2>3, <2>4
<1>11. ASSUME Trusted(D, fs, n), NEW c \in p.live
       PROVE  c \in Operands(Len(fs[n].args)) /\ m[Place(fs, n, c)] # "old"
  <2>1. n \in 1 .. Len(fs) /\ At(D, fs, n) = p
    BY <1>1, <1>2 DEF Moves
  <2>2. c \in Operands(Len(fs[n].args)) /\ ~Awaited(fs, n, c)
    BY <2>1, LiveTyped DEF Awaited
  <2> QED
    BY <1>11, <2>1, <2>2 DEF LiveFits, Trusted
<1>12. ASSUME Trusted(D, fs3, n), NEW c \in At(D, fs3, n).live
       PROVE  Awaited(fs3, n, c) \/ m2[Place(fs3, n, c)] # "old"
  <2>1. n \in 1 .. n /\ At(D, fs3, n) = q /\ n < n + 1
    BY <1>1, <1>2, <1>3 DEF Moves
  <2>2. c = s.to \/ c \in p.live
    BY <1>1, <2>1 DEF CallFits, Visited
  <2>3. CASE c = s.to
    BY <1>2, <1>3, <1>8, <2>1, <2>3 DEF Awaited, CalleeFits
  <2>4. CASE c \in p.live
    <3>1. Trusted(D, fs, n)
      BY <1>7, <1>12, <2>1
    <3>2. c \in Operands(Len(fs[n].args)) /\ m[Place(fs, n, c)] # "old"
      BY <1>11, <2>4, <3>1
    <3> QED
      BY <1>3, <1>9, <2>1, <3>2
  <2> QED
    BY <2>2, <2>3, <2>4
<1>13. ASSUME Trusted(D, fs3, n + 1), NEW c \in At(D, fs3, n + 1).live
       PROVE  m2[Place(fs3, n + 1, c)] # "old"
  <2>1. c \in ArgSet(1, Len(fr.args)) \union Olders
    BY <1>2, <1>8 DEF Grows, EntryFits
  <2>2. CASE c \in Olders
    <3>1. Place(fs3, n + 1, c) \in Cells /\ Place(fs3, n + 1, c)[1] = -1
      BY <2>2, OldersOutside
    <3>2. -1 # n + 1 /\ -1 <= 0
      BY <1>2
    <3>3. m2[Place(fs3, n + 1, c)] = m[Place(fs3, n + 1, c)]
      BY <1>5, <3>1, <3>2
    <3> QED
      BY <3>1, <3>2, <3>3 DEF OuterFits
  <2>3. CASE c \in ArgSet(1, Len(fr.args))
    <3>1. PICK i \in 1 .. Len(s.args) : c = Arg(i)
      BY <2>3 DEF ArgSet, CalleeFits
    <3>2. Place(fs3, n + 1, c) = Place(fs, n, s.args[i]) /\ s.args[i] \in p.live
      BY <1>8, <3>1, PlaceOf DEF Places, CalleeFits
    <3>3. Trusted(D, fs, n)
      <4>1. n + 1 # 1
        BY <1>2, Successor
      <4> QED
        BY <1>6, <1>13, <4>1 DEF Trusted
    <3>4. s.args[i] \in Operands(Len(fs[n].args)) /\ m[Place(fs, n, s.args[i])] # "old"
      BY <1>11, <3>2, <3>3
    <3>5. n \in 1 .. n
      BY <1>2, Successor
    <3> QED
      BY <1>9, <3>2, <3>4, <3>5
  <2> QED
    BY <2>1, <2>2, <2>3
<1>14. ASSUME NEW d \in 1 .. n + 1, Trusted(D, fs3, d), NEW c \in At(D, fs3, d).live
       PROVE  Awaited(fs3, d, c) \/ m2[Place(fs3, d, c)] # "old"
  <2>1. (d \in 1 .. n /\ d < n) \/ d = n \/ d = n + 1
    BY <1>2
  <2> QED
    BY <1>10, <1>12, <1>13, <1>14, <2>1
<1>15. LiveFits(D, fs3, m2)
  BY <1>2, <1>14 DEF LiveFits, Trusted
<1> QED
  BY <1>15 DEF m2

LEMMA FreshOfCallee ==
  ASSUME NEW D, WellTyped(D), NEW fs, FramesFit(D, fs), NEW fs2, NEW s, NEW p, NEW q,
         Calling(D, fs, fs2, s, p, q), NEW fr, CalleeFits(D, fs, s, p, fr),
         NEW fs3, Pushed(fs2, fs3, fr), Grows(D, fs2, fs3),
         NEW m \in [Cells -> Kinds], FreshFits(D, fs, m)
  PROVE  FreshFits(D, fs3, Entered(m, Len(fs) + 1))
<1> DEFINE n  == Len(fs)
           m2 == Entered(m, n + 1)
<1>1. Moves(D, fs, fs2, p, q) /\ CallFits(D, Key(fs[n]), s, p, q) /\ Len(fs2) = n
  BY DEF Calling, Moves
<1>2. n \in 1 .. 2 /\ Len(fs3) = n + 1 /\ FramesFit(D, fs3)
  BY <1>1 DEF Grows
<1>3. \A i \in 1 .. n : /\ At(D, fs3, i) = At(D, fs2, i) /\ fs3[i] = fs2[i]
                        /\ \A c : Place(fs3, i, c) = Place(fs, i, c)
  BY <1>1 DEF Grows, Moves
<1>4. n + 1 \in 1 .. 3
  BY <1>2, Successor
<1>5. \A c \in Cells : c[1] # n + 1 => m2[c] = m[c]
  BY <1>4, EnteredWords
<1> HIDE DEF m2
<1>6. fs3[n + 1] = fr
  BY <1>1 DEF Pushed
<1>7. ASSUME NEW d \in 1 .. n, NEW c \in At(D, fs, d).fresh, ~Awaited(fs, d, c)
      PROVE  m2[Place(fs, d, c)] = "current"
  <2>0. c \in Operands(Len(fs[d].args))
    BY LiveTyped
  <2>1. Level(fs, d, c)
    BY <2>0, PlaceLevel
  <2>2. GlobalSysargs[1] = 4
    BY DEF GlobalSysargs, MaxDepth
  <2>3. Place(fs, d, c) \in Cells /\ (Place(fs, d, c)[1] \in -1 .. d \/ Place(fs, d, c)[1] = 4)
    BY <2>1, <2>2 DEF Level
  <2>4. Place(fs, d, c)[1] # n + 1
    BY <1>2, <2>3, Successor
  <2>5. m[Place(fs, d, c)] = "current"
    BY <1>7 DEF FreshFits
  <2> QED
    BY <1>5, <2>3, <2>4, <2>5
<1>8. ASSUME NEW d \in 1 .. n, d < n, NEW c \in At(D, fs3, d).fresh
      PROVE  Awaited(fs3, d, c) \/ m2[Place(fs3, d, c)] = "current"
  <2>1. At(D, fs3, d) = At(D, fs, d)
    BY <1>1, <1>3, <1>8 DEF Moves
  <2>2. Awaited(fs3, d, c) <=> Awaited(fs, d, c)
    <3>1. d + 1 \in 1 .. n
      BY <1>2, <1>8
    <3>2. fs3[d + 1].to = fs[d + 1].to
      BY <1>1, <1>3, <3>1 DEF Moves
    <3>3. d < n + 1
      BY <1>2, <1>8
    <3> QED
      BY <1>2, <1>3, <1>8, <3>2, <3>3 DEF Awaited
  <2> QED
    BY <1>3, <1>7, <2>1, <2>2
<1>9. ASSUME NEW c \in At(D, fs3, n).fresh
      PROVE  Awaited(fs3, n, c) \/ m2[Place(fs3, n, c)] = "current"
  <2>1. n \in 1 .. n /\ At(D, fs3, n) = q /\ n < n + 1 /\ At(D, fs, n) = p
    BY <1>1, <1>2, <1>3 DEF Moves
  <2>2. c = s.to \/ c \in p.fresh
    BY <1>1, <2>1 DEF CallFits
  <2>3. CASE c = s.to
    BY <1>2, <1>3, <1>6, <2>1, <2>3 DEF Awaited, CalleeFits
  <2>4. CASE c \in p.fresh
    <3>1. ~Awaited(fs, n, c)
      BY DEF Awaited
    <3> QED
      BY <1>3, <1>7, <2>1, <2>4, <3>1
  <2> QED
    BY <2>2, <2>3, <2>4
<1>10. At(D, fs3, n + 1).fresh = {}
  BY <1>2 DEF Grows, EntryFits
<1>11. ASSUME NEW d \in 1 .. n + 1, NEW c \in At(D, fs3, d).fresh
       PROVE  Awaited(fs3, d, c) \/ m2[Place(fs3, d, c)] = "current"
  <2>1. (d \in 1 .. n /\ d < n) \/ d = n \/ d = n + 1
    BY <1>2
  <2> QED
    BY <1>8, <1>9, <1>10, <2>1
<1>12. FreshFits(D, fs3, m2)
  BY <1>2, <1>11 DEF FreshFits
<1> QED
  BY <1>12 DEF m2

LEMMA GlobalOfCallee ==
  ASSUME NEW D, NEW fs, FramesFit(D, fs), NEW fs2, NEW s, NEW p, NEW q,
         Calling(D, fs, fs2, s, p, q), NEW fs3, Grows(D, fs2, fs3), KeepsSysargs(p, q),
         NEW m, NEW m2, m2[GlobalSysargs] = m[GlobalSysargs], NEW b, GlobalFits(D, fs, m, b)
  PROVE  GlobalFits(D, fs3, m2, b)
<1>1. Moves(D, fs, fs2, p, q)
  BY DEF Calling
<1>2. GlobalWritten(fs, q, m, m2)
  BY DEF GlobalWritten
<1>3. GlobalFits(D, fs2, m2, b)
  BY <1>1, <1>2, GlobalMoves
<1>4. fs2 # <<>> /\ fs3 # <<>> /\ fs3[1] = fs2[1] /\ At(D, fs3, 1) = At(D, fs2, 1)
  <2>1. PICK e \in 1 .. 2 : e = Len(fs2) /\ Len(fs3) = e + 1
    BY DEF Grows
  <2>2. 1 \in 1 .. e /\ e # 0 /\ e + 1 # 0
    OBVIOUS
  <2> QED
    BY <2>1, <2>2 DEF Grows
<1> QED
  BY <1>3, <1>4 DEF GlobalFits

LEMMA SoundCall ==
  ASSUME NEW D, WellTyped(D), NEW m, NEW fs, NEW t, NEW pl, NEW b, Sound(D, m, fs, t, pl, b),
         NEW fs2, NEW s, NEW p, NEW q, Calling(D, fs, fs2, s, p, q), KeepsSysargs(p, q)
  PROVE  Sound(D, Entered(m, Len(fs) + 1), Append(fs2, CalledFrame(fs, s)), t, pl, b)
<1> DEFINE fr  == CalledFrame(fs, s)
           fs3 == Append(fs2, fr)
           m2  == Entered(m, Len(fs) + 1)
<1>1. FramesFit(D, fs) /\ Moves(D, fs, fs2, p, q) /\ FramesFit(D, fs2) /\ fs2 \in Seq(Frame)
  BY DEF Sound, Calling, Moves, Stepped
<1>2. m \in [Cells -> Kinds]
  BY DEF Sound, OuterFits
<1>3. CalleeFits(D, fs, s, p, fr)
  BY <1>1, CalleeFrame
<1>4. Pushed(fs2, fs3, fr)
  BY <1>1, <1>3, FramePushed DEF CalleeFits
<1> HIDE DEF fr, fs3
<1>5. Grows(D, fs2, fs3)
  BY <1>1, <1>3, <1>4, CallGrows
<1>6. q.held = p.held /\ q.inside = p.inside
  BY DEF Calling, CallFits
<1>7. GuardFits(D, fs3, t)
  <2>1. GuardFits(D, fs2, t)
    BY <1>1, <1>6, GuardStays DEF Sound
  <2> QED
    BY <1>5, <2>1, GuardOfCallee
<1>8. PoolFits(D, fs3, pl, b)
  <2>1. PoolFits(D, fs2, pl, b)
    BY <1>1, <1>6, PoolStays DEF Sound
  <2> QED
    BY <1>1, <1>5, <2>1, PoolOfCallee
<1>9. LiveFits(D, fs3, m2)
  BY <1>1, <1>2, <1>3, <1>4, <1>5, LiveOfCallee DEF Sound
<1>10. FreshFits(D, fs3, m2)
  BY <1>1, <1>2, <1>3, <1>4, <1>5, FreshOfCallee DEF Sound
<1>11. PICK e \in 1 .. 3 : e = Len(fs) + 1 /\ e # 4 /\ e > 0
  <2>1. PICK i \in 1 .. 2 : i = Len(fs)
    BY <1>1, <1>5 DEF Grows, Moves
  <2>2. i + 1 \in 1 .. 3 /\ i + 1 # 4 /\ i + 1 > 0
    OBVIOUS
  <2> QED
    BY <2>1, <2>2
<1>12. m2 \in [Cells -> Kinds] /\ \A c \in Cells : c[1] # e => m2[c] = m[c]
  BY <1>2, <1>11, EnteredWords
<1> HIDE DEF m2
<1>13. GlobalFits(D, fs3, m2, b)
  <2>1. GlobalSysargs \in Cells /\ GlobalSysargs[1] # e
    BY <1>11 DEF Cells, GlobalSysargs, MaxDepth
  <2>2. m2[GlobalSysargs] = m[GlobalSysargs]
    BY <1>12, <2>1
  <2> QED
    BY <1>1, <1>5, <2>2, GlobalOfCallee DEF Sound
<1>14. OuterFits(m2)
  <2>1. ASSUME NEW c \in Cells, c[1] <= 0 PROVE m2[c] # "old"
    <3>1. c[1] \in Int
      BY DEF Cells, GlobalSysargs, MaxDepth
    <3>2. c[1] # e
      BY <1>11, <2>1, <3>1
    <3> QED
      BY <1>12, <2>1, <3>2 DEF Sound, OuterFits
  <2> QED
    BY <1>12, <2>1 DEF OuterFits
<1>15. FramesFit(D, fs3)
  BY <1>5 DEF Grows
<1>16. Sound(D, m2, fs3, t, pl, b)
  BY <1>7, <1>8, <1>9, <1>10, <1>13, <1>14, <1>15 DEF Sound
<1> QED
  BY <1>16 DEF m2, fs3, fr

-----------------------------------------------------------------------------
(* A return. *)

\* What a return leaves in the words.
Dropped(fs, m) ==
  [c \in Cells |->
     IF c[1] = Len(fs) \/ (Len(fs) = 1 /\ c \in Range(fs[Len(fs)].args)) THEN "unboxed"
     ELSE IF c = fs[Len(fs)].to THEN m[<<Len(fs), 0>>]
     ELSE m[c]]

Ended(fs) == Len(fs) > 0 /\ fs[Len(fs)].pc > Len(Steps(Key(fs[Len(fs)])))

LEMMA FrameExits ==
  ASSUME NEW D, WellTyped(D), NEW fs, FramesFit(D, fs), Ended(fs)
  PROVE  ExitFits(Key(fs[Len(fs)]), At(D, fs, Len(fs))) /\ Len(fs) \in 1 .. 3
<1> DEFINE n == Len(fs)
           k == Key(fs[n])
<1>1. n \in 1 .. 3
  BY DepthIn DEF Ended
<1>2. k \in DOMAIN D /\ fs[n].pc \in 1 .. Len(D[k].points)
  <2>1. PICK e \in 1 .. 3 : e = n
    BY <1>1
  <2>2. n \in 1 .. n
    BY <2>1
  <2>3. FrameFits(D, fs, n)
    BY <2>2 DEF FramesFit
  <2> QED
    BY <2>3 DEF FrameFits
<1>3. Len(Steps(k)) \in Nat /\ Len(D[k].points) = Len(Steps(k)) + 1 /\ BodyFits(D, k)
  BY <1>2 DEF WellTyped, Shaped
<1>4. fs[n].pc = Len(D[k].points)
  BY <1>2, <1>3 DEF Ended
<1>5. ExitFits(k, D[k].points[Len(D[k].points)])
  BY <1>3 DEF BodyFits
<1> QED
  BY <1>1, <1>4, <1>5 DEF At

\* The frames but the innermost one.
Shrinks(D, fs, fs2) ==
  /\ FramesFit(D, fs2) /\ Len(fs2) \in 0 .. 2 /\ Len(fs) = Len(fs2) + 1
  /\ \A i \in 1 .. Len(fs2) : /\ fs2[i] = fs[i]
                              /\ At(D, fs2, i) = At(D, fs, i)
                              /\ \A c : Place(fs2, i, c) = Place(fs, i, c)

LEMMA FrameDrops ==
  ASSUME NEW D, NEW fs, FramesFit(D, fs), Len(fs) > 0
  PROVE  Shrinks(D, fs, Front(fs))
<1>1. fs \in Seq(Frame) /\ Len(fs) \in 1 .. 3
  BY DepthIn
<1>2. PICK n \in 0 .. 2 : Len(fs) = n + 1
  <2>1. PICK e \in 1 .. 3 : e = Len(fs)
    BY <1>1
  <2>2. e - 1 \in 0 .. 2 /\ e = (e - 1) + 1
    OBVIOUS
  <2> QED
    BY <2>1, <2>2
<1> DEFINE fs2 == Front(fs)
<1>3. fs2 \in Seq(Frame) /\ Len(fs2) = n /\ \A i \in 1 .. n : fs2[i] = fs[i]
  BY <1>1, <1>2, LastWord
<1> HIDE DEF fs2
<1>4. \A i \in 1 .. n : At(D, fs2, i) = At(D, fs, i) /\ \A c : Place(fs2, i, c) = Place(fs, i, c)
  BY <1>3 DEF At, Place
<1>5. \A i \in 1 .. n : i \in 1 .. n + 1 /\ 1 \in 1 .. n
  OBVIOUS
<1>6. \A i \in 1 .. n : FrameFits(D, fs2, i)
  <2>1. \A i \in 1 .. n : FrameFits(D, fs, i)
    BY <1>2, <1>5 DEF FramesFit
  <2> QED
    BY <1>3, <1>5, <2>1, SMTT(30) DEF FrameFits
<1>7. ASSUME NEW i \in 1 .. n - 1 PROVE Waits(fs2, i)
  <2>1. i \in 1 .. (n + 1) - 1 /\ i \in 1 .. n /\ i + 1 \in 1 .. n
    OBVIOUS
  <2>2. Waits(fs, i)
    BY <1>2, <2>1 DEF FramesFit
  <2> QED
    BY <1>3, <1>4, <2>1, <2>2 DEF Waits
<1>8. n <= MaxDepth
  BY DEF MaxDepth
<1>9. FramesFit(D, fs2)
  BY <1>3, <1>6, <1>7, <1>8 DEF FramesFit
<1>10. Shrinks(D, fs, fs2)
  BY <1>2, <1>3, <1>4, <1>9 DEF Shrinks
<1> QED
  BY <1>10 DEF fs2

LEMMA SoundReturnsInside ==
  ASSUME NEW D, WellTyped(D), NEW m, NEW fs, NEW t, NEW pl, NEW b, Sound(D, m, fs, t, pl, b),
         Ended(fs), Len(fs) # 1
  PROVE  Sound(D, Dropped(fs, m), Front(fs), t, pl, b)
<1> DEFINE fs2 == Front(fs)
           m2  == Dropped(fs, m)
<1>1. FramesFit(D, fs) /\ m \in [Cells -> Kinds]
  BY DEF Sound, OuterFits
<1>2. Shrinks(D, fs, fs2) /\ ExitFits(Key(fs[Len(fs)]), At(D, fs, Len(fs)))
  BY <1>1, FrameDrops, FrameExits DEF Ended
<1> HIDE DEF fs2
<1>3. PICK r \in 1 .. 2 : r = Len(fs2) /\ Len(fs) = r + 1
  <2>1. PICK e \in 0 .. 2 : e = Len(fs2) /\ Len(fs) = e + 1
    BY <1>2 DEF Shrinks
  <2>2. e # 0
    BY <2>1
  <2>3. e \in 1 .. 2
    BY <2>2
  <2> QED
    BY <2>1, <2>3
<1> DEFINE n == r + 1
           w == fs[n].to
<1>4. n \in 1 .. 3 /\ n # 1 /\ n # 4 /\ r \in 1 .. n /\ 1 \in 1 .. r /\ 1 \in 1 .. n /\ r < n /\ n \in 1 .. n
  OBVIOUS
<1>5. \A i \in 1 .. r : /\ fs2[i] = fs[i] /\ At(D, fs2, i) = At(D, fs, i)
                        /\ \A c : Place(fs2, i, c) = Place(fs, i, c)
  BY <1>2, <1>3 DEF Shrinks
<1>6. PICK j \in Words : w = <<r, j>>
  BY <1>1, <1>3, <1>4, CallersWait DEF Waiting
<1>7. <<n, 0>> \in Cells /\ w \in Cells /\ w[1] = r
  BY <1>6, ConstantsAssumption DEF Cells, Words, MaxDepth
<1>8. fs[n].fn # "set_args"
  <2>1. FrameFits(D, fs, n) /\ Shaped(D, Key(fs[n]))
    BY <1>1, <1>3, <1>4, PointsFit DEF FramesFit
  <2>2. fs[n].fn = "set_args" => D[Key(fs[n])].rank = 3
    BY <2>1 DEF Shaped, Key, MaxDepth
  <2>3. D[Key(fs[n])].rank + n <= 4
    BY <2>1 DEF FrameFits, MaxDepth
  <2>4. 3 + n > 4
    BY <1>4
  <2> QED
    BY <2>2, <2>3, <2>4
<1>9. /\ At(D, fs, n).held = <<>> /\ ~At(D, fs, n).inside /\ Result \in At(D, fs, n).fresh
  BY <1>2, <1>3, <1>8 DEF ExitFits, Key
<1>10. m[<<n, 0>>] = "current"
  <2>1. ~Awaited(fs, n, Result)
    BY <1>3 DEF Awaited
  <2>2. Place(fs, n, Result) = <<n, 0>>
    <3>1. Places(fs, n)
      BY PlaceOf
    <3> QED
      BY <3>1 DEF Places, Result
  <2> QED
    BY <1>3, <1>4, <1>9, <2>1, <2>2 DEF Sound, FreshFits
<1>11. /\ m2 \in [Cells -> Kinds] /\ m2[w] = "current"
       /\ \A c \in Cells : c[1] # n /\ c # w => m2[c] = m[c]
  <2>1. m2 = [c \in Cells |-> IF c[1] = n THEN "unboxed" ELSE IF c = w THEN "current" ELSE m[c]]
    BY <1>3, <1>4, <1>10 DEF Dropped
  <2>2. "unboxed" \in Kinds /\ "current" \in Kinds
    BY DEF Kinds
  <2>3. w[1] # n
    BY <1>7
  <2> HIDE DEF m2, w
  <2> QED
    BY <1>1, <1>7, <2>1, <2>2, <2>3
<1> HIDE DEF m2
<1>12. ASSUME NEW d \in 1 .. r, NEW c \in At(D, fs, d).live
       PROVE  /\ Awaited(fs2, d, c) \/ m2[Place(fs, d, c)] = "current"
                 \/ (~Awaited(fs, d, c) /\ m2[Place(fs, d, c)] = m[Place(fs, d, c)])
  <2>1. d \in 1 .. n /\ d < n
    OBVIOUS
  <2>2. c \in Operands(Len(fs[d].args))
    BY <1>1, <1>3, <2>1, LiveTyped
  <2>3. Level(fs, d, c)
    BY <1>1, <1>3, <2>1, <2>2, PlaceLevel
  <2>4. Place(fs, d, c) \in Cells /\ (Place(fs, d, c)[1] \in -1 .. d \/ Place(fs, d, c)[1] = 4)
    BY <2>3 DEF Level, GlobalSysargs, MaxDepth
  <2>5. Place(fs, d, c)[1] # n
    BY <1>4, <2>1, <2>4
  <2>6. CASE d = r
    BY <1>3, <1>11, <2>4, <2>5, <2>6 DEF Awaited
  <2>7. CASE d # r
    <3>1. d < r /\ d + 1 \in 1 .. r
      BY <2>7
    <3>2. Awaited(fs2, d, c) <=> Awaited(fs, d, c)
      BY <1>3, <1>5, <2>1, <3>1 DEF Awaited
    <3> QED
      BY <1>11, <2>4, <2>5, <3>2
  <2> QED
    BY <2>6, <2>7
<1>13. LiveFits(D, fs2, m2)
  <2> SUFFICES ASSUME NEW d \in 1 .. r, Trusted(D, fs2, d), NEW c \in At(D, fs, d).live
               PROVE  Awaited(fs2, d, c) \/ m2[Place(fs, d, c)] # "old"
    BY <1>3, <1>5 DEF LiveFits, Trusted
  <2>1. d \in 1 .. n /\ Trusted(D, fs, d)
    BY <1>4, <1>5 DEF Trusted
  <2>2. Awaited(fs, d, c) \/ m[Place(fs, d, c)] # "old"
    BY <1>3, <2>1 DEF Sound, LiveFits, Trusted
  <2> QED
    BY <1>12, <2>2
<1>14. FreshFits(D, fs2, m2)
  <2> SUFFICES ASSUME NEW d \in 1 .. r, NEW c \in At(D, fs, d).fresh
               PROVE  Awaited(fs2, d, c) \/ m2[Place(fs, d, c)] = "current"
    BY <1>3, <1>5 DEF FreshFits
  <2>1. d \in 1 .. n
    BY <1>4
  <2>2. Awaited(fs, d, c) \/ m[Place(fs, d, c)] = "current"
    BY <1>3, <2>1 DEF Sound, FreshFits
  <2>3. c \in At(D, fs, d).live
    BY <1>1, <1>3, <2>1, LiveTyped
  <2> QED
    BY <1>12, <2>2, <2>3
<1>15. GuardFits(D, fs2, t)
  <2>1. /\ t \in 0 .. n /\ (t > 0 => At(D, fs, t).inside)
        /\ \A d \in 1 .. n : (d < t \/ t = 0) => ~At(D, fs, d).inside
    BY <1>3 DEF Sound, GuardFits
  <2>2. t # n
    BY <1>4, <1>9, <2>1
  <2>3. t \in 0 .. r /\ (t > 0 => t \in 1 .. r) /\ \A d \in 1 .. r : d \in 1 .. n
    BY <2>1, <2>2
  <2> QED
    BY <1>3, <1>5, <2>1, <2>3 DEF GuardFits
<1>16. PoolFits(D, fs2, pl, b)
  <2>1. b \in 0 .. 1 /\ pl \in Seq(Cells) /\ (b = 1 => pl[1] = GlobalSysargs)
    BY DEF Sound, PoolFits
  <2>2. Stacked(D, fs, b) /\ Stacked(D, fs2, b)
    BY <1>1, <1>2, <2>1, PoolIsStacked DEF Shrinks
  <2>3. \A d \in 1 .. n : Offset(D, fs2, b, d) = Offset(D, fs, b, d)
    <3>1. \A d \in 1 .. n : d = 1 \/ d = 2 \/ (d = 3 /\ r = 2)
      OBVIOUS
    <3>2. Offset(D, fs2, b, 1) = Offset(D, fs, b, 1)
      BY <2>2 DEF Stacked
    <3>3. Offset(D, fs2, b, 2) = Offset(D, fs, b, 2)
      <4>1. At(D, fs2, 1) = At(D, fs, 1)
        BY <1>4, <1>5
      <4>2. 1 \in 1 .. Len(fs2) /\ 1 \in 1 .. Len(fs) /\ 1 + 1 = 2
        BY <1>3, <1>4
      <4>3. /\ Offset(D, fs, b, 1 + 1) = Offset(D, fs, b, 1) + Len(At(D, fs, 1).held)
            /\ Offset(D, fs2, b, 1 + 1) = Offset(D, fs2, b, 1) + Len(At(D, fs2, 1).held)
        BY <2>2, <4>2 DEF Stacked
      <4> QED
        BY <3>2, <4>1, <4>2, <4>3
    <3>4. ASSUME r = 2 PROVE Offset(D, fs2, b, 3) = Offset(D, fs, b, 3)
      <4>1. At(D, fs2, 2) = At(D, fs, 2)
        BY <1>5, <3>4
      <4>2. 2 \in 1 .. Len(fs2) /\ 2 \in 1 .. Len(fs) /\ 2 + 1 = 3
        BY <1>3, <3>4
      <4>3. /\ Offset(D, fs, b, 2 + 1) = Offset(D, fs, b, 2) + Len(At(D, fs, 2).held)
            /\ Offset(D, fs2, b, 2 + 1) = Offset(D, fs2, b, 2) + Len(At(D, fs2, 2).held)
        BY <2>2, <4>2 DEF Stacked
      <4> QED
        BY <3>3, <4>1, <4>2, <4>3
    <3> QED
      BY <3>1, <3>2, <3>3, <3>4
  <2>4. Len(pl) = Offset(D, fs2, b, r + 1)
    <3>1. Len(pl) = Offset(D, fs, b, n + 1)
      BY <1>3 DEF Sound, PoolFits
    <3>2. /\ Offset(D, fs, b, n + 1) = Offset(D, fs, b, n) + Len(At(D, fs, n).held)
          /\ Offset(D, fs, b, n) \in Nat
      BY <1>3, <1>4, <2>2 DEF Stacked
    <3>3. Len(At(D, fs, n).held) = 0
      BY <1>9
    <3>4. Len(pl) = Offset(D, fs, b, n)
      BY <3>1, <3>2, <3>3
    <3> QED
      BY <1>4, <2>3, <3>4
  <2>5. \A d \in 1 .. r : \A i \in 1 .. Len(At(D, fs2, d).held) :
          pl[Offset(D, fs2, b, d) + i] = Place(fs2, d, At(D, fs2, d).held[i])
    <3>1. \A d \in 1 .. r : d \in 1 .. n
      OBVIOUS
    <3> QED
      BY <1>3, <1>5, <2>3, <3>1 DEF Sound, PoolFits
  <2> QED
    BY <1>3, <2>1, <2>4, <2>5 DEF PoolFits
<1>17. GlobalFits(D, fs2, m2, b)
  <2>1. GlobalSysargs \in Cells /\ GlobalSysargs[1] = 4
    BY DEF Cells, GlobalSysargs, MaxDepth
  <2>2. GlobalSysargs # w
    <3>1. r # 4
      OBVIOUS
    <3> QED
      BY <1>7, <2>1, <3>1
  <2>3. m2[GlobalSysargs] = m[GlobalSysargs]
    BY <1>4, <1>11, <2>1, <2>2
  <2>4. fs # <<>> /\ fs2 # <<>>
    BY <1>3
  <2>5. fs2[1] = fs[1] /\ At(D, fs2, 1) = At(D, fs, 1)
    BY <1>4, <1>5
  <2> QED
    BY <2>3, <2>4, <2>5 DEF Sound, GlobalFits
<1>18. OuterFits(m2)
  <2>1. ASSUME NEW c \in Cells, c[1] <= 0 PROVE m2[c] # "old"
    <3>1. c[1] \in Int
      BY DEF Cells, GlobalSysargs, MaxDepth
    <3>2. c[1] # n
      BY <2>1, <3>1
    <3> QED
      BY <1>11, <2>1, <3>2 DEF Sound, OuterFits
  <2> QED
    BY <1>11, <2>1 DEF OuterFits
<1>19. Sound(D, m2, fs2, t, pl, b)
  BY <1>2, <1>13, <1>14, <1>15, <1>16, <1>17, <1>18 DEF Sound, Shrinks
<1> QED
  BY <1>19 DEF m2, fs2

\* The outermost frame returns to compiled code: global_sysargs is registered.
LEMMA SoundReturnsOutside ==
  ASSUME NEW D, WellTyped(D), NEW m, NEW fs, NEW t, NEW pl, NEW b, Sound(D, m, fs, t, pl, b),
         Ended(fs), Len(fs) = 1
  PROVE  Front(fs) = <<>> /\ Sound(D, Dropped(fs, m), <<>>, t, pl, 1)
<1> DEFINE m2 == Dropped(fs, m)
           k  == Key(fs[1])
           p  == At(D, fs, 1)
<1>1. FramesFit(D, fs) /\ m \in [Cells -> Kinds] /\ fs \in Seq(Frame)
  BY DEF Sound, OuterFits, FramesFit
<1>2. Front(fs) = <<>>
  <2>1. Len(fs) = 0 + 1 /\ 0 \in Nat
    OBVIOUS
  <2>2. Front(fs) \in Seq(Frame) /\ Len(Front(fs)) = 0
    BY <1>1, <2>1, LastWord, ZenonT(30)
  <2> QED
    BY <2>2
<1>3. ExitFits(k, p)
  BY <1>1, FrameExits
<1>4. 1 \in 1 .. Len(fs)
  OBVIOUS
<1>5. FrameFits(D, fs, 1) /\ fs[1] \in Frame
  <2>1. FrameFits(D, fs, 1)
    BY <1>1, <1>4 DEF FramesFit
  <2> QED
    BY <1>1, <1>4, <2>1, SMTT(30)
<1>6. \A i \in 1 .. Len(fs[1].args) : fs[1].args[i] = <<0, i>>
  BY <1>5 DEF FrameFits
<1>7. \A c \in Range(fs[1].args) : c[1] = 0
  <2>1. fs[1].args \in Seq(Cells)
    BY <1>5 DEF Frame
  <2>2. \A c \in Range(fs[1].args) : \E i \in 1 .. Len(fs[1].args) : c = fs[1].args[i]
    BY <2>1 DEF Range
  <2>3. \A i : <<0, i>>[1] = 0
    OBVIOUS
  <2> QED
    BY <1>6, <2>2, <2>3
<1>8. /\ fs[1].fn # "set_args" => fs[1].to = <<0, 0>>
      /\ fs[1].fn = "set_args" => fs[1].to = <<1, 0>>
  BY <1>5 DEF FrameFits
<1>9. \A c \in p.fresh : m[Place(fs, 1, c)] = "current"
  <2>1. \A c : ~Awaited(fs, 1, c)
    BY DEF Awaited
  <2> QED
    BY <1>4, <2>1 DEF Sound, FreshFits
<1>10. Places(fs, 1)
  BY PlaceOf
<1>11. m2 = [c \in Cells |-> IF c[1] = 1 \/ c \in Range(fs[1].args) THEN "unboxed"
                             ELSE IF c = fs[1].to THEN m[<<1, 0>>] ELSE m[c]]
  BY DEF Dropped
<1>12. ASSUME NEW c \in Cells
       PROVE  \/ m2[c] = "unboxed"
              \/ m2[c] = "current"
              \/ m2[c] = m[c] /\ c[1] # 1
  <2>1. CASE c[1] = 1 \/ c \in Range(fs[1].args)
    BY <1>11, <2>1
  <2>2. CASE c[1] # 1 /\ c \notin Range(fs[1].args) /\ c = fs[1].to
    <3>1. fs[1].fn # "set_args"
      BY <1>8, <2>2
    <3>2. Place(fs, 1, Result) = <<1, 0>>
      BY <1>10 DEF Places, Result
    <3>3. m[<<1, 0>>] = "current"
      BY <1>3, <1>9, <3>1, <3>2 DEF ExitFits, Key
    <3> QED
      BY <1>11, <2>2, <3>3
  <2>3. CASE c[1] # 1 /\ c \notin Range(fs[1].args) /\ c # fs[1].to
    BY <1>11, <2>3
  <2> QED
    BY <2>1, <2>2, <2>3
<1>13. m2 \in [Cells -> Kinds]
  <2>1. \A c \in Cells : m2[c] \in Kinds
    BY <1>1, <1>12 DEF Kinds
  <2>2. m2 = [c \in Cells |-> m2[c]]
    BY <1>11
  <2> HIDE DEF m2
  <2> QED
    BY <2>1, <2>2
<1>14. m2[GlobalSysargs] = m[GlobalSysargs]
  <2>1. GlobalSysargs \in Cells /\ GlobalSysargs[1] = 4
    BY DEF Cells, GlobalSysargs, MaxDepth
  <2>2. GlobalSysargs \notin Range(fs[1].args) /\ GlobalSysargs # fs[1].to
    <3>1. GlobalSysargs \notin Range(fs[1].args)
      BY <1>7, <2>1
    <3>2. fs[1].to = <<0, 0>> \/ fs[1].to = <<1, 0>>
      BY <1>8
    <3>3. GlobalSysargs # <<0, 0>> /\ GlobalSysargs # <<1, 0>>
      BY DEF GlobalSysargs, MaxDepth
    <3> QED
      BY <3>1, <3>2, <3>3
  <2> QED
    BY <1>11, <2>1, <2>2
<1> HIDE DEF m2
<1>15. OuterFits(m2)
  <2>1. ASSUME NEW c \in Cells, c[1] <= 0 PROVE m2[c] # "old"
    BY <1>12, <2>1 DEF Sound, OuterFits
  <2> QED
    BY <1>13, <2>1 DEF OuterFits
<1>16. b \in 0 .. 1 /\ pl \in Seq(Cells) /\ (b = 1 => pl[1] = GlobalSysargs)
       /\ Len(pl) = b + Len(p.held)
       /\ \A i \in 1 .. Len(p.held) : pl[b + i] = Place(fs, 1, p.held[i])
  <2>1. b \in 0 .. 1 /\ pl \in Seq(Cells) /\ (b = 1 => pl[1] = GlobalSysargs)
    BY DEF Sound, PoolFits
  <2>2. Stacked(D, fs, b)
    BY <1>1, <2>1, PoolIsStacked
  <2>3. Offset(D, fs, b, 1) = b /\ Offset(D, fs, b, 1 + 1) = b + Len(p.held)
    BY <1>4, <2>2 DEF Stacked
  <2>4. Len(pl) = Offset(D, fs, b, 1 + 1)
    BY DEF Sound, PoolFits
  <2>5. \A i \in 1 .. Len(p.held) : pl[Offset(D, fs, b, 1) + i] = Place(fs, 1, p.held[i])
    BY <1>4 DEF Sound, PoolFits
  <2> QED
    BY <2>1, <2>3, <2>4, <2>5
<1>17. b = 0 <=> fs[1].fn = "set_args"
  <2>1. fs # <<>>
    OBVIOUS
  <2> QED
    BY <2>1 DEF Sound, GlobalFits
<1>18. Len(pl) = 1 /\ pl[1] = GlobalSysargs /\ m[GlobalSysargs] \notin {"old", "unboxed"}
  <2>1. CASE fs[1].fn = "set_args"
    <3>1. b = 0 /\ p.held = <<Sysargs>> /\ Sysargs \in p.fresh
      BY <1>3, <1>17, <2>1 DEF ExitFits, Key
    <3>2. Len(p.held) = 1 /\ p.held[1] = Sysargs
      BY <3>1
    <3>3. Place(fs, 1, Sysargs) = GlobalSysargs
      BY <1>10 DEF Places
    <3>4. m[GlobalSysargs] = "current"
      BY <1>9, <3>1, <3>3
    <3>5. Len(pl) = 1 /\ pl[0 + 1] = GlobalSysargs
      BY <1>16, <3>1, <3>2, <3>3
    <3> QED
      BY <3>4, <3>5
  <2>2. CASE fs[1].fn # "set_args"
    <3>1. b = 1 /\ Len(p.held) = 0
      BY <1>3, <1>16, <1>17, <2>2 DEF ExitFits, Key
    <3>2. m[GlobalSysargs] # "old" /\ m[GlobalSysargs] # "unboxed"
      <4>1. fs # <<>>
        OBVIOUS
      <4> QED
        BY <2>2, <4>1 DEF Sound, GlobalFits
    <3> QED
      BY <1>16, <3>1, <3>2
  <2> QED
    BY <2>1, <2>2
<1> DEFINE fs2 == <<>>
<1>19. fs2 = <<>> /\ Len(fs2) = 0 /\ fs2 \in Seq(Frame)
  OBVIOUS
<1> HIDE DEF fs2
<1>20. FramesFit(D, fs2)
  BY <1>19 DEF FramesFit, MaxDepth
<1>21. GuardFits(D, fs2, t)
  <2>1. t \in 0 .. 1 /\ t # 1
    BY <1>3, <1>4 DEF Sound, GuardFits, ExitFits
  <2>2. t = 0
    BY <2>1
  <2> QED
    BY <1>19, <2>2 DEF GuardFits
<1>22. PoolFits(D, fs2, pl, 1)
  <2>1. Offset(D, fs2, 1, 1) = 1
    BY DEF Offset
  <2>2. Len(fs2) + 1 = 1 /\ \A d \in 1 .. Len(fs2) : FALSE
    BY <1>19
  <2>3. Len(pl) = Offset(D, fs2, 1, Len(fs2) + 1) /\ 1 \in 0 .. 1
    BY <1>18, <2>1, <2>2
  <2> QED
    BY <1>16, <1>18, <2>2, <2>3 DEF PoolFits
<1>23. LiveFits(D, fs2, m2) /\ FreshFits(D, fs2, m2)
  BY <1>19 DEF LiveFits, FreshFits
<1>24. GlobalFits(D, fs2, m2, 1)
  BY <1>14, <1>18, <1>19 DEF GlobalFits
<1>25. Sound(D, m2, fs2, t, pl, 1)
  BY <1>15, <1>20, <1>21, <1>22, <1>23, <1>24 DEF Sound
<1> QED
  BY <1>2, <1>19, <1>25 DEF m2

-----------------------------------------------------------------------------
(* A call from outside. *)

OuterFrame(f, n) ==
  NewFrame(f, [i \in 1 .. n |-> <<0, i>>], IF f = "set_args" THEN <<1, 0>> ELSE <<0, 0>>)

LEMMA SoundEnters ==
  ASSUME NEW D, WellTyped(D), NEW m, NEW t, NEW pl, NEW b, Sound(D, m, <<>>, t, pl, b),
         NEW f, NEW n \in 0 .. NArgs, <<f, n>> \in DOMAIN D, b = 0 <=> f = "set_args",
         NEW m1, OuterFits(m1), m1[GlobalSysargs] = m[GlobalSysargs]
  PROVE  Sound(D, Entered(m1, 1), <<OuterFrame(f, n)>>, t, pl, b)
<1> DEFINE fr == OuterFrame(f, n)
           fs == <<fr>>
           m2 == Entered(m1, 1)
           as == [i \in 1 .. n |-> <<0, i>>]
           k  == <<f, n>>
<1>1. Shaped(D, k) /\ BodyFits(D, k)
  BY DEF WellTyped
<1>2. f \in Named /\ n \in Nat
  <2>1. k[1] \in Named
    BY <1>1 DEF Shaped
  <2> QED
    BY <2>1, ConstantsAssumption
<1>3. \A i \in 1 .. n : <<0, i>> \in Cells
  BY ConstantsAssumption DEF Cells, Words, MaxDepth
<1>4. as \in Seq(Cells) /\ Len(as) = n /\ \A i \in 1 .. n : as[i] = <<0, i>>
  BY <1>2, <1>3
<1>5. /\ fr.fn = f /\ fr.pc = 1 /\ fr.args = as
      /\ fr.to = IF f = "set_args" THEN <<1, 0>> ELSE <<0, 0>>
  BY DEF OuterFrame, NewFrame
<1>6. fr \in Frame
  <2>1. <<1, 0>> \in Cells /\ <<0, 0>> \in Cells
    BY ConstantsAssumption DEF Cells, Words, MaxDepth
  <2> DEFINE to == IF f = "set_args" THEN <<1, 0>> ELSE <<0, 0>>
  <2>2. fr = [fn |-> f, pc |-> 1, flag |-> FALSE, args |-> as, to |-> to]
    BY DEF OuterFrame, NewFrame
  <2>3. to \in Cells
    BY <2>1
  <2> HIDE DEF fr, as, to
  <2> QED
    BY <1>2, <1>4, <2>2, <2>3 DEF Frame
<1> HIDE DEF fr, as
<1>7. Len(fs) = 1 /\ fs[1] = fr /\ fs \in Seq(Frame) /\ fs # <<>>
  BY <1>6
<1> HIDE DEF fs
<1>8. Key(fs[1]) = k
  BY <1>4, <1>5, <1>7 DEF Key
<1>9. D[k].rank \in 1 .. 3 /\ 1 \in 1 .. Len(D[k].points)
  BY <1>1 DEF Shaped, Rules, MaxDepth
<1>10. FramesFit(D, fs)
  <2>1. FrameFits(D, fs, 1)
    <3>1. D[k].rank + 1 <= MaxDepth + 1
      BY <1>9 DEF MaxDepth
    <3>2. \A i \in 1 .. Len(fs[1].args) : fs[1].args[i] = <<0, i>>
      BY <1>4, <1>5, <1>7
    <3>3. \A i : <<0, i>>[1] \in 0 .. 1 - 1
      OBVIOUS
    <3>4. \A i \in 1 .. Len(fs[1].args) : fs[1].args[i][1] \in 0 .. 1 - 1
      BY <3>2, <3>3
    <3> QED
      BY <1>5, <1>7, <1>8, <1>9, <3>1, <3>2, <3>4 DEF FrameFits
  <2>2. \A d \in 1 .. 1 : d = 1
    OBVIOUS
  <2>3. \A d \in 1 .. 1 - 1 : FALSE
    OBVIOUS
  <2> QED
    BY <1>7, <2>1, <2>2, <2>3 DEF FramesFit, MaxDepth
<1> DEFINE p == At(D, fs, 1)
<1>11. EntryFits(p, n)
  BY <1>1, <1>5, <1>7, <1>8 DEF BodyFits, At
<1>12. t = 0
  BY DEF Sound, GuardFits
<1>13. GuardFits(D, fs, t)
  <2>1. \A d \in 1 .. 1 : d = 1
    OBVIOUS
  <2> QED
    BY <1>7, <1>11, <1>12, <2>1 DEF GuardFits, EntryFits
<1>14. PoolFits(D, fs, pl, b)
  <2>1. b \in 0 .. 1 /\ pl \in Seq(Cells) /\ (b = 1 => pl[1] = GlobalSysargs)
    BY DEF Sound, PoolFits
  <2>2. Len(pl) = Offset(D, <<>>, b, 1)
    BY DEF Sound, PoolFits
  <2>3. Offset(D, <<>>, b, 1) = b
    BY <2>1 DEF Offset
  <2>4. Stacked(D, fs, b)
    BY <1>10, <2>1, PoolIsStacked
  <2>5. Len(p.held) = 0
    BY <1>11 DEF EntryFits
  <2>6. 1 \in 1 .. Len(fs) /\ \A d \in 1 .. Len(fs) : d = 1
    BY <1>7
  <2>7. Offset(D, fs, b, 1 + 1) = b + 0
    BY <2>4, <2>5, <2>6 DEF Stacked
  <2>8. Len(pl) = Offset(D, fs, b, 1 + 1)
    BY <2>1, <2>2, <2>3, <2>7
  <2>9. \A d \in 1 .. Len(fs) : \A i \in 1 .. Len(At(D, fs, d).held) : FALSE
    BY <2>5, <2>6
  <2> QED
    BY <1>7, <2>1, <2>8, <2>9 DEF PoolFits
<1>15. m2 \in [Cells -> Kinds] /\ \A c \in Cells : c[1] # 1 => m2[c] = m1[c]
  <2>1. m1 \in [Cells -> Kinds]
    BY DEF OuterFits
  <2> QED
    BY <2>1, EnteredWords
<1> HIDE DEF m2
<1>16. OuterFits(m2)
  <2>1. ASSUME NEW c \in Cells, c[1] <= 0 PROVE m2[c] # "old"
    <3>1. c[1] # 1
      BY <2>1
    <3> QED
      BY <1>15, <2>1, <3>1 DEF OuterFits
  <2> QED
    BY <1>15, <2>1 DEF OuterFits
<1>17. LiveFits(D, fs, m2)
  <2> SUFFICES ASSUME NEW c \in p.live
               PROVE  m2[Place(fs, 1, c)] # "old"
    <3>1. \A d \in 1 .. Len(fs) : d = 1
      BY <1>7
    <3> QED
      BY <3>1 DEF LiveFits
  <2>1. c \in ArgSet(1, n) \union Olders
    BY <1>11 DEF EntryFits
  <2>2. CASE c \in ArgSet(1, n)
    <3>1. PICK i \in 1 .. n : c = Arg(i)
      BY <2>2 DEF ArgSet
    <3>2. Places(fs, 1)
      BY PlaceOf
    <3>3. Place(fs, 1, c) = <<0, i>>
      BY <1>4, <1>5, <1>7, <3>1, <3>2 DEF Places
    <3>4. <<0, i>> \in Cells /\ <<0, i>>[1] <= 0
      BY <1>3
    <3> QED
      BY <1>16, <3>3, <3>4 DEF OuterFits
  <2>3. CASE c \in Olders
    <3>1. Place(fs, 1, c) \in Cells /\ Place(fs, 1, c)[1] <= 0
      BY <2>3, OldersOutside
    <3> QED
      BY <1>16, <3>1 DEF OuterFits
  <2> QED
    BY <2>1, <2>2, <2>3
<1>18. FreshFits(D, fs, m2)
  <2>1. \A d \in 1 .. Len(fs) : d = 1
    BY <1>7
  <2>2. p.fresh = {}
    BY <1>11 DEF EntryFits
  <2> QED
    BY <2>1, <2>2 DEF FreshFits
<1>19. GlobalFits(D, fs, m2, b)
  <2>1. GlobalSysargs \in Cells /\ GlobalSysargs[1] # 1
    BY DEF Cells, GlobalSysargs, MaxDepth
  <2>2. m2[GlobalSysargs] = m[GlobalSysargs]
    BY <1>15, <2>1
  <2>3. m[GlobalSysargs] # "old" /\ (b = 0 <=> m[GlobalSysargs] = "unboxed")
    BY DEF Sound, GlobalFits
  <2> QED
    BY <1>5, <1>7, <2>2, <2>3 DEF GlobalFits
<1>20. Sound(D, m2, fs, t, pl, b)
  BY <1>10, <1>13, <1>14, <1>16, <1>17, <1>18, <1>19 DEF Sound
<1> QED
  BY <1>20 DEF m2, fs, fr

-----------------------------------------------------------------------------
(* The steps, by kind. *)

\* The innermost frame takes its step s.
Takes(D, fs, fs2, s, p, q) ==
  /\ Stepped(fs, fs2) /\ Moves(D, fs, fs2, p, q)
  /\ s = Steps(Key(fs[Len(fs)]))[fs[Len(fs)].pc]
  /\ StepFits(D, Key(fs[Len(fs)]), s, p, q)

LEMMA StepTaken ==
  ASSUME NEW D, WellTyped(D), NEW fs, FramesFit(D, fs), Len(fs) > 0,
         NEW fs2, Stepped(fs, fs2), Ready(fs)
  PROVE  \E p, q : Takes(D, fs, fs2, Steps(Key(fs[Len(fs)]))[fs[Len(fs)].pc], p, q)
<1> DEFINE k  == Key(fs[Len(fs)])
           pc == fs[Len(fs)].pc
           p  == D[k].points[pc]
           q  == D[k].points[pc + 1]
<1>1. StepHere(D, k, pc, p, q) /\ Moves(D, fs, fs2, p, q)
  BY StepMoves
<1>2. StepFits(D, k, Steps(k)[pc], p, q)
  BY <1>1 DEF StepHere
<1> QED
  BY <1>1, <1>2 DEF Takes

LEMMA SoundPre ==
  ASSUME NEW D, WellTyped(D), NEW m, NEW fs, NEW t, NEW pl, NEW b, Sound(D, m, fs, t, pl, b),
         NEW fs2, NEW s, NEW p, NEW q, Takes(D, fs, fs2, s, p, q), s.op = "pre"
  PROVE  Sound(D, m, fs2, IF t = 0 THEN Len(fs) ELSE t, pl, b) /\ t <= Len(fs)
<1>1. Moves(D, fs, fs2, p, q) /\ PreFits(p, q) /\ KeepsSysargs(p, q)
  BY DEF Takes, StepFits
<1>2. q.held = p.held /\ q.live \subseteq p.live /\ q.fresh \subseteq p.fresh
  BY <1>1 DEF PreFits, Same
<1>3. FramesFit(D, fs)
  BY DEF Sound
<1>4. GuardFits(D, fs2, IF t = 0 THEN Len(fs) ELSE t) /\ t <= Len(fs)
  BY <1>1, GuardEnters DEF Sound
<1>5. PoolFits(D, fs2, pl, b)
  BY <1>1, <1>2, <1>3, PoolStays DEF Sound
<1> QED
  BY <1>1, <1>2, <1>4, <1>5, SoundStill

LEMMA SoundPost ==
  ASSUME NEW D, WellTyped(D), NEW m, NEW fs, NEW t, NEW pl, NEW b, Sound(D, m, fs, t, pl, b),
         NEW fs2, NEW s, NEW p, NEW q, Takes(D, fs, fs2, s, p, q), s.op = "post"
  PROVE  Sound(D, m, fs2, IF t = Len(fs) THEN 0 ELSE t, pl, b) /\ t \in 1 .. Len(fs)
<1>1. Moves(D, fs, fs2, p, q) /\ PostFits(p, q) /\ KeepsSysargs(p, q)
  BY DEF Takes, StepFits
<1>2. q.held = p.held /\ q.live \subseteq p.live /\ q.fresh \subseteq p.fresh
  BY <1>1 DEF PostFits, Same
<1>3. FramesFit(D, fs)
  BY DEF Sound
<1>4. GuardFits(D, fs2, IF t = Len(fs) THEN 0 ELSE t) /\ t \in 1 .. Len(fs)
  BY <1>1, GuardLeaves DEF Sound
<1>5. PoolFits(D, fs2, pl, b)
  BY <1>1, <1>2, <1>3, PoolStays DEF Sound
<1> QED
  BY <1>1, <1>2, <1>4, <1>5, SoundStill

LEMMA SoundPush ==
  ASSUME NEW D, WellTyped(D), NEW m, NEW fs, NEW t, NEW pl, NEW b, Sound(D, m, fs, t, pl, b),
         NEW fs2, NEW s, NEW p, NEW q, Takes(D, fs, fs2, s, p, q), s.op = "push"
  PROVE  Sound(D, m, fs2, t, Append(pl, Place(fs, Len(fs), s.cell)), b)
<1>1. Moves(D, fs, fs2, p, q) /\ PushFits(s, p, q) /\ KeepsSysargs(p, q)
  BY DEF Takes, StepFits
<1>2. q.live \subseteq p.live /\ q.fresh \subseteq p.fresh /\ q.inside = p.inside /\ s.cell \in p.live
  BY <1>1 DEF PushFits
<1>3. FramesFit(D, fs) /\ PoolFits(D, fs, pl, b)
  BY DEF Sound
<1>4. GuardFits(D, fs2, t)
  BY <1>1, <1>2, GuardStays DEF Sound
<1>5. s.cell \in Operands(Len(fs[Len(fs)].args))
  <2>1. PICK e \in 1 .. 3 : e = Len(fs)
    BY <1>1 DEF Moves
  <2>2. Len(fs) \in 1 .. Len(fs) /\ At(D, fs, Len(fs)) = p
    BY <1>1, <2>1 DEF Moves
  <2> QED
    BY <1>2, <1>3, <2>2, LiveTyped
<1>6. PoolFits(D, fs2, Append(pl, Place(fs, Len(fs), s.cell)), b)
  <2>1. PICK c \in Operands(Len(fs[Len(fs)].args)) : c = s.cell
    BY <1>5
  <2>2. PoolFits(D, fs2, Append(pl, Place(fs, Len(fs), c)), b)
    BY <1>1, <1>3, <2>1, PoolGrows
  <2> QED
    BY <2>1, <2>2
<1> QED
  BY <1>1, <1>2, <1>4, <1>6, SoundStill

LEMMA SoundPop ==
  ASSUME NEW D, WellTyped(D), NEW m, NEW fs, NEW t, NEW pl, NEW b, Sound(D, m, fs, t, pl, b),
         NEW fs2, NEW s, NEW p, NEW q, Takes(D, fs, fs2, s, p, q), s.op = "pop"
  PROVE  /\ pl # <<>> /\ Last(pl) = Place(fs, Len(fs), s.cell)
         /\ Sound(D, m, fs2, t, Front(pl), b)
<1>1. Moves(D, fs, fs2, p, q) /\ PopFits(s, p, q) /\ KeepsSysargs(p, q)
  BY DEF Takes, StepFits
<1>2. q.live \subseteq p.live /\ q.fresh \subseteq p.fresh /\ q.inside = p.inside
  BY <1>1 DEF PopFits
<1>3. FramesFit(D, fs) /\ PoolFits(D, fs, pl, b)
  BY DEF Sound
<1>4. GuardFits(D, fs2, t)
  BY <1>1, <1>2, GuardStays DEF Sound
<1>5. Popped(D, fs, fs2, pl, b, s.cell)
  <2>1. p.held = Append(q.held, s.cell)
    BY <1>1 DEF PopFits
  <2>2. PICK c : c = s.cell
    OBVIOUS
  <2>3. Popped(D, fs, fs2, pl, b, c)
    BY <1>1, <1>3, <2>1, <2>2, PoolShrinks
  <2> QED
    BY <2>2, <2>3
<1> QED
  BY <1>1, <1>2, <1>4, <1>5, SoundStill DEF Popped

LEMMA SoundUse ==
  ASSUME NEW D, WellTyped(D), NEW m, NEW fs, NEW t, NEW pl, NEW b, Sound(D, m, fs, t, pl, b),
         NEW fs2, NEW s, NEW p, NEW q, Takes(D, fs, fs2, s, p, q), s.op = "use"
  PROVE  Sound(D, m, fs2, t, pl, b)
<1>1. Moves(D, fs, fs2, p, q) /\ UseFits(s, p, q) /\ KeepsSysargs(p, q)
  BY DEF Takes, StepFits
<1>2. /\ q.held = p.held /\ q.live \subseteq p.live /\ q.fresh \subseteq p.fresh
      /\ q.inside = p.inside
  BY <1>1 DEF UseFits, Same
<1>3. FramesFit(D, fs)
  BY DEF Sound
<1>4. GuardFits(D, fs2, t)
  BY <1>1, <1>2, GuardStays DEF Sound
<1>5. PoolFits(D, fs2, pl, b)
  BY <1>1, <1>2, <1>3, PoolStays DEF Sound
<1> QED
  BY <1>1, <1>2, <1>4, <1>5, SoundStill

LEMMA SoundCopy ==
  ASSUME NEW D, WellTyped(D), NEW m, NEW fs, NEW t, NEW pl, NEW b, Sound(D, m, fs, t, pl, b),
         NEW fs2, NEW s, NEW p, NEW q, Takes(D, fs, fs2, s, p, q), s.op = "copy",
         NEW m2, Written(fs, m, m2, s.to, m[Place(fs, Len(fs), s.from)])
  PROVE  Sound(D, m2, fs2, t, pl, b)
<1>1. Moves(D, fs, fs2, p, q) /\ CopyFits(Key(fs[Len(fs)]), s, p, q) /\ KeepsSysargs(p, q)
  BY DEF Takes, StepFits
<1>2. WriteFits(D, fs, p, q, s.to, m[Place(fs, Len(fs), s.from)])
  BY <1>1, CopyWrites
<1> QED
  BY <1>1, <1>2, SoundWrite

LEMMA SoundSet ==
  ASSUME NEW D, WellTyped(D), NEW m, NEW fs, NEW t, NEW pl, NEW b, Sound(D, m, fs, t, pl, b),
         NEW fs2, NEW s, NEW p, NEW q, Takes(D, fs, fs2, s, p, q), s.op = "set",
         NEW m2, Written(fs, m, m2, s.to, s.kind)
  PROVE  Sound(D, m2, fs2, t, pl, b)
<1>1. Moves(D, fs, fs2, p, q) /\ SetFits(s, p, q) /\ KeepsSysargs(p, q)
  BY DEF Takes, StepFits
<1>2. WriteFits(D, fs, p, q, s.to, s.kind)
  BY <1>1, SetWrites
<1> QED
  BY <1>1, <1>2, SoundWrite

LEMMA SoundNew ==
  ASSUME NEW D, WellTyped(D), NEW m, NEW fs, NEW t, NEW pl, NEW b, Sound(D, m, fs, t, pl, b),
         NEW fs2, NEW s, NEW p, NEW q, Takes(D, fs, fs2, s, p, q), s.op = "alloc",
         NEW m2, Swept(m, m2, t, pl, <<Len(fs), 0>>)
  PROVE  Sound(D, m2, fs2, t, pl, b)
<1>1. /\ Moves(D, fs, fs2, p, q) /\ AllocStepFits(D, Key(fs[Len(fs)]), p, q)
      /\ KeepsSysargs(p, q)
  BY DEF Takes, StepFits
<1> QED
  BY <1>1, SoundAlloc

LEMMA SoundCalls ==
  ASSUME NEW D, WellTyped(D), NEW m, NEW fs, NEW t, NEW pl, NEW b, Sound(D, m, fs, t, pl, b),
         NEW fs2, NEW s, NEW p, NEW q, Takes(D, fs, fs2, s, p, q), s.op = "call"
  PROVE  Sound(D, Entered(m, Len(fs) + 1), Append(fs2, CalledFrame(fs, s)), t, pl, b)
<1>1. Calling(D, fs, fs2, s, p, q) /\ KeepsSysargs(p, q)
  BY DEF Takes, StepFits, Calling
<1> QED
  BY <1>1, SoundCall

-----------------------------------------------------------------------------
(* The actions that the two runtimes share. *)

LEMMA FrameAdvances ==
  ASSUME NEW r \in Frame
  PROVE  LET g == [r EXCEPT !.pc = r.pc + 1]
         IN  g \in Frame /\ g.pc = r.pc + 1 /\ g.fn = r.fn /\ g.args = r.args /\ g.to = r.to
<1>1. r.pc + 1 \in Nat
  BY DEF Frame
<1> QED
  BY <1>1 DEF Frame

LEMMA Advanced ==
  ASSUME NEW fs \in Seq(Frame), Len(fs) > 0,
         NEW fl \in BOOLEAN,
         NEW fs2, \/ fs2 = [fs EXCEPT ![Len(fs)].pc = @ + 1]
                  \/ fs2 = [fs EXCEPT ![Len(fs)].pc = @ + 1, ![Len(fs)].flag = fl]
  PROVE  Stepped(fs, fs2)
<1>1. PICK n \in Nat : n = Len(fs) /\ n \in 1 .. n
  OBVIOUS
<1>2. fs[n] \in Frame
  BY <1>1
<1>3. \E g \in Frame : /\ fs2 = [fs EXCEPT ![n] = g] /\ g.pc = fs[n].pc + 1
                       /\ g.fn = fs[n].fn /\ g.args = fs[n].args /\ g.to = fs[n].to
  <2> DEFINE g1 == [fs[n] EXCEPT !.pc = fs[n].pc + 1]
             g2 == [g1 EXCEPT !.flag = fl]
  <2>1. g1 \in Frame /\ g1.pc = fs[n].pc + 1 /\ g1.fn = fs[n].fn /\ g1.args = fs[n].args /\ g1.to = fs[n].to
    BY <1>2, FrameAdvances
  <2>2. g2 \in Frame /\ g2.pc = g1.pc /\ g2.fn = g1.fn /\ g2.args = g1.args /\ g2.to = g1.to
    <3> HIDE DEF g1
    <3> QED
      BY <2>1 DEF Frame
  <2>3. CASE fs2 = [fs EXCEPT ![Len(fs)].pc = @ + 1]
    <3>1. fs2 = [fs EXCEPT ![n] = g1]
      BY <1>1, <2>3
    <3> HIDE DEF g1
    <3> QED
      BY <2>1, <3>1
  <2>4. CASE fs2 = [fs EXCEPT ![Len(fs)].pc = @ + 1, ![Len(fs)].flag = fl]
    <3>1. fs2 = [[fs EXCEPT ![n] = g1] EXCEPT ![n].flag = fl]
      BY <1>1, <2>4
    <3>2. fs2 = [fs EXCEPT ![n] = g2]
      <4> HIDE DEF g1
      <4> QED
        BY <1>1, <3>1
    <3> HIDE DEF g1, g2
    <3> QED
      BY <2>1, <2>2, <3>2
  <2> QED
    BY <2>3, <2>4
<1>4. PICK g \in Frame : /\ fs2 = [fs EXCEPT ![n] = g] /\ g.pc = fs[n].pc + 1
                         /\ g.fn = fs[n].fn /\ g.args = fs[n].args /\ g.to = fs[n].to
  BY <1>3
<1>5. fs2 \in Seq(Frame) /\ Len(fs2) = n /\ fs2[n] = g
  BY <1>1, <1>4
<1>6. \A i \in 1 .. n - 1 : fs2[i] = fs[i]
  BY <1>1, <1>4
<1> QED
  BY <1>1, <1>4, <1>5, <1>6 DEF Stepped

\* The step that is about to be taken.
Here(op) ==
  /\ frames \in Seq(Frame) /\ Len(frames) > 0 /\ Ready(frames)
  /\ Step = Steps(Key(frames[Len(frames)]))[frames[Len(frames)].pc]
  /\ Step.op = op
  /\ \A c : The(c) = Place(frames, Len(frames), c)

LEMMA StepIsHere ==
  ASSUME NEW D, ProtocolInv(D), NEW op, AtStep(op)
  PROVE  Here(op)
<1>1. frames \in Seq(Frame)
  BY DEF ProtocolInv, Sound, FramesFit
<1>2. Code = Steps(Key(frames[Len(frames)]))
  BY DEF Code, Steps, Key, Running, depth
<1>3. Len(frames) > 0 /\ Ready(frames)
  BY <1>2 DEF AtStep, Ready, Running, depth
<1>4. \A c : The(c) = Place(frames, Len(frames), c)
  BY DEF The, Place, Running, depth
<1> QED
  BY <1>1, <1>2, <1>3, <1>4 DEF Here, AtStep, Step, Running, depth

LEMMA StepIsTaken ==
  ASSUME NEW D, WellTyped(D), ProtocolInv(D), NEW op, Here(op), NEW fs2, Stepped(frames, fs2)
  PROVE  \E b \in 0 .. 1 : \E p, q : /\ Sound(D, mem, frames, top, pool, b)
                                     /\ Takes(D, frames, fs2, Step, p, q)
<1>1. PICK b \in 0 .. 1 : Sound(D, mem, frames, top, pool, b)
  BY DEF ProtocolInv
<1>2. \E p, q : Takes(D, frames, fs2, Step, p, q)
  <2>1. FramesFit(D, frames) /\ Len(frames) > 0 /\ Ready(frames)
        /\ Step = Steps(Key(frames[Len(frames)]))[frames[Len(frames)].pc]
    BY <1>1 DEF Sound, Here
  <2> QED
    BY <2>1, StepTaken
<1> QED
  BY <1>1, <1>2

LEMMA AdvanceSteps ==
  ASSUME NEW op, Here(op), Advance
  PROVE  Stepped(frames, frames')
BY Advanced DEF Here, Advance, depth

LEMMA UseWordsKeeps ==
  ASSUME NEW D, WellTyped(D), ProtocolInv(D), UseWords
  PROVE  ProtocolInv(D)'
<1>1. Here("use")
  BY StepIsHere DEF UseWords
<1>2. Stepped(frames, frames') /\ UNCHANGED <<mem, top, pool, exited>>
  BY <1>1, AdvanceSteps DEF UseWords
<1>3. PICK b \in 0 .. 1 : \E p, q : Sound(D, mem, frames, top, pool, b) /\ Takes(D, frames, frames', Step, p, q)
  BY <1>1, <1>2, StepIsTaken
<1>4. Sound(D, mem, frames', top, pool, b)
  BY <1>1, <1>3, SoundUse DEF Here
<1> QED
  BY <1>2, <1>4 DEF ProtocolInv

LEMMA CopyWordKeeps ==
  ASSUME NEW D, WellTyped(D), ProtocolInv(D), CopyWord
  PROVE  ProtocolInv(D)'
<1>1. Here("copy")
  BY StepIsHere DEF CopyWord
<1>2. Stepped(frames, frames') /\ UNCHANGED <<top, pool, exited>>
  BY <1>1, AdvanceSteps DEF CopyWord
<1>3. PICK b \in 0 .. 1 : \E p, q : Sound(D, mem, frames, top, pool, b) /\ Takes(D, frames, frames', Step, p, q)
  BY <1>1, <1>2, StepIsTaken
<1>4. Written(frames, mem, mem', Step.to, mem[Place(frames, Len(frames), Step.from)])
  BY <1>1 DEF CopyWord, Written, Here
<1>5. Sound(D, mem', frames', top, pool, b)
  BY <1>1, <1>3, <1>4, SoundCopy DEF Here
<1> QED
  BY <1>2, <1>5 DEF ProtocolInv

LEMMA SetWordKeeps ==
  ASSUME NEW D, WellTyped(D), ProtocolInv(D), SetWord
  PROVE  ProtocolInv(D)'
<1>1. Here("set")
  BY StepIsHere DEF SetWord
<1>2. Stepped(frames, frames') /\ UNCHANGED <<top, pool, exited>>
  BY <1>1, AdvanceSteps DEF SetWord
<1>3. PICK b \in 0 .. 1 : \E p, q : Sound(D, mem, frames, top, pool, b) /\ Takes(D, frames, frames', Step, p, q)
  BY <1>1, <1>2, StepIsTaken
<1>4. Written(frames, mem, mem', Step.to, Step.kind)
  BY <1>1 DEF SetWord, Written, Here
<1>5. Sound(D, mem', frames', top, pool, b)
  BY <1>1, <1>3, <1>4, SoundSet DEF Here
<1> QED
  BY <1>2, <1>5 DEF ProtocolInv

\* With or without a collection, the words that are visited stay what they were.
LEMMA AllocKeeps ==
  ASSUME NEW D, WellTyped(D), ProtocolInv(D), AllocFits \/ AllocCollects
  PROVE  ProtocolInv(D)'
<1> DEFINE w == <<Len(frames), 0>>
<1>1. Here("alloc")
  BY StepIsHere DEF AllocFits, AllocCollects
<1>2. Stepped(frames, frames') /\ UNCHANGED <<top, pool, exited>>
  BY <1>1, AdvanceSteps DEF AllocFits, AllocCollects
<1>3. PICK b \in 0 .. 1 : \E p, q : Sound(D, mem, frames, top, pool, b) /\ Takes(D, frames, frames', Step, p, q)
  BY <1>1, <1>2, StepIsTaken
<1>4. mem \in [Cells -> Kinds] /\ w \in Cells
  <2>1. FramesFit(D, frames) /\ Len(frames) > 0 /\ mem \in [Cells -> Kinds]
    BY <1>1, <1>3 DEF Sound, OuterFits, Here
  <2>2. Len(frames) \in 1 .. 3
    BY <2>1, DepthIn
  <2>3. 0 \in Words
    BY ConstantsAssumption DEF Words
  <2>4. PICK e \in 1 .. 3 : e = Len(frames)
    BY <2>2
  <2>5. <<e, 0>> \in Cells
    BY <2>3 DEF Cells, MaxDepth
  <2> QED
    BY <2>1, <2>4, <2>5
<1>5. The(Result) = w
  <2>1. Places(frames, Len(frames))
    BY PlaceOf
  <2> QED
    BY <1>1, <2>1 DEF Here, Places, Result
<1>6. Swept(mem, mem', top, pool, w)
  <2>1. CASE AllocFits
    <3>1. mem' = [mem EXCEPT ![w] = "current"]
      BY <1>5, <2>1 DEF AllocFits
    <3> QED
      BY <1>4, <3>1 DEF Swept, Kinds
  <2>2. CASE AllocCollects
    <3>1. mem' = [Collected EXCEPT ![w] = "current"]
      BY <1>5, <2>2 DEF AllocCollects
    <3>2. Scanned = Reached(top, pool)
      BY DEF Scanned, Reached
    <3>3. Collected = [c \in Cells |-> IF c \notin Reached(top, pool) /\ mem[c] = "current"
                                       THEN "old" ELSE mem[c]]
      BY <3>2 DEF Collected
    <3>4. Collected \in [Cells -> Kinds]
      BY <1>4, <3>3 DEF Kinds
    <3>5. mem' \in [Cells -> Kinds] /\ mem'[w] = "current"
      BY <1>4, <3>1, <3>4 DEF Kinds
    <3>6. \A c \in Cells : c # w => mem'[c] = Collected[c]
      BY <3>1, <3>4
    <3> QED
      BY <3>3, <3>5, <3>6 DEF Swept
  <2> QED
    BY <2>1, <2>2
<1>7. Sound(D, mem', frames', top, pool, b)
  <2> HIDE DEF w
  <2>1. Swept(mem, mem', top, pool, <<Len(frames), 0>>)
    BY <1>6 DEF w
  <2> QED
    BY <1>1, <1>3, <2>1, SoundNew DEF Here
<1> QED
  BY <1>2, <1>7 DEF ProtocolInv

LEMMA CallInnerKeeps ==
  ASSUME NEW D, WellTyped(D), ProtocolInv(D), CallInner
  PROVE  ProtocolInv(D)'
<1> DEFINE fs2 == [frames EXCEPT ![Len(frames)].pc = @ + 1]
           fr  == CalledFrame(frames, Step)
<1>1. Here("call")
  BY StepIsHere DEF CallInner
<1>2. Stepped(frames, fs2)
  BY <1>1, Advanced DEF Here
<1>3. PICK b \in 0 .. 1 : \E p, q : Sound(D, mem, frames, top, pool, b) /\ Takes(D, frames, fs2, Step, p, q)
  <2> HIDE DEF fs2
  <2> QED
    BY <1>1, <1>2, StepIsTaken
<1>4. Sound(D, Entered(mem, Len(frames) + 1), Append(fs2, fr), top, pool, b)
  <2> HIDE DEF fs2, fr
  <2>1. Sound(D, Entered(mem, Len(frames) + 1), Append(fs2, CalledFrame(frames, Step)), top, pool, b)
    BY <1>1, <1>3, SoundCalls DEF Here
  <2> QED
    BY <2>1 DEF fr
<1>5. frames' = Append(fs2, fr)
  BY <1>1 DEF CallInner, depth, Here, CalledFrame
<1>6. mem' = Entered(mem, Len(frames) + 1) /\ UNCHANGED <<top, pool, exited>>
  BY DEF CallInner, depth
<1> HIDE DEF fs2, fr
<1>7. Sound(D, mem', frames', top, pool, b)
  BY <1>4, <1>5, <1>6
<1> QED
  BY <1>6, <1>7 DEF ProtocolInv

\* Return.
LEMMA ReturnKeeps ==
  ASSUME NEW D, WellTyped(D), ProtocolInv(D), Return
  PROVE  ProtocolInv(D)'
<1>1. PICK b \in 0 .. 1 : Sound(D, mem, frames, top, pool, b)
  BY DEF ProtocolInv
<1>2. Ended(frames)
  BY DEF Return, Ended, Running, depth, Code, Steps, Key
<1>3. mem' = Dropped(frames, mem)
  <2>1. Places(frames, Len(frames))
    BY PlaceOf
  <2>2. The(Result) = <<Len(frames), 0>>
    BY <2>1 DEF The, Result, Places, Place, Running, depth
  <2> QED
    BY <2>2 DEF Return, Dropped, Running, depth
<1>4. frames' = Front(frames) /\ UNCHANGED <<top, pool, exited>>
  BY DEF Return
<1>5. CASE Len(frames) = 1
  <2>1. Front(frames) = <<>> /\ Sound(D, Dropped(frames, mem), <<>>, top, pool, 1)
    BY <1>1, <1>2, <1>5, SoundReturnsOutside
  <2>2. Sound(D, mem', frames', top, pool, 1)
    BY <1>3, <1>4, <2>1
  <2> QED
    BY <1>4, <2>2 DEF ProtocolInv
<1>6. CASE Len(frames) # 1
  <2>1. Sound(D, Dropped(frames, mem), Front(frames), top, pool, b)
    BY <1>1, <1>2, <1>6, SoundReturnsInside
  <2>2. Sound(D, mem', frames', top, pool, b)
    BY <1>3, <1>4, <2>1
  <2> QED
    BY <1>4, <2>2 DEF ProtocolInv
<1> QED
  BY <1>5, <1>6

LEMMA StartKeeps ==
  ASSUME NEW D, WellTyped(D), Covers(D), ProtocolInv(D), Start
  PROVE  ProtocolInv(D)'
<1>1. PICK b \in 0 .. 1 : Sound(D, mem, frames, top, pool, b)
  BY DEF ProtocolInv
<1>2. frames = <<>> /\ mem[GlobalSysargs] = "unboxed" /\ UNCHANGED <<top, pool, exited>>
  BY DEF Start
<1>3. b = 0 /\ OuterFits(mem) /\ Sound(D, mem, <<>>, top, pool, b)
  BY <1>1, <1>2 DEF Sound, GlobalFits
<1>4. PICK n \in 0 .. NArgs :
        /\ frames' = <<NewFrame("set_args", [i \in 1 .. n |-> <<0, i>>], <<1, 0>>)>>
        /\ mem' = Entered([c \in Cells |-> IF c[1] = 0 /\ c[2] \in 1 .. n THEN "c_pointer"
                                           ELSE mem[c]], 1)
  BY DEF Start
<1> DEFINE m1 == [c \in Cells |-> IF c[1] = 0 /\ c[2] \in 1 .. n THEN "c_pointer" ELSE mem[c]]
<1>5. OuterFits(m1) /\ m1[GlobalSysargs] = mem[GlobalSysargs]
  <2>1. GlobalSysargs \in Cells /\ GlobalSysargs[1] = 4
    BY DEF GlobalSysargs, Cells, MaxDepth
  <2>2. m1 \in [Cells -> Kinds]
    BY <1>3 DEF OuterFits, Kinds
  <2> QED
    BY <1>3, <2>1, <2>2 DEF OuterFits
<1>6. mem' = Entered(m1, 1) /\ frames' = <<OuterFrame("set_args", n)>>
  BY <1>4 DEF OuterFrame
<1> HIDE DEF m1
<1>7. <<"set_args", n>> \in DOMAIN D
  BY DEF Covers
<1>8. Sound(D, Entered(m1, 1), <<OuterFrame("set_args", n)>>, top, pool, b)
  BY <1>3, <1>5, <1>7, SoundEnters
<1> QED
  BY <1>2, <1>6, <1>8 DEF ProtocolInv

LEMMA CallRuntimeKeeps ==
  ASSUME NEW D, WellTyped(D), Covers(D), ProtocolInv(D), CallRuntime
  PROVE  ProtocolInv(D)'
<1>1. PICK b \in 0 .. 1 : Sound(D, mem, frames, top, pool, b)
  BY DEF ProtocolInv
<1>2. frames = <<>> /\ mem[GlobalSysargs] # "unboxed" /\ UNCHANGED <<top, pool, exited>>
  BY DEF CallRuntime
<1>3. b # 0 /\ OuterFits(mem) /\ Sound(D, mem, <<>>, top, pool, b)
  BY <1>1, <1>2 DEF Sound, GlobalFits
<1>4. PICK f \in Functions : \E n \in Lengths(f) :
        \E passed \in [1 .. n -> Kinds], older \in LamaValues :
          /\ \A i \in 1 .. n : passed[i] \in Passed(f, n, i)
          /\ frames' = <<NewFrame(f, [i \in 1 .. n |-> <<0, i>>], <<0, 0>>)>>
          /\ mem' = Entered([c \in Cells |->
                               IF c[1] = 0 /\ c[2] \in 1 .. n THEN passed[c[2]]
                               ELSE IF c[1] = -1 THEN older
                               ELSE mem[c]], 1)
  BY DEF CallRuntime
<1>5. PICK n \in Lengths(f) :
        \E passed \in [1 .. n -> Kinds], older \in LamaValues :
          /\ \A i \in 1 .. n : passed[i] \in Passed(f, n, i)
          /\ frames' = <<NewFrame(f, [i \in 1 .. n |-> <<0, i>>], <<0, 0>>)>>
          /\ mem' = Entered([c \in Cells |->
                               IF c[1] = 0 /\ c[2] \in 1 .. n THEN passed[c[2]]
                               ELSE IF c[1] = -1 THEN older
                               ELSE mem[c]], 1)
  BY <1>4
<1>6. PICK passed \in [1 .. n -> Kinds], older \in LamaValues :
        /\ \A i \in 1 .. n : passed[i] \in Passed(f, n, i)
        /\ frames' = <<NewFrame(f, [i \in 1 .. n |-> <<0, i>>], <<0, 0>>)>>
        /\ mem' = Entered([c \in Cells |->
                             IF c[1] = 0 /\ c[2] \in 1 .. n THEN passed[c[2]]
                             ELSE IF c[1] = -1 THEN older
                             ELSE mem[c]], 1)
  BY <1>5
<1>7. /\ <<f, n>> \in DOMAIN D /\ f # "set_args"
      /\ \A i \in 1 .. n : Passed(f, n, i) \subseteq LamaValues
  BY DEF Covers
<1>8. n \in 0 .. NArgs
  BY <1>7 DEF WellTyped, Shaped
<1> DEFINE m1 == [c \in Cells |-> IF c[1] = 0 /\ c[2] \in 1 .. n THEN passed[c[2]]
                                  ELSE IF c[1] = -1 THEN older ELSE mem[c]]
<1>9. OuterFits(m1) /\ m1[GlobalSysargs] = mem[GlobalSysargs]
  <2>1. GlobalSysargs \in Cells /\ GlobalSysargs[1] = 4
    BY DEF GlobalSysargs, Cells, MaxDepth
  <2>2. LamaValues \subseteq Kinds /\ "old" \notin LamaValues
    BY DEF LamaValues, Kinds
  <2>3. \A i \in 1 .. n : passed[i] \in Kinds /\ passed[i] # "old"
    BY <1>6, <1>7, <2>2
  <2>4. mem \in [Cells -> Kinds] /\ \A c \in Cells : c[1] <= 0 => mem[c] # "old"
    BY <1>3 DEF OuterFits
  <2>5. ASSUME NEW c \in Cells
        PROVE  m1[c] \in Kinds /\ (c[1] <= 0 => m1[c] # "old")
    BY <2>2, <2>3, <2>4
  <2>6. m1[GlobalSysargs] = mem[GlobalSysargs]
    BY <2>1
  <2>7. m1 = [c \in Cells |-> m1[c]]
    OBVIOUS
  <2> HIDE DEF m1
  <2>8. m1 \in [Cells -> Kinds]
    BY <2>5, <2>7
  <2> QED
    BY <2>5, <2>6, <2>8 DEF OuterFits
<1>10. mem' = Entered(m1, 1) /\ frames' = <<OuterFrame(f, n)>>
  BY <1>6, <1>7 DEF OuterFrame
<1> HIDE DEF m1
<1>11. Sound(D, Entered(m1, 1), <<OuterFrame(f, n)>>, top, pool, b)
  BY <1>3, <1>7, <1>8, <1>9, SoundEnters
<1> QED
  BY <1>2, <1>10, <1>11 DEF ProtocolInv

LEMMA InitIsSound ==
  ASSUME NEW D, Init
  PROVE  ProtocolInv(D)
<1>1. FramesFit(D, <<>>) /\ <<>> \in Seq(Frame)
  BY DEF FramesFit, MaxDepth
<1>2. GuardFits(D, <<>>, 0)
  BY DEF GuardFits
<1>3. PoolFits(D, <<>>, <<>>, 0)
  BY DEF PoolFits, Offset
<1>4. GlobalSysargs \in Cells
  BY DEF GlobalSysargs, Cells
<1>5. LiveFits(D, <<>>, mem) /\ FreshFits(D, <<>>, mem)
  BY DEF LiveFits, FreshFits
<1>6. GlobalFits(D, <<>>, mem, 0) /\ OuterFits(mem)
  <2>1. mem \in [Cells -> Kinds] /\ \A c \in Cells : mem[c] = "unboxed"
    BY DEF Init, Kinds
  <2>2. mem[GlobalSysargs] = "unboxed"
    BY <1>4, <2>1
  <2>3. GlobalFits(D, <<>>, mem, 0)
    BY <2>2 DEF GlobalFits
  <2> QED
    BY <2>1, <2>3 DEF OuterFits
<1>7. Sound(D, mem, frames, top, pool, 0)
  BY <1>1, <1>2, <1>3, <1>5, <1>6 DEF Init, Sound
<1>8. Len(pool) <= MaxRoots
  <2>1. Len(pool) = 0
    BY DEF Init
  <2> QED
    BY <2>1, ConstantsAssumption
<1>9. exited \in BOOLEAN
  BY DEF Init
<1> QED
  BY <1>7, <1>8, <1>9 DEF ProtocolInv

-----------------------------------------------------------------------------
(* What the invariant says of the states that the properties speak of. *)

LEMMA FrameTyped ==
  ASSUME NEW D, WellTyped(D), NEW fs, FramesFit(D, fs), NEW d \in 1 .. Len(fs)
  PROVE  fs[d].pc \in 1 .. Len(Steps(Key(fs[d]))) + 1
<1>1. FrameFits(D, fs, d) /\ Shaped(D, Key(fs[d]))
  BY PointsFit DEF FramesFit
<1> QED
  BY <1>1 DEF FrameFits, Shaped

LEMMA TypesAreKept ==
  ASSUME NEW D, WellTyped(D), ProtocolInv(D)
  PROVE  TypeOK
<1>1. PICK b \in 0 .. 1 : Sound(D, mem, frames, top, pool, b)
  BY DEF ProtocolInv
<1>2. /\ mem \in [Cells -> Kinds] /\ FramesFit(D, frames) /\ pool \in Seq(Cells)
      /\ top \in 0 .. Len(frames) /\ Len(frames) <= MaxDepth /\ frames \in Seq(Frame)
  BY <1>1 DEF Sound, OuterFits, PoolFits, GuardFits, FramesFit
<1>3. ASSUME NEW d \in 1 .. depth
      PROVE  /\ frames[d].pc \in 1 .. Len(Body(frames[d].fn, Len(frames[d].args))) + 1
             /\ frames[d].flag \in BOOLEAN
             /\ Range(frames[d].args) \subseteq Cells
             /\ frames[d].to \in Cells
  <2>1. frames[d] \in Frame /\ d \in 1 .. Len(frames)
    BY <1>2 DEF depth
  <2>2. frames[d].pc \in 1 .. Len(Steps(Key(frames[d]))) + 1
    BY <1>2, <2>1, FrameTyped
  <2>3. frames[d].args \in Seq(Cells) /\ frames[d].flag \in BOOLEAN /\ frames[d].to \in Cells
    BY <2>1 DEF Frame
  <2> QED
    BY <2>2, <2>3 DEF Steps, Key, Range
<1>4. top \in 0 .. MaxDepth /\ depth <= MaxDepth
  BY <1>2 DEF depth, MaxDepth
<1> QED
  BY <1>2, <1>3, <1>4 DEF ProtocolInv, TypeOK

\* A frame may always take its step.
LEMMA StepMayBeTaken ==
  ASSUME NEW D, WellTyped(D), ProtocolInv(D), NEW op, AtStep(op)
  PROVE  \E b \in 0 .. 1 : \E fs2, p, q : /\ Sound(D, mem, frames, top, pool, b)
                                          /\ Takes(D, frames, fs2, Step, p, q)
<1>1. Here(op)
  BY StepIsHere
<1>2. \E fs2 : Stepped(frames, fs2)
  BY <1>1, Advanced DEF Here
<1>3. PICK fs2 : Stepped(frames, fs2)
  BY <1>2
<1> QED
  BY <1>1, <1>3, StepIsTaken

LEMMA ChecksAreKept ==
  ASSUME NEW D, WellTyped(D), ProtocolInv(D)
  PROVE  ChecksPass
<1>1. TypeOK
  BY TypesAreKept
<1>2. ASSUME AtStep("pre")
      PROVE  top <= depth
  <2>1. PICK b \in 0 .. 1 : Sound(D, mem, frames, top, pool, b)
    BY DEF ProtocolInv
  <2>2. top \in 0 .. Len(frames)
    BY <2>1 DEF Sound, GuardFits
  <2> QED
    BY <2>2 DEF depth
<1>3. ASSUME AtStep("post")
      PROVE  top \in 1 .. depth
  <2>1. PICK b \in 0 .. 1 : \E fs2, p, q : /\ Sound(D, mem, frames, top, pool, b)
                                           /\ Takes(D, frames, fs2, Step, p, q)
    BY <1>3, StepMayBeTaken
  <2>2. Step.op = "post"
    BY <1>3 DEF AtStep, Step
  <2> QED
    BY <2>1, <2>2, SoundPost DEF depth
<1>4. ASSUME AtStep("alloc")
      PROVE  top \in 1 .. depth
  <2>0. PICK b \in 0 .. 1 : \E fs2, p, q : /\ Sound(D, mem, frames, top, pool, b)
                                           /\ Takes(D, frames, fs2, Step, p, q)
    BY <1>4, StepMayBeTaken
  <2>1. PICK fs2, p, q : /\ Sound(D, mem, frames, top, pool, b)
                         /\ Takes(D, frames, fs2, Step, p, q)
    BY <2>0
  <2>2. Step.op = "alloc"
    BY <1>4 DEF AtStep, Step
  <2>3. Moves(D, frames, fs2, p, q) /\ AllocStepFits(D, Key(frames[Len(frames)]), p, q)
    BY <2>1, <2>2 DEF Takes, StepFits
  <2>4. PICK e \in 1 .. 3 : e = Len(frames)
    BY <2>3 DEF Moves
  <2>5. At(D, frames, e).inside /\ e \in 1 .. Len(frames)
    BY <2>3, <2>4 DEF Moves, AllocStepFits
  <2>6. GuardFits(D, frames, top)
    BY <2>1 DEF Sound
  <2>7. top \in 0 .. Len(frames) /\ top # 0
    BY <2>5, <2>6 DEF GuardFits
  <2> QED
    BY <2>4, <2>7 DEF depth
<1>5. ASSUME AtStep("pop")
      PROVE  pool # <<>> /\ Last(pool) = The(Step.cell)
  <2>1. PICK b \in 0 .. 1 : \E fs2, p, q : /\ Sound(D, mem, frames, top, pool, b)
                                           /\ Takes(D, frames, fs2, Step, p, q)
    BY <1>5, StepMayBeTaken
  <2>2. Step.op = "pop" /\ Here("pop")
    BY <1>5, StepIsHere DEF AtStep, Step
  <2>3. pool # <<>> /\ Last(pool) = Place(frames, Len(frames), Step.cell)
    BY <2>1, <2>2, SoundPop
  <2> QED
    BY <2>2, <2>3 DEF Here
<1> QED
  BY <1>1, <1>2, <1>3, <1>4, <1>5 DEF ChecksPass

LEMMA CallsBalance ==
  ASSUME NEW D, WellTyped(D), ProtocolInv(D)
  PROVE  CallsAreBalanced
<1> SUFFICES ASSUME frames = <<>>
             PROVE  /\ top = 0
                    /\ pool \in {<<>>, <<GlobalSysargs>>}
                    /\ \A c \in Cells : c[1] \notin 1 .. MaxDepth => mem[c] # "old"
  BY DEF CallsAreBalanced
<1>1. PICK b \in 0 .. 1 : Sound(D, mem, <<>>, top, pool, b)
  BY DEF ProtocolInv
<1>2. top = 0
  BY <1>1 DEF Sound, GuardFits
<1>3. pool \in {<<>>, <<GlobalSysargs>>}
  <2>1. pool \in Seq(Cells) /\ Len(pool) = b /\ (b = 1 => pool[1] = GlobalSysargs)
    BY <1>1 DEF Sound, PoolFits, Offset
  <2>2. CASE b = 0
    BY <2>1, <2>2
  <2>3. CASE b = 1
    BY <2>1, <2>3
  <2> QED
    BY <2>2, <2>3
<1>4. ASSUME NEW c \in Cells, c[1] \notin 1 .. MaxDepth
      PROVE  mem[c] # "old"
  <2>1. c[1] <= 0 \/ c = GlobalSysargs
    BY <1>4 DEF Cells, MaxDepth
  <2> QED
    BY <1>1, <2>1 DEF Sound, OuterFits, GlobalFits
<1> QED
  BY <1>2, <1>3, <1>4

\* The words a step of the running function reads.
LEMMA UsesAreKept ==
  ASSUME NEW D, WellTyped(D), ProtocolInv(D), Trusted(D, frames, Len(frames))
  PROVE  UsesAreCurrent
<1>1. ASSUME NEW op, AtStep(op), NEW c,
             NEW b, NEW fs2, NEW p, NEW q,
             Sound(D, mem, frames, top, pool, b), Takes(D, frames, fs2, Step, p, q), c \in p.live
      PROVE  mem[The(c)] # "old"
  <2>1. Moves(D, frames, fs2, p, q) /\ LiveFits(D, frames, mem)
    BY <1>1 DEF Takes, Sound
  <2>2. PICK e \in 1 .. 3 : e = Len(frames)
    BY <2>1 DEF Moves
  <2>3. At(D, frames, e) = p /\ e \in 1 .. Len(frames) /\ ~Awaited(frames, e, c)
    BY <2>1, <2>2 DEF Moves, Awaited
  <2>4. mem[Place(frames, e, c)] # "old"
    BY <1>1, <2>1, <2>2, <2>3 DEF LiveFits, Trusted
  <2>5. The(c) = Place(frames, Len(frames), c)
    BY <1>1, StepIsHere DEF Here
  <2> QED
    BY <2>2, <2>4, <2>5
<1>2. ASSUME AtStep("use"), NEW c \in Step.cells
      PROVE  mem[The(c)] # "old"
  <2>0. PICK b \in 0 .. 1 : \E fs2, p, q : /\ Sound(D, mem, frames, top, pool, b)
                                           /\ Takes(D, frames, fs2, Step, p, q)
    BY <1>2, StepMayBeTaken
  <2>1. PICK fs2, p, q : /\ Sound(D, mem, frames, top, pool, b)
                         /\ Takes(D, frames, fs2, Step, p, q)
    BY <2>0
  <2>2. Step.op = "use"
    BY <1>2 DEF AtStep, Step
  <2>3. c \in p.live
    BY <2>1, <2>2 DEF Takes, StepFits, UseFits
  <2> QED
    BY <1>1, <1>2, <2>1, <2>3
<1>3. ASSUME AtStep("copy")
      PROVE  mem[The(Step.from)] # "old"
  <2>0. PICK b \in 0 .. 1 : \E fs2, p, q : /\ Sound(D, mem, frames, top, pool, b)
                                           /\ Takes(D, frames, fs2, Step, p, q)
    BY <1>3, StepMayBeTaken
  <2>1. PICK fs2, p, q : /\ Sound(D, mem, frames, top, pool, b)
                         /\ Takes(D, frames, fs2, Step, p, q)
    BY <2>0
  <2>2. Step.op = "copy"
    BY <1>3 DEF AtStep, Step
  <2>3. Step.from \in p.live
    BY <2>1, <2>2 DEF Takes, StepFits, CopyFits
  <2> QED
    BY <1>1, <1>3, <2>1, <2>3
<1> QED
  BY <1>2, <1>3 DEF UsesAreCurrent

LEMMA DepthOf ==
  ASSUME NEW D, NEW fs, FramesFit(D, fs)
  PROVE  \E n \in 0 .. 3 : n = Len(fs)
<1>1. fs \in Seq(Frame) /\ Len(fs) <= 3
  BY DEF FramesFit, MaxDepth
<1>2. PICK n \in Nat : n = Len(fs)
  BY <1>1
<1> QED
  BY <1>1, <1>2

\* A word in the pool is global_sysargs or held by a frame.
LEMMA PoolWords ==
  ASSUME NEW D, WellTyped(D), NEW fs, FramesFit(D, fs), NEW pl, NEW b, PoolFits(D, fs, pl, b),
         NEW w \in Range(pl)
  PROVE  \/ w = GlobalSysargs
         \/ \E d \in 1 .. Len(fs) : \E c \in Range(At(D, fs, d).held) : w = Place(fs, d, c)
<1>1. b \in 0 .. 1 /\ pl \in Seq(Cells) /\ Len(pl) = Offset(D, fs, b, Len(fs) + 1)
      /\ (b = 1 => pl[1] = GlobalSysargs)
  BY DEF PoolFits
<1>2. Stacked(D, fs, b)
  BY <1>1, PoolIsStacked
<1>3. PICK j \in 1 .. Len(pl) : w = pl[j]
  BY <1>1 DEF Range
<1>4. CASE j <= b
  BY <1>1, <1>3, <1>4
<1>5. CASE b < j
  <2>1. PICK n \in 0 .. 3 : n = Len(fs)
    BY DepthOf
  <2>2. Offset(D, fs, b, 1) = b /\ j <= Offset(D, fs, b, n + 1) /\ n # 0
    BY <1>1, <1>2, <1>3, <1>5, <2>1 DEF Stacked
  <2>3. \A d \in 1 .. n : /\ Offset(D, fs, b, d) \in Nat /\ Offset(D, fs, b, d + 1) \in Nat
                          /\ Offset(D, fs, b, d + 1) = Offset(D, fs, b, d) + Len(At(D, fs, d).held)
    BY <1>2, <2>1 DEF Stacked
  <2>4. PICK d \in 1 .. n : Offset(D, fs, b, d) < j /\ j <= Offset(D, fs, b, d + 1)
    <3> DEFINE O(i) == Offset(D, fs, b, i)
    <3>1. O(1) < j /\ j <= O(n + 1) /\ \A d \in 1 .. n : O(d) \in Nat /\ O(d + 1) \in Nat
      BY <1>5, <2>2, <2>3
    <3>2. \E d \in 1 .. n : O(d) < j /\ j <= O(d + 1)
      <4> HIDE DEF O
      <4>1. n = 1 \/ n = 2 \/ n = 3
        BY <2>1, <2>2
      <4>2. CASE n = 1
        BY <3>1, <4>2
      <4>3. CASE n = 2
        <5>1. O(1) < j /\ j <= O(3) /\ 1 \in 1 .. n /\ 2 \in 1 .. n
          BY <3>1, <4>3
        <5> QED
          BY <3>1, <5>1
      <4>4. CASE n = 3
        <5>1. O(1) < j /\ j <= O(4) /\ O(2) \in Nat /\ O(3) \in Nat
              /\ 1 \in 1 .. n /\ 2 \in 1 .. n /\ 3 \in 1 .. n
          BY <3>1, <4>4
        <5> QED
          BY <3>1, <5>1
      <4> QED
        BY <4>1, <4>2, <4>3, <4>4
    <3> QED
      BY <3>2
  <2> DEFINE h == At(D, fs, d).held
             z == Offset(D, fs, b, d)
  <2>5. z \in Nat /\ z < j /\ j <= z + Len(h) /\ d \in 1 .. Len(fs)
    BY <2>1, <2>3, <2>4
  <2>6. h \in Seq(Operands(Len(fs[d].args))) /\ Len(h) \in Nat
    BY <2>5, HeldTyped
  <2>7. \A i \in 1 .. Len(h) : pl[z + i] = Place(fs, d, h[i])
    BY <2>5 DEF PoolFits
  <2>8. \E i \in 1 .. Len(h) : w = Place(fs, d, h[i])
    <3> HIDE DEF h, z
    <3>1. PICK i \in 1 .. Len(h) : j = z + i
      <4>1. j - z \in 1 .. Len(h) /\ j = z + (j - z)
        BY <2>5, <2>6
      <4> QED
        BY <4>1
    <3> QED
      BY <1>3, <2>7, <3>1
  <2> QED
    BY <2>5, <2>6, <2>8 DEF Range
<1> QED
  BY <1>1, <1>3, <1>4, <1>5

\* Where no function passes on stale words, a word in the pool is none.
LEMMA PoolIsCurrent ==
  ASSUME NEW D, WellTyped(D), NEW fs, FramesFit(D, fs), NEW pl, NEW b, PoolFits(D, fs, pl, b),
         NEW m, LiveFits(D, fs, m), GlobalFits(D, fs, m, b),
         \A d \in 1 .. Len(fs) : Trusted(D, fs, d), NEW w \in Range(pl)
  PROVE  m[w] # "old"
<1>1. CASE w = GlobalSysargs
  BY <1>1 DEF GlobalFits
<1>2. ASSUME NEW d \in 1 .. Len(fs), NEW c \in Range(At(D, fs, d).held), w = Place(fs, d, c)
      PROVE  m[w] # "old"
  <2>1. c \in At(D, fs, d).live
    BY <1>2, PointsFit DEF PointFits
  <2>2. ~Awaited(fs, d, c)
    <3>1. CASE d < Len(fs)
      BY <3>1, CallersWait DEF Waiting
    <3>2. CASE ~(d < Len(fs))
      BY <3>2 DEF Awaited
    <3> QED
      BY <3>1, <3>2
  <2> QED
    BY <1>2, <2>1, <2>2 DEF LiveFits, Trusted
<1> QED
  BY <1>1, <1>2, PoolWords

\* A frame below the end of the scanned stack is that of an unguarded function.
LEMMA BelowIsUnguarded ==
  ASSUME NEW D, WellTyped(D), NEW fs, FramesFit(D, fs), NEW t, GuardFits(D, fs, t),
         NEW d \in 1 .. 3, d < t
  PROVE  d = 1 /\ fs[1].fn \in Unguarded
<1>1. PICK n \in 0 .. 3 : n = Len(fs)
  BY DepthOf
<1>2. t \in 0 .. n
  BY <1>1 DEF GuardFits
<1>3. d \in 1 .. Len(fs) /\ d < Len(fs)
  BY <1>1, <1>2
<1>4. ~At(D, fs, d).inside
  BY <1>3 DEF GuardFits
<1>5. fs[d].fn \in Unguarded
  BY <1>3, <1>4, CallersWait DEF Waiting
<1>6. FrameFits(D, fs, d) /\ Shaped(D, Key(fs[d]))
  BY <1>3, PointsFit DEF FramesFit
<1>7. D[Key(fs[d])].rank = 3 /\ D[Key(fs[d])].rank + d <= 4
  BY <1>5, <1>6 DEF Shaped, FrameFits, Key, MaxDepth
<1>8. d = 1
  BY <1>7
<1> QED
  BY <1>5, <1>8

LEMMA RootsAreKept ==
  ASSUME NEW D, WellTyped(D), ProtocolInv(D), \A d \in 1 .. Len(frames) : Trusted(D, frames, d)
  PROVE  RootsAreCurrent
<1> SUFFICES ASSUME NEW c \in Scanned, mem[c] = "old"
             PROVE  c[1] = 1 /\ frames[1].fn \in Unguarded
  BY DEF RootsAreCurrent
<1>1. PICK b \in 0 .. 1 : Sound(D, mem, frames, top, pool, b)
  BY DEF ProtocolInv
<1>2. c \notin Range(pool)
  BY <1>1, PoolIsCurrent DEF Sound
<1>3. c \in Cells /\ c[1] < top
  BY <1>2 DEF Scanned
<1>4. c[1] > 0
  <2>1. c[1] \in Int
    <3>1. c \in (-1 .. 3) \X Words \/ c = <<4, 0>>
      BY <1>3 DEF Cells, GlobalSysargs, MaxDepth
    <3> QED
      BY <3>1
  <2>2. ~(c[1] <= 0)
    BY <1>1, <1>3 DEF Sound, OuterFits
  <2> QED
    BY <2>1, <2>2
<1>5. top \in 0 .. 3
  BY <1>1 DEF Sound, GuardFits, FramesFit, MaxDepth
<1>6. c[1] \in 1 .. 3
  BY <1>3, <1>4, <1>5 DEF Cells, GlobalSysargs, MaxDepth
<1> QED
  BY <1>1, <1>3, <1>6, BelowIsUnguarded DEF Sound
-----------------------------------------------------------------------------
(* How the points of a function are checked. *)

\* The words that the functions name.
Names ==
  /\ Arg(1) \in ArgSet(1, 1) /\ Arg(1) \in ArgSet(1, 2) /\ Arg(2) \in ArgSet(1, 2)
  /\ {Result, Local(1), Local(2), Local(3)} \subseteq Locals
  /\ {Arg(1), Arg(2), Result, Local(1), Local(2), Local(3)} \intersect {Sysargs} = {}
  /\ Arg(1) # Arg(2)
  /\ {Arg(1), Arg(2)} \intersect {Result, Local(1), Local(2), Local(3)} = {}
  /\ Result # Local(1) /\ Result # Local(2) /\ Result # Local(3)
  /\ Local(1) # Local(2) /\ Local(1) # Local(3) /\ Local(2) # Local(3)

LEMMA NamesOf == Names
<1>1. {0, 1, 2, 3} \subseteq Words
  BY ConstantsAssumption DEF Words
<1>2. 1 \in 1 .. 1 /\ 1 \in 1 .. 2 /\ 2 \in 1 .. 2
  OBVIOUS
<1> QED
  BY <1>1, <1>2 DEF Names, Result, Arg, Local, ArgSet, Locals, Sysargs

LEMMA Apart ==
  /\ Arg(1) # Sysargs /\ Arg(2) # Sysargs /\ Result # Sysargs
  /\ Local(1) # Sysargs /\ Local(2) # Sysargs /\ Local(3) # Sysargs
BY DEF Result, Arg, Local, Sysargs

Lists(a, b) ==
  /\ Append(<<>>, a) = <<a>> /\ Append(<<a>>, b) = <<a, b>>
  /\ Range(<<>>) = {} /\ Range(<<a>>) = {a} /\ Range(<<a, b>>) = {a, b}

LEMMA ListsOf ==
  ASSUME NEW a, NEW b
  PROVE  Lists(a, b)
<1>1. Append(<<a>>, b) = <<a, b>>
  <2>1. <<a>> \in Seq({a, b}) /\ <<a, b>> \in Seq({a, b})
    OBVIOUS
  <2>2. /\ Append(<<a>>, b) \in Seq({a, b}) /\ Len(Append(<<a>>, b)) = 2
        /\ Append(<<a>>, b)[1] = a /\ Append(<<a>>, b)[2] = b
    BY <2>1, AppendProperties
  <2>3. \A i \in 1 .. 2 : Append(<<a>>, b)[i] = <<a, b>>[i]
    BY <2>2
  <2> QED
    BY <2>1, <2>2, <2>3, SeqEqual
<1>2. Range(<<>>) = {} /\ Range(<<a>>) = {a} /\ Range(<<a, b>>) = {a, b}
  BY DEF Range
<1>3. Append(<<>>, a) = <<a>>
  OBVIOUS
<1> QED
  BY <1>1, <1>2, <1>3 DEF Lists

\* A point that does not name the word of sysargs.
PointGood(k, h, i, l, f) ==
  /\ l \subseteq ArgSet(1, k[2]) \union Locals \union Olders /\ f \subseteq l
  /\ h \in Seq(l) /\ i \in BOOLEAN /\ (k[1] \in Unguarded => ~i)

PointOk(k, x) == \E h, i, l, f : x = Pt(h, i, l, f) /\ PointGood(k, h, i, l, f)

PointIn(k, x) == x \in Points(k[2]) /\ PointFits(k, x)

LEMMA PointRule ==
  ASSUME NEW k, NEW x, PointOk(k, x)
  PROVE  PointIn(k, x)
<1>1. PICK h, i, l, f : x = Pt(h, i, l, f) /\ PointGood(k, h, i, l, f)
  BY DEF PointOk
<1>2. l \subseteq Operands(k[2]) /\ f \subseteq Operands(k[2])
  BY <1>1 DEF Operands, PointGood
<1>3. h \in Seq(Operands(k[2])) /\ Range(h) \subseteq l
  BY <1>1, <1>2 DEF Range, PointGood
<1>4. Sysargs \notin l
  BY <1>1 DEF ArgSet, Locals, Olders, Arg, Local, Older, Sysargs, PointGood
<1>5. Pt(h, i, l, f) \in Points(k[2])
  BY <1>1, <1>2, <1>3 DEF PointGood, Points, Pt
<1>6. PointFits(k, Pt(h, i, l, f))
  BY <1>1, <1>3, <1>4 DEF PointGood, PointFits, Pt
<1> QED
  BY <1>1, <1>5, <1>6 DEF PointIn

\* What stays live where words go stale.
Lasting(D, k, h, l) ==
  l \intersect (Range(h) \union {c \in ArgSet(1, k[2]) : D[k].scanned}
                         \union {c \in l : k[1] \in Unguarded})

LEMMA LastingVisited ==
  ASSUME NEW D, NEW k, NEW h, NEW i, NEW l, NEW f
  PROVE  Lasting(D, k, h, l) \subseteq Visited(D, k, Pt(h, i, l, f))
BY DEF Lasting, Visited, Pt

LEMMA AllocRule ==
  ASSUME NEW D, NEW k, NEW h, NEW l, NEW f, Sysargs \notin l,
         NEW l2, l2 \subseteq Lasting(D, k, h, l) \union {Result},
         NEW f2, f2 \subseteq (f \intersect Range(h)) \union {Result}
  PROVE  StepFits(D, k, Alloc, Pt(h, TRUE, l, f), Pt(h, TRUE, l2, f2))
<1> DEFINE p == Pt(h, TRUE, l, f)
           q == Pt(h, TRUE, l2, f2)
<1>1. /\ p.held = h /\ p.inside /\ p.live = l /\ p.fresh = f
      /\ q.held = h /\ q.inside /\ q.live = l2 /\ q.fresh = f2
  BY DEF Pt
<1>2. Lasting(D, k, h, l) \subseteq Visited(D, k, p)
  BY LastingVisited
<1> HIDE DEF p, q
<1>3. AllocStepFits(D, k, p, q)
  BY <1>1, <1>2 DEF AllocStepFits
<1>4. StepFits(D, k, Alloc, p, q)
  BY <1>1, <1>3 DEF StepFits, Alloc, KeepsSysargs
<1> QED
  BY <1>4 DEF p, q

MayCall(D, k, h, i, l, g, as, to) ==
  /\ i \/ k[1] \in Unguarded
  /\ Sysargs \notin l
  /\ as \in Seq(l \intersect (ArgSet(1, k[2]) \union Locals))
  /\ to \in Locals \ Range(h)
  /\ <<g, Len(as)>> \in DOMAIN D
  /\ D[<<g, Len(as)>>].rank < D[k].rank
  /\ D[<<g, Len(as)>>].scanned => D[k].lax /\ D[k].rank = MaxDepth

LEMMA CallRule ==
  ASSUME NEW D, NEW k, NEW h, NEW i, NEW l, NEW f,
         NEW g, NEW as, NEW to, MayCall(D, k, h, i, l, g, as, to),
         NEW l2, l2 \subseteq Lasting(D, k, h, l) \union {to},
         NEW f2, f2 \subseteq (f \intersect Range(h)) \union {to}
  PROVE  StepFits(D, k, Call(g, as, to), Pt(h, i, l, f), Pt(h, i, l2, f2))
<1> DEFINE p == Pt(h, i, l, f)
           q == Pt(h, i, l2, f2)
           s == Call(g, as, to)
<1>1. /\ p.held = h /\ p.inside = i /\ p.live = l /\ p.fresh = f
      /\ q.held = h /\ q.inside = i /\ q.live = l2 /\ q.fresh = f2
      /\ s.op = "call" /\ s.fn = g /\ s.args = as /\ s.to = to
  BY DEF Pt, Call
<1>2. Lasting(D, k, h, l) \subseteq Visited(D, k, p)
  BY LastingVisited
<1> HIDE DEF p, q, s
<1>3. CallFits(D, k, s, p, q)
  BY <1>1, <1>2 DEF CallFits, MayCall
<1>4. StepFits(D, k, s, p, q)
  BY <1>1, <1>3 DEF StepFits, KeepsSysargs, MayCall
<1> QED
  BY <1>4 DEF p, q, s

\* The parts that make a body typed.
Sized(body, points, z) ==
  /\ z \in Nat /\ Len(body) = z
  /\ Len(points) = z + 1 /\ points = [pc \in 1 .. z + 1 |-> points[pc]]

LEMMA TypedRule ==
  ASSUME NEW D, NEW k, NEW body, NEW points, NEW z, Sized(body, points, z),
         \A pc \in 1 .. z + 1 : PointIn(k, points[pc]),
         EntryFits(points[1], k[2]), ExitFits(k, points[z + 1]),
         \A pc \in 1 .. z : StepFits(D, k, body[pc], points[pc], points[pc + 1])
  PROVE  Typed(D, k, body, points)
<1>1. points \in Seq(Points(k[2]))
  <2>1. \A pc \in 1 .. z + 1 : points[pc] \in Points(k[2])
    BY DEF PointIn
  <2>2. points = [pc \in 1 .. z + 1 |-> points[pc]] /\ z + 1 \in Nat
    BY DEF Sized
  <2> QED
    BY <2>1, <2>2
<1>2. /\ Len(body) \in Nat /\ Len(points) = Len(body) + 1
      /\ Len(body) = z /\ Len(points) = z + 1
  BY DEF Sized
<1>3. \A pc \in 1 .. z + 1 : PointFits(k, points[pc])
  BY DEF PointIn
<1> QED
  BY <1>1, <1>2, <1>3 DEF Typed

-----------------------------------------------------------------------------
(* Sequences joined of parts. *)

LEMMA Listed ==
  ASSUME NEW S, NEW n \in Nat, NEW f, f = [i \in 1 .. n |-> f[i]], \A i \in 1 .. n : f[i] \in S
  PROVE  f \in Seq(S) /\ Len(f) = n
<1>1. f \in [1 .. n -> S]
  OBVIOUS
<1> QED
  BY <1>1

Joined(s, t, a, b) ==
  /\ Len(s \o t) = a + b
  /\ \A i \in 1 .. a : (s \o t)[i] = s[i]
  /\ \A j \in 1 .. b : (s \o t)[a + j] = t[j]

LEMMA Joins ==
  ASSUME NEW S, NEW s \in Seq(S), NEW t \in Seq(S), NEW a \in Nat, NEW b \in Nat,
         Len(s) = a, Len(t) = b
  PROVE  s \o t \in Seq(S) /\ Joined(s, t, a, b)
<1>1. /\ s \o t \in Seq(S) /\ Len(s \o t) = a + b
      /\ \A i \in 1 .. a + b : (s \o t)[i] = IF i <= a THEN s[i] ELSE t[i - a]
  BY ConcatProperties
<1>2. \A i \in 1 .. a : i \in 1 .. a + b /\ i <= a
  OBVIOUS
<1>3. \A j \in 1 .. b : a + j \in 1 .. a + b /\ ~(a + j <= a) /\ a + j - a = j
  OBVIOUS
<1> QED
  BY <1>1, <1>2, <1>3 DEF Joined
=============================================================================
