------------------------- MODULE RuntimeAllocProofs -------------------------
(***************************************************************************)
(* The functions of the 64-bit runtime keep the protocol, for argument     *)
(* lists, pools and sets of functions of any size.  A table for each       *)
(* function says what holds before each of its steps (see                  *)
(* RuntimeProtocolProofs); each function is shown to follow its table,     *)
(* and the pool to have room for all but long literals.                    *)
(***************************************************************************)
EXTENDS RuntimeAlloc, RuntimeProtocolProofs

-----------------------------------------------------------------------------
(* The discipline.  Pt(held, inside, live, fresh): what the function has in *)
(* the pool, whether it is between PRE_GC and POST_GC, which of its words   *)
(* are not stale, which are pointers to objects.                            *)

PLmakeString == << Pt(<<>>, FALSE, {}, {}), Pt(<<>>, TRUE, {}, {}),
                   Pt(<<>>, TRUE, {Result}, {Result}), Pt(<<>>, FALSE, {Result}, {Result}) >>

PLmakeArray == << Pt(<<>>, FALSE, {}, {}), Pt(<<>>, TRUE, {}, {}),
                  Pt(<<>>, TRUE, {Result}, {Result}), Pt(<<>>, TRUE, {Result}, {Result}),
                  Pt(<<>>, FALSE, {Result}, {Result}) >>

PBstring == << Pt(<<>>, FALSE, {Arg(1)}, {}), Pt(<<>>, FALSE, {Arg(1)}, {}),
               Pt(<<>>, TRUE, {Arg(1)}, {}), Pt(<<Arg(1)>>, TRUE, {Arg(1)}, {}),
               Pt(<<Arg(1)>>, TRUE, {Arg(1), Result}, {Result}),
               Pt(<<>>, TRUE, {Arg(1), Result}, {Result}), Pt(<<>>, TRUE, {Result}, {Result}),
               Pt(<<>>, FALSE, {Result}, {Result}) >>

PLsubstring == << Pt(<<>>, FALSE, {Arg(1)}, {}), Pt(<<>>, FALSE, {Arg(1)}, {}),
                  Pt(<<>>, TRUE, {Arg(1)}, {}), Pt(<<Arg(1)>>, TRUE, {Arg(1)}, {}),
                  Pt(<<Arg(1)>>, TRUE, {Arg(1), Result}, {Result}),
                  Pt(<<>>, TRUE, {Arg(1), Result}, {Result}),
                  Pt(<<>>, TRUE, {Result}, {Result}), Pt(<<>>, FALSE, {Result}, {Result}) >>

PLcloneString == << Pt(<<>>, FALSE, {Arg(1)}, {}), Pt(<<>>, TRUE, {Arg(1)}, {}),
                    Pt(<<>>, TRUE, {Arg(1)}, {}), Pt(<<Arg(1)>>, TRUE, {Arg(1)}, {}),
                    Pt(<<Arg(1)>>, TRUE, {Arg(1), Local(1)}, {}),
                    Pt(<<Arg(1)>>, TRUE, {Arg(1), Result}, {Result}),
                    Pt(<<>>, TRUE, {Result}, {Result}), Pt(<<>>, FALSE, {Result}, {Result}) >>

PLcloneBlock == << Pt(<<>>, FALSE, {Arg(1)}, {}), Pt(<<>>, TRUE, {Arg(1)}, {}),
                   Pt(<<>>, TRUE, {Arg(1)}, {}), Pt(<<Arg(1)>>, TRUE, {Arg(1)}, {}),
                   Pt(<<Arg(1)>>, TRUE, {Arg(1), Result}, {Result}),
                   Pt(<<Arg(1)>>, TRUE, {Arg(1), Result}, {Result}),
                   Pt(<<>>, TRUE, {Result}, {Result}), Pt(<<>>, FALSE, {Result}, {Result}) >>

PLstring == << Pt(<<>>, FALSE, {Arg(1)}, {}), Pt(<<>>, TRUE, {Arg(1)}, {}),
               Pt(<<>>, TRUE, {Arg(1)}, {}), Pt(<<Arg(1)>>, TRUE, {Arg(1)}, {}),
               Pt(<<Arg(1)>>, TRUE, {Arg(1), Local(1)}, {}),
               Pt(<<Arg(1)>>, TRUE, {Arg(1), Result}, {Result}),
               Pt(<<>>, TRUE, {Result}, {Result}), Pt(<<>>, FALSE, {Result}, {Result}) >>

PLs__Infix_58 == << Pt(<<>>, FALSE, {Arg(1), Arg(2)}, {}),
                    Pt(<<>>, TRUE, {Arg(1), Arg(2)}, {}),
                    Pt(<<>>, TRUE, {Arg(2), Local(1)}, {}),
                    Pt(<<>>, TRUE, {Local(1), Local(2)}, {}),
                    Pt(<<>>, TRUE, {Local(1), Local(2), Local(3)}, {}),
                    Pt(<<>>, TRUE, {Result}, {Result}), Pt(<<>>, FALSE, {Result}, {Result}) >>

PLi__Infix_4343 == << Pt(<<>>, FALSE, {Arg(1), Arg(2)}, {}),
                      Pt(<<>>, FALSE, {Arg(1), Arg(2)}, {}),
                      Pt(<<>>, TRUE, {Arg(1), Arg(2)}, {}),
                      Pt(<<Arg(1)>>, TRUE, {Arg(1), Arg(2)}, {}),
                      Pt(<<Arg(1), Arg(2)>>, TRUE, {Arg(1), Arg(2)}, {}),
                      Pt(<<Arg(1), Arg(2)>>, TRUE, {Arg(1), Arg(2), Result}, {Result}),
                      Pt(<<Arg(1)>>, TRUE, {Arg(1), Arg(2), Result}, {Result}),
                      Pt(<<>>, TRUE, {Arg(1), Arg(2), Result}, {Result}),
                      Pt(<<>>, TRUE, {Result}, {Result}), Pt(<<>>, FALSE, {Result}, {Result}) >>

PLgetEnv == << Pt(<<>>, FALSE, {}, {}), Pt(<<>>, FALSE, {Local(1)}, {}),
               Pt(<<>>, TRUE, {Local(1)}, {}), Pt(<<>>, TRUE, {Result}, {Result}),
               Pt(<<>>, FALSE, {Result}, {Result}) >>

PBsprintf == << Pt(<<>>, FALSE, {Arg(1)}, {}), Pt(<<>>, FALSE, {Local(1)}, {}),
                Pt(<<>>, FALSE, {Local(1)}, {}), Pt(<<>>, TRUE, {Local(1)}, {}),
                Pt(<<Local(1)>>, TRUE, {Local(1)}, {}),
                Pt(<<Local(1)>>, TRUE, {Local(1), Local(2)}, {}),
                Pt(<<Local(1)>>, TRUE, {Local(1), Result}, {Result}),
                Pt(<<>>, TRUE, {Result}, {Result}), Pt(<<>>, FALSE, {Result}, {Result}) >>

PLreadLine == << Pt(<<>>, FALSE, {}, {}), Pt(<<>>, FALSE, {Local(1)}, {}),
                 Pt(<<>>, FALSE, {Result}, {Result}) >>

PLfread == << Pt(<<>>, FALSE, {Arg(1)}, {}), Pt(<<>>, FALSE, {Local(1)}, {}),
              Pt(<<>>, FALSE, {Local(1)}, {}), Pt(<<>>, FALSE, {Local(1), Result}, {Result}),
              Pt(<<>>, FALSE, {Result}, {Result}) >>

\* The arguments from first on, z of them, are pushed, used and popped: r of
\* them are in the pool.
Held(first, r) == [i \in 1 .. r |-> Arg(first + i - 1)]

Pushing(n, first, r) == Pt(Held(first, r), TRUE, ArgSet(1, n), {})

Popping(first, z, r) ==
  Pt(Held(first, r), TRUE, ArgSet(first, first + z - 1) \union {Result}, {Result})

Literal(n, first, z) ==
  [pc \in 1 .. 2 * z + 5 |->
     IF pc = 1 THEN Pt(<<>>, FALSE, ArgSet(1, n), {})
     ELSE IF pc <= z + 2 THEN Pushing(n, first, pc - 2)
     ELSE IF pc = z + 3 THEN Popping(first, z, z)
     ELSE IF pc <= 2 * z + 4 THEN Popping(first, z, 2 * z + 4 - pc)
     ELSE Pt(<<>>, FALSE, {Result}, {Result})]

PBclosure(n) == Literal(n, 2, n - 1)
PBarray(n)   == Literal(n, 1, n)
PBsexp(n)    == Literal(n, 1, n - 1)

\* In the loop over argv the array is registered; a string was made or not.
Looping(n, made) == Pt(<<Local(1)>>, TRUE, ArgSet(1, n) \union {Local(1)} \union made, {Local(1)})

PSetArgs(n) ==
  [pc \in 1 .. 2 * n + 8 |->
     IF pc = 1 THEN Pt(<<>>, FALSE, ArgSet(1, n), {})
     ELSE IF pc = 2 THEN Pt(<<>>, TRUE, ArgSet(1, n), {})
     ELSE IF pc = 3 THEN Pt(<<>>, TRUE, ArgSet(1, n) \union {Local(1)}, {Local(1)})
     ELSE IF pc <= 2 * n + 4 THEN Looping(n, IF pc % 2 = 1 THEN {Result} ELSE {})
     ELSE IF pc = 2 * n + 5 THEN Pt(<<>>, TRUE, {Local(1)}, {Local(1)})
     ELSE IF pc = 2 * n + 6 THEN Pt(<<>>, FALSE, {Local(1)}, {Local(1)})
     ELSE IF pc = 2 * n + 7 THEN Pt(<<>>, FALSE, {Sysargs}, {Sysargs})
     ELSE Pt(<<Sysargs>>, FALSE, {Sysargs}, {Sysargs})]

PointsOf(f, n) ==
  CASE f = "LmakeString"  -> PLmakeString
    [] f = "LmakeArray"   -> PLmakeArray
    [] f = "Bstring"      -> PBstring
    [] f = "Lsubstring"   -> PLsubstring
    [] f = "LcloneString" -> PLcloneString
    [] f = "LcloneBlock"  -> PLcloneBlock
    [] f = "Lstring"      -> PLstring
    [] f = "Bclosure"     -> PBclosure(n)
    [] f = "Barray"       -> PBarray(n)
    [] f = "Bsexp"        -> PBsexp(n)
    [] f = "Ls__Infix_58"   -> PLs__Infix_58
    [] f = "Li__Infix_4343" -> PLi__Infix_4343
    [] f = "LgetEnv"      -> PLgetEnv
    [] f = "Bsprintf"     -> PBsprintf
    [] f = "LreadLine"    -> PLreadLine
    [] f = "Lfread"       -> PLfread
    [] f = "set_args"     -> PSetArgs(n)

Keys == {k \in (Called \union {"set_args"}) \X (0 .. NArgs) :
           IF k[1] = "set_args" THEN TRUE ELSE k[2] \in Lengths64(k[1])}

\* How deep the functions nest that f calls.
Rank(f) == CASE f \in {"LmakeString", "LmakeArray", "Bsexp"} -> 1
             [] f = "Bstring"                                -> 2
             [] OTHER                                        -> 3

Discipline == [k \in Keys |-> [points  |-> PointsOf(k[1], k[2]),
                               rank    |-> Rank(k[1]),
                               scanned |-> Rank(k[1]) = 3,
                               lax     |-> FALSE]]

\* The room in the pool that a call needs.
Need(k) == CASE k[1] = "Barray"                        -> k[2]
             [] k[1] \in {"Bclosure", "Bsexp"}         -> k[2] - 1
             [] k[1] \in {"LmakeString", "LmakeArray"} -> 0
             [] k[1] = "Bstring"                       -> 1
             [] OTHER                                  -> 2

HasRoom(k, s, p, q) ==
  /\ Len(q.held) <= Need(k)
  /\ s.op = "call" => Len(p.held) + Need(<<s.fn, Len(s.args)>>) <= Need(k)

\* The step s of k leads from p to q.
Leads(k, s, p, q) == StepFits(Discipline, k, s, p, q) /\ HasRoom(k, s, p, q)

Fits(k, body, points) ==
  /\ Typed(Discipline, k, body, points)
  /\ \A pc \in 1 .. Len(body) : HasRoom(k, body[pc], points[pc], points[pc + 1])

\* The flag of a frame between PRE_GC and POST_GC says whether it is the one
\* in __gc_stack_top.
FlagsFit(D, fs, t) ==
  \A d \in 1 .. Len(fs) : At(D, fs, d).inside => (fs[d].flag <=> t = d)

IInv == /\ ProtocolInv(Discipline)
        /\ FlagsFit(Discipline, frames, top)
        /\ OnlyLongLiteralsExit

-----------------------------------------------------------------------------
(* The functions. *)

LEMMA FitsRule ==
  ASSUME NEW k, NEW body, NEW points, NEW z, Sized(body, points, z),
         \A pc \in 1 .. z + 1 : PointIn(k, points[pc]),
         EntryFits(points[1], k[2]), ExitFits(k, points[z + 1]),
         \A pc \in 1 .. z : Leads(k, body[pc], points[pc], points[pc + 1])
  PROVE  Fits(k, body, points)
<1>1. \A pc \in 1 .. z : StepFits(Discipline, k, body[pc], points[pc], points[pc + 1])
  BY DEF Leads
<1>2. Typed(Discipline, k, body, points)
  BY <1>1, TypedRule
<1>3. \A pc \in 1 .. z : HasRoom(k, body[pc], points[pc], points[pc + 1])
  BY DEF Leads
<1> QED
  BY <1>2, <1>3 DEF Fits, Sized

LEMMA OfDiscipline ==
  ASSUME NEW k \in Keys
  PROVE  /\ k \in DOMAIN Discipline
         /\ Discipline[k].points = PointsOf(k[1], k[2])
         /\ Discipline[k].rank = Rank(k[1])
         /\ Discipline[k].scanned = (Rank(k[1]) = 3)
         /\ Discipline[k].lax = FALSE
  BY DEF Discipline

\* The functions that others call, and the rules of the discipline.
LEMMA InnerRules ==
  /\ <<"LmakeString", 0>> \in DOMAIN Discipline
  /\ Discipline[<<"LmakeString", 0>>].rank = 1 /\ ~Discipline[<<"LmakeString", 0>>].scanned
  /\ <<"LmakeArray", 0>> \in DOMAIN Discipline
  /\ Discipline[<<"LmakeArray", 0>>].rank = 1 /\ ~Discipline[<<"LmakeArray", 0>>].scanned
  /\ <<"Bstring", 1>> \in DOMAIN Discipline
  /\ Discipline[<<"Bstring", 1>>].rank = 2 /\ ~Discipline[<<"Bstring", 1>>].scanned
  /\ <<"Bsexp", 3>> \in DOMAIN Discipline
  /\ Discipline[<<"Bsexp", 3>>].rank = 1 /\ ~Discipline[<<"Bsexp", 3>>].scanned
<1>1. {<<"LmakeString", 0>>, <<"LmakeArray", 0>>, <<"Bstring", 1>>, <<"Bsexp", 3>>} \subseteq Keys
  BY ConstantsAssumption DEF Keys, Called, Lengths64, Literals
<1>2. /\ Rank("LmakeString") = 1 /\ Rank("LmakeArray") = 1 /\ Rank("Bstring") = 2
      /\ Rank("Bsexp") = 1
  BY DEF Rank
<1>3. ASSUME NEW f, NEW n, <<f, n>> \in Keys, Rank(f) # 3
      PROVE  /\ <<f, n>> \in DOMAIN Discipline /\ Discipline[<<f, n>>].rank = Rank(f)
             /\ ~Discipline[<<f, n>>].scanned
  <2>1. <<f, n>>[1] = f
    OBVIOUS
  <2>2. Discipline[<<f, n>>].scanned = FALSE
    BY <1>3, <2>1, OfDiscipline
  <2>3. <<f, n>> \in DOMAIN Discipline /\ Discipline[<<f, n>>].rank = Rank(f)
    BY <1>3, <2>1, OfDiscipline
  <2> QED
    BY <2>2, <2>3
<1> QED
  BY <1>1, <1>2, <1>3

LEMMA OuterRules ==
  ASSUME NEW k, k \in {<<"LmakeString", 0>>, <<"LmakeArray", 0>>, <<"Bstring", 1>>,
                       <<"Lsubstring", 1>>, <<"LcloneString", 1>>, <<"LcloneBlock", 1>>,
                       <<"Lstring", 1>>, <<"Ls__Infix_58", 2>>, <<"Li__Infix_4343", 2>>,
                       <<"LgetEnv", 1>>, <<"Bsprintf", 1>>, <<"LreadLine", 0>>,
                       <<"Lfread", 1>>}
  PROVE  k \in Keys /\ Discipline[k].rank = Rank(k[1])
<1>1. k \in Keys
  BY ConstantsAssumption DEF Keys, Called, Lengths64, Literals
<1> QED
  BY <1>1 DEF Discipline

LEMMA LmakeStringTyped ==
  LET k == <<"LmakeString", 0>>
  IN  Fits(k, LmakeString, PLmakeString)
<1> DEFINE k == <<"LmakeString", 0>>
<1>1. /\ LmakeString[1] = Pre
      /\ LmakeString[2] = Alloc
      /\ LmakeString[3] = Post
  BY DEF LmakeString
<1>2. /\ PLmakeString[1] = Pt(<<>>, FALSE, {}, {})
      /\ PLmakeString[2] = Pt(<<>>, TRUE, {}, {})
      /\ PLmakeString[3] = Pt(<<>>, TRUE, {Result}, {Result})
      /\ PLmakeString[4] = Pt(<<>>, FALSE, {Result}, {Result})
  BY DEF PLmakeString
<1>3. /\ PointGood(k, <<>>, FALSE, {}, {})
      /\ PointGood(k, <<>>, TRUE, {}, {})
      /\ PointGood(k, <<>>, TRUE, {Result}, {Result})
      /\ PointGood(k, <<>>, FALSE, {Result}, {Result})
  BY NamesOf DEF Names, PointGood, Unguarded
<1>4. \A pc \in 1 .. 4 : PointIn(k, PLmakeString[pc])
  <2>1. /\ PointOk(k, PLmakeString[1])
        /\ PointOk(k, PLmakeString[2])
        /\ PointOk(k, PLmakeString[3])
        /\ PointOk(k, PLmakeString[4])
    BY <1>2, <1>3 DEF PointOk
  <2> HIDE DEF k
  <2> QED
    BY <2>1, PointRule
<1>5. \A pc \in 1 .. 3 : Leads(k, LmakeString[pc], PLmakeString[pc], PLmakeString[pc + 1])
  <2>1. Leads(k, LmakeString[1], PLmakeString[1], PLmakeString[2])
    BY <1>1, <1>2
    DEF Leads, StepFits, PreFits, Pre, Same, Pt, KeepsSysargs, HasRoom, Need
  <2>2. Leads(k, LmakeString[2], PLmakeString[2], PLmakeString[3])
    <3>1. StepFits(Discipline, k, Alloc, Pt(<<>>, TRUE, {}, {}),
                   Pt(<<>>, TRUE, {Result}, {Result}))
      BY NamesOf, AllocRule DEF Names, Lasting
    <3> QED
      BY <1>1, <1>2, <3>1 DEF Leads, HasRoom, Need, Pt, Alloc
  <2>3. Leads(k, LmakeString[3], PLmakeString[3], PLmakeString[4])
    BY <1>1, <1>2
    DEF Leads, StepFits, PostFits, Post, Same, Pt, KeepsSysargs, HasRoom, Need
  <2> HIDE DEF k
  <2> QED
    BY <2>1, <2>2, <2>3
<1>6. Sized(LmakeString, PLmakeString, 3)
  BY DEF Sized, LmakeString, PLmakeString
<1>7. EntryFits(PLmakeString[1], 0) /\ ExitFits(k, PLmakeString[4])
  BY <1>2, NamesOf DEF Names, EntryFits, ExitFits, Pt
<1> QED
  BY <1>4, <1>5, <1>6, <1>7, FitsRule

LEMMA LmakeArrayTyped ==
  LET k == <<"LmakeArray", 0>>
  IN  Fits(k, LmakeArray, PLmakeArray)
<1> DEFINE k == <<"LmakeArray", 0>>
<1>1. /\ LmakeArray[1] = Pre
      /\ LmakeArray[2] = Alloc
      /\ LmakeArray[3] = Use({Result})
      /\ LmakeArray[4] = Post
  BY DEF LmakeArray
<1>2. /\ PLmakeArray[1] = Pt(<<>>, FALSE, {}, {})
      /\ PLmakeArray[2] = Pt(<<>>, TRUE, {}, {})
      /\ PLmakeArray[3] = Pt(<<>>, TRUE, {Result}, {Result})
      /\ PLmakeArray[4] = Pt(<<>>, TRUE, {Result}, {Result})
      /\ PLmakeArray[5] = Pt(<<>>, FALSE, {Result}, {Result})
  BY DEF PLmakeArray
<1>3. /\ PointGood(k, <<>>, FALSE, {}, {})
      /\ PointGood(k, <<>>, TRUE, {}, {})
      /\ PointGood(k, <<>>, TRUE, {Result}, {Result})
      /\ PointGood(k, <<>>, FALSE, {Result}, {Result})
  BY NamesOf DEF Names, PointGood, Unguarded
<1>4. \A pc \in 1 .. 5 : PointIn(k, PLmakeArray[pc])
  <2>1. /\ PointOk(k, PLmakeArray[1])
        /\ PointOk(k, PLmakeArray[2])
        /\ PointOk(k, PLmakeArray[3])
        /\ PointOk(k, PLmakeArray[4])
        /\ PointOk(k, PLmakeArray[5])
    BY <1>2, <1>3 DEF PointOk
  <2> HIDE DEF k
  <2> QED
    BY <2>1, PointRule
<1>5. \A pc \in 1 .. 4 : Leads(k, LmakeArray[pc], PLmakeArray[pc], PLmakeArray[pc + 1])
  <2>1. Leads(k, LmakeArray[1], PLmakeArray[1], PLmakeArray[2])
    BY <1>1, <1>2
    DEF Leads, StepFits, PreFits, Pre, Same, Pt, KeepsSysargs, HasRoom, Need
  <2>2. Leads(k, LmakeArray[2], PLmakeArray[2], PLmakeArray[3])
    <3>1. StepFits(Discipline, k, Alloc, Pt(<<>>, TRUE, {}, {}),
                   Pt(<<>>, TRUE, {Result}, {Result}))
      BY NamesOf, AllocRule DEF Names, Lasting
    <3> QED
      BY <1>1, <1>2, <3>1 DEF Leads, HasRoom, Need, Pt, Alloc
  <2>3. Leads(k, LmakeArray[3], PLmakeArray[3], PLmakeArray[4])
    BY <1>1, <1>2
    DEF Leads, StepFits, UseFits, Use, Same, Pt, KeepsSysargs, HasRoom, Need
  <2>4. Leads(k, LmakeArray[4], PLmakeArray[4], PLmakeArray[5])
    BY <1>1, <1>2
    DEF Leads, StepFits, PostFits, Post, Same, Pt, KeepsSysargs, HasRoom, Need
  <2> HIDE DEF k
  <2> QED
    BY <2>1, <2>2, <2>3, <2>4
<1>6. Sized(LmakeArray, PLmakeArray, 4)
  BY DEF Sized, LmakeArray, PLmakeArray
<1>7. EntryFits(PLmakeArray[1], 0) /\ ExitFits(k, PLmakeArray[5])
  BY <1>2, NamesOf DEF Names, EntryFits, ExitFits, Pt
<1> QED
  BY <1>4, <1>5, <1>6, <1>7, FitsRule

LEMMA BstringTyped ==
  LET k == <<"Bstring", 1>>
  IN  Fits(k, Bstring, PBstring)
<1> DEFINE k == <<"Bstring", 1>>
<1>1. /\ Bstring[1] = Use({Arg(1)})
      /\ Bstring[2] = Pre
      /\ Bstring[3] = Push(Arg(1))
      /\ Bstring[4] = Call("LmakeString", <<>>, Result)
      /\ Bstring[5] = Pop(Arg(1))
      /\ Bstring[6] = Use({Arg(1), Result})
      /\ Bstring[7] = Post
  BY DEF Bstring
<1>2. /\ PBstring[1] = Pt(<<>>, FALSE, {Arg(1)}, {})
      /\ PBstring[2] = Pt(<<>>, FALSE, {Arg(1)}, {})
      /\ PBstring[3] = Pt(<<>>, TRUE, {Arg(1)}, {})
      /\ PBstring[4] = Pt(<<Arg(1)>>, TRUE, {Arg(1)}, {})
      /\ PBstring[5] = Pt(<<Arg(1)>>, TRUE, {Arg(1), Result}, {Result})
      /\ PBstring[6] = Pt(<<>>, TRUE, {Arg(1), Result}, {Result})
      /\ PBstring[7] = Pt(<<>>, TRUE, {Result}, {Result})
      /\ PBstring[8] = Pt(<<>>, FALSE, {Result}, {Result})
  BY DEF PBstring
<1>3. /\ PointGood(k, <<>>, FALSE, {Arg(1)}, {})
      /\ PointGood(k, <<>>, TRUE, {Arg(1)}, {})
      /\ PointGood(k, <<Arg(1)>>, TRUE, {Arg(1)}, {})
      /\ PointGood(k, <<Arg(1)>>, TRUE, {Arg(1), Result}, {Result})
      /\ PointGood(k, <<>>, TRUE, {Arg(1), Result}, {Result})
      /\ PointGood(k, <<>>, TRUE, {Result}, {Result})
      /\ PointGood(k, <<>>, FALSE, {Result}, {Result})
  BY NamesOf DEF Names, PointGood, Unguarded
<1>4. \A pc \in 1 .. 8 : PointIn(k, PBstring[pc])
  <2>1. /\ PointOk(k, PBstring[1])
        /\ PointOk(k, PBstring[2])
        /\ PointOk(k, PBstring[3])
        /\ PointOk(k, PBstring[4])
        /\ PointOk(k, PBstring[5])
        /\ PointOk(k, PBstring[6])
        /\ PointOk(k, PBstring[7])
        /\ PointOk(k, PBstring[8])
    BY <1>2, <1>3 DEF PointOk
  <2> HIDE DEF k
  <2> QED
    BY <2>1, PointRule
<1>5. \A pc \in 1 .. 7 : Leads(k, Bstring[pc], PBstring[pc], PBstring[pc + 1])
  <2>1. Leads(k, Bstring[1], PBstring[1], PBstring[2])
    BY <1>1, <1>2
    DEF Leads, StepFits, UseFits, Use, Same, Pt, KeepsSysargs, HasRoom, Need
  <2>2. Leads(k, Bstring[2], PBstring[2], PBstring[3])
    BY <1>1, <1>2
    DEF Leads, StepFits, PreFits, Pre, Same, Pt, KeepsSysargs, HasRoom, Need
  <2>3. Leads(k, Bstring[3], PBstring[3], PBstring[4])
    <3>1. Lists(Arg(1), Arg(1))
      BY ListsOf
    <3> QED
      BY <1>1, <1>2, <3>1
      DEF Leads, StepFits, PushFits, Push, Pt, KeepsSysargs, Lists, HasRoom, Need
  <2>4. Leads(k, Bstring[4], PBstring[4], PBstring[5])
    <3>1. MayCall(Discipline, k, <<Arg(1)>>, TRUE, {Arg(1)}, "LmakeString", <<>>, Result)
      <4>1. TRUE \/ k[1] \in Unguarded
        BY DEF Unguarded
      <4>2. Sysargs \notin {Arg(1)}
        BY NamesOf DEF Names
      <4>3. <<>> \in Seq({Arg(1)} \intersect (ArgSet(1, 1) \union Locals))
        BY NamesOf DEF Names
      <4>4. Result \in Locals \ Range(<<Arg(1)>>)
        <5>1. Lists(Arg(1), Arg(1))
          BY ListsOf
        <5> QED
          BY <5>1, NamesOf DEF Names, Lists
      <4>5. /\ <<"LmakeString", Len(<<>>)>> \in DOMAIN Discipline
            /\ Discipline[<<"LmakeString", Len(<<>>)>>].rank < Discipline[k].rank
            /\ ~Discipline[<<"LmakeString", Len(<<>>)>>].scanned
        <5>1. Len(<<>>) = 0
          OBVIOUS
        <5> QED
          BY <5>1, InnerRules, OuterRules DEF Rank
      <4> QED
        BY <4>1, <4>2, <4>3, <4>4, <4>5 DEF MayCall
    <3>2. StepFits(Discipline, k, Call("LmakeString", <<>>, Result),
                   Pt(<<Arg(1)>>, TRUE, {Arg(1)}, {}),
                   Pt(<<Arg(1)>>, TRUE, {Arg(1), Result}, {Result}))
      <4>1. Lists(Arg(1), Arg(1))
        BY ListsOf
      <4>2. /\ {Arg(1), Result} \subseteq Lasting(Discipline, k, <<Arg(1)>>, {Arg(1)}) \union {Result}
            /\ {Result} \subseteq ({} \intersect Range(<<Arg(1)>>)) \union {Result}
        BY <4>1, NamesOf DEF Names, Lasting, Lists, Unguarded
      <4> QED
        BY <3>1, <4>2, CallRule
    <3> QED
      BY <1>1, <1>2, <3>2 DEF Leads, HasRoom, Need, Pt, Call
  <2>5. Leads(k, Bstring[5], PBstring[5], PBstring[6])
    <3>1. Lists(Arg(1), Arg(1))
      BY ListsOf
    <3> QED
      BY <1>1, <1>2, <3>1
      DEF Leads, StepFits, PopFits, Pop, Pt, KeepsSysargs, Lists, HasRoom, Need
  <2>6. Leads(k, Bstring[6], PBstring[6], PBstring[7])
    BY <1>1, <1>2, Apart
    DEF Leads, StepFits, UseFits, Use, Same, Pt, KeepsSysargs, HasRoom, Need
  <2>7. Leads(k, Bstring[7], PBstring[7], PBstring[8])
    BY <1>1, <1>2
    DEF Leads, StepFits, PostFits, Post, Same, Pt, KeepsSysargs, HasRoom, Need
  <2> HIDE DEF k
  <2> QED
    BY <2>1, <2>2, <2>3, <2>4, <2>5, <2>6, <2>7
<1>6. Sized(Bstring, PBstring, 7)
  BY DEF Sized, Bstring, PBstring
<1>7. EntryFits(PBstring[1], 1) /\ ExitFits(k, PBstring[8])
  BY <1>2, NamesOf DEF Names, EntryFits, ExitFits, Pt
<1> QED
  BY <1>4, <1>5, <1>6, <1>7, FitsRule

LEMMA LsubstringTyped ==
  LET k == <<"Lsubstring", 1>>
  IN  Fits(k, Lsubstring, PLsubstring)
<1> DEFINE k == <<"Lsubstring", 1>>
<1>1. /\ Lsubstring[1] = Use({Arg(1)})
      /\ Lsubstring[2] = Pre
      /\ Lsubstring[3] = Push(Arg(1))
      /\ Lsubstring[4] = Alloc
      /\ Lsubstring[5] = Pop(Arg(1))
      /\ Lsubstring[6] = Use({Arg(1), Result})
      /\ Lsubstring[7] = Post
  BY DEF Lsubstring
<1>2. /\ PLsubstring[1] = Pt(<<>>, FALSE, {Arg(1)}, {})
      /\ PLsubstring[2] = Pt(<<>>, FALSE, {Arg(1)}, {})
      /\ PLsubstring[3] = Pt(<<>>, TRUE, {Arg(1)}, {})
      /\ PLsubstring[4] = Pt(<<Arg(1)>>, TRUE, {Arg(1)}, {})
      /\ PLsubstring[5] = Pt(<<Arg(1)>>, TRUE, {Arg(1), Result}, {Result})
      /\ PLsubstring[6] = Pt(<<>>, TRUE, {Arg(1), Result}, {Result})
      /\ PLsubstring[7] = Pt(<<>>, TRUE, {Result}, {Result})
      /\ PLsubstring[8] = Pt(<<>>, FALSE, {Result}, {Result})
  BY DEF PLsubstring
<1>3. /\ PointGood(k, <<>>, FALSE, {Arg(1)}, {})
      /\ PointGood(k, <<>>, TRUE, {Arg(1)}, {})
      /\ PointGood(k, <<Arg(1)>>, TRUE, {Arg(1)}, {})
      /\ PointGood(k, <<Arg(1)>>, TRUE, {Arg(1), Result}, {Result})
      /\ PointGood(k, <<>>, TRUE, {Arg(1), Result}, {Result})
      /\ PointGood(k, <<>>, TRUE, {Result}, {Result})
      /\ PointGood(k, <<>>, FALSE, {Result}, {Result})
  BY NamesOf DEF Names, PointGood, Unguarded
<1>4. \A pc \in 1 .. 8 : PointIn(k, PLsubstring[pc])
  <2>1. /\ PointOk(k, PLsubstring[1])
        /\ PointOk(k, PLsubstring[2])
        /\ PointOk(k, PLsubstring[3])
        /\ PointOk(k, PLsubstring[4])
        /\ PointOk(k, PLsubstring[5])
        /\ PointOk(k, PLsubstring[6])
        /\ PointOk(k, PLsubstring[7])
        /\ PointOk(k, PLsubstring[8])
    BY <1>2, <1>3 DEF PointOk
  <2> HIDE DEF k
  <2> QED
    BY <2>1, PointRule
<1>5. \A pc \in 1 .. 7 : Leads(k, Lsubstring[pc], PLsubstring[pc], PLsubstring[pc + 1])
  <2>1. Leads(k, Lsubstring[1], PLsubstring[1], PLsubstring[2])
    BY <1>1, <1>2
    DEF Leads, StepFits, UseFits, Use, Same, Pt, KeepsSysargs, HasRoom, Need
  <2>2. Leads(k, Lsubstring[2], PLsubstring[2], PLsubstring[3])
    BY <1>1, <1>2
    DEF Leads, StepFits, PreFits, Pre, Same, Pt, KeepsSysargs, HasRoom, Need
  <2>3. Leads(k, Lsubstring[3], PLsubstring[3], PLsubstring[4])
    <3>1. Lists(Arg(1), Arg(1))
      BY ListsOf
    <3> QED
      BY <1>1, <1>2, <3>1
      DEF Leads, StepFits, PushFits, Push, Pt, KeepsSysargs, Lists, HasRoom, Need
  <2>4. Leads(k, Lsubstring[4], PLsubstring[4], PLsubstring[5])
    <3>1. StepFits(Discipline, k, Alloc, Pt(<<Arg(1)>>, TRUE, {Arg(1)}, {}),
                   Pt(<<Arg(1)>>, TRUE, {Arg(1), Result}, {Result}))
      <4>1. Lists(Arg(1), Arg(1))
        BY ListsOf
      <4> QED
        BY <4>1, NamesOf, AllocRule DEF Names, Lasting, Lists
    <3> QED
      BY <1>1, <1>2, <3>1 DEF Leads, HasRoom, Need, Pt, Alloc
  <2>5. Leads(k, Lsubstring[5], PLsubstring[5], PLsubstring[6])
    <3>1. Lists(Arg(1), Arg(1))
      BY ListsOf
    <3> QED
      BY <1>1, <1>2, <3>1
      DEF Leads, StepFits, PopFits, Pop, Pt, KeepsSysargs, Lists, HasRoom, Need
  <2>6. Leads(k, Lsubstring[6], PLsubstring[6], PLsubstring[7])
    BY <1>1, <1>2, Apart
    DEF Leads, StepFits, UseFits, Use, Same, Pt, KeepsSysargs, HasRoom, Need
  <2>7. Leads(k, Lsubstring[7], PLsubstring[7], PLsubstring[8])
    BY <1>1, <1>2
    DEF Leads, StepFits, PostFits, Post, Same, Pt, KeepsSysargs, HasRoom, Need
  <2> HIDE DEF k
  <2> QED
    BY <2>1, <2>2, <2>3, <2>4, <2>5, <2>6, <2>7
<1>6. Sized(Lsubstring, PLsubstring, 7)
  BY DEF Sized, Lsubstring, PLsubstring
<1>7. EntryFits(PLsubstring[1], 1) /\ ExitFits(k, PLsubstring[8])
  BY <1>2, NamesOf DEF Names, EntryFits, ExitFits, Pt
<1> QED
  BY <1>4, <1>5, <1>6, <1>7, FitsRule

LEMMA LcloneStringTyped ==
  LET k == <<"LcloneString", 1>>
  IN  Fits(k, LcloneString, PLcloneString)
<1> DEFINE k == <<"LcloneString", 1>>
<1>1. /\ LcloneString[1] = Pre
      /\ LcloneString[2] = Use({Arg(1)})
      /\ LcloneString[3] = Push(Arg(1))
      /\ LcloneString[4] = Copy(Arg(1), Local(1))
      /\ LcloneString[5] = Call("Bstring", <<Local(1)>>, Result)
      /\ LcloneString[6] = Pop(Arg(1))
      /\ LcloneString[7] = Post
  BY DEF LcloneString
<1>2. /\ PLcloneString[1] = Pt(<<>>, FALSE, {Arg(1)}, {})
      /\ PLcloneString[2] = Pt(<<>>, TRUE, {Arg(1)}, {})
      /\ PLcloneString[3] = Pt(<<>>, TRUE, {Arg(1)}, {})
      /\ PLcloneString[4] = Pt(<<Arg(1)>>, TRUE, {Arg(1)}, {})
      /\ PLcloneString[5] = Pt(<<Arg(1)>>, TRUE, {Arg(1), Local(1)}, {})
      /\ PLcloneString[6] = Pt(<<Arg(1)>>, TRUE, {Arg(1), Result}, {Result})
      /\ PLcloneString[7] = Pt(<<>>, TRUE, {Result}, {Result})
      /\ PLcloneString[8] = Pt(<<>>, FALSE, {Result}, {Result})
  BY DEF PLcloneString
<1>3. /\ PointGood(k, <<>>, FALSE, {Arg(1)}, {})
      /\ PointGood(k, <<>>, TRUE, {Arg(1)}, {})
      /\ PointGood(k, <<Arg(1)>>, TRUE, {Arg(1)}, {})
      /\ PointGood(k, <<Arg(1)>>, TRUE, {Arg(1), Local(1)}, {})
      /\ PointGood(k, <<Arg(1)>>, TRUE, {Arg(1), Result}, {Result})
      /\ PointGood(k, <<>>, TRUE, {Result}, {Result})
      /\ PointGood(k, <<>>, FALSE, {Result}, {Result})
  BY NamesOf DEF Names, PointGood, Unguarded
<1>4. \A pc \in 1 .. 8 : PointIn(k, PLcloneString[pc])
  <2>1. /\ PointOk(k, PLcloneString[1])
        /\ PointOk(k, PLcloneString[2])
        /\ PointOk(k, PLcloneString[3])
        /\ PointOk(k, PLcloneString[4])
        /\ PointOk(k, PLcloneString[5])
        /\ PointOk(k, PLcloneString[6])
        /\ PointOk(k, PLcloneString[7])
        /\ PointOk(k, PLcloneString[8])
    BY <1>2, <1>3 DEF PointOk
  <2> HIDE DEF k
  <2> QED
    BY <2>1, PointRule
<1>5. \A pc \in 1 .. 7 : Leads(k, LcloneString[pc], PLcloneString[pc], PLcloneString[pc + 1])
  <2>1. Leads(k, LcloneString[1], PLcloneString[1], PLcloneString[2])
    BY <1>1, <1>2
    DEF Leads, StepFits, PreFits, Pre, Same, Pt, KeepsSysargs, HasRoom, Need
  <2>2. Leads(k, LcloneString[2], PLcloneString[2], PLcloneString[3])
    BY <1>1, <1>2
    DEF Leads, StepFits, UseFits, Use, Same, Pt, KeepsSysargs, HasRoom, Need
  <2>3. Leads(k, LcloneString[3], PLcloneString[3], PLcloneString[4])
    <3>1. Lists(Arg(1), Arg(1))
      BY ListsOf
    <3> QED
      BY <1>1, <1>2, <3>1
      DEF Leads, StepFits, PushFits, Push, Pt, KeepsSysargs, Lists, HasRoom, Need
  <2>4. Leads(k, LcloneString[4], PLcloneString[4], PLcloneString[5])
    BY <1>1, <1>2, NamesOf, Apart
    DEF Leads, StepFits, CopyFits, Copy, Pt, KeepsSysargs, Names, HasRoom, Need
  <2>5. Leads(k, LcloneString[5], PLcloneString[5], PLcloneString[6])
    <3>1. MayCall(Discipline, k, <<Arg(1)>>, TRUE, {Arg(1), Local(1)}, "Bstring", <<Local(1)>>, Result)
      <4>1. TRUE \/ k[1] \in Unguarded
        BY DEF Unguarded
      <4>2. Sysargs \notin {Arg(1), Local(1)}
        BY NamesOf DEF Names
      <4>3. <<Local(1)>> \in Seq({Arg(1), Local(1)} \intersect (ArgSet(1, 1) \union Locals))
        BY NamesOf DEF Names
      <4>4. Result \in Locals \ Range(<<Arg(1)>>)
        <5>1. Lists(Arg(1), Arg(1))
          BY ListsOf
        <5> QED
          BY <5>1, NamesOf DEF Names, Lists
      <4>5. /\ <<"Bstring", Len(<<Local(1)>>)>> \in DOMAIN Discipline
            /\ Discipline[<<"Bstring", Len(<<Local(1)>>)>>].rank < Discipline[k].rank
            /\ ~Discipline[<<"Bstring", Len(<<Local(1)>>)>>].scanned
        <5>1. Len(<<Local(1)>>) = 1
          OBVIOUS
        <5> QED
          BY <5>1, InnerRules, OuterRules DEF Rank
      <4> QED
        BY <4>1, <4>2, <4>3, <4>4, <4>5 DEF MayCall
    <3>2. StepFits(Discipline, k, Call("Bstring", <<Local(1)>>, Result),
                   Pt(<<Arg(1)>>, TRUE, {Arg(1), Local(1)}, {}),
                   Pt(<<Arg(1)>>, TRUE, {Arg(1), Result}, {Result}))
      <4>1. Lists(Arg(1), Arg(1))
        BY ListsOf
      <4>2. /\ {Arg(1), Result} \subseteq Lasting(Discipline, k, <<Arg(1)>>, {Arg(1), Local(1)}) \union {Result}
            /\ {Result} \subseteq ({} \intersect Range(<<Arg(1)>>)) \union {Result}
        BY <4>1, NamesOf DEF Names, Lasting, Lists, Unguarded
      <4> QED
        BY <3>1, <4>2, CallRule
    <3> QED
      BY <1>1, <1>2, <3>2 DEF Leads, HasRoom, Need, Pt, Call
  <2>6. Leads(k, LcloneString[6], PLcloneString[6], PLcloneString[7])
    <3>1. Lists(Arg(1), Arg(1))
      BY ListsOf
    <3> QED
      BY <1>1, <1>2, Apart, <3>1
      DEF Leads, StepFits, PopFits, Pop, Pt, KeepsSysargs, Lists, HasRoom, Need
  <2>7. Leads(k, LcloneString[7], PLcloneString[7], PLcloneString[8])
    BY <1>1, <1>2
    DEF Leads, StepFits, PostFits, Post, Same, Pt, KeepsSysargs, HasRoom, Need
  <2> HIDE DEF k
  <2> QED
    BY <2>1, <2>2, <2>3, <2>4, <2>5, <2>6, <2>7
<1>6. Sized(LcloneString, PLcloneString, 7)
  BY DEF Sized, LcloneString, PLcloneString
<1>7. EntryFits(PLcloneString[1], 1) /\ ExitFits(k, PLcloneString[8])
  BY <1>2, NamesOf DEF Names, EntryFits, ExitFits, Pt
<1> QED
  BY <1>4, <1>5, <1>6, <1>7, FitsRule

LEMMA LcloneBlockTyped ==
  LET k == <<"LcloneBlock", 1>>
  IN  Fits(k, LcloneBlock, PLcloneBlock)
<1> DEFINE k == <<"LcloneBlock", 1>>
<1>1. /\ LcloneBlock[1] = Pre
      /\ LcloneBlock[2] = Use({Arg(1)})
      /\ LcloneBlock[3] = Push(Arg(1))
      /\ LcloneBlock[4] = Alloc
      /\ LcloneBlock[5] = Use({Arg(1), Result})
      /\ LcloneBlock[6] = Pop(Arg(1))
      /\ LcloneBlock[7] = Post
  BY DEF LcloneBlock
<1>2. /\ PLcloneBlock[1] = Pt(<<>>, FALSE, {Arg(1)}, {})
      /\ PLcloneBlock[2] = Pt(<<>>, TRUE, {Arg(1)}, {})
      /\ PLcloneBlock[3] = Pt(<<>>, TRUE, {Arg(1)}, {})
      /\ PLcloneBlock[4] = Pt(<<Arg(1)>>, TRUE, {Arg(1)}, {})
      /\ PLcloneBlock[5] = Pt(<<Arg(1)>>, TRUE, {Arg(1), Result}, {Result})
      /\ PLcloneBlock[6] = Pt(<<Arg(1)>>, TRUE, {Arg(1), Result}, {Result})
      /\ PLcloneBlock[7] = Pt(<<>>, TRUE, {Result}, {Result})
      /\ PLcloneBlock[8] = Pt(<<>>, FALSE, {Result}, {Result})
  BY DEF PLcloneBlock
<1>3. /\ PointGood(k, <<>>, FALSE, {Arg(1)}, {})
      /\ PointGood(k, <<>>, TRUE, {Arg(1)}, {})
      /\ PointGood(k, <<Arg(1)>>, TRUE, {Arg(1)}, {})
      /\ PointGood(k, <<Arg(1)>>, TRUE, {Arg(1), Result}, {Result})
      /\ PointGood(k, <<>>, TRUE, {Result}, {Result})
      /\ PointGood(k, <<>>, FALSE, {Result}, {Result})
  BY NamesOf DEF Names, PointGood, Unguarded
<1>4. \A pc \in 1 .. 8 : PointIn(k, PLcloneBlock[pc])
  <2>1. /\ PointOk(k, PLcloneBlock[1])
        /\ PointOk(k, PLcloneBlock[2])
        /\ PointOk(k, PLcloneBlock[3])
        /\ PointOk(k, PLcloneBlock[4])
        /\ PointOk(k, PLcloneBlock[5])
        /\ PointOk(k, PLcloneBlock[6])
        /\ PointOk(k, PLcloneBlock[7])
        /\ PointOk(k, PLcloneBlock[8])
    BY <1>2, <1>3 DEF PointOk
  <2> HIDE DEF k
  <2> QED
    BY <2>1, PointRule
<1>5. \A pc \in 1 .. 7 : Leads(k, LcloneBlock[pc], PLcloneBlock[pc], PLcloneBlock[pc + 1])
  <2>1. Leads(k, LcloneBlock[1], PLcloneBlock[1], PLcloneBlock[2])
    BY <1>1, <1>2
    DEF Leads, StepFits, PreFits, Pre, Same, Pt, KeepsSysargs, HasRoom, Need
  <2>2. Leads(k, LcloneBlock[2], PLcloneBlock[2], PLcloneBlock[3])
    BY <1>1, <1>2
    DEF Leads, StepFits, UseFits, Use, Same, Pt, KeepsSysargs, HasRoom, Need
  <2>3. Leads(k, LcloneBlock[3], PLcloneBlock[3], PLcloneBlock[4])
    <3>1. Lists(Arg(1), Arg(1))
      BY ListsOf
    <3> QED
      BY <1>1, <1>2, <3>1
      DEF Leads, StepFits, PushFits, Push, Pt, KeepsSysargs, Lists, HasRoom, Need
  <2>4. Leads(k, LcloneBlock[4], PLcloneBlock[4], PLcloneBlock[5])
    <3>1. StepFits(Discipline, k, Alloc, Pt(<<Arg(1)>>, TRUE, {Arg(1)}, {}),
                   Pt(<<Arg(1)>>, TRUE, {Arg(1), Result}, {Result}))
      <4>1. Lists(Arg(1), Arg(1))
        BY ListsOf
      <4> QED
        BY <4>1, NamesOf, AllocRule DEF Names, Lasting, Lists
    <3> QED
      BY <1>1, <1>2, <3>1 DEF Leads, HasRoom, Need, Pt, Alloc
  <2>5. Leads(k, LcloneBlock[5], PLcloneBlock[5], PLcloneBlock[6])
    BY <1>1, <1>2
    DEF Leads, StepFits, UseFits, Use, Same, Pt, KeepsSysargs, HasRoom, Need
  <2>6. Leads(k, LcloneBlock[6], PLcloneBlock[6], PLcloneBlock[7])
    <3>1. Lists(Arg(1), Arg(1))
      BY ListsOf
    <3> QED
      BY <1>1, <1>2, Apart, <3>1
      DEF Leads, StepFits, PopFits, Pop, Pt, KeepsSysargs, Lists, HasRoom, Need
  <2>7. Leads(k, LcloneBlock[7], PLcloneBlock[7], PLcloneBlock[8])
    BY <1>1, <1>2
    DEF Leads, StepFits, PostFits, Post, Same, Pt, KeepsSysargs, HasRoom, Need
  <2> HIDE DEF k
  <2> QED
    BY <2>1, <2>2, <2>3, <2>4, <2>5, <2>6, <2>7
<1>6. Sized(LcloneBlock, PLcloneBlock, 7)
  BY DEF Sized, LcloneBlock, PLcloneBlock
<1>7. EntryFits(PLcloneBlock[1], 1) /\ ExitFits(k, PLcloneBlock[8])
  BY <1>2, NamesOf DEF Names, EntryFits, ExitFits, Pt
<1> QED
  BY <1>4, <1>5, <1>6, <1>7, FitsRule

LEMMA LstringTyped ==
  LET k == <<"Lstring", 1>>
  IN  Fits(k, Lstring, PLstring)
<1> DEFINE k == <<"Lstring", 1>>
<1>1. /\ Lstring[1] = Pre
      /\ Lstring[2] = Use({Arg(1)})
      /\ Lstring[3] = Push(Arg(1))
      /\ Lstring[4] = Set("c_pointer", Local(1))
      /\ Lstring[5] = Call("Bstring", <<Local(1)>>, Result)
      /\ Lstring[6] = Pop(Arg(1))
      /\ Lstring[7] = Post
  BY DEF Lstring
<1>2. /\ PLstring[1] = Pt(<<>>, FALSE, {Arg(1)}, {})
      /\ PLstring[2] = Pt(<<>>, TRUE, {Arg(1)}, {})
      /\ PLstring[3] = Pt(<<>>, TRUE, {Arg(1)}, {})
      /\ PLstring[4] = Pt(<<Arg(1)>>, TRUE, {Arg(1)}, {})
      /\ PLstring[5] = Pt(<<Arg(1)>>, TRUE, {Arg(1), Local(1)}, {})
      /\ PLstring[6] = Pt(<<Arg(1)>>, TRUE, {Arg(1), Result}, {Result})
      /\ PLstring[7] = Pt(<<>>, TRUE, {Result}, {Result})
      /\ PLstring[8] = Pt(<<>>, FALSE, {Result}, {Result})
  BY DEF PLstring
<1>3. /\ PointGood(k, <<>>, FALSE, {Arg(1)}, {})
      /\ PointGood(k, <<>>, TRUE, {Arg(1)}, {})
      /\ PointGood(k, <<Arg(1)>>, TRUE, {Arg(1)}, {})
      /\ PointGood(k, <<Arg(1)>>, TRUE, {Arg(1), Local(1)}, {})
      /\ PointGood(k, <<Arg(1)>>, TRUE, {Arg(1), Result}, {Result})
      /\ PointGood(k, <<>>, TRUE, {Result}, {Result})
      /\ PointGood(k, <<>>, FALSE, {Result}, {Result})
  BY NamesOf DEF Names, PointGood, Unguarded
<1>4. \A pc \in 1 .. 8 : PointIn(k, PLstring[pc])
  <2>1. /\ PointOk(k, PLstring[1])
        /\ PointOk(k, PLstring[2])
        /\ PointOk(k, PLstring[3])
        /\ PointOk(k, PLstring[4])
        /\ PointOk(k, PLstring[5])
        /\ PointOk(k, PLstring[6])
        /\ PointOk(k, PLstring[7])
        /\ PointOk(k, PLstring[8])
    BY <1>2, <1>3 DEF PointOk
  <2> HIDE DEF k
  <2> QED
    BY <2>1, PointRule
<1>5. \A pc \in 1 .. 7 : Leads(k, Lstring[pc], PLstring[pc], PLstring[pc + 1])
  <2>1. Leads(k, Lstring[1], PLstring[1], PLstring[2])
    BY <1>1, <1>2
    DEF Leads, StepFits, PreFits, Pre, Same, Pt, KeepsSysargs, HasRoom, Need
  <2>2. Leads(k, Lstring[2], PLstring[2], PLstring[3])
    BY <1>1, <1>2
    DEF Leads, StepFits, UseFits, Use, Same, Pt, KeepsSysargs, HasRoom, Need
  <2>3. Leads(k, Lstring[3], PLstring[3], PLstring[4])
    <3>1. Lists(Arg(1), Arg(1))
      BY ListsOf
    <3> QED
      BY <1>1, <1>2, <3>1
      DEF Leads, StepFits, PushFits, Push, Pt, KeepsSysargs, Lists, HasRoom, Need
  <2>4. Leads(k, Lstring[4], PLstring[4], PLstring[5])
    BY <1>1, <1>2, NamesOf, Apart
    DEF Leads, StepFits, SetFits, Set, Pt, KeepsSysargs, Names, LamaValues, HasRoom, Need
  <2>5. Leads(k, Lstring[5], PLstring[5], PLstring[6])
    <3>1. MayCall(Discipline, k, <<Arg(1)>>, TRUE, {Arg(1), Local(1)}, "Bstring", <<Local(1)>>, Result)
      <4>1. TRUE \/ k[1] \in Unguarded
        BY DEF Unguarded
      <4>2. Sysargs \notin {Arg(1), Local(1)}
        BY NamesOf DEF Names
      <4>3. <<Local(1)>> \in Seq({Arg(1), Local(1)} \intersect (ArgSet(1, 1) \union Locals))
        BY NamesOf DEF Names
      <4>4. Result \in Locals \ Range(<<Arg(1)>>)
        <5>1. Lists(Arg(1), Arg(1))
          BY ListsOf
        <5> QED
          BY <5>1, NamesOf DEF Names, Lists
      <4>5. /\ <<"Bstring", Len(<<Local(1)>>)>> \in DOMAIN Discipline
            /\ Discipline[<<"Bstring", Len(<<Local(1)>>)>>].rank < Discipline[k].rank
            /\ ~Discipline[<<"Bstring", Len(<<Local(1)>>)>>].scanned
        <5>1. Len(<<Local(1)>>) = 1
          OBVIOUS
        <5> QED
          BY <5>1, InnerRules, OuterRules DEF Rank
      <4> QED
        BY <4>1, <4>2, <4>3, <4>4, <4>5 DEF MayCall
    <3>2. StepFits(Discipline, k, Call("Bstring", <<Local(1)>>, Result),
                   Pt(<<Arg(1)>>, TRUE, {Arg(1), Local(1)}, {}),
                   Pt(<<Arg(1)>>, TRUE, {Arg(1), Result}, {Result}))
      <4>1. Lists(Arg(1), Arg(1))
        BY ListsOf
      <4>2. /\ {Arg(1), Result} \subseteq Lasting(Discipline, k, <<Arg(1)>>, {Arg(1), Local(1)}) \union {Result}
            /\ {Result} \subseteq ({} \intersect Range(<<Arg(1)>>)) \union {Result}
        BY <4>1, NamesOf DEF Names, Lasting, Lists, Unguarded
      <4> QED
        BY <3>1, <4>2, CallRule
    <3> QED
      BY <1>1, <1>2, <3>2 DEF Leads, HasRoom, Need, Pt, Call
  <2>6. Leads(k, Lstring[6], PLstring[6], PLstring[7])
    <3>1. Lists(Arg(1), Arg(1))
      BY ListsOf
    <3> QED
      BY <1>1, <1>2, Apart, <3>1
      DEF Leads, StepFits, PopFits, Pop, Pt, KeepsSysargs, Lists, HasRoom, Need
  <2>7. Leads(k, Lstring[7], PLstring[7], PLstring[8])
    BY <1>1, <1>2
    DEF Leads, StepFits, PostFits, Post, Same, Pt, KeepsSysargs, HasRoom, Need
  <2> HIDE DEF k
  <2> QED
    BY <2>1, <2>2, <2>3, <2>4, <2>5, <2>6, <2>7
<1>6. Sized(Lstring, PLstring, 7)
  BY DEF Sized, Lstring, PLstring
<1>7. EntryFits(PLstring[1], 1) /\ ExitFits(k, PLstring[8])
  BY <1>2, NamesOf DEF Names, EntryFits, ExitFits, Pt
<1> QED
  BY <1>4, <1>5, <1>6, <1>7, FitsRule

LEMMA Ls__Infix_58Typed ==
  LET k == <<"Ls__Infix_58", 2>>
  IN  Fits(k, Ls__Infix_58, PLs__Infix_58)
<1> DEFINE k == <<"Ls__Infix_58", 2>>
<1>1. /\ Ls__Infix_58[1] = Pre
      /\ Ls__Infix_58[2] = Copy(Arg(1), Local(1))
      /\ Ls__Infix_58[3] = Copy(Arg(2), Local(2))
      /\ Ls__Infix_58[4] = Set("unboxed", Local(3))
      /\ Ls__Infix_58[5] = Call("Bsexp", <<Local(1), Local(2), Local(3)>>, Result)
      /\ Ls__Infix_58[6] = Post
  BY DEF Ls__Infix_58
<1>2. /\ PLs__Infix_58[1] = Pt(<<>>, FALSE, {Arg(1), Arg(2)}, {})
      /\ PLs__Infix_58[2] = Pt(<<>>, TRUE, {Arg(1), Arg(2)}, {})
      /\ PLs__Infix_58[3] = Pt(<<>>, TRUE, {Arg(2), Local(1)}, {})
      /\ PLs__Infix_58[4] = Pt(<<>>, TRUE, {Local(1), Local(2)}, {})
      /\ PLs__Infix_58[5] = Pt(<<>>, TRUE, {Local(1), Local(2), Local(3)}, {})
      /\ PLs__Infix_58[6] = Pt(<<>>, TRUE, {Result}, {Result})
      /\ PLs__Infix_58[7] = Pt(<<>>, FALSE, {Result}, {Result})
  BY DEF PLs__Infix_58
<1>3. /\ PointGood(k, <<>>, FALSE, {Arg(1), Arg(2)}, {})
      /\ PointGood(k, <<>>, TRUE, {Arg(1), Arg(2)}, {})
      /\ PointGood(k, <<>>, TRUE, {Arg(2), Local(1)}, {})
      /\ PointGood(k, <<>>, TRUE, {Local(1), Local(2)}, {})
      /\ PointGood(k, <<>>, TRUE, {Local(1), Local(2), Local(3)}, {})
      /\ PointGood(k, <<>>, TRUE, {Result}, {Result})
      /\ PointGood(k, <<>>, FALSE, {Result}, {Result})
  BY NamesOf DEF Names, PointGood, Unguarded
<1>4. \A pc \in 1 .. 7 : PointIn(k, PLs__Infix_58[pc])
  <2>1. /\ PointOk(k, PLs__Infix_58[1])
        /\ PointOk(k, PLs__Infix_58[2])
        /\ PointOk(k, PLs__Infix_58[3])
        /\ PointOk(k, PLs__Infix_58[4])
        /\ PointOk(k, PLs__Infix_58[5])
        /\ PointOk(k, PLs__Infix_58[6])
        /\ PointOk(k, PLs__Infix_58[7])
    BY <1>2, <1>3 DEF PointOk
  <2> HIDE DEF k
  <2> QED
    BY <2>1, PointRule
<1>5. \A pc \in 1 .. 6 : Leads(k, Ls__Infix_58[pc], PLs__Infix_58[pc], PLs__Infix_58[pc + 1])
  <2>1. Leads(k, Ls__Infix_58[1], PLs__Infix_58[1], PLs__Infix_58[2])
    BY <1>1, <1>2
    DEF Leads, StepFits, PreFits, Pre, Same, Pt, KeepsSysargs, HasRoom, Need
  <2>2. Leads(k, Ls__Infix_58[2], PLs__Infix_58[2], PLs__Infix_58[3])
    BY <1>1, <1>2, NamesOf, Apart
    DEF Leads, StepFits, CopyFits, Copy, Pt, KeepsSysargs, Names, HasRoom, Need
  <2>3. Leads(k, Ls__Infix_58[3], PLs__Infix_58[3], PLs__Infix_58[4])
    BY <1>1, <1>2, NamesOf, Apart
    DEF Leads, StepFits, CopyFits, Copy, Pt, KeepsSysargs, Names, HasRoom, Need
  <2>4. Leads(k, Ls__Infix_58[4], PLs__Infix_58[4], PLs__Infix_58[5])
    BY <1>1, <1>2, NamesOf, Apart
    DEF Leads, StepFits, SetFits, Set, Pt, KeepsSysargs, Names, LamaValues, HasRoom, Need
  <2>5. Leads(k, Ls__Infix_58[5], PLs__Infix_58[5], PLs__Infix_58[6])
    <3>1. MayCall(Discipline, k, <<>>, TRUE, {Local(1), Local(2), Local(3)}, "Bsexp", <<Local(1), Local(2), Local(3)>>, Result)
      <4>1. TRUE \/ k[1] \in Unguarded
        BY DEF Unguarded
      <4>2. Sysargs \notin {Local(1), Local(2), Local(3)}
        BY NamesOf DEF Names
      <4>3. <<Local(1), Local(2), Local(3)>> \in Seq({Local(1), Local(2), Local(3)} \intersect (ArgSet(1, 2) \union Locals))
        BY NamesOf DEF Names
      <4>4. Result \in Locals \ Range(<<>>)
        <5>1. Lists(Result, Result)
          BY ListsOf
        <5> QED
          BY <5>1, NamesOf DEF Names, Lists
      <4>5. /\ <<"Bsexp", Len(<<Local(1), Local(2), Local(3)>>)>> \in DOMAIN Discipline
            /\ Discipline[<<"Bsexp", Len(<<Local(1), Local(2), Local(3)>>)>>].rank < Discipline[k].rank
            /\ ~Discipline[<<"Bsexp", Len(<<Local(1), Local(2), Local(3)>>)>>].scanned
        <5>1. Len(<<Local(1), Local(2), Local(3)>>) = 3
          OBVIOUS
        <5> QED
          BY <5>1, InnerRules, OuterRules DEF Rank
      <4> QED
        BY <4>1, <4>2, <4>3, <4>4, <4>5 DEF MayCall
    <3>2. StepFits(Discipline, k, Call("Bsexp", <<Local(1), Local(2), Local(3)>>, Result),
                   Pt(<<>>, TRUE, {Local(1), Local(2), Local(3)}, {}),
                   Pt(<<>>, TRUE, {Result}, {Result}))
      <4>1. Lists(Result, Result)
        BY ListsOf
      <4>2. /\ {Result} \subseteq Lasting(Discipline, k, <<>>, {Local(1), Local(2), Local(3)}) \union {Result}
            /\ {Result} \subseteq ({} \intersect Range(<<>>)) \union {Result}
        BY <4>1, NamesOf DEF Names, Lasting, Lists, Unguarded
      <4> QED
        BY <3>1, <4>2, CallRule
    <3> QED
      BY <1>1, <1>2, <3>2 DEF Leads, HasRoom, Need, Pt, Call
  <2>6. Leads(k, Ls__Infix_58[6], PLs__Infix_58[6], PLs__Infix_58[7])
    BY <1>1, <1>2
    DEF Leads, StepFits, PostFits, Post, Same, Pt, KeepsSysargs, HasRoom, Need
  <2> HIDE DEF k
  <2> QED
    BY <2>1, <2>2, <2>3, <2>4, <2>5, <2>6
<1>6. Sized(Ls__Infix_58, PLs__Infix_58, 6)
  BY DEF Sized, Ls__Infix_58, PLs__Infix_58
<1>7. EntryFits(PLs__Infix_58[1], 2) /\ ExitFits(k, PLs__Infix_58[7])
  BY <1>2, NamesOf DEF Names, EntryFits, ExitFits, Pt
<1> QED
  BY <1>4, <1>5, <1>6, <1>7, FitsRule

LEMMA Li__Infix_4343Typed ==
  LET k == <<"Li__Infix_4343", 2>>
  IN  Fits(k, Li__Infix_4343, PLi__Infix_4343)
<1> DEFINE k == <<"Li__Infix_4343", 2>>
<1>1. /\ Li__Infix_4343[1] = Use({Arg(1), Arg(2)})
      /\ Li__Infix_4343[2] = Pre
      /\ Li__Infix_4343[3] = Push(Arg(1))
      /\ Li__Infix_4343[4] = Push(Arg(2))
      /\ Li__Infix_4343[5] = Alloc
      /\ Li__Infix_4343[6] = Pop(Arg(2))
      /\ Li__Infix_4343[7] = Pop(Arg(1))
      /\ Li__Infix_4343[8] = Use({Arg(1), Arg(2), Result})
      /\ Li__Infix_4343[9] = Post
  BY DEF Li__Infix_4343
<1>2. /\ PLi__Infix_4343[1] = Pt(<<>>, FALSE, {Arg(1), Arg(2)}, {})
      /\ PLi__Infix_4343[2] = Pt(<<>>, FALSE, {Arg(1), Arg(2)}, {})
      /\ PLi__Infix_4343[3] = Pt(<<>>, TRUE, {Arg(1), Arg(2)}, {})
      /\ PLi__Infix_4343[4] = Pt(<<Arg(1)>>, TRUE, {Arg(1), Arg(2)}, {})
      /\ PLi__Infix_4343[5] = Pt(<<Arg(1), Arg(2)>>, TRUE, {Arg(1), Arg(2)}, {})
      /\ PLi__Infix_4343[6] = Pt(<<Arg(1), Arg(2)>>, TRUE, {Arg(1), Arg(2), Result}, {Result})
      /\ PLi__Infix_4343[7] = Pt(<<Arg(1)>>, TRUE, {Arg(1), Arg(2), Result}, {Result})
      /\ PLi__Infix_4343[8] = Pt(<<>>, TRUE, {Arg(1), Arg(2), Result}, {Result})
      /\ PLi__Infix_4343[9] = Pt(<<>>, TRUE, {Result}, {Result})
      /\ PLi__Infix_4343[10] = Pt(<<>>, FALSE, {Result}, {Result})
  BY DEF PLi__Infix_4343
<1>3. /\ PointGood(k, <<>>, FALSE, {Arg(1), Arg(2)}, {})
      /\ PointGood(k, <<>>, TRUE, {Arg(1), Arg(2)}, {})
      /\ PointGood(k, <<Arg(1)>>, TRUE, {Arg(1), Arg(2)}, {})
      /\ PointGood(k, <<Arg(1), Arg(2)>>, TRUE, {Arg(1), Arg(2)}, {})
      /\ PointGood(k, <<Arg(1), Arg(2)>>, TRUE, {Arg(1), Arg(2), Result}, {Result})
      /\ PointGood(k, <<Arg(1)>>, TRUE, {Arg(1), Arg(2), Result}, {Result})
      /\ PointGood(k, <<>>, TRUE, {Arg(1), Arg(2), Result}, {Result})
      /\ PointGood(k, <<>>, TRUE, {Result}, {Result})
      /\ PointGood(k, <<>>, FALSE, {Result}, {Result})
  BY NamesOf DEF Names, PointGood, Unguarded
<1>4. \A pc \in 1 .. 10 : PointIn(k, PLi__Infix_4343[pc])
  <2>1. /\ PointOk(k, PLi__Infix_4343[1])
        /\ PointOk(k, PLi__Infix_4343[2])
        /\ PointOk(k, PLi__Infix_4343[3])
        /\ PointOk(k, PLi__Infix_4343[4])
        /\ PointOk(k, PLi__Infix_4343[5])
        /\ PointOk(k, PLi__Infix_4343[6])
        /\ PointOk(k, PLi__Infix_4343[7])
        /\ PointOk(k, PLi__Infix_4343[8])
        /\ PointOk(k, PLi__Infix_4343[9])
        /\ PointOk(k, PLi__Infix_4343[10])
    BY <1>2, <1>3 DEF PointOk
  <2> HIDE DEF k
  <2> QED
    BY <2>1, PointRule
<1>5. \A pc \in 1 .. 9 : Leads(k, Li__Infix_4343[pc], PLi__Infix_4343[pc], PLi__Infix_4343[pc + 1])
  <2>1. Leads(k, Li__Infix_4343[1], PLi__Infix_4343[1], PLi__Infix_4343[2])
    BY <1>1, <1>2
    DEF Leads, StepFits, UseFits, Use, Same, Pt, KeepsSysargs, HasRoom, Need
  <2>2. Leads(k, Li__Infix_4343[2], PLi__Infix_4343[2], PLi__Infix_4343[3])
    BY <1>1, <1>2
    DEF Leads, StepFits, PreFits, Pre, Same, Pt, KeepsSysargs, HasRoom, Need
  <2>3. Leads(k, Li__Infix_4343[3], PLi__Infix_4343[3], PLi__Infix_4343[4])
    <3>1. Lists(Arg(1), Arg(1))
      BY ListsOf
    <3> QED
      BY <1>1, <1>2, <3>1
      DEF Leads, StepFits, PushFits, Push, Pt, KeepsSysargs, Lists, HasRoom, Need
  <2>4. Leads(k, Li__Infix_4343[4], PLi__Infix_4343[4], PLi__Infix_4343[5])
    <3>1. Lists(Arg(1), Arg(2))
      BY ListsOf
    <3> QED
      BY <1>1, <1>2, <3>1
      DEF Leads, StepFits, PushFits, Push, Pt, KeepsSysargs, Lists, HasRoom, Need
  <2>5. Leads(k, Li__Infix_4343[5], PLi__Infix_4343[5], PLi__Infix_4343[6])
    <3>1. StepFits(Discipline, k, Alloc, Pt(<<Arg(1), Arg(2)>>, TRUE, {Arg(1), Arg(2)}, {}),
                   Pt(<<Arg(1), Arg(2)>>, TRUE, {Arg(1), Arg(2), Result}, {Result}))
      <4>1. Lists(Arg(1), Arg(2))
        BY ListsOf
      <4> QED
        BY <4>1, NamesOf, AllocRule DEF Names, Lasting, Lists
    <3> QED
      BY <1>1, <1>2, <3>1 DEF Leads, HasRoom, Need, Pt, Alloc
  <2>6. Leads(k, Li__Infix_4343[6], PLi__Infix_4343[6], PLi__Infix_4343[7])
    <3>1. Lists(Arg(1), Arg(2))
      BY ListsOf
    <3> QED
      BY <1>1, <1>2, <3>1
      DEF Leads, StepFits, PopFits, Pop, Pt, KeepsSysargs, Lists, HasRoom, Need
  <2>7. Leads(k, Li__Infix_4343[7], PLi__Infix_4343[7], PLi__Infix_4343[8])
    <3>1. Lists(Arg(1), Arg(1))
      BY ListsOf
    <3> QED
      BY <1>1, <1>2, <3>1
      DEF Leads, StepFits, PopFits, Pop, Pt, KeepsSysargs, Lists, HasRoom, Need
  <2>8. Leads(k, Li__Infix_4343[8], PLi__Infix_4343[8], PLi__Infix_4343[9])
    BY <1>1, <1>2, Apart
    DEF Leads, StepFits, UseFits, Use, Same, Pt, KeepsSysargs, HasRoom, Need
  <2>9. Leads(k, Li__Infix_4343[9], PLi__Infix_4343[9], PLi__Infix_4343[10])
    BY <1>1, <1>2
    DEF Leads, StepFits, PostFits, Post, Same, Pt, KeepsSysargs, HasRoom, Need
  <2> HIDE DEF k
  <2> QED
    BY <2>1, <2>2, <2>3, <2>4, <2>5, <2>6, <2>7, <2>8, <2>9
<1>6. Sized(Li__Infix_4343, PLi__Infix_4343, 9)
  BY DEF Sized, Li__Infix_4343, PLi__Infix_4343
<1>7. EntryFits(PLi__Infix_4343[1], 2) /\ ExitFits(k, PLi__Infix_4343[10])
  BY <1>2, NamesOf DEF Names, EntryFits, ExitFits, Pt
<1> QED
  BY <1>4, <1>5, <1>6, <1>7, FitsRule

LEMMA LgetEnvTyped ==
  LET k == <<"LgetEnv", 1>>
  IN  Fits(k, LgetEnv, PLgetEnv)
<1> DEFINE k == <<"LgetEnv", 1>>
<1>1. /\ LgetEnv[1] = Set("c_pointer", Local(1))
      /\ LgetEnv[2] = Pre
      /\ LgetEnv[3] = Call("Bstring", <<Local(1)>>, Result)
      /\ LgetEnv[4] = Post
  BY DEF LgetEnv
<1>2. /\ PLgetEnv[1] = Pt(<<>>, FALSE, {}, {})
      /\ PLgetEnv[2] = Pt(<<>>, FALSE, {Local(1)}, {})
      /\ PLgetEnv[3] = Pt(<<>>, TRUE, {Local(1)}, {})
      /\ PLgetEnv[4] = Pt(<<>>, TRUE, {Result}, {Result})
      /\ PLgetEnv[5] = Pt(<<>>, FALSE, {Result}, {Result})
  BY DEF PLgetEnv
<1>3. /\ PointGood(k, <<>>, FALSE, {}, {})
      /\ PointGood(k, <<>>, FALSE, {Local(1)}, {})
      /\ PointGood(k, <<>>, TRUE, {Local(1)}, {})
      /\ PointGood(k, <<>>, TRUE, {Result}, {Result})
      /\ PointGood(k, <<>>, FALSE, {Result}, {Result})
  BY NamesOf DEF Names, PointGood, Unguarded
<1>4. \A pc \in 1 .. 5 : PointIn(k, PLgetEnv[pc])
  <2>1. /\ PointOk(k, PLgetEnv[1])
        /\ PointOk(k, PLgetEnv[2])
        /\ PointOk(k, PLgetEnv[3])
        /\ PointOk(k, PLgetEnv[4])
        /\ PointOk(k, PLgetEnv[5])
    BY <1>2, <1>3 DEF PointOk
  <2> HIDE DEF k
  <2> QED
    BY <2>1, PointRule
<1>5. \A pc \in 1 .. 4 : Leads(k, LgetEnv[pc], PLgetEnv[pc], PLgetEnv[pc + 1])
  <2>1. Leads(k, LgetEnv[1], PLgetEnv[1], PLgetEnv[2])
    BY <1>1, <1>2, NamesOf, Apart
    DEF Leads, StepFits, SetFits, Set, Pt, KeepsSysargs, Names, LamaValues, HasRoom, Need
  <2>2. Leads(k, LgetEnv[2], PLgetEnv[2], PLgetEnv[3])
    BY <1>1, <1>2
    DEF Leads, StepFits, PreFits, Pre, Same, Pt, KeepsSysargs, HasRoom, Need
  <2>3. Leads(k, LgetEnv[3], PLgetEnv[3], PLgetEnv[4])
    <3>1. MayCall(Discipline, k, <<>>, TRUE, {Local(1)}, "Bstring", <<Local(1)>>, Result)
      <4>1. TRUE \/ k[1] \in Unguarded
        BY DEF Unguarded
      <4>2. Sysargs \notin {Local(1)}
        BY NamesOf DEF Names
      <4>3. <<Local(1)>> \in Seq({Local(1)} \intersect (ArgSet(1, 1) \union Locals))
        BY NamesOf DEF Names
      <4>4. Result \in Locals \ Range(<<>>)
        <5>1. Lists(Result, Result)
          BY ListsOf
        <5> QED
          BY <5>1, NamesOf DEF Names, Lists
      <4>5. /\ <<"Bstring", Len(<<Local(1)>>)>> \in DOMAIN Discipline
            /\ Discipline[<<"Bstring", Len(<<Local(1)>>)>>].rank < Discipline[k].rank
            /\ ~Discipline[<<"Bstring", Len(<<Local(1)>>)>>].scanned
        <5>1. Len(<<Local(1)>>) = 1
          OBVIOUS
        <5> QED
          BY <5>1, InnerRules, OuterRules DEF Rank
      <4> QED
        BY <4>1, <4>2, <4>3, <4>4, <4>5 DEF MayCall
    <3>2. StepFits(Discipline, k, Call("Bstring", <<Local(1)>>, Result),
                   Pt(<<>>, TRUE, {Local(1)}, {}),
                   Pt(<<>>, TRUE, {Result}, {Result}))
      <4>1. Lists(Result, Result)
        BY ListsOf
      <4>2. /\ {Result} \subseteq Lasting(Discipline, k, <<>>, {Local(1)}) \union {Result}
            /\ {Result} \subseteq ({} \intersect Range(<<>>)) \union {Result}
        BY <4>1, NamesOf DEF Names, Lasting, Lists, Unguarded
      <4> QED
        BY <3>1, <4>2, CallRule
    <3> QED
      BY <1>1, <1>2, <3>2 DEF Leads, HasRoom, Need, Pt, Call
  <2>4. Leads(k, LgetEnv[4], PLgetEnv[4], PLgetEnv[5])
    BY <1>1, <1>2
    DEF Leads, StepFits, PostFits, Post, Same, Pt, KeepsSysargs, HasRoom, Need
  <2> HIDE DEF k
  <2> QED
    BY <2>1, <2>2, <2>3, <2>4
<1>6. Sized(LgetEnv, PLgetEnv, 4)
  BY DEF Sized, LgetEnv, PLgetEnv
<1>7. EntryFits(PLgetEnv[1], 1) /\ ExitFits(k, PLgetEnv[5])
  BY <1>2, NamesOf DEF Names, EntryFits, ExitFits, Pt
<1> QED
  BY <1>4, <1>5, <1>6, <1>7, FitsRule

LEMMA BsprintfTyped ==
  LET k == <<"Bsprintf", 1>>
  IN  Fits(k, Bsprintf, PBsprintf)
<1> DEFINE k == <<"Bsprintf", 1>>
<1>1. /\ Bsprintf[1] = Copy(Arg(1), Local(1))
      /\ Bsprintf[2] = Use({Local(1)})
      /\ Bsprintf[3] = Pre
      /\ Bsprintf[4] = Push(Local(1))
      /\ Bsprintf[5] = Set("c_pointer", Local(2))
      /\ Bsprintf[6] = Call("Bstring", <<Local(2)>>, Result)
      /\ Bsprintf[7] = Pop(Local(1))
      /\ Bsprintf[8] = Post
  BY DEF Bsprintf
<1>2. /\ PBsprintf[1] = Pt(<<>>, FALSE, {Arg(1)}, {})
      /\ PBsprintf[2] = Pt(<<>>, FALSE, {Local(1)}, {})
      /\ PBsprintf[3] = Pt(<<>>, FALSE, {Local(1)}, {})
      /\ PBsprintf[4] = Pt(<<>>, TRUE, {Local(1)}, {})
      /\ PBsprintf[5] = Pt(<<Local(1)>>, TRUE, {Local(1)}, {})
      /\ PBsprintf[6] = Pt(<<Local(1)>>, TRUE, {Local(1), Local(2)}, {})
      /\ PBsprintf[7] = Pt(<<Local(1)>>, TRUE, {Local(1), Result}, {Result})
      /\ PBsprintf[8] = Pt(<<>>, TRUE, {Result}, {Result})
      /\ PBsprintf[9] = Pt(<<>>, FALSE, {Result}, {Result})
  BY DEF PBsprintf
<1>3. /\ PointGood(k, <<>>, FALSE, {Arg(1)}, {})
      /\ PointGood(k, <<>>, FALSE, {Local(1)}, {})
      /\ PointGood(k, <<>>, TRUE, {Local(1)}, {})
      /\ PointGood(k, <<Local(1)>>, TRUE, {Local(1)}, {})
      /\ PointGood(k, <<Local(1)>>, TRUE, {Local(1), Local(2)}, {})
      /\ PointGood(k, <<Local(1)>>, TRUE, {Local(1), Result}, {Result})
      /\ PointGood(k, <<>>, TRUE, {Result}, {Result})
      /\ PointGood(k, <<>>, FALSE, {Result}, {Result})
  BY NamesOf DEF Names, PointGood, Unguarded
<1>4. \A pc \in 1 .. 9 : PointIn(k, PBsprintf[pc])
  <2>1. /\ PointOk(k, PBsprintf[1])
        /\ PointOk(k, PBsprintf[2])
        /\ PointOk(k, PBsprintf[3])
        /\ PointOk(k, PBsprintf[4])
        /\ PointOk(k, PBsprintf[5])
        /\ PointOk(k, PBsprintf[6])
        /\ PointOk(k, PBsprintf[7])
        /\ PointOk(k, PBsprintf[8])
        /\ PointOk(k, PBsprintf[9])
    BY <1>2, <1>3 DEF PointOk
  <2> HIDE DEF k
  <2> QED
    BY <2>1, PointRule
<1>5. \A pc \in 1 .. 8 : Leads(k, Bsprintf[pc], PBsprintf[pc], PBsprintf[pc + 1])
  <2>1. Leads(k, Bsprintf[1], PBsprintf[1], PBsprintf[2])
    BY <1>1, <1>2, NamesOf, Apart
    DEF Leads, StepFits, CopyFits, Copy, Pt, KeepsSysargs, Names, HasRoom, Need
  <2>2. Leads(k, Bsprintf[2], PBsprintf[2], PBsprintf[3])
    BY <1>1, <1>2
    DEF Leads, StepFits, UseFits, Use, Same, Pt, KeepsSysargs, HasRoom, Need
  <2>3. Leads(k, Bsprintf[3], PBsprintf[3], PBsprintf[4])
    BY <1>1, <1>2
    DEF Leads, StepFits, PreFits, Pre, Same, Pt, KeepsSysargs, HasRoom, Need
  <2>4. Leads(k, Bsprintf[4], PBsprintf[4], PBsprintf[5])
    <3>1. Lists(Local(1), Local(1))
      BY ListsOf
    <3> QED
      BY <1>1, <1>2, <3>1
      DEF Leads, StepFits, PushFits, Push, Pt, KeepsSysargs, Lists, HasRoom, Need
  <2>5. Leads(k, Bsprintf[5], PBsprintf[5], PBsprintf[6])
    BY <1>1, <1>2, NamesOf, Apart
    DEF Leads, StepFits, SetFits, Set, Pt, KeepsSysargs, Names, LamaValues, HasRoom, Need
  <2>6. Leads(k, Bsprintf[6], PBsprintf[6], PBsprintf[7])
    <3>1. MayCall(Discipline, k, <<Local(1)>>, TRUE, {Local(1), Local(2)}, "Bstring", <<Local(2)>>, Result)
      <4>1. TRUE \/ k[1] \in Unguarded
        BY DEF Unguarded
      <4>2. Sysargs \notin {Local(1), Local(2)}
        BY NamesOf DEF Names
      <4>3. <<Local(2)>> \in Seq({Local(1), Local(2)} \intersect (ArgSet(1, 1) \union Locals))
        BY NamesOf DEF Names
      <4>4. Result \in Locals \ Range(<<Local(1)>>)
        <5>1. Lists(Local(1), Local(1))
          BY ListsOf
        <5> QED
          BY <5>1, NamesOf DEF Names, Lists
      <4>5. /\ <<"Bstring", Len(<<Local(2)>>)>> \in DOMAIN Discipline
            /\ Discipline[<<"Bstring", Len(<<Local(2)>>)>>].rank < Discipline[k].rank
            /\ ~Discipline[<<"Bstring", Len(<<Local(2)>>)>>].scanned
        <5>1. Len(<<Local(2)>>) = 1
          OBVIOUS
        <5> QED
          BY <5>1, InnerRules, OuterRules DEF Rank
      <4> QED
        BY <4>1, <4>2, <4>3, <4>4, <4>5 DEF MayCall
    <3>2. StepFits(Discipline, k, Call("Bstring", <<Local(2)>>, Result),
                   Pt(<<Local(1)>>, TRUE, {Local(1), Local(2)}, {}),
                   Pt(<<Local(1)>>, TRUE, {Local(1), Result}, {Result}))
      <4>1. Lists(Local(1), Local(1))
        BY ListsOf
      <4>2. /\ {Local(1), Result} \subseteq Lasting(Discipline, k, <<Local(1)>>, {Local(1), Local(2)}) \union {Result}
            /\ {Result} \subseteq ({} \intersect Range(<<Local(1)>>)) \union {Result}
        BY <4>1, NamesOf DEF Names, Lasting, Lists, Unguarded
      <4> QED
        BY <3>1, <4>2, CallRule
    <3> QED
      BY <1>1, <1>2, <3>2 DEF Leads, HasRoom, Need, Pt, Call
  <2>7. Leads(k, Bsprintf[7], PBsprintf[7], PBsprintf[8])
    <3>1. Lists(Local(1), Local(1))
      BY ListsOf
    <3> QED
      BY <1>1, <1>2, Apart, <3>1
      DEF Leads, StepFits, PopFits, Pop, Pt, KeepsSysargs, Lists, HasRoom, Need
  <2>8. Leads(k, Bsprintf[8], PBsprintf[8], PBsprintf[9])
    BY <1>1, <1>2
    DEF Leads, StepFits, PostFits, Post, Same, Pt, KeepsSysargs, HasRoom, Need
  <2> HIDE DEF k
  <2> QED
    BY <2>1, <2>2, <2>3, <2>4, <2>5, <2>6, <2>7, <2>8
<1>6. Sized(Bsprintf, PBsprintf, 8)
  BY DEF Sized, Bsprintf, PBsprintf
<1>7. EntryFits(PBsprintf[1], 1) /\ ExitFits(k, PBsprintf[9])
  BY <1>2, NamesOf DEF Names, EntryFits, ExitFits, Pt
<1> QED
  BY <1>4, <1>5, <1>6, <1>7, FitsRule

LEMMA LreadLineTyped ==
  LET k == <<"LreadLine", 0>>
  IN  Fits(k, LreadLine, PLreadLine)
<1> DEFINE k == <<"LreadLine", 0>>
<1>1. /\ LreadLine[1] = Set("c_pointer", Local(1))
      /\ LreadLine[2] = Call("Bstring", <<Local(1)>>, Result)
  BY DEF LreadLine
<1>2. /\ PLreadLine[1] = Pt(<<>>, FALSE, {}, {})
      /\ PLreadLine[2] = Pt(<<>>, FALSE, {Local(1)}, {})
      /\ PLreadLine[3] = Pt(<<>>, FALSE, {Result}, {Result})
  BY DEF PLreadLine
<1>3. /\ PointGood(k, <<>>, FALSE, {}, {})
      /\ PointGood(k, <<>>, FALSE, {Local(1)}, {})
      /\ PointGood(k, <<>>, FALSE, {Result}, {Result})
  BY NamesOf DEF Names, PointGood, Unguarded
<1>4. \A pc \in 1 .. 3 : PointIn(k, PLreadLine[pc])
  <2>1. /\ PointOk(k, PLreadLine[1])
        /\ PointOk(k, PLreadLine[2])
        /\ PointOk(k, PLreadLine[3])
    BY <1>2, <1>3 DEF PointOk
  <2> HIDE DEF k
  <2> QED
    BY <2>1, PointRule
<1>5. \A pc \in 1 .. 2 : Leads(k, LreadLine[pc], PLreadLine[pc], PLreadLine[pc + 1])
  <2>1. Leads(k, LreadLine[1], PLreadLine[1], PLreadLine[2])
    BY <1>1, <1>2, NamesOf, Apart
    DEF Leads, StepFits, SetFits, Set, Pt, KeepsSysargs, Names, LamaValues, HasRoom, Need
  <2>2. Leads(k, LreadLine[2], PLreadLine[2], PLreadLine[3])
    <3>1. MayCall(Discipline, k, <<>>, FALSE, {Local(1)}, "Bstring", <<Local(1)>>, Result)
      <4>1. k[1] \in Unguarded
        BY DEF Unguarded
      <4>2. Sysargs \notin {Local(1)}
        BY NamesOf DEF Names
      <4>3. <<Local(1)>> \in Seq({Local(1)} \intersect (ArgSet(1, 0) \union Locals))
        BY NamesOf DEF Names
      <4>4. Result \in Locals \ Range(<<>>)
        <5>1. Lists(Result, Result)
          BY ListsOf
        <5> QED
          BY <5>1, NamesOf DEF Names, Lists
      <4>5. /\ <<"Bstring", Len(<<Local(1)>>)>> \in DOMAIN Discipline
            /\ Discipline[<<"Bstring", Len(<<Local(1)>>)>>].rank < Discipline[k].rank
            /\ ~Discipline[<<"Bstring", Len(<<Local(1)>>)>>].scanned
        <5>1. Len(<<Local(1)>>) = 1
          OBVIOUS
        <5> QED
          BY <5>1, InnerRules, OuterRules DEF Rank
      <4> QED
        BY <4>1, <4>2, <4>3, <4>4, <4>5 DEF MayCall
    <3>2. StepFits(Discipline, k, Call("Bstring", <<Local(1)>>, Result),
                   Pt(<<>>, FALSE, {Local(1)}, {}),
                   Pt(<<>>, FALSE, {Result}, {Result}))
      <4>1. Lists(Result, Result)
        BY ListsOf
      <4>2. /\ {Result} \subseteq Lasting(Discipline, k, <<>>, {Local(1)}) \union {Result}
            /\ {Result} \subseteq ({} \intersect Range(<<>>)) \union {Result}
        BY <4>1, NamesOf DEF Names, Lasting, Lists, Unguarded
      <4> QED
        BY <3>1, <4>2, CallRule
    <3> QED
      BY <1>1, <1>2, <3>2 DEF Leads, HasRoom, Need, Pt, Call
  <2> HIDE DEF k
  <2> QED
    BY <2>1, <2>2
<1>6. Sized(LreadLine, PLreadLine, 2)
  BY DEF Sized, LreadLine, PLreadLine
<1>7. EntryFits(PLreadLine[1], 0) /\ ExitFits(k, PLreadLine[3])
  BY <1>2, NamesOf DEF Names, EntryFits, ExitFits, Pt
<1> QED
  BY <1>4, <1>5, <1>6, <1>7, FitsRule

LEMMA LfreadTyped ==
  LET k == <<"Lfread", 1>>
  IN  Fits(k, Lfread, PLfread)
<1> DEFINE k == <<"Lfread", 1>>
<1>1. /\ Lfread[1] = Copy(Arg(1), Local(1))
      /\ Lfread[2] = Use({Local(1)})
      /\ Lfread[3] = Call("LmakeString", <<>>, Result)
      /\ Lfread[4] = Use({Result, Local(1)})
  BY DEF Lfread
<1>2. /\ PLfread[1] = Pt(<<>>, FALSE, {Arg(1)}, {})
      /\ PLfread[2] = Pt(<<>>, FALSE, {Local(1)}, {})
      /\ PLfread[3] = Pt(<<>>, FALSE, {Local(1)}, {})
      /\ PLfread[4] = Pt(<<>>, FALSE, {Local(1), Result}, {Result})
      /\ PLfread[5] = Pt(<<>>, FALSE, {Result}, {Result})
  BY DEF PLfread
<1>3. /\ PointGood(k, <<>>, FALSE, {Arg(1)}, {})
      /\ PointGood(k, <<>>, FALSE, {Local(1)}, {})
      /\ PointGood(k, <<>>, FALSE, {Local(1), Result}, {Result})
      /\ PointGood(k, <<>>, FALSE, {Result}, {Result})
  BY NamesOf DEF Names, PointGood, Unguarded
<1>4. \A pc \in 1 .. 5 : PointIn(k, PLfread[pc])
  <2>1. /\ PointOk(k, PLfread[1])
        /\ PointOk(k, PLfread[2])
        /\ PointOk(k, PLfread[3])
        /\ PointOk(k, PLfread[4])
        /\ PointOk(k, PLfread[5])
    BY <1>2, <1>3 DEF PointOk
  <2> HIDE DEF k
  <2> QED
    BY <2>1, PointRule
<1>5. \A pc \in 1 .. 4 : Leads(k, Lfread[pc], PLfread[pc], PLfread[pc + 1])
  <2>1. Leads(k, Lfread[1], PLfread[1], PLfread[2])
    BY <1>1, <1>2, NamesOf, Apart
    DEF Leads, StepFits, CopyFits, Copy, Pt, KeepsSysargs, Names, HasRoom, Need
  <2>2. Leads(k, Lfread[2], PLfread[2], PLfread[3])
    BY <1>1, <1>2
    DEF Leads, StepFits, UseFits, Use, Same, Pt, KeepsSysargs, HasRoom, Need
  <2>3. Leads(k, Lfread[3], PLfread[3], PLfread[4])
    <3>1. MayCall(Discipline, k, <<>>, FALSE, {Local(1)}, "LmakeString", <<>>, Result)
      <4>1. k[1] \in Unguarded
        BY DEF Unguarded
      <4>2. Sysargs \notin {Local(1)}
        BY NamesOf DEF Names
      <4>3. <<>> \in Seq({Local(1)} \intersect (ArgSet(1, 1) \union Locals))
        BY NamesOf DEF Names
      <4>4. Result \in Locals \ Range(<<>>)
        <5>1. Lists(Result, Result)
          BY ListsOf
        <5> QED
          BY <5>1, NamesOf DEF Names, Lists
      <4>5. /\ <<"LmakeString", Len(<<>>)>> \in DOMAIN Discipline
            /\ Discipline[<<"LmakeString", Len(<<>>)>>].rank < Discipline[k].rank
            /\ ~Discipline[<<"LmakeString", Len(<<>>)>>].scanned
        <5>1. Len(<<>>) = 0
          OBVIOUS
        <5> QED
          BY <5>1, InnerRules, OuterRules DEF Rank
      <4> QED
        BY <4>1, <4>2, <4>3, <4>4, <4>5 DEF MayCall
    <3>2. StepFits(Discipline, k, Call("LmakeString", <<>>, Result),
                   Pt(<<>>, FALSE, {Local(1)}, {}),
                   Pt(<<>>, FALSE, {Local(1), Result}, {Result}))
      <4>1. Lists(Result, Result)
        BY ListsOf
      <4>2. /\ {Local(1), Result} \subseteq Lasting(Discipline, k, <<>>, {Local(1)}) \union {Result}
            /\ {Result} \subseteq ({} \intersect Range(<<>>)) \union {Result}
        BY <4>1, NamesOf DEF Names, Lasting, Lists, Unguarded
      <4> QED
        BY <3>1, <4>2, CallRule
    <3> QED
      BY <1>1, <1>2, <3>2 DEF Leads, HasRoom, Need, Pt, Call
  <2>4. Leads(k, Lfread[4], PLfread[4], PLfread[5])
    BY <1>1, <1>2, Apart
    DEF Leads, StepFits, UseFits, Use, Same, Pt, KeepsSysargs, HasRoom, Need
  <2> HIDE DEF k
  <2> QED
    BY <2>1, <2>2, <2>3, <2>4
<1>6. Sized(Lfread, PLfread, 4)
  BY DEF Sized, Lfread, PLfread
<1>7. EntryFits(PLfread[1], 1) /\ ExitFits(k, PLfread[5])
  BY <1>2, NamesOf DEF Names, EntryFits, ExitFits, Pt
<1> QED
  BY <1>4, <1>5, <1>6, <1>7, FitsRule

IsLiteral(body, first, z) ==
  body = <<Pre>> \o PushArgs(first, first + z - 1)
           \o <<Alloc, Use(ArgSet(first, first + z - 1) \union {Result})>>
           \o PopArgs(first, first + z - 1) \o <<Post>>

LiteralSteps(body, first, z) ==
  /\ Len(body) = 2 * z + 4
  /\ body[1] = Pre
  /\ \A i \in 1 .. z : body[i + 1] = Push(Arg(first + i - 1))
  /\ body[z + 2] = Alloc
  /\ body[z + 3] = Use(ArgSet(first, first + z - 1) \union {Result})
  /\ \A i \in 1 .. z : body[z + 3 + i] = Pop(Arg(first + z - i))
  /\ body[2 * z + 4] = Post

LEMMA LiteralBody ==
  ASSUME NEW first \in 1 .. 2, NEW z \in Nat, NEW body, IsLiteral(body, first, z)
  PROVE  LiteralSteps(body, first, z)
<1> DEFINE u == Use(ArgSet(first, first + z - 1) \union {Result})
           push == PushArgs(first, first + z - 1)
           pop == PopArgs(first, first + z - 1)
           all == {Pre, Alloc, u, Post} \union {push[i] : i \in 1 .. z} \union {pop[i] : i \in 1 .. z}
<1>1. push = [i \in 1 .. z |-> Push(Arg(first + i - 1))]
  BY DEF PushArgs
<1>2. pop = [i \in 1 .. z |-> Pop(Arg(first + z - i))]
  BY DEF PopArgs
<1>3. /\ {Pre, Alloc, u, Post} \subseteq all
      /\ \A i \in 1 .. z : push[i] \in all /\ pop[i] \in all
  OBVIOUS
<1>4. /\ push = [i \in 1 .. z |-> push[i]] /\ pop = [i \in 1 .. z |-> pop[i]]
  BY <1>1, <1>2
<1>5. \A i \in 1 .. z : push[i] = Push(Arg(first + i - 1)) /\ pop[i] = Pop(Arg(first + z - i))
  BY <1>1, <1>2
<1>6. body = <<Pre>> \o push \o <<Alloc, u>> \o pop \o <<Post>>
  BY DEF IsLiteral
<1> HIDE DEF u, push, pop, all
<1>7. /\ push \in Seq(all) /\ Len(push) = z
      /\ pop \in Seq(all) /\ Len(pop) = z
  BY <1>3, <1>4, Listed
<1>8. <<Pre>> \in Seq(all) /\ <<Alloc, u>> \in Seq(all) /\ <<Post>> \in Seq(all)
  BY <1>3
<1> DEFINE b1 == <<Pre>> \o push
           b2 == b1 \o <<Alloc, u>>
           b3 == b2 \o pop
<1>9. b1 \in Seq(all) /\ Joined(<<Pre>>, push, 1, z)
  BY <1>7, <1>8, Joins
<1>10. /\ Len(b1) = 1 + z /\ b1[1] = Pre /\ \A i \in 1 .. z : b1[1 + i] = push[i]
  BY <1>9 DEF Joined
<1> HIDE DEF b1
<1>11. b2 \in Seq(all) /\ Joined(b1, <<Alloc, u>>, 1 + z, 2)
  <2>1. Len(<<Alloc, u>>) = 2 /\ 1 + z \in Nat
    OBVIOUS
  <2> QED
    BY <1>8, <1>9, <1>10, <2>1, Joins
<1>12. /\ Len(b2) = 1 + z + 2 /\ \A i \in 1 .. 1 + z : b2[i] = b1[i]
       /\ b2[1 + z + 1] = Alloc /\ b2[1 + z + 2] = u
  BY <1>11 DEF Joined
<1> HIDE DEF b2
<1>13. b3 \in Seq(all) /\ Joined(b2, pop, 1 + z + 2, z)
  BY <1>7, <1>11, <1>12, Joins
<1>14. /\ Len(b3) = 1 + z + 2 + z /\ \A i \in 1 .. 1 + z + 2 : b3[i] = b2[i]
       /\ \A j \in 1 .. z : b3[1 + z + 2 + j] = pop[j]
  BY <1>13 DEF Joined
<1> HIDE DEF b3
<1>15. b3 \o <<Post>> \in Seq(all) /\ Joined(b3, <<Post>>, 1 + z + 2 + z, 1)
  <2>1. Len(<<Post>>) = 1 /\ 1 + z + 2 + z \in Nat
    OBVIOUS
  <2> QED
    BY <1>8, <1>13, <1>14, <2>1, Joins
<1>16. body = b3 \o <<Post>>
  BY <1>6 DEF b3, b2, b1
<1>17. /\ Len(body) = 1 + z + 2 + z + 1 /\ \A i \in 1 .. 1 + z + 2 + z : body[i] = b3[i]
       /\ body[1 + z + 2 + z + 1] = Post
  <2>1. 1 \in 1 .. 1 /\ <<Post>>[1] = Post
    OBVIOUS
  <2>2. b3 \o <<Post>> = body
    BY <1>16
  <2> HIDE <1>6, <1>16
  <2>3. /\ Len(body) = 1 + z + 2 + z + 1
        /\ \A i \in 1 .. 1 + z + 2 + z : body[i] = b3[i]
        /\ \A j \in 1 .. 1 : body[1 + z + 2 + z + j] = <<Post>>[j]
    BY <1>15, <2>2 DEF Joined
  <2> QED
    BY <2>1, <2>3
<1>18. /\ Len(body) = 2 * z + 4 /\ body[2 * z + 4] = Post
  <2>1. 1 + z + 2 + z + 1 = 2 * z + 4
    OBVIOUS
  <2> QED
    BY <1>17, <2>1
<1>19. \A i \in 1 .. 1 + z + 2 : body[i] = b2[i]
  <2>1. \A i \in 1 .. 1 + z + 2 : i \in 1 .. 1 + z + 2 + z
    OBVIOUS
  <2> QED
    BY <1>14, <1>17, <2>1
<1>20. \A i \in 1 .. 1 + z : body[i] = b1[i]
  <2>1. \A i \in 1 .. 1 + z : i \in 1 .. 1 + z + 2
    OBVIOUS
  <2> QED
    BY <1>12, <1>19, <2>1
<1>21. body[1] = Pre
  BY <1>10, <1>20
<1>22. \A i \in 1 .. z : body[i + 1] = push[i]
  <2>1. \A i \in 1 .. z : 1 + i \in 1 .. 1 + z /\ i + 1 = 1 + i
    OBVIOUS
  <2> QED
    BY <1>10, <1>20, <2>1
<1>23. body[z + 2] = Alloc /\ body[z + 3] = u
  <2>1. /\ 1 + z + 1 = z + 2 /\ 1 + z + 2 = z + 3
        /\ z + 2 \in 1 .. 1 + z + 2 /\ z + 3 \in 1 .. 1 + z + 2
    OBVIOUS
  <2> QED
    BY <1>12, <1>19, <2>1
<1>24. \A j \in 1 .. z : body[z + 3 + j] = pop[j]
  <2>1. \A j \in 1 .. z : 1 + z + 2 + j = z + 3 + j /\ z + 3 + j \in 1 .. 1 + z + 2 + z
    OBVIOUS
  <2> QED
    BY <1>14, <1>17, <2>1
<1> QED
  BY <1>5, <1>18, <1>21, <1>22, <1>23, <1>24 DEF LiteralSteps, u

\* The pool grows and shrinks by one argument.
HeldOf(first, r, l) ==
  /\ Held(first, r) \in Seq(l) /\ Len(Held(first, r)) = r
  /\ Range(Held(first, r)) = ArgSet(first, first + r - 1)
  /\ r > 0 => Held(first, r) = Append(Held(first, r - 1), Arg(first + r - 1))

LEMMA HeldGrows ==
  ASSUME NEW first \in 1 .. 2, NEW r \in Nat, NEW l, ArgSet(first, first + r - 1) \subseteq l
  PROVE  HeldOf(first, r, l)
<1>1. Held(first, r) = [i \in 1 .. r |-> Arg(first + i - 1)]
  BY DEF Held
<1>2. \A i \in 1 .. r : Held(first, r)[i] = Arg(first + i - 1) /\ first + i - 1 \in first .. first + r - 1
  BY <1>1
<1>3. \A i \in 1 .. r : Held(first, r)[i] \in ArgSet(first, first + r - 1)
  BY <1>2 DEF ArgSet
<1>4. /\ Held(first, r) \in Seq(ArgSet(first, first + r - 1)) /\ Len(Held(first, r)) = r
      /\ Held(first, r) \in Seq(l)
  <2>1. Held(first, r) = [i \in 1 .. r |-> Held(first, r)[i]]
    BY <1>1
  <2>2. \A i \in 1 .. r : Held(first, r)[i] \in l
    BY <1>3
  <2> QED
    BY <1>3, <2>1, <2>2, Listed
<1>5. Range(Held(first, r)) = ArgSet(first, first + r - 1)
  <2>1. Range(Held(first, r)) = {Held(first, r)[i] : i \in 1 .. r}
    BY <1>1 DEF Range
  <2>2. ASSUME NEW c \in ArgSet(first, first + r - 1)
        PROVE  \E i \in 1 .. r : Held(first, r)[i] = c
    <3>1. PICK j \in first .. first + r - 1 : c = Arg(j)
      BY DEF ArgSet
    <3>2. j - first + 1 \in 1 .. r /\ first + (j - first + 1) - 1 = j
      OBVIOUS
    <3> QED
      BY <1>2, <3>1, <3>2
  <2> QED
    BY <1>3, <2>1, <2>2
<1>6. ASSUME r > 0
      PROVE  Held(first, r) = Append(Held(first, r - 1), Arg(first + r - 1))
  <2> DEFINE s == Held(first, r - 1)
             a == Arg(first + r - 1)
             S == ArgSet(first, first + r - 1)
  <2>1. s = [i \in 1 .. r - 1 |-> Arg(first + i - 1)]
    BY DEF Held
  <2>2. \A i \in 1 .. r - 1 : s[i] = Held(first, r)[i] /\ s[i] \in S
    BY <1>2, <1>3, <2>1, SMTT(30)
  <2>3. r - 1 \in Nat
    BY <1>6
  <2>4. s \in Seq(S) /\ Len(s) = r - 1
    BY <2>1, <2>2, <2>3
  <2>5. Held(first, r)[r] = a /\ a \in S
    BY <1>2, <1>3, <1>6
  <2> HIDE DEF s, a, S
  <2>6. /\ Append(s, a) \in Seq(S) /\ Len(Append(s, a)) = r
        /\ \A i \in 1 .. r - 1 : Append(s, a)[i] = s[i]
        /\ Append(s, a)[r] = a
    BY <2>4, <2>5, AppendProperties
  <2>7. \A i \in 1 .. r : Held(first, r)[i] = Append(s, a)[i]
    BY <2>2, <2>5, <2>6
  <2>8. Held(first, r) \in Seq(S)
    BY <1>4 DEF S
  <2> QED
    BY <1>4, <2>6, <2>7, <2>8, SeqEqual DEF s, a
<1> QED
  BY <1>4, <1>5, <1>6 DEF HeldOf

LiteralAt(L, n, first, z) ==
  /\ L = [pc \in 1 .. 2 * z + 5 |-> L[pc]] /\ Len(L) = 2 * z + 5
  /\ L[1] = Pt(<<>>, FALSE, ArgSet(1, n), {})
  /\ \A i \in 0 .. z : L[i + 2] = Pushing(n, first, i)
  /\ \A i \in 0 .. z : L[z + 4 + i] = Popping(first, z, z - i)
  /\ L[z + 3] = Popping(first, z, z)
  /\ L[2 * z + 5] = Pt(<<>>, FALSE, {Result}, {Result})

LEMMA LiteralPoints ==
  ASSUME NEW n, NEW first, NEW z \in Nat
  PROVE  LiteralAt(Literal(n, first, z), n, first, z)
<1> DEFINE L == Literal(n, first, z)
<1>1. L = [pc \in 1 .. 2 * z + 5 |->
             IF pc = 1 THEN Pt(<<>>, FALSE, ArgSet(1, n), {})
             ELSE IF pc <= z + 2 THEN Pushing(n, first, pc - 2)
             ELSE IF pc = z + 3 THEN Popping(first, z, z)
             ELSE IF pc <= 2 * z + 4 THEN Popping(first, z, 2 * z + 4 - pc)
             ELSE Pt(<<>>, FALSE, {Result}, {Result})]
  BY DEF Literal
<1> HIDE DEF L
<1>2. Len(L) = 2 * z + 5
  <2>1. 2 * z + 5 \in Nat
    OBVIOUS
  <2> QED
    BY <1>1, <2>1
<1>3. L = [pc \in 1 .. 2 * z + 5 |-> L[pc]]
  BY <1>1
<1>4. L[1] = Pt(<<>>, FALSE, ArgSet(1, n), {})
  <2>1. 1 \in 1 .. 2 * z + 5
    OBVIOUS
  <2> QED
    BY <1>1, <2>1
<1>5. \A i \in 0 .. z : L[i + 2] = Pushing(n, first, i)
  <2> TAKE i \in 0 .. z
  <2>1. i + 2 \in 1 .. 2 * z + 5 /\ i + 2 # 1 /\ i + 2 <= z + 2 /\ i + 2 - 2 = i
    OBVIOUS
  <2>2. L[i + 2] = Pushing(n, first, i + 2 - 2)
    BY <1>1, <2>1
  <2> QED
    BY <2>1, <2>2
<1>6. \A i \in 0 .. z : L[z + 4 + i] = Popping(first, z, z - i)
  <2> TAKE i \in 0 .. z
  <2>1. /\ z + 4 + i \in 1 .. 2 * z + 5 /\ z + 4 + i # 1 /\ ~(z + 4 + i <= z + 2)
        /\ z + 4 + i # z + 3 /\ z + 4 + i <= 2 * z + 4 /\ 2 * z + 4 - (z + 4 + i) = z - i
    OBVIOUS
  <2>2. L[z + 4 + i] = Popping(first, z, 2 * z + 4 - (z + 4 + i))
    BY <1>1, <2>1
  <2> QED
    BY <2>1, <2>2
<1>7. L[z + 3] = Popping(first, z, z)
  <2>1. z + 3 \in 1 .. 2 * z + 5 /\ z + 3 # 1 /\ ~(z + 3 <= z + 2)
    OBVIOUS
  <2> QED
    BY <1>1, <2>1
<1>8. L[2 * z + 5] = Pt(<<>>, FALSE, {Result}, {Result})
  <2>1. /\ 2 * z + 5 \in 1 .. 2 * z + 5 /\ 2 * z + 5 # 1 /\ ~(2 * z + 5 <= z + 2)
        /\ 2 * z + 5 # z + 3 /\ ~(2 * z + 5 <= 2 * z + 4)
    OBVIOUS
  <2> QED
    BY <1>1, <2>1
<1> QED
  BY <1>2, <1>3, <1>4, <1>5, <1>6, <1>7, <1>8 DEF LiteralAt, L

LEMMA LiteralTyped ==
  ASSUME NEW k, NEW n \in Nat, k[2] = n, k[1] \notin Unguarded \union {"set_args"},
         NEW first \in 1 .. 2, NEW z \in Nat, first + z - 1 <= n, Need(k) = z,
         NEW body, LiteralSteps(body, first, z)
  PROVE  Fits(k, body, Literal(n, first, z))
<1> DEFINE L == Literal(n, first, z)
           live == ArgSet(first, first + z - 1) \union {Result}
<1>1. LiteralAt(L, n, first, z)
  BY LiteralPoints
<1> HIDE DEF L
<1>2. /\ ArgSet(first, first + z - 1) \subseteq ArgSet(1, n)
      /\ Result \in Locals /\ Result # Sysargs /\ Sysargs \notin ArgSet(1, n)
  <2>1. first .. first + z - 1 \subseteq 1 .. n
    OBVIOUS
  <2>2. Sysargs \notin ArgSet(1, n)
    BY DEF ArgSet, Arg, Sysargs
  <2> QED
    BY <2>1, <2>2, NamesOf DEF ArgSet, Names
<1>3. ASSUME NEW r \in 0 .. z
      PROVE  /\ Held(first, r) \in Seq(ArgSet(1, n)) /\ Held(first, r) \in Seq(live)
             /\ Len(Held(first, r)) = r /\ Range(Held(first, r)) = ArgSet(first, first + r - 1)
             /\ r > 0 => /\ Held(first, r) = Append(Held(first, r - 1), Arg(first + r - 1))
                         /\ Arg(first + r - 1) \in ArgSet(1, n)
  <2>1. first .. first + r - 1 \subseteq first .. first + z - 1
    OBVIOUS
  <2>2. ArgSet(first, first + r - 1) \subseteq ArgSet(first, first + z - 1)
    BY <2>1 DEF ArgSet
  <2>3. ArgSet(first, first + r - 1) \subseteq live /\ ArgSet(first, first + r - 1) \subseteq ArgSet(1, n)
    BY <1>2, <2>2
  <2>4. r > 0 => Arg(first + r - 1) \in ArgSet(first, first + r - 1)
    BY DEF ArgSet
  <2>5. r \in Nat
    OBVIOUS
  <2> HIDE DEF live
  <2>6. HeldOf(first, r, live) /\ HeldOf(first, r, ArgSet(1, n))
    BY <2>3, <2>5, HeldGrows
  <2> QED
    BY <2>3, <2>4, <2>6 DEF HeldOf
<1>4. Held(first, 0) = <<>>
  BY <1>3
<1>5. ASSUME NEW r \in 0 .. z
      PROVE  PointIn(k, Pushing(n, first, r)) /\ PointIn(k, Popping(first, z, r))
  <2>1. PointGood(k, Held(first, r), TRUE, ArgSet(1, n), {})
    BY <1>3 DEF PointGood
  <2>2. PointGood(k, Held(first, r), TRUE, live, {Result})
    BY <1>2, <1>3 DEF PointGood
  <2>3. PointOk(k, Pushing(n, first, r)) /\ PointOk(k, Popping(first, z, r))
    BY <2>1, <2>2 DEF PointOk, Pushing, Popping
  <2> QED
    BY <2>3, PointRule
<1>6. /\ PointIn(k, Pt(<<>>, FALSE, ArgSet(1, n), {}))
      /\ PointIn(k, Pt(<<>>, FALSE, {Result}, {Result}))
  <2>1. /\ PointGood(k, <<>>, FALSE, ArgSet(1, n), {})
        /\ PointGood(k, <<>>, FALSE, {Result}, {Result})
    BY <1>2 DEF PointGood
  <2>2. /\ PointOk(k, Pt(<<>>, FALSE, ArgSet(1, n), {}))
        /\ PointOk(k, Pt(<<>>, FALSE, {Result}, {Result}))
    BY <2>1 DEF PointOk
  <2> QED
    BY <2>2, PointRule
<1>7. \A pc \in 1 .. 2 * z + 4 + 1 : PointIn(k, L[pc])
  <2> TAKE pc \in 1 .. 2 * z + 4 + 1
  <2>1. CASE pc = 1
    BY <1>1, <1>6, <2>1 DEF LiteralAt
  <2>2. CASE pc \in 2 .. z + 2
    <3>1. pc - 2 \in 0 .. z /\ pc - 2 + 2 = pc
      BY <2>2
    <3> QED
      BY <1>1, <1>5, <3>1 DEF LiteralAt
  <2>3. CASE pc = z + 3
    BY <1>1, <1>5, <2>3 DEF LiteralAt
  <2>4. CASE pc \in z + 4 .. 2 * z + 4
    <3>1. pc - (z + 4) \in 0 .. z /\ z + 4 + (pc - (z + 4)) = pc /\ z - (pc - (z + 4)) \in 0 .. z
      BY <2>4
    <3>2. L[pc] = Popping(first, z, z - (pc - (z + 4)))
      BY <1>1, <3>1 DEF LiteralAt
    <3> QED
      BY <1>5, <3>1, <3>2
  <2>5. CASE pc = 2 * z + 5
    BY <1>1, <1>6, <2>5 DEF LiteralAt
  <2> QED
    BY <2>1, <2>2, <2>3, <2>4, <2>5
<1>8. Leads(k, Pre, Pt(<<>>, FALSE, ArgSet(1, n), {}), Pushing(n, first, 0))
  <2>1. Pushing(n, first, 0) = Pt(<<>>, TRUE, ArgSet(1, n), {})
    BY <1>4 DEF Pushing
  <2> QED
    BY <2>1 DEF Leads, StepFits, PreFits, Pre, Same, Pt, KeepsSysargs, HasRoom
<1>9. ASSUME NEW r \in 1 .. z
      PROVE  Leads(k, Push(Arg(first + r - 1)), Pushing(n, first, r - 1), Pushing(n, first, r))
  <2> DEFINE h == Held(first, r)
             g == Held(first, r - 1)
             a == Arg(first + r - 1)
  <2>1. h = Append(g, a) /\ Len(h) <= z /\ a \in ArgSet(1, n)
    <3>1. r \in 0 .. z /\ r > 0 /\ r <= z
      OBVIOUS
    <3> QED
      BY <1>3, <3>1
  <2> HIDE DEF h, g, a
  <2>2. Leads(k, Push(a), Pt(g, TRUE, ArgSet(1, n), {}), Pt(h, TRUE, ArgSet(1, n), {}))
    BY <2>1 DEF Leads, StepFits, PushFits, Push, Pt, KeepsSysargs, HasRoom
  <2> QED
    BY <2>2 DEF Pushing, h, g, a
<1>10. Leads(k, Alloc, Pushing(n, first, z), Popping(first, z, z))
  <2>1. live \subseteq Lasting(Discipline, k, Held(first, z), ArgSet(1, n)) \union {Result}
    BY <1>2, <1>3 DEF Lasting
  <2>2. StepFits(Discipline, k, Alloc, Pt(Held(first, z), TRUE, ArgSet(1, n), {}),
                 Pt(Held(first, z), TRUE, live, {Result}))
    BY <1>2, <2>1, AllocRule
  <2>3. Len(Held(first, z)) <= z
    BY <1>3
  <2> QED
    BY <2>2, <2>3 DEF Leads, HasRoom, Pt, Alloc, Pushing, Popping
<1>11. Leads(k, Use(live), Popping(first, z, z), Popping(first, z, z))
  <2>1. Len(Held(first, z)) <= z
    BY <1>3
  <2> QED
    BY <2>1 DEF Leads, StepFits, UseFits, Use, Same, Pt, KeepsSysargs, HasRoom, Popping
<1>12. ASSUME NEW r \in 1 .. z
      PROVE  Leads(k, Pop(Arg(first + r - 1)), Popping(first, z, r), Popping(first, z, r - 1))
  <2> DEFINE h == Held(first, r)
             g == Held(first, r - 1)
             a == Arg(first + r - 1)
  <2>1. h = Append(g, a) /\ Len(g) <= z
    <3>1. r \in 0 .. z /\ r > 0 /\ r - 1 \in 0 .. z /\ r - 1 <= z
      OBVIOUS
    <3> QED
      BY <1>3, <3>1
  <2> HIDE DEF h, g, a, live
  <2>2. Leads(k, Pop(a), Pt(h, TRUE, live, {Result}), Pt(g, TRUE, live, {Result}))
    BY <2>1 DEF Leads, StepFits, PopFits, Pop, Pt, KeepsSysargs, HasRoom
  <2> QED
    BY <2>2 DEF Popping, h, g, a, live
<1>13. Leads(k, Post, Popping(first, z, 0), Pt(<<>>, FALSE, {Result}, {Result}))
  <2>1. Popping(first, z, 0) = Pt(<<>>, TRUE, live, {Result})
    BY <1>4 DEF Popping
  <2>2. Sysargs \notin live
    BY <1>2
  <2> HIDE DEF live
  <2>3. Result \in live
    BY DEF live
  <2> QED
    BY <2>1, <2>2, <2>3 DEF Leads, StepFits, PostFits, Post, Same, Pt, KeepsSysargs, HasRoom
<1>14. \A pc \in 1 .. 2 * z + 4 : Leads(k, body[pc], L[pc], L[pc + 1])
  <2> TAKE pc \in 1 .. 2 * z + 4
  <2>1. CASE pc = 1
    <3>1. L[2] = Pushing(n, first, 0)
      <4>1. 0 \in 0 .. z /\ 0 + 2 = 2
        OBVIOUS
      <4> QED
        BY <1>1, <4>1 DEF LiteralAt
    <3>2. body[1] = Pre /\ L[1] = Pt(<<>>, FALSE, ArgSet(1, n), {})
      BY <1>1 DEF LiteralAt, LiteralSteps
    <3>3. L[pc + 1] = L[2] /\ L[pc] = L[1] /\ body[pc] = body[1]
      <4>1. pc + 1 = 2
        BY <2>1
      <4> QED
        BY <2>1, <4>1
    <3> QED
      BY <1>8, <3>1, <3>2, <3>3
  <2>2. CASE pc \in 2 .. z + 1
    <3>1. PICK i \in 1 .. z : pc = i + 1
      BY <2>2
    <3>2. i - 1 \in 0 .. z /\ i \in 0 .. z /\ i - 1 + 2 = pc /\ i + 2 = pc + 1
      BY <3>1
    <3>3. L[pc] = Pushing(n, first, i - 1) /\ L[pc + 1] = Pushing(n, first, i)
      BY <1>1, <3>2 DEF LiteralAt
    <3>4. body[pc] = Push(Arg(first + i - 1))
      BY <3>1 DEF LiteralSteps
    <3> QED
      BY <1>9, <3>3, <3>4
  <2>3. CASE pc = z + 2
    <3>1. z \in 0 .. z /\ z + 2 + 1 = z + 3
      OBVIOUS
    <3>2. L[z + 2] = Pushing(n, first, z) /\ L[z + 3] = Popping(first, z, z) /\ body[z + 2] = Alloc
      BY <1>1, <3>1 DEF LiteralAt, LiteralSteps
    <3> QED
      BY <1>10, <2>3, <3>1, <3>2
  <2>4. CASE pc = z + 3
    <3>1. 0 \in 0 .. z /\ z + 3 + 1 = z + 4 + 0 /\ z - 0 = z
      OBVIOUS
    <3>2. L[z + 4 + 0] = Popping(first, z, z) /\ L[z + 3] = Popping(first, z, z) /\ body[z + 3] = Use(live)
      BY <1>1, <3>1 DEF LiteralAt, LiteralSteps
    <3> QED
      BY <1>11, <2>4, <3>1, <3>2
  <2>5. CASE pc \in z + 4 .. 2 * z + 3
    <3>1. PICK i \in 1 .. z : pc = z + 3 + i
      <4>1. pc - (z + 3) \in 1 .. z /\ z + 3 + (pc - (z + 3)) = pc
        BY <2>5
      <4> QED
        BY <4>1
    <3>2. PICK r \in 1 .. z : r = z - i + 1
      OBVIOUS
    <3>3. /\ i - 1 \in 0 .. z /\ i \in 0 .. z /\ z + 4 + (i - 1) = pc /\ z + 4 + i = pc + 1
          /\ z - (i - 1) = r /\ z - i = r - 1 /\ first + z - i = first + r - 1
      BY <3>1, <3>2
    <3>4. L[pc] = Popping(first, z, r) /\ L[pc + 1] = Popping(first, z, r - 1)
      BY <1>1, <3>3 DEF LiteralAt
    <3>5. body[pc] = Pop(Arg(first + r - 1))
      BY <3>1, <3>3 DEF LiteralSteps
    <3> QED
      BY <1>12, <3>4, <3>5
  <2>6. CASE pc = 2 * z + 4
    <3>1. z \in 0 .. z /\ z + 4 + z = 2 * z + 4 /\ z - z = 0 /\ 2 * z + 4 + 1 = 2 * z + 5
      OBVIOUS
    <3>2. /\ L[2 * z + 4] = Popping(first, z, 0) /\ body[2 * z + 4] = Post
          /\ L[2 * z + 5] = Pt(<<>>, FALSE, {Result}, {Result})
      BY <1>1, <3>1 DEF LiteralAt, LiteralSteps
    <3> QED
      BY <1>13, <2>6, <3>1, <3>2
  <2> QED
    BY <2>1, <2>2, <2>3, <2>4, <2>5, <2>6
<1>15. Sized(body, L, 2 * z + 4)
  <2>1. 2 * z + 4 \in Nat /\ 2 * z + 4 + 1 = 2 * z + 5
    OBVIOUS
  <2> QED
    BY <1>1, <2>1 DEF Sized, LiteralAt, LiteralSteps
<1>16. EntryFits(L[1], k[2]) /\ ExitFits(k, L[2 * z + 4 + 1])
  <2>1. L[1] = Pt(<<>>, FALSE, ArgSet(1, n), {})
    BY <1>1 DEF LiteralAt
  <2>2. L[2 * z + 4 + 1] = Pt(<<>>, FALSE, {Result}, {Result})
    <3>1. 2 * z + 4 + 1 = 2 * z + 5
      OBVIOUS
    <3> QED
      BY <1>1, <3>1 DEF LiteralAt
  <2> QED
    BY <2>1, <2>2 DEF EntryFits, ExitFits, Pt
<1>17. 2 * z + 4 \in Nat
  OBVIOUS
<1>18. Fits(k, body, L)
  BY <1>7, <1>14, <1>15, <1>16, <1>17, FitsRule
<1> QED
  BY <1>18 DEF L

LEMMA LiteralsTyped ==
  ASSUME NEW n \in 1 .. NArgs
  PROVE  /\ Fits(<<"Bclosure", n>>, Bclosure(n), PBclosure(n))
         /\ Fits(<<"Barray", n>>, Barray(n), PBarray(n))
         /\ Fits(<<"Bsexp", n>>, Bsexp(n), PBsexp(n))
<1>1. n \in Nat /\ n - 1 \in Nat /\ 2 + (n - 1) - 1 = n /\ 1 + n - 1 = n /\ 1 + (n - 1) - 1 = n - 1
  BY ConstantsAssumption
<1>2. /\ LiteralSteps(Bclosure(n), 2, n - 1)
      /\ LiteralSteps(Barray(n), 1, n)
      /\ LiteralSteps(Bsexp(n), 1, n - 1)
  <2>1. /\ IsLiteral(Bclosure(n), 2, n - 1)
        /\ IsLiteral(Barray(n), 1, n)
        /\ IsLiteral(Bsexp(n), 1, n - 1)
    BY <1>1 DEF IsLiteral, Bclosure, Barray, Bsexp
  <2> QED
    BY <1>1, <2>1, LiteralBody
<1>3. ASSUME NEW f \in {"Bclosure", "Barray", "Bsexp"}
      PROVE  <<f, n>>[1] = f /\ <<f, n>>[2] = n /\ f \notin Unguarded \union {"set_args"}
  BY DEF Unguarded
<1>4. /\ Need(<<"Bclosure", n>>) = n - 1 /\ Need(<<"Barray", n>>) = n
      /\ Need(<<"Bsexp", n>>) = n - 1
  BY DEF Need
<1>5. Fits(<<"Bclosure", n>>, Bclosure(n), Literal(n, 2, n - 1))
  BY <1>1, <1>2, <1>3, <1>4, LiteralTyped
<1>6. Fits(<<"Barray", n>>, Barray(n), Literal(n, 1, n))
  BY <1>1, <1>2, <1>3, <1>4, LiteralTyped
<1>7. Fits(<<"Bsexp", n>>, Bsexp(n), Literal(n, 1, n - 1))
  BY <1>1, <1>2, <1>3, <1>4, LiteralTyped
<1> QED
  BY <1>5, <1>6, <1>7 DEF PBclosure, PBarray, PBsexp

SetArgsSteps(body, n) ==
  /\ Len(body) = 2 * n + 7
  /\ body[1] = Pre /\ body[2] = Call("LmakeArray", <<>>, Local(1)) /\ body[3] = Push(Local(1))
  /\ \A j \in 1 .. n : /\ body[2 * j + 2] = Call("Bstring", <<Arg(j)>>, Result)
                       /\ body[2 * j + 3] = Use({Local(1), Result})
  /\ body[2 * n + 4] = Pop(Local(1)) /\ body[2 * n + 5] = Post
  /\ body[2 * n + 6] = Copy(Local(1), Sysargs) /\ body[2 * n + 7] = Push(Sysargs)

LEMMA SetArgsBody ==
  ASSUME NEW n \in Nat
  PROVE  SetArgsSteps(SetArgs(n), n)
<1> DEFINE s == <<Pre, Call("LmakeArray", <<>>, Local(1)), Push(Local(1))>>
           loop == SetArgsLoop(n)
           t == <<Pop(Local(1)), Post, Copy(Local(1), Sysargs), Push(Sysargs)>>
           all == {s[i] : i \in 1 .. 3} \union {loop[i] : i \in 1 .. 2 * n} \union {t[i] : i \in 1 .. 4}
<1>1. loop = [i \in 1 .. 2 * n |-> IF i % 2 = 1 THEN Call("Bstring", <<Arg((i + 1) \div 2)>>, Result)
                                   ELSE Use({Local(1), Result})]
  BY DEF SetArgsLoop
<1>2. /\ s[1] = Pre /\ s[2] = Call("LmakeArray", <<>>, Local(1)) /\ s[3] = Push(Local(1))
      /\ t[1] = Pop(Local(1)) /\ t[2] = Post /\ t[3] = Copy(Local(1), Sysargs) /\ t[4] = Push(Sysargs)
  OBVIOUS
<1>3. SetArgs(n) = s \o loop \o t
  BY DEF SetArgs
<1>4. /\ s = [i \in 1 .. 3 |-> s[i]] /\ t = [i \in 1 .. 4 |-> t[i]]
      /\ loop = [i \in 1 .. 2 * n |-> loop[i]]
  BY <1>1
<1>5. \A j \in 1 .. n : /\ loop[2 * j - 1] = Call("Bstring", <<Arg(j)>>, Result)
                        /\ loop[2 * j] = Use({Local(1), Result})
  <2> TAKE j \in 1 .. n
  <2>1. /\ 2 * j - 1 \in 1 .. 2 * n /\ (2 * j - 1) % 2 = 1 /\ (2 * j - 1 + 1) \div 2 = j
        /\ 2 * j \in 1 .. 2 * n /\ (2 * j) % 2 # 1
    OBVIOUS
  <2> QED
    BY <1>1, <2>1
<1> HIDE DEF s, loop, t
<1>6. s \in Seq(all) /\ Len(s) = 3 /\ t \in Seq(all) /\ Len(t) = 4
  <2>1. (\A i \in 1 .. 3 : s[i] \in all) /\ (\A i \in 1 .. 4 : t[i] \in all)
    OBVIOUS
  <2>2. 3 \in Nat /\ 4 \in Nat
    OBVIOUS
  <2> HIDE DEF all
  <2> QED
    BY <1>4, <2>1, <2>2, Listed
<1>7. loop \in Seq(all) /\ Len(loop) = 2 * n
  <2>1. (\A i \in 1 .. 2 * n : loop[i] \in all) /\ 2 * n \in Nat
    OBVIOUS
  <2> HIDE DEF all
  <2> QED
    BY <1>4, <2>1, Listed
<1> HIDE DEF all
<1> DEFINE b == s \o loop
<1>8. b \in Seq(all) /\ Joined(s, loop, 3, 2 * n)
  <2>1. 3 \in Nat /\ 2 * n \in Nat
    OBVIOUS
  <2> QED
    BY <1>6, <1>7, <2>1, Joins
<1>9. /\ Len(b) = 3 + 2 * n /\ b[1] = s[1] /\ b[2] = s[2] /\ b[3] = s[3]
      /\ \A i \in 1 .. 2 * n : b[3 + i] = loop[i]
  <2>1. 1 \in 1 .. 3 /\ 2 \in 1 .. 3 /\ 3 \in 1 .. 3
    OBVIOUS
  <2> QED
    BY <1>8, <2>1 DEF Joined
<1> HIDE DEF b
<1>10. Joined(b, t, 3 + 2 * n, 4)
  <2>1. 3 + 2 * n \in Nat /\ 4 \in Nat
    OBVIOUS
  <2> QED
    BY <1>6, <1>8, <1>9, <2>1, Joins
<1> DEFINE body == SetArgs(n)
<1>11. body = b \o t
  BY <1>3 DEF b
<1> HIDE DEF body
<1>12. /\ Len(body) = 3 + 2 * n + 4 /\ \A i \in 1 .. 3 + 2 * n : body[i] = b[i]
       /\ \A i \in 1 .. 4 : body[3 + 2 * n + i] = t[i]
  BY <1>10, <1>11 DEF Joined
<1>13. body[1] = s[1] /\ body[2] = s[2] /\ body[3] = s[3]
  <2>1. {1, 2, 3} \subseteq 1 .. 3 + 2 * n
    OBVIOUS
  <2> QED
    BY <1>9, <1>12, <2>1
<1>14. \A j \in 1 .. n : body[2 * j + 2] = loop[2 * j - 1] /\ body[2 * j + 3] = loop[2 * j]
  <2> TAKE j \in 1 .. n
  <2>1. /\ 2 * j - 1 \in 1 .. 2 * n /\ 3 + (2 * j - 1) = 2 * j + 2 /\ 2 * j + 2 \in 1 .. 3 + 2 * n
        /\ 2 * j \in 1 .. 2 * n /\ 3 + 2 * j = 2 * j + 3 /\ 2 * j + 3 \in 1 .. 3 + 2 * n
    OBVIOUS
  <2> QED
    BY <1>9, <1>12, <2>1
<1>15. /\ body[2 * n + 4] = t[1] /\ body[2 * n + 5] = t[2]
       /\ body[2 * n + 6] = t[3] /\ body[2 * n + 7] = t[4]
  <2>1. /\ 3 + 2 * n + 1 = 2 * n + 4 /\ 3 + 2 * n + 2 = 2 * n + 5
        /\ 3 + 2 * n + 3 = 2 * n + 6 /\ 3 + 2 * n + 4 = 2 * n + 7
        /\ {1, 2, 3, 4} \subseteq 1 .. 4
    OBVIOUS
  <2> QED
    BY <1>12, <2>1
<1>16. Len(body) = 2 * n + 7
  <2>1. 3 + 2 * n + 4 = 2 * n + 7
    OBVIOUS
  <2> QED
    BY <1>12, <2>1
<1>17. SetArgsSteps(body, n)
  BY <1>2, <1>5, <1>13, <1>14, <1>15, <1>16 DEF SetArgsSteps
<1> QED
  BY <1>17 DEF body

SetArgsAt(P, n) ==
  /\ P = [pc \in 1 .. 2 * n + 8 |-> P[pc]] /\ Len(P) = 2 * n + 8
  /\ P[1] = Pt(<<>>, FALSE, ArgSet(1, n), {})
  /\ P[2] = Pt(<<>>, TRUE, ArgSet(1, n), {})
  /\ P[3] = Pt(<<>>, TRUE, ArgSet(1, n) \union {Local(1)}, {Local(1)})
  /\ \A j \in 1 .. n + 1 : P[2 * j + 2] = Looping(n, {})
  /\ \A j \in 1 .. n : P[2 * j + 3] = Looping(n, {Result})
  /\ P[2 * n + 5] = Pt(<<>>, TRUE, {Local(1)}, {Local(1)})
  /\ P[2 * n + 6] = Pt(<<>>, FALSE, {Local(1)}, {Local(1)})
  /\ P[2 * n + 7] = Pt(<<>>, FALSE, {Sysargs}, {Sysargs})
  /\ P[2 * n + 8] = Pt(<<Sysargs>>, FALSE, {Sysargs}, {Sysargs})

LEMMA SetArgsPoints ==
  ASSUME NEW n \in Nat
  PROVE  SetArgsAt(PSetArgs(n), n)
<1> DEFINE P == PSetArgs(n)
<1>1. P = [pc \in 1 .. 2 * n + 8 |->
             IF pc = 1 THEN Pt(<<>>, FALSE, ArgSet(1, n), {})
             ELSE IF pc = 2 THEN Pt(<<>>, TRUE, ArgSet(1, n), {})
             ELSE IF pc = 3 THEN Pt(<<>>, TRUE, ArgSet(1, n) \union {Local(1)}, {Local(1)})
             ELSE IF pc <= 2 * n + 4 THEN Looping(n, IF pc % 2 = 1 THEN {Result} ELSE {})
             ELSE IF pc = 2 * n + 5 THEN Pt(<<>>, TRUE, {Local(1)}, {Local(1)})
             ELSE IF pc = 2 * n + 6 THEN Pt(<<>>, FALSE, {Local(1)}, {Local(1)})
             ELSE IF pc = 2 * n + 7 THEN Pt(<<>>, FALSE, {Sysargs}, {Sysargs})
             ELSE Pt(<<Sysargs>>, FALSE, {Sysargs}, {Sysargs})]
  BY DEF PSetArgs
<1> HIDE DEF P
<1>2. P = [pc \in 1 .. 2 * n + 8 |-> P[pc]]
  BY <1>1
<1>3. Len(P) = 2 * n + 8
  <2>1. 2 * n + 8 \in Nat
    OBVIOUS
  <2> QED
    BY <1>2, <2>1
<1>4. /\ P[1] = Pt(<<>>, FALSE, ArgSet(1, n), {})
      /\ P[2] = Pt(<<>>, TRUE, ArgSet(1, n), {})
      /\ P[3] = Pt(<<>>, TRUE, ArgSet(1, n) \union {Local(1)}, {Local(1)})
  <2>1. 1 \in 1 .. 2 * n + 8 /\ 2 \in 1 .. 2 * n + 8 /\ 3 \in 1 .. 2 * n + 8
    OBVIOUS
  <2> QED
    BY <1>1, <2>1
<1>5. \A j \in 1 .. n + 1 : P[2 * j + 2] = Looping(n, {})
  <2> TAKE j \in 1 .. n + 1
  <2> DEFINE pc == 2 * j + 2
  <2>1. /\ pc \in 1 .. 2 * n + 8 /\ pc \notin {1, 2, 3} /\ pc <= 2 * n + 4 /\ pc % 2 # 1
    OBVIOUS
  <2> HIDE DEF pc
  <2>2. P[pc] = Looping(n, {})
    BY <1>1, <2>1
  <2> QED
    BY <2>2 DEF pc
<1>6. \A j \in 1 .. n : P[2 * j + 3] = Looping(n, {Result})
  <2> TAKE j \in 1 .. n
  <2> DEFINE pc == 2 * j + 3
  <2>1. /\ pc \in 1 .. 2 * n + 8 /\ pc \notin {1, 2, 3} /\ pc <= 2 * n + 4 /\ pc % 2 = 1
    OBVIOUS
  <2> HIDE DEF pc
  <2>2. P[pc] = Looping(n, {Result})
    BY <1>1, <2>1
  <2> QED
    BY <2>2 DEF pc
<1>7. /\ P[2 * n + 5] = Pt(<<>>, TRUE, {Local(1)}, {Local(1)})
      /\ P[2 * n + 6] = Pt(<<>>, FALSE, {Local(1)}, {Local(1)})
      /\ P[2 * n + 7] = Pt(<<>>, FALSE, {Sysargs}, {Sysargs})
      /\ P[2 * n + 8] = Pt(<<Sysargs>>, FALSE, {Sysargs}, {Sysargs})
  <2>1. {2 * n + 5, 2 * n + 6, 2 * n + 7, 2 * n + 8} \subseteq (1 .. 2 * n + 8) \ {1, 2, 3}
    OBVIOUS
  <2>2. /\ ~(2 * n + 5 <= 2 * n + 4) /\ ~(2 * n + 6 <= 2 * n + 4)
        /\ ~(2 * n + 7 <= 2 * n + 4) /\ ~(2 * n + 8 <= 2 * n + 4)
        /\ 2 * n + 6 # 2 * n + 5 /\ 2 * n + 7 # 2 * n + 5 /\ 2 * n + 7 # 2 * n + 6
        /\ 2 * n + 8 # 2 * n + 5 /\ 2 * n + 8 # 2 * n + 6 /\ 2 * n + 8 # 2 * n + 7
    OBVIOUS
  <2> QED
    BY <1>1, <2>1, <2>2
<1> QED
  BY <1>2, <1>3, <1>4, <1>5, <1>6, <1>7 DEF SetArgsAt, P

LEMMA EveryPc ==
  ASSUME NEW n \in Nat, NEW pc \in 1 .. 2 * n + 8
  PROVE  \/ pc \in {1, 2, 3} \/ pc \in {2 * n + 5, 2 * n + 6, 2 * n + 7, 2 * n + 8}
         \/ \E j \in 1 .. n + 1 : pc = 2 * j + 2
         \/ \E j \in 1 .. n : pc = 2 * j + 3
<1> SUFFICES ASSUME pc \in 4 .. 2 * n + 4
             PROVE  \/ \E j \in 1 .. n + 1 : pc = 2 * j + 2
                    \/ \E j \in 1 .. n : pc = 2 * j + 3
  OBVIOUS
<1> DEFINE j == (pc - 2) \div 2
<1>1. j \in 1 .. n + 1 /\ (pc = 2 * j + 2 \/ (pc = 2 * j + 3 /\ j \in 1 .. n))
  OBVIOUS
<1> QED
  BY <1>1

LEMMA SetArgsTyped ==
  ASSUME NEW n \in 0 .. NArgs
  PROVE  Fits(<<"set_args", n>>, SetArgs(n), PSetArgs(n))
<1> DEFINE k == <<"set_args", n>>
           body == SetArgs(n)
           P == PSetArgs(n)
<1>1. n \in Nat
  BY ConstantsAssumption
<1>2. SetArgsSteps(body, n) /\ SetArgsAt(P, n)
  BY <1>1, SetArgsBody, SetArgsPoints
<1>3. /\ k[1] = "set_args" /\ k[2] = n /\ k[1] \notin Unguarded /\ k \in Keys
      /\ Need(k) = 2 /\ Rank(k[1]) = 3
  BY DEF Unguarded, Keys, Need, Rank
<1>4. Discipline[k].rank = 3 /\ Discipline[k].scanned
  <2>1. Discipline[k].rank = Rank(k[1]) /\ Discipline[k].scanned = (Rank(k[1]) = 3)
    BY <1>3, OfDiscipline
  <2>2. Discipline[k].scanned = TRUE
    BY <1>3, <2>1
  <2> QED
    BY <1>3, <2>1, <2>2
<1> HIDE DEF k, body, P
<1>5. /\ Sysargs \notin ArgSet(1, n) /\ ArgSet(1, n) \intersect Locals = {}
      /\ {Local(1), Result} \subseteq Locals /\ Local(1) # Result
      /\ Local(1) # Sysargs /\ Result # Sysargs
  BY NamesOf DEF Names, ArgSet, Arg, Locals, Local, Sysargs
<1> DEFINE args == ArgSet(1, n)
<1> HIDE DEF args
<1>6. /\ Append(<<>>, Local(1)) = <<Local(1)>> /\ Range(<<Local(1)>>) = {Local(1)}
      /\ Append(<<>>, Sysargs) = <<Sysargs>> /\ Range(<<Sysargs>>) = {Sysargs} /\ Range(<<>>) = {}
  BY ListsOf DEF Lists
<1>7. ASSUME NEW made \in {{}, {Result}}
      PROVE  PointIn(k, Looping(n, made))
  <2>1. PointGood(k, <<Local(1)>>, TRUE, args \union {Local(1)} \union made, {Local(1)})
    BY <1>3, <1>5 DEF PointGood, args
  <2>2. PointOk(k, Looping(n, made))
    BY <2>1 DEF PointOk, Looping, args
  <2> QED
    BY <2>2, PointRule
<1>8. /\ PointIn(k, Pt(<<>>, FALSE, args, {}))
      /\ PointIn(k, Pt(<<>>, TRUE, args, {}))
      /\ PointIn(k, Pt(<<>>, TRUE, args \union {Local(1)}, {Local(1)}))
      /\ PointIn(k, Pt(<<>>, TRUE, {Local(1)}, {Local(1)}))
      /\ PointIn(k, Pt(<<>>, FALSE, {Local(1)}, {Local(1)}))
  <2>1. /\ PointGood(k, <<>>, FALSE, args, {})
        /\ PointGood(k, <<>>, TRUE, args, {})
        /\ PointGood(k, <<>>, TRUE, args \union {Local(1)}, {Local(1)})
        /\ PointGood(k, <<>>, TRUE, {Local(1)}, {Local(1)})
        /\ PointGood(k, <<>>, FALSE, {Local(1)}, {Local(1)})
    BY <1>3, <1>5 DEF PointGood, args
  <2>2. /\ PointOk(k, Pt(<<>>, FALSE, args, {}))
        /\ PointOk(k, Pt(<<>>, TRUE, args, {}))
        /\ PointOk(k, Pt(<<>>, TRUE, args \union {Local(1)}, {Local(1)}))
        /\ PointOk(k, Pt(<<>>, TRUE, {Local(1)}, {Local(1)}))
        /\ PointOk(k, Pt(<<>>, FALSE, {Local(1)}, {Local(1)}))
    BY <2>1 DEF PointOk
  <2> QED
    BY <2>2, PointRule
<1>9. ASSUME NEW h \in {<<>>, <<Sysargs>>}
      PROVE  PointIn(k, Pt(h, FALSE, {Sysargs}, {Sysargs}))
  <2>1. Sysargs \in Operands(n)
    BY DEF Operands
  <2>2. h \in Seq(Operands(n)) /\ Range(h) \subseteq {Sysargs}
    <3>1. <<>> \in Seq(Operands(n)) /\ <<Sysargs>> \in Seq(Operands(n))
      BY <2>1
    <3>2. Range(<<>>) \subseteq {Sysargs} /\ Range(<<Sysargs>>) \subseteq {Sysargs}
      BY <1>6
    <3> QED
      BY <3>1, <3>2
  <2> QED
    BY <1>3, <2>1, <2>2 DEF PointIn, Points, PointFits, Pt
<1>10. \A pc \in 1 .. 2 * n + 7 + 1 : PointIn(k, P[pc])
  <2> TAKE pc \in 1 .. 2 * n + 7 + 1
  <2>1. CASE pc \in {1, 2, 3}
    BY <1>2, <1>8, <2>1 DEF SetArgsAt, args
  <2>2. CASE pc \in {2 * n + 5, 2 * n + 6, 2 * n + 7, 2 * n + 8}
    BY <1>2, <1>8, <1>9, <2>2 DEF SetArgsAt
  <2>3. CASE \E j \in 1 .. n + 1 : pc = 2 * j + 2
    BY <1>2, <1>7, <2>3 DEF SetArgsAt
  <2>4. CASE \E j \in 1 .. n : pc = 2 * j + 3
    BY <1>2, <1>7, <2>4 DEF SetArgsAt
  <2>5. \/ pc \in {1, 2, 3} \/ pc \in {2 * n + 5, 2 * n + 6, 2 * n + 7, 2 * n + 8}
        \/ \E j \in 1 .. n + 1 : pc = 2 * j + 2
        \/ \E j \in 1 .. n : pc = 2 * j + 3
    BY <1>1, EveryPc
  <2> QED
    BY <2>1, <2>2, <2>3, <2>4, <2>5
<1>11. /\ Leads(k, Pre, Pt(<<>>, FALSE, args, {}), Pt(<<>>, TRUE, args, {}))
       /\ Leads(k, Post, Pt(<<>>, TRUE, {Local(1)}, {Local(1)}), Pt(<<>>, FALSE, {Local(1)}, {Local(1)}))
  BY <1>3, <1>5 DEF Leads, StepFits, PreFits, Pre, PostFits, Post, Same, Pt, KeepsSysargs, HasRoom, args
<1>12. Leads(k, Call("LmakeArray", <<>>, Local(1)), Pt(<<>>, TRUE, args, {}),
             Pt(<<>>, TRUE, args \union {Local(1)}, {Local(1)}))
  <2>1. MayCall(Discipline, k, <<>>, TRUE, args, "LmakeArray", <<>>, Local(1))
    <3>1. Len(<<>>) = 0 /\ <<>> \in Seq(args \intersect (ArgSet(1, k[2]) \union Locals))
      OBVIOUS
    <3>2. /\ <<"LmakeArray", Len(<<>>)>> \in DOMAIN Discipline
          /\ Discipline[<<"LmakeArray", Len(<<>>)>>].rank < Discipline[k].rank
          /\ ~Discipline[<<"LmakeArray", Len(<<>>)>>].scanned
      BY <1>4, <3>1, InnerRules
    <3>3. Sysargs \notin args
      BY <1>5 DEF args
    <3> QED
      BY <1>5, <1>6, <3>1, <3>2, <3>3 DEF MayCall
  <2>2. args \union {Local(1)} \subseteq Lasting(Discipline, k, <<>>, args) \union {Local(1)}
    BY <1>3, <1>4 DEF Lasting, args
  <2>3. {Local(1)} \subseteq ({} \intersect Range(<<>>)) \union {Local(1)}
    OBVIOUS
  <2>4. StepFits(Discipline, k, Call("LmakeArray", <<>>, Local(1)), Pt(<<>>, TRUE, args, {}),
                 Pt(<<>>, TRUE, args \union {Local(1)}, {Local(1)}))
    BY <2>1, <2>2, <2>3, CallRule
  <2> QED
    BY <1>3, <2>4 DEF Leads, HasRoom, Need, Pt, Call
<1>13. Leads(k, Push(Local(1)), Pt(<<>>, TRUE, args \union {Local(1)}, {Local(1)}), Looping(n, {}))
  BY <1>3, <1>5, <1>6 DEF Leads, StepFits, PushFits, Push, Pt, KeepsSysargs, HasRoom, Looping, args
<1>14. ASSUME NEW j \in 1 .. n
       PROVE  Leads(k, Call("Bstring", <<Arg(j)>>, Result), Looping(n, {}), Looping(n, {Result}))
  <2> DEFINE l == args \union {Local(1)} \union {}
             h == <<Local(1)>>
  <2>1. MayCall(Discipline, k, h, TRUE, l, "Bstring", <<Arg(j)>>, Result)
    <3>1. Len(<<Arg(j)>>) = 1 /\ Arg(j) \in args
      BY DEF ArgSet, args
    <3>2. <<Arg(j)>> \in Seq(l \intersect (ArgSet(1, k[2]) \union Locals))
      BY <1>3, <3>1 DEF args
    <3>3. /\ <<"Bstring", Len(<<Arg(j)>>)>> \in DOMAIN Discipline
          /\ Discipline[<<"Bstring", Len(<<Arg(j)>>)>>].rank < Discipline[k].rank
          /\ ~Discipline[<<"Bstring", Len(<<Arg(j)>>)>>].scanned
      BY <1>4, <3>1, InnerRules
    <3>4. Sysargs \notin l /\ Result \in Locals \ Range(h)
      BY <1>5, <1>6 DEF args
    <3> HIDE DEF l, h
    <3> QED
      BY <3>2, <3>3, <3>4 DEF MayCall
  <2>2. /\ args \union {Local(1)} \union {Result} \subseteq Lasting(Discipline, k, h, l) \union {Result}
        /\ {Local(1)} \subseteq ({Local(1)} \intersect Range(h)) \union {Result}
    BY <1>3, <1>4, <1>6 DEF Lasting, args
  <2> HIDE DEF l, h
  <2>3. StepFits(Discipline, k, Call("Bstring", <<Arg(j)>>, Result), Pt(h, TRUE, l, {Local(1)}),
                 Pt(h, TRUE, args \union {Local(1)} \union {Result}, {Local(1)}))
    BY <2>1, <2>2, CallRule
  <2>4. Len(h) = 1 /\ Len(<<Arg(j)>>) = 1
    BY DEF h
  <2>5. Need(<<"Bstring", 1>>) = 1
    BY DEF Need
  <2>6. Leads(k, Call("Bstring", <<Arg(j)>>, Result), Pt(h, TRUE, l, {Local(1)}),
              Pt(h, TRUE, args \union {Local(1)} \union {Result}, {Local(1)}))
    BY <1>3, <2>3, <2>4, <2>5 DEF Leads, HasRoom, Pt, Call
  <2> QED
    BY <2>6 DEF Looping, l, h, args
<1>15. Leads(k, Use({Local(1), Result}), Looping(n, {Result}), Looping(n, {}))
  BY <1>3, <1>5 DEF Leads, StepFits, UseFits, Use, Same, Pt, KeepsSysargs, HasRoom, Looping
<1>16. Leads(k, Pop(Local(1)), Looping(n, {}), Pt(<<>>, TRUE, {Local(1)}, {Local(1)}))
  BY <1>3, <1>5, <1>6 DEF Leads, StepFits, PopFits, Pop, Pt, KeepsSysargs, HasRoom, Looping
<1>17. Leads(k, Copy(Local(1), Sysargs), Pt(<<>>, FALSE, {Local(1)}, {Local(1)}),
             Pt(<<>>, FALSE, {Sysargs}, {Sysargs}))
  BY <1>3, <1>5 DEF Leads, StepFits, CopyFits, Copy, Pt, KeepsSysargs, HasRoom
<1>18. Leads(k, Push(Sysargs), Pt(<<>>, FALSE, {Sysargs}, {Sysargs}),
             Pt(<<Sysargs>>, FALSE, {Sysargs}, {Sysargs}))
  BY <1>3, <1>6 DEF Leads, StepFits, PushFits, Push, Pt, KeepsSysargs, HasRoom
<1>19. \A pc \in 1 .. 2 * n + 7 : Leads(k, body[pc], P[pc], P[pc + 1])
  <2> TAKE pc \in 1 .. 2 * n + 7
  <2>1. CASE pc \in {1, 2}
    <3>1. (pc = 1 /\ pc + 1 = 2) \/ (pc = 2 /\ pc + 1 = 3)
      BY <2>1
    <3> QED
      BY <1>2, <1>11, <1>12, <3>1 DEF SetArgsAt, SetArgsSteps, args
  <2>2. CASE pc = 3
    <3>1. pc + 1 = 2 * 1 + 2 /\ 1 \in 1 .. n + 1
      BY <1>1, <2>2
    <3>2. P[pc + 1] = Looping(n, {})
      BY <1>2, <3>1 DEF SetArgsAt
    <3> QED
      BY <1>2, <1>13, <2>2, <3>2 DEF SetArgsAt, SetArgsSteps, args
  <2>3. CASE \E j \in 1 .. n : pc = 2 * j + 2
    <3>1. PICK j \in 1 .. n : pc = 2 * j + 2
      BY <2>3
    <3>2. j \in 1 .. n + 1 /\ pc + 1 = 2 * j + 3
      BY <3>1
    <3>3. P[pc] = Looping(n, {}) /\ P[pc + 1] = Looping(n, {Result})
      BY <1>2, <3>1, <3>2 DEF SetArgsAt
    <3>4. body[pc] = Call("Bstring", <<Arg(j)>>, Result)
      BY <1>2, <3>1 DEF SetArgsSteps
    <3> QED
      BY <1>14, <3>3, <3>4
  <2>4. CASE \E j \in 1 .. n : pc = 2 * j + 3
    <3>1. PICK j \in 1 .. n : pc = 2 * j + 3
      BY <2>4
    <3>2. j + 1 \in 1 .. n + 1 /\ pc + 1 = 2 * (j + 1) + 2
      BY <3>1
    <3>3. P[pc] = Looping(n, {Result}) /\ P[pc + 1] = Looping(n, {})
      BY <1>2, <3>1, <3>2 DEF SetArgsAt
    <3>4. body[pc] = Use({Local(1), Result})
      BY <1>2, <3>1 DEF SetArgsSteps
    <3> QED
      BY <1>15, <3>3, <3>4
  <2>5. CASE pc = 2 * n + 4
    <3>1. n + 1 \in 1 .. n + 1 /\ 2 * (n + 1) + 2 = pc /\ pc + 1 = 2 * n + 5
      BY <1>1, <2>5
    <3>2. P[pc] = Looping(n, {})
      BY <1>2, <3>1 DEF SetArgsAt
    <3>3. P[pc + 1] = Pt(<<>>, TRUE, {Local(1)}, {Local(1)}) /\ body[pc] = Pop(Local(1))
      BY <1>2, <2>5, <3>1 DEF SetArgsAt, SetArgsSteps
    <3> QED
      BY <1>16, <3>2, <3>3
  <2>6. CASE pc \in {2 * n + 5, 2 * n + 6, 2 * n + 7}
    <3>1. \/ pc = 2 * n + 5 /\ pc + 1 = 2 * n + 6
          \/ pc = 2 * n + 6 /\ pc + 1 = 2 * n + 7
          \/ pc = 2 * n + 7 /\ pc + 1 = 2 * n + 8
      BY <2>6
    <3> QED
      BY <1>2, <1>11, <1>17, <1>18, <3>1 DEF SetArgsAt, SetArgsSteps
  <2>7. \/ pc \in {1, 2, 3} \/ pc \in {2 * n + 5, 2 * n + 6, 2 * n + 7, 2 * n + 8}
        \/ \E j \in 1 .. n + 1 : pc = 2 * j + 2
        \/ \E j \in 1 .. n : pc = 2 * j + 3
    BY <1>1, EveryPc
  <2>8. ASSUME NEW j \in 1 .. n + 1, pc = 2 * j + 2
        PROVE  pc = 2 * n + 4 \/ \E i \in 1 .. n : pc = 2 * i + 2
    <3>1. j = n + 1 \/ j \in 1 .. n
      OBVIOUS
    <3> QED
      BY <2>8, <3>1
  <2>9. pc # 2 * n + 8
    OBVIOUS
  <2> QED
    BY <2>1, <2>2, <2>3, <2>4, <2>5, <2>6, <2>7, <2>8, <2>9
<1>20. Sized(body, P, 2 * n + 7)
  <2>1. 2 * n + 7 \in Nat /\ 2 * n + 7 + 1 = 2 * n + 8
    BY <1>1
  <2> QED
    BY <1>2, <2>1 DEF Sized, SetArgsAt, SetArgsSteps
<1>21. EntryFits(P[1], k[2]) /\ ExitFits(k, P[2 * n + 7 + 1])
  <2>1. 2 * n + 7 + 1 = 2 * n + 8
    BY <1>1
  <2>2. P[1] = Pt(<<>>, FALSE, ArgSet(1, n), {}) /\ P[2 * n + 7 + 1] = Pt(<<Sysargs>>, FALSE, {Sysargs}, {Sysargs})
    BY <1>2, <2>1 DEF SetArgsAt
  <2> QED
    BY <1>3, <2>2 DEF EntryFits, ExitFits, Pt
<1>22. 2 * n + 7 \in Nat
  BY <1>1
<1>23. Fits(k, body, P)
  BY <1>10, <1>19, <1>20, <1>21, <1>22, FitsRule
<1> QED
  BY <1>23 DEF k, body, P

LEMMA KeyParts ==
  ASSUME NEW k \in Keys
  PROVE  /\ k = <<k[1], k[2]>> /\ k[1] \in Called \union {"set_args"} /\ k[2] \in 0 .. NArgs
         /\ k[1] # "set_args" => k[2] \in Lengths64(k[1])
BY DEF Keys

LEMMA KeyFits ==
  ASSUME NEW k \in Keys
  PROVE  Fits(k, Steps(k), PointsOf(k[1], k[2]))
<1> DEFINE f == k[1]
           n == k[2]
<1>1. /\ k = <<f, n>> /\ f \in Called \union {"set_args"} /\ n \in 0 .. NArgs
      /\ f # "set_args" => n \in Lengths64(f)
  BY KeyParts
<1>2. Steps(k) = Body64(f, n)
  BY <1>1, FunctionsAssumption DEF Steps
<1> HIDE DEF f, n
<1> SUFFICES Fits(<<f, n>>, Body64(f, n), PointsOf(f, n))
  BY <1>1, <1>2 DEF f, n
<1>3. CASE f = "LmakeString"
  <2>1. n = 0
    BY <1>1, <1>3 DEF Lengths64, Literals
  <2>2. Body64(f, n) = LmakeString /\ PointsOf(f, n) = PLmakeString
    BY <1>3 DEF Body64, PointsOf
  <2> QED
    BY <1>3, <2>1, <2>2, LmakeStringTyped
<1>4. CASE f = "LmakeArray"
  <2>1. n = 0
    BY <1>1, <1>4 DEF Lengths64, Literals
  <2>2. Body64(f, n) = LmakeArray /\ PointsOf(f, n) = PLmakeArray
    BY <1>4 DEF Body64, PointsOf
  <2> QED
    BY <1>4, <2>1, <2>2, LmakeArrayTyped
<1>5. CASE f = "Bstring"
  <2>1. n = 1
    BY <1>1, <1>5 DEF Lengths64, Literals
  <2>2. Body64(f, n) = Bstring /\ PointsOf(f, n) = PBstring
    BY <1>5 DEF Body64, PointsOf
  <2> QED
    BY <1>5, <2>1, <2>2, BstringTyped
<1>6. CASE f = "Lsubstring"
  <2>1. n = 1
    BY <1>1, <1>6 DEF Lengths64, Literals
  <2>2. Body64(f, n) = Lsubstring /\ PointsOf(f, n) = PLsubstring
    BY <1>6 DEF Body64, PointsOf
  <2> QED
    BY <1>6, <2>1, <2>2, LsubstringTyped
<1>7. CASE f = "LcloneString"
  <2>1. n = 1
    BY <1>1, <1>7 DEF Lengths64, Literals
  <2>2. Body64(f, n) = LcloneString /\ PointsOf(f, n) = PLcloneString
    BY <1>7 DEF Body64, PointsOf
  <2> QED
    BY <1>7, <2>1, <2>2, LcloneStringTyped
<1>8. CASE f = "LcloneBlock"
  <2>1. n = 1
    BY <1>1, <1>8 DEF Lengths64, Literals
  <2>2. Body64(f, n) = LcloneBlock /\ PointsOf(f, n) = PLcloneBlock
    BY <1>8 DEF Body64, PointsOf
  <2> QED
    BY <1>8, <2>1, <2>2, LcloneBlockTyped
<1>9. CASE f = "Lstring"
  <2>1. n = 1
    BY <1>1, <1>9 DEF Lengths64, Literals
  <2>2. Body64(f, n) = Lstring /\ PointsOf(f, n) = PLstring
    BY <1>9 DEF Body64, PointsOf
  <2> QED
    BY <1>9, <2>1, <2>2, LstringTyped
<1>10. CASE f = "Ls__Infix_58"
  <2>1. n = 2
    BY <1>1, <1>10 DEF Lengths64, Literals
  <2>2. Body64(f, n) = Ls__Infix_58 /\ PointsOf(f, n) = PLs__Infix_58
    BY <1>10 DEF Body64, PointsOf
  <2> QED
    BY <1>10, <2>1, <2>2, Ls__Infix_58Typed
<1>11. CASE f = "Li__Infix_4343"
  <2>1. n = 2
    BY <1>1, <1>11 DEF Lengths64, Literals
  <2>2. Body64(f, n) = Li__Infix_4343 /\ PointsOf(f, n) = PLi__Infix_4343
    BY <1>11 DEF Body64, PointsOf
  <2> QED
    BY <1>11, <2>1, <2>2, Li__Infix_4343Typed
<1>12. CASE f = "LgetEnv"
  <2>1. n = 1
    BY <1>1, <1>12 DEF Lengths64, Literals
  <2>2. Body64(f, n) = LgetEnv /\ PointsOf(f, n) = PLgetEnv
    BY <1>12 DEF Body64, PointsOf
  <2> QED
    BY <1>12, <2>1, <2>2, LgetEnvTyped
<1>13. CASE f = "Bsprintf"
  <2>1. n = 1
    BY <1>1, <1>13 DEF Lengths64, Literals
  <2>2. Body64(f, n) = Bsprintf /\ PointsOf(f, n) = PBsprintf
    BY <1>13 DEF Body64, PointsOf
  <2> QED
    BY <1>13, <2>1, <2>2, BsprintfTyped
<1>14. CASE f = "LreadLine"
  <2>1. n = 0
    BY <1>1, <1>14 DEF Lengths64, Literals
  <2>2. Body64(f, n) = LreadLine /\ PointsOf(f, n) = PLreadLine
    BY <1>14 DEF Body64, PointsOf
  <2> QED
    BY <1>14, <2>1, <2>2, LreadLineTyped
<1>15. CASE f = "Lfread"
  <2>1. n = 1
    BY <1>1, <1>15 DEF Lengths64, Literals
  <2>2. Body64(f, n) = Lfread /\ PointsOf(f, n) = PLfread
    BY <1>15 DEF Body64, PointsOf
  <2> QED
    BY <1>15, <2>1, <2>2, LfreadTyped
<1>16. CASE f = "Bclosure"
  <2>1. n \in 1 .. NArgs
    BY <1>1, <1>16 DEF Lengths64, Literals
  <2>2. Body64(f, n) = Bclosure(n) /\ PointsOf(f, n) = PBclosure(n)
    BY <1>16 DEF Body64, PointsOf
  <2> QED
    BY <1>16, <2>1, <2>2, LiteralsTyped
<1>17. CASE f = "Barray"
  <2>1. n \in 1 .. NArgs
    BY <1>1, <1>17 DEF Lengths64, Literals
  <2>2. Body64(f, n) = Barray(n) /\ PointsOf(f, n) = PBarray(n)
    BY <1>17 DEF Body64, PointsOf
  <2> QED
    BY <1>17, <2>1, <2>2, LiteralsTyped
<1>18. CASE f = "Bsexp"
  <2>1. n \in 1 .. NArgs
    BY <1>1, <1>18 DEF Lengths64, Literals
  <2>2. Body64(f, n) = Bsexp(n) /\ PointsOf(f, n) = PBsexp(n)
    BY <1>18 DEF Body64, PointsOf
  <2> QED
    BY <1>18, <2>1, <2>2, LiteralsTyped
<1>19. CASE f = "set_args"
  <2>1. Body64(f, n) = SetArgs(n) /\ PointsOf(f, n) = PSetArgs(n)
    BY <1>19 DEF Body64, PointsOf
  <2> QED
    BY <1>1, <1>19, <2>1, SetArgsTyped
<1> QED
  BY <1>1, <1>3, <1>4, <1>5, <1>6, <1>7, <1>8, <1>9, <1>10, <1>11, <1>12, <1>13, <1>14, <1>15, <1>16, <1>17, <1>18, <1>19 DEF Called

LEMMA RankIs ==
  ASSUME NEW f
  PROVE  /\ Rank(f) \in 1 .. MaxDepth
         /\ f \in Unguarded \union {"set_args"} => Rank(f) = MaxDepth
BY DEF Rank, MaxDepth, Unguarded

LEMMA KeyShaped ==
  ASSUME NEW k \in Keys
  PROVE  Shaped(Discipline, k) /\ BodyFits(Discipline, k)
<1>1. Typed(Discipline, k, Steps(k), Discipline[k].points)
  BY KeyFits, OfDiscipline DEF Fits
<1>2. k = <<k[1], k[2]>> /\ k[1] \in Named /\ k[2] \in 0 .. NArgs
  BY KeyParts DEF Called, Named
<1>3. Discipline[k] \in Rules(k[2])
  <2>1. Discipline[k].points \in Seq(Points(k[2]))
    BY <1>1 DEF Typed
  <2>2. Discipline[k].points = PointsOf(k[1], k[2])
    BY OfDiscipline
  <2>3. Rank(k[1]) \in 1 .. MaxDepth
    BY RankIs
  <2>4. Discipline[k] = [points |-> PointsOf(k[1], k[2]), rank |-> Rank(k[1]),
                         scanned |-> Rank(k[1]) = 3, lax |-> FALSE]
    BY DEF Discipline
  <2>5. (Rank(k[1]) = 3) \in BOOLEAN /\ FALSE \in BOOLEAN
    OBVIOUS
  <2>6. PointsOf(k[1], k[2]) \in Seq(Points(k[2]))
    BY <2>1, <2>2
  <2> QED
    BY <2>3, <2>4, <2>5, <2>6 DEF Rules
<1>4. k[1] \in Unguarded \union {"set_args"} => Discipline[k].rank = MaxDepth
  BY RankIs, OfDiscipline
<1>5. Shaped(Discipline, k)
  BY <1>1, <1>2, <1>3, <1>4 DEF Shaped, Typed, Unguarded
<1>6. BodyFits(Discipline, k)
  BY <1>1 DEF BodyFits, Typed
<1> QED
  BY <1>5, <1>6

\* Every function keeps the discipline, which has every function called.
LEMMA DisciplineIsKept == WellTyped(Discipline)
<1>1. DOMAIN Discipline = Keys
  BY DEF Discipline
<1> QED
  BY <1>1, KeyShaped DEF WellTyped

LEMMA DisciplineCovers == Covers(Discipline)
<1>1. DOMAIN Discipline = Keys
  BY DEF Discipline
<1>2. ASSUME NEW n \in 0 .. NArgs
      PROVE  <<"set_args", n>> \in DOMAIN Discipline
  BY <1>1 DEF Keys
<1>3. ASSUME NEW f \in Functions, NEW n \in Lengths(f)
      PROVE  /\ <<f, n>> \in DOMAIN Discipline /\ f # "set_args"
             /\ \A i \in 1 .. n : Passed(f, n, i) \subseteq LamaValues
  <2>1. f \in Called /\ f # "set_args" /\ n \in Lengths64(f)
    BY <1>3, FunctionsAssumption DEF Called
  <2>2. n \in 0 .. NArgs
    BY <2>1, ConstantsAssumption DEF Lengths64
  <2>3. <<f, n>> \in DOMAIN Discipline
    BY <1>1, <2>1, <2>2 DEF Keys
  <2>4. ASSUME NEW i \in 1 .. n
        PROVE  Passed(f, n, i) \subseteq LamaValues
    <3>1. Passed(f, n, i) = Passed64(f, n, i)
      BY <1>3, <2>1, FunctionsAssumption
    <3>2. Passed64(f, n, i) \in {{"c_pointer"}, {"unboxed"}, LamaValues, {"current"}}
      BY DEF Passed64
    <3> QED
      BY <3>1, <3>2 DEF LamaValues
  <2> QED
    BY <2>1, <2>3, <2>4
<1> QED
  BY <1>2, <1>3 DEF Covers

LEMMA AllTrusted ==
  ASSUME NEW fs, FramesFit(Discipline, fs), NEW d \in 1 .. Len(fs)
  PROVE  Trusted(Discipline, fs, d)
<1>1. PICK n \in 0 .. 3 : n = Len(fs)
  BY DepthOf
<1>2. 1 \in 1 .. Len(fs)
  BY <1>1
<1>3. Key(fs[1]) \in Keys
  BY <1>2 DEF FramesFit, FrameFits, Discipline
<1>4. Discipline[Key(fs[1])].lax = FALSE
  BY <1>3, OfDiscipline
<1> QED
  BY <1>4 DEF Trusted

-----------------------------------------------------------------------------
(* The flags of the frames. *)

LEMMA NewOutside ==
  ASSUME NEW fs, FramesFit(Discipline, fs), NEW d \in 1 .. Len(fs), fs[d].pc = 1
  PROVE  ~At(Discipline, fs, d).inside
<1>1. Key(fs[d]) \in DOMAIN Discipline
  BY DEF FramesFit, FrameFits
<1>2. BodyFits(Discipline, Key(fs[d]))
  BY <1>1, DisciplineIsKept DEF WellTyped
<1> QED
  BY <1>2 DEF BodyFits, EntryFits, At

\* A step that is no PRE_GC or POST_GC.
LEMMA FlagsAdvance ==
  ASSUME ProtocolInv(Discipline), FlagsFit(Discipline, frames, top),
         NEW op \in {"use", "copy", "set", "alloc", "push", "pop"}, Here(op), Advance
  PROVE  FlagsFit(Discipline, frames', top)
<1>1. Stepped(frames, frames')
  BY AdvanceSteps
<1>2. PICK b \in 0 .. 1 : \E p, q : /\ Sound(Discipline, mem, frames, top, pool, b)
                                    /\ Takes(Discipline, frames, frames', Step, p, q)
  BY <1>1, DisciplineIsKept, StepIsTaken
<1>3. PICK p, q : Takes(Discipline, frames, frames', Step, p, q)
  BY <1>2
<1>4. /\ Moves(Discipline, frames, frames', p, q)
      /\ StepFits(Discipline, Key(frames[Len(frames)]), Step, p, q) /\ Step.op = op
  BY <1>3 DEF Takes, Here
<1>5. q.inside => p.inside
  <2>1. CASE op = "use"
    BY <1>4, <2>1 DEF StepFits, UseFits
  <2>2. CASE op = "copy"
    BY <1>4, <2>2 DEF StepFits, CopyFits
  <2>3. CASE op = "set"
    BY <1>4, <2>3 DEF StepFits, SetFits
  <2>4. CASE op = "alloc"
    BY <1>4, <2>4 DEF StepFits, AllocStepFits
  <2>5. CASE op = "push"
    BY <1>4, <2>5 DEF StepFits, PushFits
  <2>6. CASE op = "pop"
    BY <1>4, <2>6 DEF StepFits, PopFits
  <2> QED
    BY <2>1, <2>2, <2>3, <2>4, <2>5, <2>6
<1>6. \A d \in 1 .. Len(frames) : At(Discipline, frames', d).inside => At(Discipline, frames, d).inside
  <2>1. PICK n \in 1 .. 3 : n = Len(frames)
    BY <1>4 DEF Moves
  <2>2. \A d \in 1 .. n : d < n \/ d = n
    OBVIOUS
  <2> QED
    BY <1>4, <1>5, <2>1, <2>2 DEF Moves
<1>7. Len(frames') = Len(frames) /\ \A d \in 1 .. Len(frames) : frames'[d].flag = frames[d].flag
  <2>1. frames \in Seq(Frame)
    BY DEF Here
  <2>2. PICK n \in 1 .. 3 : n = Len(frames)
    BY <1>4 DEF Moves
  <2>3. frames' = [frames EXCEPT ![n] = [frames[n] EXCEPT !.pc = frames[n].pc + 1]]
    BY <2>1, <2>2 DEF Advance, depth
  <2>4. frames[n] \in Frame
    BY <2>1, <2>2
  <2>5. [frames[n] EXCEPT !.pc = frames[n].pc + 1].flag = frames[n].flag
    BY <2>4 DEF Frame
  <2> DEFINE g == [frames[n] EXCEPT !.pc = frames[n].pc + 1]
  <2> HIDE DEF g
  <2>6. frames' = [frames EXCEPT ![n] = g] /\ g.flag = frames[n].flag
    BY <2>3, <2>5 DEF g
  <2>7. \A d \in 1 .. n : frames'[d] = IF d = n THEN g ELSE frames[d]
    BY <2>1, <2>2, <2>6
  <2> QED
    BY <1>4, <2>2, <2>6, <2>7 DEF Moves
<1> QED
  BY <1>6, <1>7 DEF FlagsFit

LEMMA FlagsEnter ==
  ASSUME ProtocolInv(Discipline), FlagsFit(Discipline, frames, top), PreGC
  PROVE  ProtocolInv(Discipline)' /\ FlagsFit(Discipline, frames, top)'
<1>1. Here("pre")
  BY StepIsHere DEF PreGC
<1>2. PICK n \in Nat : n = Len(frames) /\ n > 0
  BY <1>1 DEF Here
<1> DEFINE fl == top = 0
<1>3. /\ frames' = [frames EXCEPT ![Len(frames)].pc = @ + 1, ![Len(frames)].flag = fl]
      /\ top' = IF top = 0 THEN Len(frames) ELSE top
      /\ UNCHANGED <<mem, pool, exited>>
  BY DEF PreGC, depth
<1>4. fl \in BOOLEAN
  OBVIOUS
<1> HIDE DEF fl
<1>5. Stepped(frames, frames')
  BY <1>1, <1>3, <1>4, Advanced DEF Here
<1>6. PICK b \in 0 .. 1 : \E p, q : /\ Sound(Discipline, mem, frames, top, pool, b)
                                    /\ Takes(Discipline, frames, frames', Step, p, q)
  BY <1>1, <1>5, DisciplineIsKept, StepIsTaken
<1>7. PICK p, q : Takes(Discipline, frames, frames', Step, p, q)
  BY <1>6
<1>8. Step.op = "pre" /\ Sound(Discipline, mem, frames, top, pool, b)
  BY <1>1, <1>6 DEF Here
<1>9. Sound(Discipline, mem, frames', IF top = 0 THEN Len(frames) ELSE top, pool, b)
  BY <1>7, <1>8, DisciplineIsKept, SoundPre
<1>10. ProtocolInv(Discipline)'
  BY <1>3, <1>9 DEF ProtocolInv
<1>11. Moves(Discipline, frames, frames', p, q) /\ PreFits(p, q)
  BY <1>7, <1>8 DEF Takes, StepFits
<1>12. n \in 1 .. 3 /\ Len(frames') = n /\ GuardFits(Discipline, frames, top)
  BY <1>2, <1>8, <1>11 DEF Moves, Sound
<1>13. \A d \in 1 .. n : frames'[d].flag = IF d = n THEN fl ELSE frames[d].flag
  <2>1. frames \in Seq(Frame)
    BY <1>1 DEF Here
  <2>2. frames[n] \in Frame
    BY <1>2, <2>1
  <2> DEFINE g1 == [frames[n] EXCEPT !.pc = frames[n].pc + 1]
             g == [g1 EXCEPT !.flag = fl]
  <2>3. g1 \in Frame
    BY <2>2, FrameAdvances
  <2>4. frames' = [[frames EXCEPT ![n] = g1] EXCEPT ![n].flag = fl]
    BY <1>2, <1>3, <2>1
  <2> HIDE DEF g1
  <2>5. frames' = [frames EXCEPT ![n] = g]
    BY <1>2, <2>1, <2>4
  <2>6. g.flag = fl
    BY <2>3 DEF Frame
  <2> HIDE DEF g
  <2>7. \A d \in 1 .. n : frames'[d] = IF d = n THEN g ELSE frames[d]
    BY <1>2, <2>1, <2>5
  <2> QED
    BY <2>6, <2>7
<1>14. ASSUME NEW d \in 1 .. n, At(Discipline, frames', d).inside
       PROVE  frames'[d].flag <=> top' = d
  <2>1. ~At(Discipline, frames, n).inside
    BY <1>2, <1>11 DEF Moves, PreFits
  <2>2. top \in 0 .. n /\ top # n
    BY <1>2, <1>12, <2>1 DEF GuardFits
  <2>3. CASE d = n
    <3>1. frames'[d].flag = fl
      BY <1>13, <2>3
    <3>2. top' = n <=> top = 0
      BY <1>2, <1>3, <1>12, <2>2
    <3> QED
      BY <2>3, <3>1, <3>2 DEF fl
  <2>4. CASE d # n
    <3>1. d < n
      BY <1>12, <2>4
    <3>2. At(Discipline, frames, d).inside /\ frames'[d].flag = frames[d].flag
      BY <1>2, <1>11, <1>13, <1>14, <2>4, <3>1 DEF Moves
    <3>3. frames[d].flag <=> top = d
      BY <1>2, <3>2 DEF FlagsFit
    <3>4. top # 0
      BY <1>2, <1>12, <3>2 DEF GuardFits
    <3> QED
      BY <1>3, <3>2, <3>3, <3>4
  <2> QED
    BY <2>3, <2>4
<1>15. FlagsFit(Discipline, frames', top')
  BY <1>12, <1>14 DEF FlagsFit
<1> QED
  BY <1>10, <1>15 DEF FlagsFit

LEMMA FlagsLeave ==
  ASSUME ProtocolInv(Discipline), FlagsFit(Discipline, frames, top), PostGC
  PROVE  ProtocolInv(Discipline)' /\ FlagsFit(Discipline, frames, top)'
<1>1. Here("post")
  BY StepIsHere DEF PostGC
<1>2. PICK n \in Nat : n = Len(frames) /\ n > 0
  BY <1>1 DEF Here
<1>3. /\ frames' = [frames EXCEPT ![Len(frames)].pc = @ + 1]
      /\ top' = IF frames[Len(frames)].flag THEN 0 ELSE top
      /\ UNCHANGED <<mem, pool, exited>>
  BY DEF PostGC, Advance, Running, depth
<1>4. Stepped(frames, frames')
  BY <1>1, AdvanceSteps DEF PostGC
<1>5. PICK b \in 0 .. 1 : \E p, q : /\ Sound(Discipline, mem, frames, top, pool, b)
                                    /\ Takes(Discipline, frames, frames', Step, p, q)
  BY <1>1, <1>4, DisciplineIsKept, StepIsTaken
<1>6. PICK p, q : Takes(Discipline, frames, frames', Step, p, q)
  BY <1>5
<1>7. Step.op = "post" /\ Sound(Discipline, mem, frames, top, pool, b)
  BY <1>1, <1>5 DEF Here
<1>8. Sound(Discipline, mem, frames', IF top = Len(frames) THEN 0 ELSE top, pool, b)
  BY <1>6, <1>7, DisciplineIsKept, SoundPost
<1>9. Moves(Discipline, frames, frames', p, q) /\ PostFits(p, q)
  BY <1>6, <1>7 DEF Takes, StepFits
<1>10. n \in 1 .. 3 /\ Len(frames') = n /\ GuardFits(Discipline, frames, top)
  BY <1>2, <1>7, <1>9 DEF Moves, Sound
<1>11. frames[n].flag <=> top = n
  <2>1. At(Discipline, frames, n).inside /\ n \in 1 .. n
    BY <1>2, <1>9, <1>10 DEF Moves, PostFits
  <2> QED
    BY <1>2, <2>1 DEF FlagsFit
<1>12. top' = IF top = Len(frames) THEN 0 ELSE top
  BY <1>2, <1>3, <1>11
<1>13. ProtocolInv(Discipline)'
  BY <1>3, <1>8, <1>12 DEF ProtocolInv
<1>14. \A d \in 1 .. n : d # n => frames'[d] = frames[d]
  <2>1. frames \in Seq(Frame)
    BY <1>1 DEF Here
  <2> QED
    BY <1>2, <1>3, <2>1
<1>15. ASSUME NEW d \in 1 .. n, At(Discipline, frames', d).inside
       PROVE  frames'[d].flag <=> top' = d
  <2>1. d # n /\ d < n
    <3>1. ~At(Discipline, frames', n).inside
      BY <1>2, <1>9 DEF Moves, PostFits
    <3>2. d # n
      BY <1>15, <3>1
    <3> QED
      BY <1>10, <3>2
  <2>2. At(Discipline, frames, d).inside /\ frames'[d].flag = frames[d].flag
    BY <1>2, <1>9, <1>14, <1>15, <2>1 DEF Moves
  <2>3. frames[d].flag <=> top = d
    BY <1>2, <2>2 DEF FlagsFit
  <2>4. top # n
    BY <1>2, <1>10, <2>1, <2>2 DEF GuardFits
  <2> QED
    BY <1>2, <1>12, <2>2, <2>3, <2>4
<1>16. FlagsFit(Discipline, frames', top')
  BY <1>10, <1>15 DEF FlagsFit
<1> QED
  BY <1>13, <1>16 DEF FlagsFit

LEMMA FlagsOfCallee ==
  ASSUME ProtocolInv(Discipline), FlagsFit(Discipline, frames, top), CallInner
  PROVE  ProtocolInv(Discipline)' /\ FlagsFit(Discipline, frames, top)'
<1>1. Here("call")
  BY StepIsHere DEF CallInner
<1>2. ProtocolInv(Discipline)'
  BY CallInnerKeeps, DisciplineIsKept
<1>3. FramesFit(Discipline, frames) /\ FramesFit(Discipline, frames')
  BY <1>2 DEF ProtocolInv, Sound
<1> DEFINE fs2 == [frames EXCEPT ![Len(frames)].pc = @ + 1]
           fr  == CalledFrame(frames, Step)
<1>4. frames' = Append(fs2, fr) /\ top' = top
  BY <1>1 DEF CallInner, depth, Here, CalledFrame
<1>5. fr.pc = 1
  BY DEF CalledFrame, NewFrame
<1>6. PICK n \in 1 .. 3 : n = Len(frames)
  <2>1. Len(frames) \in 1 .. 3
    BY <1>1, <1>3, DepthIn DEF Here
  <2> QED
    BY <2>1
<1>7. frames \in Seq(Frame) /\ frames[n] \in Frame
  BY <1>1, <1>6 DEF Here
<1> DEFINE g == [frames[n] EXCEPT !.pc = frames[n].pc + 1]
<1>8. g \in Frame /\ g.flag = frames[n].flag /\ Key(g) = Key(frames[n])
  <2>1. g \in Frame /\ g.fn = frames[n].fn /\ g.args = frames[n].args
    BY <1>7, FrameAdvances
  <2>2. g.flag = frames[n].flag
    BY <1>7 DEF Frame
  <2> QED
    BY <2>1, <2>2 DEF Key
<1>9. fs2 = [frames EXCEPT ![n] = g]
  BY <1>6, <1>7
<1> HIDE DEF fs2, fr, g
<1>10. fs2 \in Seq(Frame) /\ Len(fs2) = n /\ \A d \in 1 .. n : fs2[d] = IF d = n THEN g ELSE frames[d]
  BY <1>6, <1>7, <1>8, <1>9
<1>11. fs2 \in Seq(Frame \union {fr}) /\ fr \in Frame \union {fr}
  BY <1>10
<1>12. /\ Len(frames') = n + 1 /\ frames'[n + 1] = fr
       /\ \A d \in 1 .. n : frames'[d] = fs2[d]
  BY <1>4, <1>10, <1>11, AppendProperties
<1>13. ASSUME NEW d \in 1 .. n + 1, At(Discipline, frames', d).inside
       PROVE  frames'[d].flag <=> top' = d
  <2>1. d # n + 1
    <3>1. n + 1 \in 1 .. Len(frames')
      BY <1>6, <1>12
    <3>2. ~At(Discipline, frames', n + 1).inside
      BY <1>3, <1>5, <1>12, <3>1, NewOutside
    <3> QED
      BY <1>13, <3>2
  <2>2. d \in 1 .. n
    BY <1>6, <2>1
  <2>3. CASE d # n
    <3>1. frames'[d] = frames[d]
      BY <1>10, <1>12, <2>2, <2>3
    <3>2. At(Discipline, frames, d).inside
      BY <1>13, <3>1 DEF At
    <3> QED
      BY <1>4, <1>6, <2>2, <3>1, <3>2 DEF FlagsFit
  <2>4. CASE d = n
    <3>1. frames'[n].flag = frames[n].flag
      BY <1>8, <1>10, <1>12, <2>2, <2>4
    <3>2. At(Discipline, frames, n).inside
      <4>1. Stepped(frames, fs2)
        BY <1>1, <1>7, Advanced DEF Here, fs2
      <4>2. PICK b \in 0 .. 1 : \E p, q : /\ Sound(Discipline, mem, frames, top, pool, b)
                                          /\ Takes(Discipline, frames, fs2, Step, p, q)
        BY <1>1, <4>1, DisciplineIsKept, StepIsTaken
      <4>3. PICK p, q : Takes(Discipline, frames, fs2, Step, p, q)
        BY <4>2
      <4>4. Moves(Discipline, frames, fs2, p, q) /\ q.inside = p.inside
        BY <1>1, <4>3 DEF Takes, Here, StepFits, CallFits
      <4>5. At(Discipline, fs2, n).inside
        BY <1>12, <1>13, <2>2, <2>4 DEF At
      <4> QED
        BY <1>6, <4>4, <4>5 DEF Moves
    <3> QED
      BY <1>4, <1>6, <2>4, <3>1, <3>2 DEF FlagsFit
  <2> QED
    BY <2>3, <2>4
<1>14. FlagsFit(Discipline, frames', top')
  BY <1>12, <1>13 DEF FlagsFit
<1> QED
  BY <1>2, <1>14 DEF FlagsFit

LEMMA FlagsReturn ==
  ASSUME ProtocolInv(Discipline), FlagsFit(Discipline, frames, top), Return
  PROVE  ProtocolInv(Discipline)' /\ FlagsFit(Discipline, frames, top)'
<1>1. ProtocolInv(Discipline)'
  BY ReturnKeeps, DisciplineIsKept
<1>2. frames \in Seq(Frame) /\ Len(frames) > 0 /\ frames' = Front(frames) /\ top' = top
  BY DEF ProtocolInv, Sound, FramesFit, Return, depth
<1>3. PICK n \in Nat : n = Len(frames) /\ n > 0
  BY <1>2
<1>4. Front(frames) = [i \in 1 .. n - 1 |-> frames[i]]
  <2>1. Front(frames) = SubSeq(frames, 1, n - 1)
    BY <1>3 DEF Front
  <2> QED
    BY <1>2, <1>3, <2>1
<1>5. Len(frames') = n - 1 /\ \A d \in 1 .. n - 1 : frames'[d] = frames[d]
  <2>1. n - 1 \in Nat
    BY <1>3
  <2> QED
    BY <1>2, <1>4, <2>1
<1>6. ASSUME NEW d \in 1 .. n - 1, At(Discipline, frames', d).inside
      PROVE  frames'[d].flag <=> top' = d
  <2>1. d \in 1 .. n /\ frames'[d] = frames[d]
    BY <1>3, <1>5
  <2>2. At(Discipline, frames, d).inside
    BY <1>6, <2>1 DEF At
  <2> QED
    BY <1>2, <1>3, <2>1, <2>2 DEF FlagsFit
<1> QED
  BY <1>1, <1>5, <1>6 DEF FlagsFit

\* A frame that enters an empty list of frames.
LEMMA FlagsOfOuter ==
  ASSUME ProtocolInv(Discipline)', NEW fr, frames' = <<fr>>, fr.pc = 1
  PROVE  FlagsFit(Discipline, frames, top)'
<1>1. FramesFit(Discipline, frames')
  BY DEF ProtocolInv, Sound
<1>2. Len(frames') = 1 /\ frames'[1] = fr
  OBVIOUS
<1>3. ~At(Discipline, frames', 1).inside
  BY <1>1, <1>2, NewOutside
<1>4. \A d \in 1 .. Len(frames') : d = 1
  BY <1>2
<1> QED
  BY <1>3, <1>4 DEF FlagsFit

-----------------------------------------------------------------------------
(* The room in the pool. *)

LEMMA RoomHere ==
  ASSUME NEW k \in Keys, NEW pc \in 1 .. Len(Steps(k))
  PROVE  /\ HasRoom(k, Steps(k)[pc], Discipline[k].points[pc], Discipline[k].points[pc + 1])
         /\ StepFits(Discipline, k, Steps(k)[pc], Discipline[k].points[pc], Discipline[k].points[pc + 1])
BY KeyFits, OfDiscipline DEF Fits, Typed

\* A frame leaves room for the one it has called.
LEMMA RoomForCallee ==
  ASSUME NEW fs, FramesFit(Discipline, fs), NEW d \in 1 .. Len(fs), d < Len(fs)
  PROVE  Len(At(Discipline, fs, d).held) + Need(Key(fs[d + 1])) <= Need(Key(fs[d]))
<1> DEFINE k == Key(fs[d])
           pc == fs[d].pc - 1
<1>1. PICK n \in 0 .. 3 : n = Len(fs)
  BY DepthOf
<1>2. d \in 1 .. Len(fs) - 1
  BY <1>1
<1>3. Waits(fs, d) /\ FrameFits(Discipline, fs, d)
  BY <1>2 DEF FramesFit
<1>4. k \in Keys /\ fs[d].pc \in 1 .. Len(Discipline[k].points)
  BY <1>3 DEF FrameFits, Discipline
<1>5. Len(Steps(k)) \in Nat /\ Len(Discipline[k].points) = Len(Steps(k)) + 1
  BY <1>4, KeyShaped DEF Shaped
<1>6. pc \in 1 .. Len(Steps(k)) /\ pc + 1 = fs[d].pc
  BY <1>3, <1>4, <1>5 DEF Waits
<1>7. Steps(k)[pc].op = "call" /\ Key(fs[d + 1]) = <<Steps(k)[pc].fn, Len(Steps(k)[pc].args)>>
  BY <1>3 DEF Waits
<1>8. At(Discipline, fs, d) = Discipline[k].points[pc + 1]
  BY <1>6 DEF At
<1> HIDE DEF k, pc
<1>9. /\ HasRoom(k, Steps(k)[pc], Discipline[k].points[pc], Discipline[k].points[pc + 1])
      /\ StepFits(Discipline, k, Steps(k)[pc], Discipline[k].points[pc], Discipline[k].points[pc + 1])
  BY <1>4, <1>6, RoomHere
<1>10. Discipline[k].points[pc + 1].held = Discipline[k].points[pc].held
  BY <1>7, <1>9 DEF StepFits, CallFits
<1>11. Len(Discipline[k].points[pc].held) + Need(<<Steps(k)[pc].fn, Len(Steps(k)[pc].args)>>) <= Need(k)
  BY <1>7, <1>9 DEF HasRoom
<1> QED
  BY <1>7, <1>8, <1>10, <1>11 DEF k

LEMMA NeedIs ==
  ASSUME NEW k \in Keys
  PROVE  /\ Need(k) \in Int
         /\ Need(k) > 2 => \/ k[1] = "Barray" /\ k[2] = Need(k)
                           \/ k[1] \in {"Bclosure", "Bsexp"} /\ k[2] = Need(k) + 1
<1>1. k[2] \in Nat
  BY ConstantsAssumption, KeyParts
<1> QED
  BY <1>1 DEF Need

\* All frames together need no more room than the outermost one.
LEMMA RoomInPool ==
  ASSUME NEW fs, FramesFit(Discipline, fs), Len(fs) > 0, NEW b \in 0 .. 1
  PROVE  Offset(Discipline, fs, b, Len(fs)) + Need(Key(fs[Len(fs)])) <= b + Need(Key(fs[1]))
<1>1. PICK n \in 1 .. 3 : n = Len(fs)
  BY DepthIn
<1>2. ASSUME NEW d \in 1 .. n
      PROVE  Need(Key(fs[d])) \in Int /\ Len(At(Discipline, fs, d).held) \in Nat
  <2>1. Key(fs[d]) \in Keys
    BY <1>1 DEF FramesFit, FrameFits, Discipline
  <2>2. Len(At(Discipline, fs, d).held) \in Nat
    BY <1>1, HeldTyped, DisciplineIsKept
  <2> QED
    BY <2>1, <2>2, NeedIs
<1>3. \A d \in 1 .. n : d < n =>
        Len(At(Discipline, fs, d).held) + Need(Key(fs[d + 1])) <= Need(Key(fs[d]))
  BY <1>1, RoomForCallee
<1>4. CASE n = 1
  BY <1>1, <1>2, <1>4 DEF Offset
<1>5. CASE n = 2
  <2>1. /\ Need(Key(fs[1])) \in Int /\ Need(Key(fs[2])) \in Int /\ Len(At(Discipline, fs, 1).held) \in Nat
        /\ Len(At(Discipline, fs, 1).held) + Need(Key(fs[2])) <= Need(Key(fs[1]))
    <3>1. 1 \in 1 .. n /\ 2 \in 1 .. n /\ 1 < n /\ 1 + 1 = 2
      BY <1>5
    <3> QED
      BY <1>2, <1>3, <3>1
  <2>2. Offset(Discipline, fs, b, 2) = b + Len(At(Discipline, fs, 1).held)
    BY <2>1 DEF Offset
  <2> QED
    BY <1>1, <1>5, <2>1, <2>2
<1>6. CASE n = 3
  <2>1. /\ Need(Key(fs[1])) \in Int /\ Need(Key(fs[2])) \in Int /\ Need(Key(fs[3])) \in Int
        /\ Len(At(Discipline, fs, 1).held) \in Nat /\ Len(At(Discipline, fs, 2).held) \in Nat
        /\ Len(At(Discipline, fs, 1).held) + Need(Key(fs[2])) <= Need(Key(fs[1]))
        /\ Len(At(Discipline, fs, 2).held) + Need(Key(fs[3])) <= Need(Key(fs[2]))
    <3>1. 1 \in 1 .. n /\ 2 \in 1 .. n /\ 3 \in 1 .. n /\ 1 < n /\ 1 + 1 = 2 /\ 2 < n /\ 2 + 1 = 3
      BY <1>6
    <3> QED
      BY <1>2, <1>3, <3>1
  <2>2. Offset(Discipline, fs, b, 3) = b + Len(At(Discipline, fs, 1).held) + Len(At(Discipline, fs, 2).held)
    BY <2>1 DEF Offset
  <2>4. b + Len(At(Discipline, fs, 1).held) + Len(At(Discipline, fs, 2).held) + Need(Key(fs[3]))
          <= b + Need(Key(fs[1]))
    <3> DEFINE x == Len(At(Discipline, fs, 1).held)
               y == Len(At(Discipline, fs, 2).held)
               u == Need(Key(fs[1]))
               v == Need(Key(fs[2]))
               w == Need(Key(fs[3]))
    <3>1. x \in Int /\ y \in Int /\ u \in Int /\ v \in Int /\ w \in Int /\ x + v <= u /\ y + w <= v
      BY <2>1
    <3> HIDE DEF x, y, u, v, w
    <3>2. b + x + y + w <= b + u
      BY <3>1
    <3> QED
      BY <3>2 DEF x, y, u, w
  <2> QED
    BY <1>1, <1>6, <2>2, <2>4
<1> QED
  BY <1>4, <1>5, <1>6

\* A frame that pushes a word has room for it, if the outermost frame has.
LEMMA PushFindsRoom ==
  ASSUME ProtocolInv(Discipline), Here("push")
  PROVE  /\ frames # <<>> /\ Key(frames[1]) \in Keys
         /\ Len(pool) \in Nat /\ Len(pool) <= Need(Key(frames[1]))
<1>1. \E fs2 : Stepped(frames, fs2)
  BY Advanced DEF Here
<1>2. PICK fs2 : Stepped(frames, fs2)
  BY <1>1
<1>3. PICK b \in 0 .. 1 : \E p, q : /\ Sound(Discipline, mem, frames, top, pool, b)
                                    /\ Takes(Discipline, frames, fs2, Step, p, q)
  BY <1>2, DisciplineIsKept, StepIsTaken
<1>4. PICK p, q : Takes(Discipline, frames, fs2, Step, p, q)
  BY <1>3
<1>5. /\ FramesFit(Discipline, frames) /\ PoolFits(Discipline, frames, pool, b)
      /\ Moves(Discipline, frames, fs2, p, q)
  BY <1>3, <1>4 DEF Sound, Takes
<1>6. PICK n \in 1 .. 3 : n = Len(frames)
  BY <1>5 DEF Moves
<1> DEFINE k == Key(frames[n])
           pc == frames[n].pc
<1>7. k \in Keys /\ Key(frames[1]) \in Keys
  <2>1. 1 \in 1 .. Len(frames) /\ n \in 1 .. Len(frames)
    BY <1>6
  <2> QED
    BY <1>5, <2>1 DEF FramesFit, FrameFits, Discipline
<1>8. pc \in 1 .. Len(Steps(k)) /\ Step = Steps(k)[pc]
  <2>1. pc \in 1 .. Len(Steps(k)) + 1
    BY <1>5, <1>6, FrameTyped, DisciplineIsKept
  <2>2. Len(Steps(k)) \in Nat
    BY <1>7, KeyShaped DEF Shaped
  <2> QED
    BY <1>6, <2>1, <2>2 DEF Here, Ready
<1>9. /\ HasRoom(k, Step, Discipline[k].points[pc], Discipline[k].points[pc + 1])
      /\ StepFits(Discipline, k, Step, Discipline[k].points[pc], Discipline[k].points[pc + 1])
  BY <1>7, <1>8, RoomHere
<1>10. At(Discipline, frames, n) = Discipline[k].points[pc]
  BY DEF At
<1>11. Len(At(Discipline, frames, n).held) \in Nat
  BY <1>5, <1>6, HeldTyped, DisciplineIsKept
<1>12. Len(At(Discipline, frames, n).held) + 1 <= Need(k)
  <2>1. Discipline[k].points[pc + 1].held = Append(At(Discipline, frames, n).held, Step.cell)
    BY <1>9, <1>10 DEF StepFits, PushFits, Here
  <2>2. At(Discipline, frames, n).held \in Seq(Operands(Len(frames[n].args)))
    BY <1>5, <1>6, HeldTyped, DisciplineIsKept
  <2>3. ASSUME NEW S, NEW h \in Seq(S), NEW c
        PROVE  Len(Append(h, c)) = Len(h) + 1
    <3>1. h \in Seq(S \union {c}) /\ c \in S \union {c}
      BY <2>3
    <3> QED
      BY <3>1, AppendProperties
  <2>4. Len(Discipline[k].points[pc + 1].held) = Len(At(Discipline, frames, n).held) + 1
    BY <2>1, <2>2, <2>3
  <2> QED
    BY <1>9, <2>4 DEF HasRoom
<1>13. /\ Len(pool) = Offset(Discipline, frames, b, n + 1)
       /\ Offset(Discipline, frames, b, n + 1) = Offset(Discipline, frames, b, n) + Len(At(Discipline, frames, n).held)
       /\ Offset(Discipline, frames, b, n) \in Nat
  <2>1. Stacked(Discipline, frames, b)
    BY <1>5, PoolIsStacked, DisciplineIsKept
  <2> QED
    BY <1>5, <1>6, <2>1 DEF Stacked, PoolFits
<1>14. Offset(Discipline, frames, b, n) + Need(k) <= b + Need(Key(frames[1]))
  BY <1>5, <1>6, RoomInPool
<1>15. Need(k) \in Int /\ Need(Key(frames[1])) \in Int
  BY <1>7, NeedIs
<1>16. Len(pool) \in Nat /\ Len(pool) <= Need(Key(frames[1]))
  <2> HIDE DEF k, pc
  <2> QED
    BY <1>11, <1>12, <1>13, <1>14, <1>15
<1> QED
  BY <1>6, <1>7, <1>16

-----------------------------------------------------------------------------
(* The inductive invariant and what it implies. *)

\* At the start nothing is registered and no frame is there.
LEMMA InitIsKept ==
  ASSUME Init
  PROVE  IInv
<1>1. ProtocolInv(Discipline)
  BY InitIsSound
<1>2. Len(frames) = 0 /\ exited = FALSE
  BY DEF Init
<1> QED
  BY <1>1, <1>2 DEF IInv, FlagsFit, OnlyLongLiteralsExit

\* push_extra_root, with room in the pool or without.
LEMMA PushKeeps ==
  ASSUME IInv, PushExtraRoot
  PROVE  IInv'
<1>1. ProtocolInv(Discipline) /\ FlagsFit(Discipline, frames, top) /\ AtStep("push")
  BY DEF IInv, PushExtraRoot
<1>2. Here("push")
  BY <1>1, StepIsHere
<1>3. exited = FALSE /\ Len(pool) \in Nat /\ MaxRoots \in Nat
  BY <1>1, <1>2, PushFindsRoom, ConstantsAssumption DEF ProtocolInv, AtStep
<1>4. CASE Len(pool) >= MaxRoots
  <2>1. exited' = TRUE /\ UNCHANGED <<mem, frames, top, pool>>
    BY <1>4 DEF PushExtraRoot
  <2>2. ProtocolInv(Discipline)' /\ FlagsFit(Discipline, frames, top)'
    BY <1>1, <2>1 DEF ProtocolInv, FlagsFit
  <2>3. /\ Key(frames[1]) \in Keys /\ Need(Key(frames[1])) \in Int
        /\ Len(pool) <= Need(Key(frames[1]))
    BY <1>1, <1>2, PushFindsRoom, NeedIs
  <2>4. Need(Key(frames[1])) > 2 /\ Need(Key(frames[1])) >= MaxRoots
    BY <1>3, <1>4, <2>3, ConstantsAssumption
  <2>5. \/ frames[1].fn = "Barray" /\ Len(frames[1].args) = Need(Key(frames[1]))
        \/ frames[1].fn \in {"Bclosure", "Bsexp"} /\ Len(frames[1].args) = Need(Key(frames[1])) + 1
    <3>1. Key(frames[1])[1] = frames[1].fn /\ Key(frames[1])[2] = Len(frames[1].args)
      BY DEF Key
    <3> QED
      BY <2>3, <2>4, <3>1, NeedIs
  <2>6. OnlyLongLiteralsExit
    BY <1>3, <2>3, <2>4, <2>5 DEF OnlyLongLiteralsExit
  <2>7. OnlyLongLiteralsExit'
    BY <1>3, <2>1, <2>3, <2>4, <2>5 DEF OnlyLongLiteralsExit
  <2> QED
    BY <2>2, <2>7 DEF IInv
<1>5. CASE ~(Len(pool) >= MaxRoots)
  <2>1. pool' = Append(pool, The(Step.cell)) /\ Advance /\ UNCHANGED <<mem, top, exited>>
    BY <1>5 DEF PushExtraRoot
  <2>2. FlagsFit(Discipline, frames, top)'
    <3>1. FlagsFit(Discipline, frames', top)
      BY <1>1, <1>2, <2>1, FlagsAdvance
    <3> QED
      BY <2>1, <3>1 DEF FlagsFit
  <2>3. Stepped(frames, frames')
    BY <1>2, <2>1, AdvanceSteps
  <2>4. PICK b \in 0 .. 1 : \E p, q : /\ Sound(Discipline, mem, frames, top, pool, b)
                                      /\ Takes(Discipline, frames, frames', Step, p, q)
    BY <1>1, <1>2, <2>3, DisciplineIsKept, StepIsTaken
  <2>5. pool' = Append(pool, Place(frames, Len(frames), Step.cell))
    BY <1>2, <2>1 DEF Here
  <2>6. Sound(Discipline, mem, frames', top, pool', b)
    BY <1>2, <2>4, <2>5, DisciplineIsKept, SoundPush DEF Here
  <2>7. Len(pool') <= MaxRoots
    <3>1. pool \in Seq(Cells) /\ pool' \in Seq(Cells)
      BY <2>4, <2>6 DEF Sound, PoolFits
    <3>2. Len(pool') = Len(pool) + 1
      BY <2>1, <3>1, AppendProperties
    <3> QED
      BY <1>3, <1>5, <3>2
  <2>8. ProtocolInv(Discipline)'
    BY <1>3, <2>1, <2>6, <2>7 DEF ProtocolInv
  <2>9. OnlyLongLiteralsExit'
    BY <1>3, <2>1 DEF OnlyLongLiteralsExit
  <2> QED
    BY <2>2, <2>8, <2>9 DEF IInv
<1> QED
  BY <1>4, <1>5

LEMMA PopKeeps ==
  ASSUME ProtocolInv(Discipline), FlagsFit(Discipline, frames, top), PopExtraRoot
  PROVE  ProtocolInv(Discipline)' /\ FlagsFit(Discipline, frames, top)'
<1>1. Here("pop")
  BY StepIsHere DEF PopExtraRoot
<1>2. Advance /\ pool' = Front(pool) /\ UNCHANGED <<mem, top, exited>>
  BY DEF PopExtraRoot
<1>3. FlagsFit(Discipline, frames, top)'
  <2>1. FlagsFit(Discipline, frames', top)
    BY <1>1, <1>2, FlagsAdvance
  <2> QED
    BY <1>2, <2>1 DEF FlagsFit
<1>4. Stepped(frames, frames')
  BY <1>1, <1>2, AdvanceSteps
<1>5. PICK b \in 0 .. 1 : \E p, q : /\ Sound(Discipline, mem, frames, top, pool, b)
                                    /\ Takes(Discipline, frames, frames', Step, p, q)
  BY <1>1, <1>4, DisciplineIsKept, StepIsTaken
<1>6. Sound(Discipline, mem, frames', top, pool', b) /\ pool # <<>>
  BY <1>1, <1>2, <1>5, DisciplineIsKept, SoundPop DEF Here
<1>7. Len(pool') <= MaxRoots
  <2>1. pool \in Seq(Cells)
    BY <1>5 DEF Sound, PoolFits
  <2>2. PICK n \in Nat : n = Len(pool) /\ n > 0
    BY <1>6, <2>1
  <2>3. Front(pool) = [i \in 1 .. n - 1 |-> pool[i]]
    <3>1. Front(pool) = SubSeq(pool, 1, n - 1)
      BY <2>2 DEF Front
    <3> QED
      BY <2>1, <2>2, <3>1
  <2>4. Len(pool') = n - 1
    <3>1. n - 1 \in Nat
      BY <2>2
    <3> QED
      BY <1>2, <2>3, <3>1
  <2>5. n <= MaxRoots
    BY <2>2 DEF ProtocolInv
  <2> QED
    BY <2>2, <2>4, <2>5, ConstantsAssumption
<1>8. ProtocolInv(Discipline)'
  BY <1>2, <1>6, <1>7 DEF ProtocolInv
<1> QED
  BY <1>3, <1>8

\* A step of the running function that only moves words.
LEMMA WordsKeep ==
  ASSUME ProtocolInv(Discipline), FlagsFit(Discipline, frames, top),
         AllocFits \/ AllocCollects \/ UseWords \/ CopyWord \/ SetWord
  PROVE  ProtocolInv(Discipline)' /\ FlagsFit(Discipline, frames, top)'
<1>1. ProtocolInv(Discipline)'
  BY AllocKeeps, UseWordsKeeps, CopyWordKeeps, SetWordKeeps, DisciplineIsKept
<1>2. PICK op \in {"use", "copy", "set", "alloc"} : AtStep(op) /\ Advance /\ UNCHANGED top
  BY DEF AllocFits, AllocCollects, UseWords, CopyWord, SetWord
<1>3. Here(op)
  BY <1>2, StepIsHere
<1>4. FlagsFit(Discipline, frames', top)
  BY <1>2, <1>3, FlagsAdvance
<1> QED
  BY <1>1, <1>2, <1>4 DEF FlagsFit

LEMMA EntersKeep ==
  ASSUME ProtocolInv(Discipline), Start \/ CallRuntime
  PROVE  ProtocolInv(Discipline)' /\ FlagsFit(Discipline, frames, top)'
<1>1. ProtocolInv(Discipline)'
  BY StartKeeps, CallRuntimeKeeps, DisciplineIsKept, DisciplineCovers
<1>2. \A f, args, to : NewFrame(f, args, to).pc = 1
  BY DEF NewFrame
<1>3. PICK f, args, to : frames' = <<NewFrame(f, args, to)>>
  BY DEF Start, CallRuntime
<1>4. PICK fr : frames' = <<fr>> /\ fr.pc = 1
  BY <1>2, <1>3
<1> QED
  BY <1>1, <1>4, FlagsOfOuter

\* Every step keeps the invariant.
LEMMA StepKeeps ==
  ASSUME IInv, [Next]_vars
  PROVE  IInv'
<1>1. ProtocolInv(Discipline) /\ FlagsFit(Discipline, frames, top)
  BY DEF IInv
<1>2. CASE UNCHANGED vars
  BY <1>2 DEF IInv, ProtocolInv, FlagsFit, OnlyLongLiteralsExit, vars
<1>3. CASE PushExtraRoot
  BY <1>3, PushKeeps
<1>4. ASSUME Next, ~PushExtraRoot
      PROVE  ProtocolInv(Discipline)' /\ FlagsFit(Discipline, frames, top)'
  BY <1>1, <1>4, EntersKeep, FlagsEnter, FlagsLeave, PopKeeps, WordsKeep, FlagsOfCallee,
     FlagsReturn DEF Next
<1>5. ASSUME Next, ~PushExtraRoot
      PROVE  OnlyLongLiteralsExit'
  <2>1. ~exited /\ exited' = exited
    BY <1>5 DEF Next, Start, CallRuntime, PreGC, PostGC, PopExtraRoot, AllocFits, AllocCollects,
       UseWords, CopyWord, SetWord, CallInner, Return, AtStep
  <2> QED
    BY <2>1 DEF OnlyLongLiteralsExit
<1> QED
  BY <1>2, <1>3, <1>4, <1>5 DEF IInv

LEMMA IInvImplies ==
  ASSUME IInv
  PROVE  /\ ChecksPass /\ CallsAreBalanced /\ UsesAreCurrent /\ RootsAreCurrent
         /\ OnlyLongLiteralsExit
<1>1. ProtocolInv(Discipline) /\ OnlyLongLiteralsExit
  BY DEF IInv
<1>2. FramesFit(Discipline, frames)
  BY <1>1 DEF ProtocolInv, Sound
<1>3. \A d \in 1 .. Len(frames) : Trusted(Discipline, frames, d)
  BY <1>2, AllTrusted
<1>4. UsesAreCurrent
  <2>1. PICK n \in 0 .. 3 : n = Len(frames)
    BY <1>2, DepthOf
  <2>2. CASE n = 0
    <3>1. ~AtStep("use") /\ ~AtStep("copy")
      BY <2>1, <2>2 DEF AtStep, depth
    <3> QED
      BY <3>1 DEF UsesAreCurrent
  <2>3. CASE n # 0
    <3>1. Trusted(Discipline, frames, Len(frames))
      BY <1>3, <2>1, <2>3
    <3> QED
      BY <1>1, <3>1, UsesAreKept, DisciplineIsKept
  <2> QED
    BY <2>2, <2>3
<1>5. RootsAreCurrent
  BY <1>1, <1>3, RootsAreKept, DisciplineIsKept
<1>6. ChecksPass /\ CallsAreBalanced
  BY <1>1, ChecksAreKept, CallsBalance, DisciplineIsKept
<1> QED
  BY <1>1, <1>4, <1>5, <1>6

LEMMA SpecKeeps == Spec => []IInv
<1>1. Init => IInv
  BY InitIsKept
<1>2. IInv /\ [Next]_vars => IInv'
  BY StepKeeps
<1> QED
  BY <1>1, <1>2, PTL DEF Spec

\* No runtime function uses or copies a word that a collection left stale, for
\* argument lists and pools of any size.
THEOREM RuntimeUsesAreCurrent == Spec => []UsesAreCurrent
<1>1. IInv => UsesAreCurrent
  BY IInvImplies
<1> QED
  BY <1>1, SpecKeeps, PTL

\* A collection finds no stale word where it looks for roots, but for the
\* frames of LreadLine and Lfread, which have no PRE_GC.
THEOREM RuntimeRootsAreCurrent == Spec => []RootsAreCurrent
<1>1. IInv => RootsAreCurrent
  BY IInvImplies
<1> QED
  BY <1>1, SpecKeeps, PTL

\* No check of PRE_GC, POST_GC and pop_extra_root ever fails.
THEOREM RuntimeChecksPass == Spec => []ChecksPass
<1>1. IInv => ChecksPass
  BY IInvImplies
<1> QED
  BY <1>1, SpecKeeps, PTL

\* Between two calls __gc_stack_top is zero, the pool holds global_sysargs
\* alone, and what the program can reach is current.
THEOREM RuntimeCallsAreBalanced == Spec => []CallsAreBalanced
<1>1. IInv => CallsAreBalanced
  BY IInvImplies
<1> QED
  BY <1>1, SpecKeeps, PTL

\* Only a literal with as many fields as the pool has room for finds it full.
THEOREM OnlyLongLiteralsFillThePool == Spec => []OnlyLongLiteralsExit
<1>1. IInv => OnlyLongLiteralsExit
  BY IInvImplies
<1> QED
  BY <1>1, SpecKeeps, PTL

=============================================================================
