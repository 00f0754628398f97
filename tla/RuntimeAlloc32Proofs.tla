------------------------ MODULE RuntimeAlloc32Proofs ------------------------
(***************************************************************************)
(* The functions of the 32-bit runtime keep the protocol, for argument     *)
(* lists, pools and sets of functions of any size, but that the operator   *)
(* ":" called as a function passes on words that a collection leaves       *)
(* stale.  As in RuntimeAllocProofs a table for each function says what    *)
(* holds before each of its steps.                                         *)
(***************************************************************************)
EXTENDS RuntimeAlloc32, RuntimeProtocolProofs

-----------------------------------------------------------------------------
(* The discipline.  Pt(held, inside, live, fresh): what the function has in *)
(* the pool, whether it is between __pre_gc and __post_gc, which of its     *)
(* words are not stale, which are pointers to objects.                      *)

PLmakeString == << Pt(<<>>, FALSE, {}, {}), Pt(<<>>, TRUE, {}, {}),
                   Pt(<<>>, TRUE, {Result}, {Result}), Pt(<<>>, FALSE, {Result}, {Result}) >>

PLmakeArray == << Pt(<<>>, FALSE, {}, {}), Pt(<<>>, TRUE, {}, {}),
                  Pt(<<>>, TRUE, {Result}, {Result}), Pt(<<>>, TRUE, {Result}, {Result}),
                  Pt(<<>>, FALSE, {Result}, {Result}) >>

PBstring == << Pt(<<>>, FALSE, {Arg(1)}, {}), Pt(<<>>, FALSE, {Arg(1)}, {}),
               Pt(<<>>, TRUE, {Arg(1)}, {}), Pt(<<Arg(1)>>, TRUE, {Arg(1)}, {}),
               Pt(<<Arg(1)>>, TRUE, {Arg(1), Result}, {Result}),
               Pt(<<>>, TRUE, {Arg(1), Result}, {Result}), Pt(<<>>, TRUE, {Result}, {Result}),
               Pt(<<>>, FALSE, {Result}, {Result}) >>

PLstringcat == << Pt(<<>>, FALSE, {Arg(1)}, {}), Pt(<<>>, TRUE, {Arg(1)}, {}),
                  Pt(<<>>, TRUE, {Arg(1), Local(1)}, {}),
                  Pt(<<>>, TRUE, {Arg(1), Local(1)}, {}),
                  Pt(<<Arg(1)>>, TRUE, {Arg(1), Local(1)}, {}),
                  Pt(<<Arg(1)>>, TRUE, {Arg(1), Result}, {Result}),
                  Pt(<<>>, TRUE, {Result}, {Result}), Pt(<<>>, FALSE, {Result}, {Result}) >>

PLstring == << Pt(<<>>, FALSE, {Arg(1)}, {}), Pt(<<>>, TRUE, {Arg(1)}, {}),
               Pt(<<>>, TRUE, {Arg(1)}, {}), Pt(<<>>, TRUE, {Arg(1), Local(1)}, {}),
               Pt(<<>>, TRUE, {Arg(1), Local(1)}, {}),
               Pt(<<Arg(1)>>, TRUE, {Arg(1), Local(1)}, {}),
               Pt(<<Arg(1)>>, TRUE, {Arg(1), Result}, {Result}),
               Pt(<<>>, TRUE, {Result}, {Result}), Pt(<<>>, FALSE, {Result}, {Result}) >>

PLsubstring == << Pt(<<>>, FALSE, {Arg(1)}, {}), Pt(<<>>, FALSE, {Arg(1)}, {}),
                  Pt(<<>>, TRUE, {Arg(1)}, {}), Pt(<<Arg(1)>>, TRUE, {Arg(1)}, {}),
                  Pt(<<Arg(1)>>, TRUE, {Arg(1), Result}, {Result}),
                  Pt(<<>>, TRUE, {Arg(1), Result}, {Result}),
                  Pt(<<>>, TRUE, {Result}, {Result}), Pt(<<>>, FALSE, {Result}, {Result}) >>

PLcloneString == << Pt(<<>>, FALSE, {Arg(1)}, {}), Pt(<<>>, TRUE, {Arg(1)}, {}),
                    Pt(<<>>, TRUE, {Arg(1)}, {}), Pt(<<Arg(1)>>, TRUE, {Arg(1)}, {}),
                    Pt(<<Arg(1)>>, TRUE, {Arg(1), Local(1)}, {}),
                    Pt(<<Arg(1)>>, TRUE, {Arg(1), Result}, {Result}),
                    Pt(<<>>, TRUE, {Result}, {Result}), Pt(<<>>, FALSE, {Result}, {Result}) >>

PLcloneBlock == << Pt(<<>>, FALSE, {Arg(1)}, {}), Pt(<<>>, TRUE, {Arg(1)}, {}),
                   Pt(<<>>, TRUE, {Arg(1)}, {}), Pt(<<Arg(1)>>, TRUE, {Arg(1)}, {}),
                   Pt(<<Arg(1)>>, TRUE, {Arg(1), Result}, {Result}),
                   Pt(<<Arg(1)>>, TRUE, {Arg(1), Result}, {Result}),
                   Pt(<<>>, TRUE, {Result}, {Result}), Pt(<<>>, FALSE, {Result}, {Result}) >>

PLs__Infix_58 == << Pt(<<>>, FALSE, {Arg(1), Arg(2)}, {}),
                    Pt(<<>>, TRUE, {Arg(1), Arg(2)}, {}),
                    Pt(<<Arg(1)>>, TRUE, {Arg(1), Arg(2)}, {}),
                    Pt(<<Arg(1), Arg(2)>>, TRUE, {Arg(1), Arg(2)}, {}),
                    Pt(<<Arg(1), Arg(2)>>, TRUE, {Arg(1), Arg(2), Local(1)}, {}),
                    Pt(<<Arg(1), Arg(2)>>, TRUE, {Arg(1), Arg(2), Local(1), Local(2)}, {}),
                    Pt(<<Arg(1), Arg(2)>>, TRUE, {Arg(1), Arg(2), Local(1), Local(2), Local(3)}, {}),
                    Pt(<<Arg(1), Arg(2)>>, TRUE, {Arg(1), Arg(2), Result}, {Result}),
                    Pt(<<Arg(1)>>, TRUE, {Arg(1), Result}, {Result}),
                    Pt(<<>>, TRUE, {Result}, {Result}), Pt(<<>>, FALSE, {Result}, {Result}) >>

PLi__Infix_4343 == << Pt(<<>>, FALSE, {Arg(1), Arg(2)}, {}),
                      Pt(<<>>, FALSE, {Arg(1), Arg(2)}, {}),
                      Pt(<<>>, TRUE, {Arg(1), Arg(2)}, {}),
                      Pt(<<Arg(1)>>, TRUE, {Arg(1), Arg(2)}, {}),
                      Pt(<<Arg(1), Arg(2)>>, TRUE, {Arg(1), Arg(2)}, {}),
                      Pt(<<Arg(1), Arg(2)>>, TRUE, {Arg(1), Arg(2), Result}, {Result}),
                      Pt(<<Arg(1)>>, TRUE, {Arg(1), Arg(2), Result}, {Result}),
                      Pt(<<>>, TRUE, {Arg(1), Arg(2), Result}, {Result}),
                      Pt(<<>>, TRUE, {Result}, {Result}), Pt(<<>>, FALSE, {Result}, {Result}) >>

PLsprintf == << Pt(<<>>, FALSE, {Arg(1)}, {}), Pt(<<>>, FALSE, {Arg(1)}, {}),
                Pt(<<>>, FALSE, {Arg(1), Local(1)}, {}),
                Pt(<<>>, TRUE, {Arg(1), Local(1)}, {}),
                Pt(<<Arg(1)>>, TRUE, {Arg(1), Local(1)}, {}),
                Pt(<<Arg(1)>>, TRUE, {Arg(1), Result}, {Result}),
                Pt(<<>>, TRUE, {Result}, {Result}), Pt(<<>>, FALSE, {Result}, {Result}) >>

PLgetEnv == << Pt(<<>>, FALSE, {Arg(1)}, {}), Pt(<<>>, FALSE, {Arg(1)}, {}),
               Pt(<<>>, FALSE, {Local(1)}, {}), Pt(<<>>, TRUE, {Local(1)}, {}),
               Pt(<<>>, TRUE, {Result}, {Result}), Pt(<<>>, FALSE, {Result}, {Result}) >>

PLreadLine == << Pt(<<>>, FALSE, {}, {}), Pt(<<>>, FALSE, {Local(1)}, {}),
                 Pt(<<>>, FALSE, {Result}, {Result}) >>

PLfread == << Pt(<<>>, FALSE, {Arg(1)}, {}), Pt(<<>>, FALSE, {Arg(1)}, {}),
              Pt(<<>>, FALSE, {Arg(1), Local(1)}, {}),
              Pt(<<>>, FALSE, {Arg(1), Result}, {Result}), Pt(<<>>, FALSE, {Result}, {Result}) >>

\* An array or an S-expression is built from arguments that are visited where
\* they lie.
PLiteral(n) == << Pt(<<>>, FALSE, ArgSet(1, n), {}), Pt(<<>>, TRUE, ArgSet(1, n), {}),
                  Pt(<<>>, TRUE, ArgSet(1, n) \union {Result}, {Result}),
                  Pt(<<>>, TRUE, {Result}, {Result}), Pt(<<>>, FALSE, {Result}, {Result}) >>

\* A closure registers z words beyond the arguments: r of them are in the pool.
OlderSet(z) == {Older(i) : i \in 1 .. z}

OlderHeld(r) == [i \in 1 .. r |-> Older(i)]

Pushing(n, z, r) == Pt(OlderHeld(r), TRUE, ArgSet(1, n) \union OlderSet(z), {})

Made(n, z) == Pt(OlderHeld(z), TRUE, ArgSet(1, n) \union OlderSet(z) \union {Result}, {Result})

Popping(z, r) == Pt(OlderHeld(r), FALSE, OlderSet(z) \union {Result}, {Result})

ClosurePoints(n, z) ==
  [pc \in 1 .. 2 * z + 5 |->
     IF pc = 1 THEN Pt(<<>>, FALSE, ArgSet(1, n) \union OlderSet(z), {})
     ELSE IF pc <= z + 2 THEN Pushing(n, z, pc - 2)
     ELSE IF pc <= z + 4 THEN Made(n, z)
     ELSE Popping(z, 2 * z + 5 - pc)]

\* In the loop over argv the array is registered; a string was copied or made.
Looping(n, made) == Pt(<<Local(1)>>, TRUE, ArgSet(1, n) \union {Local(1)} \union made, {Local(1)})

PSetArgs(n) ==
  [pc \in 1 .. 3 * n + 8 |->
     IF pc = 1 THEN Pt(<<>>, FALSE, ArgSet(1, n), {})
     ELSE IF pc = 2 THEN Pt(<<>>, TRUE, ArgSet(1, n), {})
     ELSE IF pc = 3 THEN Pt(<<>>, TRUE, ArgSet(1, n) \union {Local(1)}, {Local(1)})
     ELSE IF pc <= 3 * n + 4
       THEN Looping(n, IF pc % 3 = 1 THEN {} ELSE IF pc % 3 = 2 THEN {Local(2)} ELSE {Result})
     ELSE IF pc = 3 * n + 5 THEN Pt(<<>>, TRUE, {Local(1)}, {Local(1)})
     ELSE IF pc = 3 * n + 6 THEN Pt(<<>>, FALSE, {Local(1)}, {Local(1)})
     ELSE IF pc = 3 * n + 7 THEN Pt(<<>>, FALSE, {Sysargs}, {Sysargs})
     ELSE Pt(<<Sysargs>>, FALSE, {Sysargs}, {Sysargs})]

PointsOf(f, n) ==
  CASE f = "LmakeString"    -> PLmakeString
    [] f = "LmakeArray"     -> PLmakeArray
    [] f = "Bstring"        -> PBstring
    [] f = "Lstringcat"     -> PLstringcat
    [] f = "Lstring"        -> PLstring
    [] f = "Lsubstring"     -> PLsubstring
    [] f = "LcloneString"   -> PLcloneString
    [] f = "LcloneBlock"    -> PLcloneBlock
    [] f = "Bclosure"       -> ClosurePoints(n, n - 1)
    [] f = "Barray"         -> PLiteral(n)
    [] f = "Bsexp"          -> PLiteral(n)
    [] f = "Ls__Infix_58"   -> PLs__Infix_58
    [] f = "Li__Infix_4343" -> PLi__Infix_4343
    [] f = "Lsprintf"       -> PLsprintf
    [] f = "LgetEnv"        -> PLgetEnv
    [] f = "LreadLine"      -> PLreadLine
    [] f = "Lfread"         -> PLfread
    [] f = "set_args"       -> PSetArgs(n)

Keys == {k \in (Called \union {"set_args"}) \X (0 .. NArgs) :
           IF k[1] = "set_args" THEN TRUE ELSE k[2] \in Lengths32(k[1])}

\* How deep the functions nest that f calls.
Rank(f) == CASE f \in {"LmakeString", "LmakeArray", "Bsexp"} -> 1
             [] f = "Bstring"                                -> 2
             [] OTHER                                        -> 3

\* Bsexp relies on its arguments lying in the Lama stack, and ":" calls it.
IsScanned(f) == Rank(f) = 3 \/ f = "Bsexp"

IsLax(f) == f = "Ls__Infix_58"

Discipline == [k \in Keys |-> [points  |-> PointsOf(k[1], k[2]),
                               rank    |-> Rank(k[1]),
                               scanned |-> IsScanned(k[1]),
                               lax     |-> IsLax(k[1])]]

\* The step s of k leads from p to q.
Leads(k, s, p, q) == StepFits(Discipline, k, s, p, q)

Fits(k, body, points) == Typed(Discipline, k, body, points)

IInv == ProtocolInv(Discipline)

-----------------------------------------------------------------------------
(* The functions. *)

LEMMA FitsRule ==
  ASSUME NEW k, NEW body, NEW points, NEW z, Sized(body, points, z),
         \A pc \in 1 .. z + 1 : PointIn(k, points[pc]),
         EntryFits(points[1], k[2]), ExitFits(k, points[z + 1]),
         \A pc \in 1 .. z : Leads(k, body[pc], points[pc], points[pc + 1])
  PROVE  Fits(k, body, points)
<1>1. \A pc \in 1 .. z : StepFits(Discipline, k, body[pc], points[pc], points[pc + 1])
  BY DEF Leads
<1> QED
  BY <1>1, TypedRule DEF Fits

LEMMA OfDiscipline ==
  ASSUME NEW k \in Keys
  PROVE  /\ k \in DOMAIN Discipline
         /\ Discipline[k].points = PointsOf(k[1], k[2])
         /\ Discipline[k].rank = Rank(k[1])
         /\ Discipline[k].scanned = IsScanned(k[1])
         /\ Discipline[k].lax = IsLax(k[1])
  BY DEF Discipline

\* The functions that others call, and the rules of the discipline.
LEMMA InnerRules ==
  /\ <<"LmakeString", 0>> \in DOMAIN Discipline
  /\ Discipline[<<"LmakeString", 0>>].rank = 1 /\ ~Discipline[<<"LmakeString", 0>>].scanned
  /\ <<"LmakeArray", 0>> \in DOMAIN Discipline
  /\ Discipline[<<"LmakeArray", 0>>].rank = 1 /\ ~Discipline[<<"LmakeArray", 0>>].scanned
  /\ <<"Bstring", 1>> \in DOMAIN Discipline
  /\ Discipline[<<"Bstring", 1>>].rank = 2 /\ ~Discipline[<<"Bstring", 1>>].scanned
  /\ <<"Bsexp", 3>> \in DOMAIN Discipline
  /\ Discipline[<<"Bsexp", 3>>].rank = 1
<1>1. {<<"LmakeString", 0>>, <<"LmakeArray", 0>>, <<"Bstring", 1>>, <<"Bsexp", 3>>} \subseteq Keys
  BY ConstantsAssumption DEF Keys, Called, Lengths32, Literals
<1>2. /\ Rank("LmakeString") = 1 /\ Rank("LmakeArray") = 1 /\ Rank("Bstring") = 2
      /\ Rank("Bsexp") = 1
      /\ IsScanned("LmakeString") = FALSE /\ IsScanned("LmakeArray") = FALSE
      /\ IsScanned("Bstring") = FALSE
  BY DEF Rank, IsScanned
<1>3. ASSUME NEW f, NEW n, <<f, n>> \in Keys
      PROVE  /\ <<f, n>> \in DOMAIN Discipline /\ Discipline[<<f, n>>].rank = Rank(f)
             /\ Discipline[<<f, n>>].scanned = IsScanned(f)
  <2>1. <<f, n>>[1] = f
    OBVIOUS
  <2> QED
    BY <1>3, <2>1, OfDiscipline
<1> QED
  BY <1>1, <1>2, <1>3

LEMMA OuterRules ==
  ASSUME NEW k, k \in {<<"LmakeString", 0>>, <<"LmakeArray", 0>>, <<"Bstring", 1>>,
                       <<"Lstringcat", 1>>, <<"Lstring", 1>>, <<"Lsubstring", 1>>,
                       <<"LcloneString", 1>>, <<"LcloneBlock", 1>>, <<"Ls__Infix_58", 2>>,
                       <<"Li__Infix_4343", 2>>, <<"Lsprintf", 1>>, <<"LgetEnv", 1>>,
                       <<"LreadLine", 0>>, <<"Lfread", 1>>}
  PROVE  k \in Keys /\ Discipline[k].rank = Rank(k[1]) /\ Discipline[k].lax = IsLax(k[1])
<1>1. k \in Keys
  BY ConstantsAssumption DEF Keys, Called, Lengths32, Literals
<1> QED
  BY <1>1 DEF Discipline

LEMMA LmakeStringTyped ==
  LET k == <<"LmakeString", 0>>
  IN  Fits(k, LmakeString, PLmakeString)
<1> DEFINE k == <<"LmakeString", 0>>
<1>1. /\ LmakeString[1] = Pre
      /\ LmakeString[2] = Alloc
      /\ LmakeString[3] = Post
  BY DEF LmakeString
<1>2. /\ PLmakeString[1] = Pt(<<>>, FALSE, {}, {})
      /\ PLmakeString[2] = Pt(<<>>, TRUE, {}, {})
      /\ PLmakeString[3] = Pt(<<>>, TRUE, {Result}, {Result})
      /\ PLmakeString[4] = Pt(<<>>, FALSE, {Result}, {Result})
  BY DEF PLmakeString
<1>3. /\ PointGood(k, <<>>, FALSE, {}, {})
      /\ PointGood(k, <<>>, TRUE, {}, {})
      /\ PointGood(k, <<>>, TRUE, {Result}, {Result})
      /\ PointGood(k, <<>>, FALSE, {Result}, {Result})
  BY NamesOf DEF Names, PointGood, Unguarded
<1>4. \A pc \in 1 .. 4 : PointIn(k, PLmakeString[pc])
  <2>1. /\ PointOk(k, PLmakeString[1])
        /\ PointOk(k, PLmakeString[2])
        /\ PointOk(k, PLmakeString[3])
        /\ PointOk(k, PLmakeString[4])
    BY <1>2, <1>3 DEF PointOk
  <2> HIDE DEF k
  <2> QED
    BY <2>1, PointRule
<1>5. \A pc \in 1 .. 3 : Leads(k, LmakeString[pc], PLmakeString[pc], PLmakeString[pc + 1])
  <2>1. Leads(k, LmakeString[1], PLmakeString[1], PLmakeString[2])
    BY <1>1, <1>2
    DEF Leads, StepFits, PreFits, Pre, Same, Pt, KeepsSysargs
  <2>2. Leads(k, LmakeString[2], PLmakeString[2], PLmakeString[3])
    <3>1. StepFits(Discipline, k, Alloc, Pt(<<>>, TRUE, {}, {}),
                   Pt(<<>>, TRUE, {Result}, {Result}))
      BY NamesOf, AllocRule DEF Names, Lasting
    <3> QED
      BY <1>1, <1>2, <3>1 DEF Leads
  <2>3. Leads(k, LmakeString[3], PLmakeString[3], PLmakeString[4])
    BY <1>1, <1>2
    DEF Leads, StepFits, PostFits, Post, Same, Pt, KeepsSysargs
  <2> HIDE DEF k
  <2> QED
    BY <2>1, <2>2, <2>3
<1>6. Sized(LmakeString, PLmakeString, 3)
  BY DEF Sized, LmakeString, PLmakeString
<1>7. EntryFits(PLmakeString[1], 0) /\ ExitFits(k, PLmakeString[4])
  BY <1>2, NamesOf DEF Names, EntryFits, ExitFits, Pt
<1> QED
  BY <1>4, <1>5, <1>6, <1>7, FitsRule

LEMMA LmakeArrayTyped ==
  LET k == <<"LmakeArray", 0>>
  IN  Fits(k, LmakeArray, PLmakeArray)
<1> DEFINE k == <<"LmakeArray", 0>>
<1>1. /\ LmakeArray[1] = Pre
      /\ LmakeArray[2] = Alloc
      /\ LmakeArray[3] = Use({Result})
      /\ LmakeArray[4] = Post
  BY DEF LmakeArray
<1>2. /\ PLmakeArray[1] = Pt(<<>>, FALSE, {}, {})
      /\ PLmakeArray[2] = Pt(<<>>, TRUE, {}, {})
      /\ PLmakeArray[3] = Pt(<<>>, TRUE, {Result}, {Result})
      /\ PLmakeArray[4] = Pt(<<>>, TRUE, {Result}, {Result})
      /\ PLmakeArray[5] = Pt(<<>>, FALSE, {Result}, {Result})
  BY DEF PLmakeArray
<1>3. /\ PointGood(k, <<>>, FALSE, {}, {})
      /\ PointGood(k, <<>>, TRUE, {}, {})
      /\ PointGood(k, <<>>, TRUE, {Result}, {Result})
      /\ PointGood(k, <<>>, FALSE, {Result}, {Result})
  BY NamesOf DEF Names, PointGood, Unguarded
<1>4. \A pc \in 1 .. 5 : PointIn(k, PLmakeArray[pc])
  <2>1. /\ PointOk(k, PLmakeArray[1])
        /\ PointOk(k, PLmakeArray[2])
        /\ PointOk(k, PLmakeArray[3])
        /\ PointOk(k, PLmakeArray[4])
        /\ PointOk(k, PLmakeArray[5])
    BY <1>2, <1>3 DEF PointOk
  <2> HIDE DEF k
  <2> QED
    BY <2>1, PointRule
<1>5. \A pc \in 1 .. 4 : Leads(k, LmakeArray[pc], PLmakeArray[pc], PLmakeArray[pc + 1])
  <2>1. Leads(k, LmakeArray[1], PLmakeArray[1], PLmakeArray[2])
    BY <1>1, <1>2
    DEF Leads, StepFits, PreFits, Pre, Same, Pt, KeepsSysargs
  <2>2. Leads(k, LmakeArray[2], PLmakeArray[2], PLmakeArray[3])
    <3>1. StepFits(Discipline, k, Alloc, Pt(<<>>, TRUE, {}, {}),
                   Pt(<<>>, TRUE, {Result}, {Result}))
      BY NamesOf, AllocRule DEF Names, Lasting
    <3> QED
      BY <1>1, <1>2, <3>1 DEF Leads
  <2>3. Leads(k, LmakeArray[3], PLmakeArray[3], PLmakeArray[4])
    BY <1>1, <1>2
    DEF Leads, StepFits, UseFits, Use, Same, Pt, KeepsSysargs
  <2>4. Leads(k, LmakeArray[4], PLmakeArray[4], PLmakeArray[5])
    BY <1>1, <1>2
    DEF Leads, StepFits, PostFits, Post, Same, Pt, KeepsSysargs
  <2> HIDE DEF k
  <2> QED
    BY <2>1, <2>2, <2>3, <2>4
<1>6. Sized(LmakeArray, PLmakeArray, 4)
  BY DEF Sized, LmakeArray, PLmakeArray
<1>7. EntryFits(PLmakeArray[1], 0) /\ ExitFits(k, PLmakeArray[5])
  BY <1>2, NamesOf DEF Names, EntryFits, ExitFits, Pt
<1> QED
  BY <1>4, <1>5, <1>6, <1>7, FitsRule

LEMMA BstringTyped ==
  LET k == <<"Bstring", 1>>
  IN  Fits(k, Bstring, PBstring)
<1> DEFINE k == <<"Bstring", 1>>
<1>1. /\ Bstring[1] = Use({Arg(1)})
      /\ Bstring[2] = Pre
      /\ Bstring[3] = Push(Arg(1))
      /\ Bstring[4] = Call("LmakeString", <<>>, Result)
      /\ Bstring[5] = Pop(Arg(1))
      /\ Bstring[6] = Use({Arg(1), Result})
      /\ Bstring[7] = Post
  BY DEF Bstring
<1>2. /\ PBstring[1] = Pt(<<>>, FALSE, {Arg(1)}, {})
      /\ PBstring[2] = Pt(<<>>, FALSE, {Arg(1)}, {})
      /\ PBstring[3] = Pt(<<>>, TRUE, {Arg(1)}, {})
      /\ PBstring[4] = Pt(<<Arg(1)>>, TRUE, {Arg(1)}, {})
      /\ PBstring[5] = Pt(<<Arg(1)>>, TRUE, {Arg(1), Result}, {Result})
      /\ PBstring[6] = Pt(<<>>, TRUE, {Arg(1), Result}, {Result})
      /\ PBstring[7] = Pt(<<>>, TRUE, {Result}, {Result})
      /\ PBstring[8] = Pt(<<>>, FALSE, {Result}, {Result})
  BY DEF PBstring
<1>3. /\ PointGood(k, <<>>, FALSE, {Arg(1)}, {})
      /\ PointGood(k, <<>>, TRUE, {Arg(1)}, {})
      /\ PointGood(k, <<Arg(1)>>, TRUE, {Arg(1)}, {})
      /\ PointGood(k, <<Arg(1)>>, TRUE, {Arg(1), Result}, {Result})
      /\ PointGood(k, <<>>, TRUE, {Arg(1), Result}, {Result})
      /\ PointGood(k, <<>>, TRUE, {Result}, {Result})
      /\ PointGood(k, <<>>, FALSE, {Result}, {Result})
  BY NamesOf DEF Names, PointGood, Unguarded
<1>4. \A pc \in 1 .. 8 : PointIn(k, PBstring[pc])
  <2>1. /\ PointOk(k, PBstring[1])
        /\ PointOk(k, PBstring[2])
        /\ PointOk(k, PBstring[3])
        /\ PointOk(k, PBstring[4])
        /\ PointOk(k, PBstring[5])
        /\ PointOk(k, PBstring[6])
        /\ PointOk(k, PBstring[7])
        /\ PointOk(k, PBstring[8])
    BY <1>2, <1>3 DEF PointOk
  <2> HIDE DEF k
  <2> QED
    BY <2>1, PointRule
<1>5. \A pc \in 1 .. 7 : Leads(k, Bstring[pc], PBstring[pc], PBstring[pc + 1])
  <2>1. Leads(k, Bstring[1], PBstring[1], PBstring[2])
    BY <1>1, <1>2
    DEF Leads, StepFits, UseFits, Use, Same, Pt, KeepsSysargs
  <2>2. Leads(k, Bstring[2], PBstring[2], PBstring[3])
    BY <1>1, <1>2
    DEF Leads, StepFits, PreFits, Pre, Same, Pt, KeepsSysargs
  <2>3. Leads(k, Bstring[3], PBstring[3], PBstring[4])
    <3>1. Lists(Arg(1), Arg(1))
      BY ListsOf
    <3> QED
      BY <1>1, <1>2, <3>1
      DEF Leads, StepFits, PushFits, Push, Pt, KeepsSysargs, Lists
  <2>4. Leads(k, Bstring[4], PBstring[4], PBstring[5])
    <3>1. MayCall(Discipline, k, <<Arg(1)>>, TRUE, {Arg(1)}, "LmakeString", <<>>, Result)
      <4>1. TRUE \/ k[1] \in Unguarded
        BY DEF Unguarded
      <4>2. Sysargs \notin {Arg(1)}
        BY NamesOf DEF Names
      <4>3. <<>> \in Seq({Arg(1)} \intersect (ArgSet(1, 1) \union Locals))
        BY NamesOf DEF Names
      <4>4. Result \in Locals \ Range(<<Arg(1)>>)
        <5>1. Lists(Arg(1), Arg(1))
          BY ListsOf
        <5> QED
          BY <5>1, NamesOf DEF Names, Lists
      <4>5. /\ <<"LmakeString", Len(<<>>)>> \in DOMAIN Discipline
            /\ Discipline[<<"LmakeString", Len(<<>>)>>].rank < Discipline[k].rank
            /\ ~Discipline[<<"LmakeString", Len(<<>>)>>].scanned
        <5>1. Len(<<>>) = 0
          OBVIOUS
        <5> QED
          BY <5>1, InnerRules, OuterRules DEF Rank
      <4> QED
        BY <4>1, <4>2, <4>3, <4>4, <4>5 DEF MayCall
    <3>2. StepFits(Discipline, k, Call("LmakeString", <<>>, Result),
                   Pt(<<Arg(1)>>, TRUE, {Arg(1)}, {}),
                   Pt(<<Arg(1)>>, TRUE, {Arg(1), Result}, {Result}))
      <4>1. Lists(Arg(1), Arg(1))
        BY ListsOf
      <4>2. /\ {Arg(1), Result} \subseteq Lasting(Discipline, k, <<Arg(1)>>, {Arg(1)}) \union {Result}
            /\ {Result} \subseteq ({} \intersect Range(<<Arg(1)>>)) \union {Result}
        BY <4>1, NamesOf DEF Names, Lasting, Lists, Unguarded
      <4> QED
        BY <3>1, <4>2, CallRule
    <3> QED
      BY <1>1, <1>2, <3>2 DEF Leads
  <2>5. Leads(k, Bstring[5], PBstring[5], PBstring[6])
    <3>1. Lists(Arg(1), Arg(1))
      BY ListsOf
    <3> QED
      BY <1>1, <1>2, <3>1
      DEF Leads, StepFits, PopFits, Pop, Pt, KeepsSysargs, Lists
  <2>6. Leads(k, Bstring[6], PBstring[6], PBstring[7])
    BY <1>1, <1>2, Apart
    DEF Leads, StepFits, UseFits, Use, Same, Pt, KeepsSysargs
  <2>7. Leads(k, Bstring[7], PBstring[7], PBstring[8])
    BY <1>1, <1>2
    DEF Leads, StepFits, PostFits, Post, Same, Pt, KeepsSysargs
  <2> HIDE DEF k
  <2> QED
    BY <2>1, <2>2, <2>3, <2>4, <2>5, <2>6, <2>7
<1>6. Sized(Bstring, PBstring, 7)
  BY DEF Sized, Bstring, PBstring
<1>7. EntryFits(PBstring[1], 1) /\ ExitFits(k, PBstring[8])
  BY <1>2, NamesOf DEF Names, EntryFits, ExitFits, Pt
<1> QED
  BY <1>4, <1>5, <1>6, <1>7, FitsRule

LEMMA LstringcatTyped ==
  LET k == <<"Lstringcat", 1>>
  IN  Fits(k, Lstringcat, PLstringcat)
<1> DEFINE k == <<"Lstringcat", 1>>
<1>1. /\ Lstringcat[1] = Pre
      /\ Lstringcat[2] = Set("c_pointer", Local(1))
      /\ Lstringcat[3] = Use({Arg(1)})
      /\ Lstringcat[4] = Push(Arg(1))
      /\ Lstringcat[5] = Call("Bstring", <<Local(1)>>, Result)
      /\ Lstringcat[6] = Pop(Arg(1))
      /\ Lstringcat[7] = Post
  BY DEF Lstringcat
<1>2. /\ PLstringcat[1] = Pt(<<>>, FALSE, {Arg(1)}, {})
      /\ PLstringcat[2] = Pt(<<>>, TRUE, {Arg(1)}, {})
      /\ PLstringcat[3] = Pt(<<>>, TRUE, {Arg(1), Local(1)}, {})
      /\ PLstringcat[4] = Pt(<<>>, TRUE, {Arg(1), Local(1)}, {})
      /\ PLstringcat[5] = Pt(<<Arg(1)>>, TRUE, {Arg(1), Local(1)}, {})
      /\ PLstringcat[6] = Pt(<<Arg(1)>>, TRUE, {Arg(1), Result}, {Result})
      /\ PLstringcat[7] = Pt(<<>>, TRUE, {Result}, {Result})
      /\ PLstringcat[8] = Pt(<<>>, FALSE, {Result}, {Result})
  BY DEF PLstringcat
<1>3. /\ PointGood(k, <<>>, FALSE, {Arg(1)}, {})
      /\ PointGood(k, <<>>, TRUE, {Arg(1)}, {})
      /\ PointGood(k, <<>>, TRUE, {Arg(1), Local(1)}, {})
      /\ PointGood(k, <<Arg(1)>>, TRUE, {Arg(1), Local(1)}, {})
      /\ PointGood(k, <<Arg(1)>>, TRUE, {Arg(1), Result}, {Result})
      /\ PointGood(k, <<>>, TRUE, {Result}, {Result})
      /\ PointGood(k, <<>>, FALSE, {Result}, {Result})
  BY NamesOf DEF Names, PointGood, Unguarded
<1>4. \A pc \in 1 .. 8 : PointIn(k, PLstringcat[pc])
  <2>1. /\ PointOk(k, PLstringcat[1])
        /\ PointOk(k, PLstringcat[2])
        /\ PointOk(k, PLstringcat[3])
        /\ PointOk(k, PLstringcat[4])
        /\ PointOk(k, PLstringcat[5])
        /\ PointOk(k, PLstringcat[6])
        /\ PointOk(k, PLstringcat[7])
        /\ PointOk(k, PLstringcat[8])
    BY <1>2, <1>3 DEF PointOk
  <2> HIDE DEF k
  <2> QED
    BY <2>1, PointRule
<1>5. \A pc \in 1 .. 7 : Leads(k, Lstringcat[pc], PLstringcat[pc], PLstringcat[pc + 1])
  <2>1. Leads(k, Lstringcat[1], PLstringcat[1], PLstringcat[2])
    BY <1>1, <1>2
    DEF Leads, StepFits, PreFits, Pre, Same, Pt, KeepsSysargs
  <2>2. Leads(k, Lstringcat[2], PLstringcat[2], PLstringcat[3])
    BY <1>1, <1>2, NamesOf, Apart
    DEF Leads, StepFits, SetFits, Set, Pt, KeepsSysargs, Names, LamaValues
  <2>3. Leads(k, Lstringcat[3], PLstringcat[3], PLstringcat[4])
    BY <1>1, <1>2
    DEF Leads, StepFits, UseFits, Use, Same, Pt, KeepsSysargs
  <2>4. Leads(k, Lstringcat[4], PLstringcat[4], PLstringcat[5])
    <3>1. Lists(Arg(1), Arg(1))
      BY ListsOf
    <3> QED
      BY <1>1, <1>2, <3>1
      DEF Leads, StepFits, PushFits, Push, Pt, KeepsSysargs, Lists
  <2>5. Leads(k, Lstringcat[5], PLstringcat[5], PLstringcat[6])
    <3>1. MayCall(Discipline, k, <<Arg(1)>>, TRUE, {Arg(1), Local(1)}, "Bstring", <<Local(1)>>, Result)
      <4>1. TRUE \/ k[1] \in Unguarded
        BY DEF Unguarded
      <4>2. Sysargs \notin {Arg(1), Local(1)}
        BY NamesOf DEF Names
      <4>3. <<Local(1)>> \in Seq({Arg(1), Local(1)} \intersect (ArgSet(1, 1) \union Locals))
        BY NamesOf DEF Names
      <4>4. Result \in Locals \ Range(<<Arg(1)>>)
        <5>1. Lists(Arg(1), Arg(1))
          BY ListsOf
        <5> QED
          BY <5>1, NamesOf DEF Names, Lists
      <4>5. /\ <<"Bstring", Len(<<Local(1)>>)>> \in DOMAIN Discipline
            /\ Discipline[<<"Bstring", Len(<<Local(1)>>)>>].rank < Discipline[k].rank
            /\ ~Discipline[<<"Bstring", Len(<<Local(1)>>)>>].scanned
        <5>1. Len(<<Local(1)>>) = 1
          OBVIOUS
        <5> QED
          BY <5>1, InnerRules, OuterRules DEF Rank
      <4> QED
        BY <4>1, <4>2, <4>3, <4>4, <4>5 DEF MayCall
    <3>2. StepFits(Discipline, k, Call("Bstring", <<Local(1)>>, Result),
                   Pt(<<Arg(1)>>, TRUE, {Arg(1), Local(1)}, {}),
                   Pt(<<Arg(1)>>, TRUE, {Arg(1), Result}, {Result}))
      <4>1. Lists(Arg(1), Arg(1))
        BY ListsOf
      <4>2. /\ {Arg(1), Result} \subseteq Lasting(Discipline, k, <<Arg(1)>>, {Arg(1), Local(1)}) \union {Result}
            /\ {Result} \subseteq ({} \intersect Range(<<Arg(1)>>)) \union {Result}
        BY <4>1, NamesOf DEF Names, Lasting, Lists, Unguarded
      <4> QED
        BY <3>1, <4>2, CallRule
    <3> QED
      BY <1>1, <1>2, <3>2 DEF Leads
  <2>6. Leads(k, Lstringcat[6], PLstringcat[6], PLstringcat[7])
    <3>1. Lists(Arg(1), Arg(1))
      BY ListsOf
    <3> QED
      BY <1>1, <1>2, Apart, <3>1
      DEF Leads, StepFits, PopFits, Pop, Pt, KeepsSysargs, Lists
  <2>7. Leads(k, Lstringcat[7], PLstringcat[7], PLstringcat[8])
    BY <1>1, <1>2
    DEF Leads, StepFits, PostFits, Post, Same, Pt, KeepsSysargs
  <2> HIDE DEF k
  <2> QED
    BY <2>1, <2>2, <2>3, <2>4, <2>5, <2>6, <2>7
<1>6. Sized(Lstringcat, PLstringcat, 7)
  BY DEF Sized, Lstringcat, PLstringcat
<1>7. EntryFits(PLstringcat[1], 1) /\ ExitFits(k, PLstringcat[8])
  BY <1>2, NamesOf DEF Names, EntryFits, ExitFits, Pt
<1> QED
  BY <1>4, <1>5, <1>6, <1>7, FitsRule

LEMMA LstringTyped ==
  LET k == <<"Lstring", 1>>
  IN  Fits(k, Lstring, PLstring)
<1> DEFINE k == <<"Lstring", 1>>
<1>1. /\ Lstring[1] = Pre
      /\ Lstring[2] = Set("unboxed", Result)
      /\ Lstring[3] = Set("c_pointer", Local(1))
      /\ Lstring[4] = Use({Arg(1)})
      /\ Lstring[5] = Push(Arg(1))
      /\ Lstring[6] = Call("Bstring", <<Local(1)>>, Result)
      /\ Lstring[7] = Pop(Arg(1))
      /\ Lstring[8] = Post
  BY DEF Lstring
<1>2. /\ PLstring[1] = Pt(<<>>, FALSE, {Arg(1)}, {})
      /\ PLstring[2] = Pt(<<>>, TRUE, {Arg(1)}, {})
      /\ PLstring[3] = Pt(<<>>, TRUE, {Arg(1)}, {})
      /\ PLstring[4] = Pt(<<>>, TRUE, {Arg(1), Local(1)}, {})
      /\ PLstring[5] = Pt(<<>>, TRUE, {Arg(1), Local(1)}, {})
      /\ PLstring[6] = Pt(<<Arg(1)>>, TRUE, {Arg(1), Local(1)}, {})
      /\ PLstring[7] = Pt(<<Arg(1)>>, TRUE, {Arg(1), Result}, {Result})
      /\ PLstring[8] = Pt(<<>>, TRUE, {Result}, {Result})
      /\ PLstring[9] = Pt(<<>>, FALSE, {Result}, {Result})
  BY DEF PLstring
<1>3. /\ PointGood(k, <<>>, FALSE, {Arg(1)}, {})
      /\ PointGood(k, <<>>, TRUE, {Arg(1)}, {})
      /\ PointGood(k, <<>>, TRUE, {Arg(1), Local(1)}, {})
      /\ PointGood(k, <<Arg(1)>>, TRUE, {Arg(1), Local(1)}, {})
      /\ PointGood(k, <<Arg(1)>>, TRUE, {Arg(1), Result}, {Result})
      /\ PointGood(k, <<>>, TRUE, {Result}, {Result})
      /\ PointGood(k, <<>>, FALSE, {Result}, {Result})
  BY NamesOf DEF Names, PointGood, Unguarded
<1>4. \A pc \in 1 .. 9 : PointIn(k, PLstring[pc])
  <2>1. /\ PointOk(k, PLstring[1])
        /\ PointOk(k, PLstring[2])
        /\ PointOk(k, PLstring[3])
        /\ PointOk(k, PLstring[4])
        /\ PointOk(k, PLstring[5])
        /\ PointOk(k, PLstring[6])
        /\ PointOk(k, PLstring[7])
        /\ PointOk(k, PLstring[8])
        /\ PointOk(k, PLstring[9])
    BY <1>2, <1>3 DEF PointOk
  <2> HIDE DEF k
  <2> QED
    BY <2>1, PointRule
<1>5. \A pc \in 1 .. 8 : Leads(k, Lstring[pc], PLstring[pc], PLstring[pc + 1])
  <2>1. Leads(k, Lstring[1], PLstring[1], PLstring[2])
    BY <1>1, <1>2
    DEF Leads, StepFits, PreFits, Pre, Same, Pt, KeepsSysargs
  <2>2. Leads(k, Lstring[2], PLstring[2], PLstring[3])
    BY <1>1, <1>2, NamesOf
    DEF Leads, StepFits, SetFits, Set, Pt, KeepsSysargs, Names, LamaValues
  <2>3. Leads(k, Lstring[3], PLstring[3], PLstring[4])
    BY <1>1, <1>2, NamesOf, Apart
    DEF Leads, StepFits, SetFits, Set, Pt, KeepsSysargs, Names, LamaValues
  <2>4. Leads(k, Lstring[4], PLstring[4], PLstring[5])
    BY <1>1, <1>2
    DEF Leads, StepFits, UseFits, Use, Same, Pt, KeepsSysargs
  <2>5. Leads(k, Lstring[5], PLstring[5], PLstring[6])
    <3>1. Lists(Arg(1), Arg(1))
      BY ListsOf
    <3> QED
      BY <1>1, <1>2, <3>1
      DEF Leads, StepFits, PushFits, Push, Pt, KeepsSysargs, Lists
  <2>6. Leads(k, Lstring[6], PLstring[6], PLstring[7])
    <3>1. MayCall(Discipline, k, <<Arg(1)>>, TRUE, {Arg(1), Local(1)}, "Bstring", <<Local(1)>>, Result)
      <4>1. TRUE \/ k[1] \in Unguarded
        BY DEF Unguarded
      <4>2. Sysargs \notin {Arg(1), Local(1)}
        BY NamesOf DEF Names
      <4>3. <<Local(1)>> \in Seq({Arg(1), Local(1)} \intersect (ArgSet(1, 1) \union Locals))
        BY NamesOf DEF Names
      <4>4. Result \in Locals \ Range(<<Arg(1)>>)
        <5>1. Lists(Arg(1), Arg(1))
          BY ListsOf
        <5> QED
          BY <5>1, NamesOf DEF Names, Lists
      <4>5. /\ <<"Bstring", Len(<<Local(1)>>)>> \in DOMAIN Discipline
            /\ Discipline[<<"Bstring", Len(<<Local(1)>>)>>].rank < Discipline[k].rank
            /\ ~Discipline[<<"Bstring", Len(<<Local(1)>>)>>].scanned
        <5>1. Len(<<Local(1)>>) = 1
          OBVIOUS
        <5> QED
          BY <5>1, InnerRules, OuterRules DEF Rank
      <4> QED
        BY <4>1, <4>2, <4>3, <4>4, <4>5 DEF MayCall
    <3>2. StepFits(Discipline, k, Call("Bstring", <<Local(1)>>, Result),
                   Pt(<<Arg(1)>>, TRUE, {Arg(1), Local(1)}, {}),
                   Pt(<<Arg(1)>>, TRUE, {Arg(1), Result}, {Result}))
      <4>1. Lists(Arg(1), Arg(1))
        BY ListsOf
      <4>2. /\ {Arg(1), Result} \subseteq Lasting(Discipline, k, <<Arg(1)>>, {Arg(1), Local(1)}) \union {Result}
            /\ {Result} \subseteq ({} \intersect Range(<<Arg(1)>>)) \union {Result}
        BY <4>1, NamesOf DEF Names, Lasting, Lists, Unguarded
      <4> QED
        BY <3>1, <4>2, CallRule
    <3> QED
      BY <1>1, <1>2, <3>2 DEF Leads
  <2>7. Leads(k, Lstring[7], PLstring[7], PLstring[8])
    <3>1. Lists(Arg(1), Arg(1))
      BY ListsOf
    <3> QED
      BY <1>1, <1>2, Apart, <3>1
      DEF Leads, StepFits, PopFits, Pop, Pt, KeepsSysargs, Lists
  <2>8. Leads(k, Lstring[8], PLstring[8], PLstring[9])
    BY <1>1, <1>2
    DEF Leads, StepFits, PostFits, Post, Same, Pt, KeepsSysargs
  <2> HIDE DEF k
  <2> QED
    BY <2>1, <2>2, <2>3, <2>4, <2>5, <2>6, <2>7, <2>8
<1>6. Sized(Lstring, PLstring, 8)
  BY DEF Sized, Lstring, PLstring
<1>7. EntryFits(PLstring[1], 1) /\ ExitFits(k, PLstring[9])
  BY <1>2, NamesOf DEF Names, EntryFits, ExitFits, Pt
<1> QED
  BY <1>4, <1>5, <1>6, <1>7, FitsRule

LEMMA LsubstringTyped ==
  LET k == <<"Lsubstring", 1>>
  IN  Fits(k, Lsubstring, PLsubstring)
<1> DEFINE k == <<"Lsubstring", 1>>
<1>1. /\ Lsubstring[1] = Use({Arg(1)})
      /\ Lsubstring[2] = Pre
      /\ Lsubstring[3] = Push(Arg(1))
      /\ Lsubstring[4] = Alloc
      /\ Lsubstring[5] = Pop(Arg(1))
      /\ Lsubstring[6] = Use({Arg(1), Result})
      /\ Lsubstring[7] = Post
  BY DEF Lsubstring
<1>2. /\ PLsubstring[1] = Pt(<<>>, FALSE, {Arg(1)}, {})
      /\ PLsubstring[2] = Pt(<<>>, FALSE, {Arg(1)}, {})
      /\ PLsubstring[3] = Pt(<<>>, TRUE, {Arg(1)}, {})
      /\ PLsubstring[4] = Pt(<<Arg(1)>>, TRUE, {Arg(1)}, {})
      /\ PLsubstring[5] = Pt(<<Arg(1)>>, TRUE, {Arg(1), Result}, {Result})
      /\ PLsubstring[6] = Pt(<<>>, TRUE, {Arg(1), Result}, {Result})
      /\ PLsubstring[7] = Pt(<<>>, TRUE, {Result}, {Result})
      /\ PLsubstring[8] = Pt(<<>>, FALSE, {Result}, {Result})
  BY DEF PLsubstring
<1>3. /\ PointGood(k, <<>>, FALSE, {Arg(1)}, {})
      /\ PointGood(k, <<>>, TRUE, {Arg(1)}, {})
      /\ PointGood(k, <<Arg(1)>>, TRUE, {Arg(1)}, {})
      /\ PointGood(k, <<Arg(1)>>, TRUE, {Arg(1), Result}, {Result})
      /\ PointGood(k, <<>>, TRUE, {Arg(1), Result}, {Result})
      /\ PointGood(k, <<>>, TRUE, {Result}, {Result})
      /\ PointGood(k, <<>>, FALSE, {Result}, {Result})
  BY NamesOf DEF Names, PointGood, Unguarded
<1>4. \A pc \in 1 .. 8 : PointIn(k, PLsubstring[pc])
  <2>1. /\ PointOk(k, PLsubstring[1])
        /\ PointOk(k, PLsubstring[2])
        /\ PointOk(k, PLsubstring[3])
        /\ PointOk(k, PLsubstring[4])
        /\ PointOk(k, PLsubstring[5])
        /\ PointOk(k, PLsubstring[6])
        /\ PointOk(k, PLsubstring[7])
        /\ PointOk(k, PLsubstring[8])
    BY <1>2, <1>3 DEF PointOk
  <2> HIDE DEF k
  <2> QED
    BY <2>1, PointRule
<1>5. \A pc \in 1 .. 7 : Leads(k, Lsubstring[pc], PLsubstring[pc], PLsubstring[pc + 1])
  <2>1. Leads(k, Lsubstring[1], PLsubstring[1], PLsubstring[2])
    BY <1>1, <1>2
    DEF Leads, StepFits, UseFits, Use, Same, Pt, KeepsSysargs
  <2>2. Leads(k, Lsubstring[2], PLsubstring[2], PLsubstring[3])
    BY <1>1, <1>2
    DEF Leads, StepFits, PreFits, Pre, Same, Pt, KeepsSysargs
  <2>3. Leads(k, Lsubstring[3], PLsubstring[3], PLsubstring[4])
    <3>1. Lists(Arg(1), Arg(1))
      BY ListsOf
    <3> QED
      BY <1>1, <1>2, <3>1
      DEF Leads, StepFits, PushFits, Push, Pt, KeepsSysargs, Lists
  <2>4. Leads(k, Lsubstring[4], PLsubstring[4], PLsubstring[5])
    <3>1. StepFits(Discipline, k, Alloc, Pt(<<Arg(1)>>, TRUE, {Arg(1)}, {}),
                   Pt(<<Arg(1)>>, TRUE, {Arg(1), Result}, {Result}))
      <4>1. Lists(Arg(1), Arg(1))
        BY ListsOf
      <4> QED
        BY <4>1, NamesOf, AllocRule DEF Names, Lasting, Lists
    <3> QED
      BY <1>1, <1>2, <3>1 DEF Leads
  <2>5. Leads(k, Lsubstring[5], PLsubstring[5], PLsubstring[6])
    <3>1. Lists(Arg(1), Arg(1))
      BY ListsOf
    <3> QED
      BY <1>1, <1>2, <3>1
      DEF Leads, StepFits, PopFits, Pop, Pt, KeepsSysargs, Lists
  <2>6. Leads(k, Lsubstring[6], PLsubstring[6], PLsubstring[7])
    BY <1>1, <1>2, Apart
    DEF Leads, StepFits, UseFits, Use, Same, Pt, KeepsSysargs
  <2>7. Leads(k, Lsubstring[7], PLsubstring[7], PLsubstring[8])
    BY <1>1, <1>2
    DEF Leads, StepFits, PostFits, Post, Same, Pt, KeepsSysargs
  <2> HIDE DEF k
  <2> QED
    BY <2>1, <2>2, <2>3, <2>4, <2>5, <2>6, <2>7
<1>6. Sized(Lsubstring, PLsubstring, 7)
  BY DEF Sized, Lsubstring, PLsubstring
<1>7. EntryFits(PLsubstring[1], 1) /\ ExitFits(k, PLsubstring[8])
  BY <1>2, NamesOf DEF Names, EntryFits, ExitFits, Pt
<1> QED
  BY <1>4, <1>5, <1>6, <1>7, FitsRule

LEMMA LcloneStringTyped ==
  LET k == <<"LcloneString", 1>>
  IN  Fits(k, LcloneString, PLcloneString)
<1> DEFINE k == <<"LcloneString", 1>>
<1>1. /\ LcloneString[1] = Pre
      /\ LcloneString[2] = Use({Arg(1)})
      /\ LcloneString[3] = Push(Arg(1))
      /\ LcloneString[4] = Copy(Arg(1), Local(1))
      /\ LcloneString[5] = Call("Bstring", <<Local(1)>>, Result)
      /\ LcloneString[6] = Pop(Arg(1))
      /\ LcloneString[7] = Post
  BY DEF LcloneString
<1>2. /\ PLcloneString[1] = Pt(<<>>, FALSE, {Arg(1)}, {})
      /\ PLcloneString[2] = Pt(<<>>, TRUE, {Arg(1)}, {})
      /\ PLcloneString[3] = Pt(<<>>, TRUE, {Arg(1)}, {})
      /\ PLcloneString[4] = Pt(<<Arg(1)>>, TRUE, {Arg(1)}, {})
      /\ PLcloneString[5] = Pt(<<Arg(1)>>, TRUE, {Arg(1), Local(1)}, {})
      /\ PLcloneString[6] = Pt(<<Arg(1)>>, TRUE, {Arg(1), Result}, {Result})
      /\ PLcloneString[7] = Pt(<<>>, TRUE, {Result}, {Result})
      /\ PLcloneString[8] = Pt(<<>>, FALSE, {Result}, {Result})
  BY DEF PLcloneString
<1>3. /\ PointGood(k, <<>>, FALSE, {Arg(1)}, {})
      /\ PointGood(k, <<>>, TRUE, {Arg(1)}, {})
      /\ PointGood(k, <<Arg(1)>>, TRUE, {Arg(1)}, {})
      /\ PointGood(k, <<Arg(1)>>, TRUE, {Arg(1), Local(1)}, {})
      /\ PointGood(k, <<Arg(1)>>, TRUE, {Arg(1), Result}, {Result})
      /\ PointGood(k, <<>>, TRUE, {Result}, {Result})
      /\ PointGood(k, <<>>, FALSE, {Result}, {Result})
  BY NamesOf DEF Names, PointGood, Unguarded
<1>4. \A pc \in 1 .. 8 : PointIn(k, PLcloneString[pc])
  <2>1. /\ PointOk(k, PLcloneString[1])
        /\ PointOk(k, PLcloneString[2])
        /\ PointOk(k, PLcloneString[3])
        /\ PointOk(k, PLcloneString[4])
        /\ PointOk(k, PLcloneString[5])
        /\ PointOk(k, PLcloneString[6])
        /\ PointOk(k, PLcloneString[7])
        /\ PointOk(k, PLcloneString[8])
    BY <1>2, <1>3 DEF PointOk
  <2> HIDE DEF k
  <2> QED
    BY <2>1, PointRule
<1>5. \A pc \in 1 .. 7 : Leads(k, LcloneString[pc], PLcloneString[pc], PLcloneString[pc + 1])
  <2>1. Leads(k, LcloneString[1], PLcloneString[1], PLcloneString[2])
    BY <1>1, <1>2
    DEF Leads, StepFits, PreFits, Pre, Same, Pt, KeepsSysargs
  <2>2. Leads(k, LcloneString[2], PLcloneString[2], PLcloneString[3])
    BY <1>1, <1>2
    DEF Leads, StepFits, UseFits, Use, Same, Pt, KeepsSysargs
  <2>3. Leads(k, LcloneString[3], PLcloneString[3], PLcloneString[4])
    <3>1. Lists(Arg(1), Arg(1))
      BY ListsOf
    <3> QED
      BY <1>1, <1>2, <3>1
      DEF Leads, StepFits, PushFits, Push, Pt, KeepsSysargs, Lists
  <2>4. Leads(k, LcloneString[4], PLcloneString[4], PLcloneString[5])
    BY <1>1, <1>2, NamesOf, Apart
    DEF Leads, StepFits, CopyFits, Copy, Pt, KeepsSysargs, Names
  <2>5. Leads(k, LcloneString[5], PLcloneString[5], PLcloneString[6])
    <3>1. MayCall(Discipline, k, <<Arg(1)>>, TRUE, {Arg(1), Local(1)}, "Bstring", <<Local(1)>>, Result)
      <4>1. TRUE \/ k[1] \in Unguarded
        BY DEF Unguarded
      <4>2. Sysargs \notin {Arg(1), Local(1)}
        BY NamesOf DEF Names
      <4>3. <<Local(1)>> \in Seq({Arg(1), Local(1)} \intersect (ArgSet(1, 1) \union Locals))
        BY NamesOf DEF Names
      <4>4. Result \in Locals \ Range(<<Arg(1)>>)
        <5>1. Lists(Arg(1), Arg(1))
          BY ListsOf
        <5> QED
          BY <5>1, NamesOf DEF Names, Lists
      <4>5. /\ <<"Bstring", Len(<<Local(1)>>)>> \in DOMAIN Discipline
            /\ Discipline[<<"Bstring", Len(<<Local(1)>>)>>].rank < Discipline[k].rank
            /\ ~Discipline[<<"Bstring", Len(<<Local(1)>>)>>].scanned
        <5>1. Len(<<Local(1)>>) = 1
          OBVIOUS
        <5> QED
          BY <5>1, InnerRules, OuterRules DEF Rank
      <4> QED
        BY <4>1, <4>2, <4>3, <4>4, <4>5 DEF MayCall
    <3>2. StepFits(Discipline, k, Call("Bstring", <<Local(1)>>, Result),
                   Pt(<<Arg(1)>>, TRUE, {Arg(1), Local(1)}, {}),
                   Pt(<<Arg(1)>>, TRUE, {Arg(1), Result}, {Result}))
      <4>1. Lists(Arg(1), Arg(1))
        BY ListsOf
      <4>2. /\ {Arg(1), Result} \subseteq Lasting(Discipline, k, <<Arg(1)>>, {Arg(1), Local(1)}) \union {Result}
            /\ {Result} \subseteq ({} \intersect Range(<<Arg(1)>>)) \union {Result}
        BY <4>1, NamesOf DEF Names, Lasting, Lists, Unguarded
      <4> QED
        BY <3>1, <4>2, CallRule
    <3> QED
      BY <1>1, <1>2, <3>2 DEF Leads
  <2>6. Leads(k, LcloneString[6], PLcloneString[6], PLcloneString[7])
    <3>1. Lists(Arg(1), Arg(1))
      BY ListsOf
    <3> QED
      BY <1>1, <1>2, Apart, <3>1
      DEF Leads, StepFits, PopFits, Pop, Pt, KeepsSysargs, Lists
  <2>7. Leads(k, LcloneString[7], PLcloneString[7], PLcloneString[8])
    BY <1>1, <1>2
    DEF Leads, StepFits, PostFits, Post, Same, Pt, KeepsSysargs
  <2> HIDE DEF k
  <2> QED
    BY <2>1, <2>2, <2>3, <2>4, <2>5, <2>6, <2>7
<1>6. Sized(LcloneString, PLcloneString, 7)
  BY DEF Sized, LcloneString, PLcloneString
<1>7. EntryFits(PLcloneString[1], 1) /\ ExitFits(k, PLcloneString[8])
  BY <1>2, NamesOf DEF Names, EntryFits, ExitFits, Pt
<1> QED
  BY <1>4, <1>5, <1>6, <1>7, FitsRule

LEMMA LcloneBlockTyped ==
  LET k == <<"LcloneBlock", 1>>
  IN  Fits(k, LcloneBlock, PLcloneBlock)
<1> DEFINE k == <<"LcloneBlock", 1>>
<1>1. /\ LcloneBlock[1] = Pre
      /\ LcloneBlock[2] = Use({Arg(1)})
      /\ LcloneBlock[3] = Push(Arg(1))
      /\ LcloneBlock[4] = Alloc
      /\ LcloneBlock[5] = Use({Arg(1), Result})
      /\ LcloneBlock[6] = Pop(Arg(1))
      /\ LcloneBlock[7] = Post
  BY DEF LcloneBlock
<1>2. /\ PLcloneBlock[1] = Pt(<<>>, FALSE, {Arg(1)}, {})
      /\ PLcloneBlock[2] = Pt(<<>>, TRUE, {Arg(1)}, {})
      /\ PLcloneBlock[3] = Pt(<<>>, TRUE, {Arg(1)}, {})
      /\ PLcloneBlock[4] = Pt(<<Arg(1)>>, TRUE, {Arg(1)}, {})
      /\ PLcloneBlock[5] = Pt(<<Arg(1)>>, TRUE, {Arg(1), Result}, {Result})
      /\ PLcloneBlock[6] = Pt(<<Arg(1)>>, TRUE, {Arg(1), Result}, {Result})
      /\ PLcloneBlock[7] = Pt(<<>>, TRUE, {Result}, {Result})
      /\ PLcloneBlock[8] = Pt(<<>>, FALSE, {Result}, {Result})
  BY DEF PLcloneBlock
<1>3. /\ PointGood(k, <<>>, FALSE, {Arg(1)}, {})
      /\ PointGood(k, <<>>, TRUE, {Arg(1)}, {})
      /\ PointGood(k, <<Arg(1)>>, TRUE, {Arg(1)}, {})
      /\ PointGood(k, <<Arg(1)>>, TRUE, {Arg(1), Result}, {Result})
      /\ PointGood(k, <<>>, TRUE, {Result}, {Result})
      /\ PointGood(k, <<>>, FALSE, {Result}, {Result})
  BY NamesOf DEF Names, PointGood, Unguarded
<1>4. \A pc \in 1 .. 8 : PointIn(k, PLcloneBlock[pc])
  <2>1. /\ PointOk(k, PLcloneBlock[1])
        /\ PointOk(k, PLcloneBlock[2])
        /\ PointOk(k, PLcloneBlock[3])
        /\ PointOk(k, PLcloneBlock[4])
        /\ PointOk(k, PLcloneBlock[5])
        /\ PointOk(k, PLcloneBlock[6])
        /\ PointOk(k, PLcloneBlock[7])
        /\ PointOk(k, PLcloneBlock[8])
    BY <1>2, <1>3 DEF PointOk
  <2> HIDE DEF k
  <2> QED
    BY <2>1, PointRule
<1>5. \A pc \in 1 .. 7 : Leads(k, LcloneBlock[pc], PLcloneBlock[pc], PLcloneBlock[pc + 1])
  <2>1. Leads(k, LcloneBlock[1], PLcloneBlock[1], PLcloneBlock[2])
    BY <1>1, <1>2
    DEF Leads, StepFits, PreFits, Pre, Same, Pt, KeepsSysargs
  <2>2. Leads(k, LcloneBlock[2], PLcloneBlock[2], PLcloneBlock[3])
    BY <1>1, <1>2
    DEF Leads, StepFits, UseFits, Use, Same, Pt, KeepsSysargs
  <2>3. Leads(k, LcloneBlock[3], PLcloneBlock[3], PLcloneBlock[4])
    <3>1. Lists(Arg(1), Arg(1))
      BY ListsOf
    <3> QED
      BY <1>1, <1>2, <3>1
      DEF Leads, StepFits, PushFits, Push, Pt, KeepsSysargs, Lists
  <2>4. Leads(k, LcloneBlock[4], PLcloneBlock[4], PLcloneBlock[5])
    <3>1. StepFits(Discipline, k, Alloc, Pt(<<Arg(1)>>, TRUE, {Arg(1)}, {}),
                   Pt(<<Arg(1)>>, TRUE, {Arg(1), Result}, {Result}))
      <4>1. Lists(Arg(1), Arg(1))
        BY ListsOf
      <4> QED
        BY <4>1, NamesOf, AllocRule DEF Names, Lasting, Lists
    <3> QED
      BY <1>1, <1>2, <3>1 DEF Leads
  <2>5. Leads(k, LcloneBlock[5], PLcloneBlock[5], PLcloneBlock[6])
    BY <1>1, <1>2
    DEF Leads, StepFits, UseFits, Use, Same, Pt, KeepsSysargs
  <2>6. Leads(k, LcloneBlock[6], PLcloneBlock[6], PLcloneBlock[7])
    <3>1. Lists(Arg(1), Arg(1))
      BY ListsOf
    <3> QED
      BY <1>1, <1>2, Apart, <3>1
      DEF Leads, StepFits, PopFits, Pop, Pt, KeepsSysargs, Lists
  <2>7. Leads(k, LcloneBlock[7], PLcloneBlock[7], PLcloneBlock[8])
    BY <1>1, <1>2
    DEF Leads, StepFits, PostFits, Post, Same, Pt, KeepsSysargs
  <2> HIDE DEF k
  <2> QED
    BY <2>1, <2>2, <2>3, <2>4, <2>5, <2>6, <2>7
<1>6. Sized(LcloneBlock, PLcloneBlock, 7)
  BY DEF Sized, LcloneBlock, PLcloneBlock
<1>7. EntryFits(PLcloneBlock[1], 1) /\ ExitFits(k, PLcloneBlock[8])
  BY <1>2, NamesOf DEF Names, EntryFits, ExitFits, Pt
<1> QED
  BY <1>4, <1>5, <1>6, <1>7, FitsRule

LEMMA Ls__Infix_58Typed ==
  LET k == <<"Ls__Infix_58", 2>>
  IN  Fits(k, Ls__Infix_58, PLs__Infix_58)
<1> DEFINE k == <<"Ls__Infix_58", 2>>
<1>1. /\ Ls__Infix_58[1] = Pre
      /\ Ls__Infix_58[2] = Push(Arg(1))
      /\ Ls__Infix_58[3] = Push(Arg(2))
      /\ Ls__Infix_58[4] = Copy(Arg(1), Local(1))
      /\ Ls__Infix_58[5] = Copy(Arg(2), Local(2))
      /\ Ls__Infix_58[6] = Set("unboxed", Local(3))
      /\ Ls__Infix_58[7] = Call("Bsexp", <<Local(1), Local(2), Local(3)>>, Result)
      /\ Ls__Infix_58[8] = Pop(Arg(2))
      /\ Ls__Infix_58[9] = Pop(Arg(1))
      /\ Ls__Infix_58[10] = Post
  BY DEF Ls__Infix_58
<1>2. /\ PLs__Infix_58[1] = Pt(<<>>, FALSE, {Arg(1), Arg(2)}, {})
      /\ PLs__Infix_58[2] = Pt(<<>>, TRUE, {Arg(1), Arg(2)}, {})
      /\ PLs__Infix_58[3] = Pt(<<Arg(1)>>, TRUE, {Arg(1), Arg(2)}, {})
      /\ PLs__Infix_58[4] = Pt(<<Arg(1), Arg(2)>>, TRUE, {Arg(1), Arg(2)}, {})
      /\ PLs__Infix_58[5] = Pt(<<Arg(1), Arg(2)>>, TRUE, {Arg(1), Arg(2), Local(1)}, {})
      /\ PLs__Infix_58[6] = Pt(<<Arg(1), Arg(2)>>, TRUE, {Arg(1), Arg(2), Local(1), Local(2)}, {})
      /\ PLs__Infix_58[7] = Pt(<<Arg(1), Arg(2)>>, TRUE, {Arg(1), Arg(2), Local(1), Local(2), Local(3)}, {})
      /\ PLs__Infix_58[8] = Pt(<<Arg(1), Arg(2)>>, TRUE, {Arg(1), Arg(2), Result}, {Result})
      /\ PLs__Infix_58[9] = Pt(<<Arg(1)>>, TRUE, {Arg(1), Result}, {Result})
      /\ PLs__Infix_58[10] = Pt(<<>>, TRUE, {Result}, {Result})
      /\ PLs__Infix_58[11] = Pt(<<>>, FALSE, {Result}, {Result})
  BY DEF PLs__Infix_58
<1>3. /\ PointGood(k, <<>>, FALSE, {Arg(1), Arg(2)}, {})
      /\ PointGood(k, <<>>, TRUE, {Arg(1), Arg(2)}, {})
      /\ PointGood(k, <<Arg(1)>>, TRUE, {Arg(1), Arg(2)}, {})
      /\ PointGood(k, <<Arg(1), Arg(2)>>, TRUE, {Arg(1), Arg(2)}, {})
      /\ PointGood(k, <<Arg(1), Arg(2)>>, TRUE, {Arg(1), Arg(2), Local(1)}, {})
      /\ PointGood(k, <<Arg(1), Arg(2)>>, TRUE, {Arg(1), Arg(2), Local(1), Local(2)}, {})
      /\ PointGood(k, <<Arg(1), Arg(2)>>, TRUE, {Arg(1), Arg(2), Local(1), Local(2), Local(3)}, {})
      /\ PointGood(k, <<Arg(1), Arg(2)>>, TRUE, {Arg(1), Arg(2), Result}, {Result})
      /\ PointGood(k, <<Arg(1)>>, TRUE, {Arg(1), Result}, {Result})
      /\ PointGood(k, <<>>, TRUE, {Result}, {Result})
      /\ PointGood(k, <<>>, FALSE, {Result}, {Result})
  BY NamesOf DEF Names, PointGood, Unguarded
<1>4. \A pc \in 1 .. 11 : PointIn(k, PLs__Infix_58[pc])
  <2>1. /\ PointOk(k, PLs__Infix_58[1])
        /\ PointOk(k, PLs__Infix_58[2])
        /\ PointOk(k, PLs__Infix_58[3])
        /\ PointOk(k, PLs__Infix_58[4])
        /\ PointOk(k, PLs__Infix_58[5])
        /\ PointOk(k, PLs__Infix_58[6])
        /\ PointOk(k, PLs__Infix_58[7])
        /\ PointOk(k, PLs__Infix_58[8])
        /\ PointOk(k, PLs__Infix_58[9])
        /\ PointOk(k, PLs__Infix_58[10])
        /\ PointOk(k, PLs__Infix_58[11])
    BY <1>2, <1>3 DEF PointOk
  <2> HIDE DEF k
  <2> QED
    BY <2>1, PointRule
<1>5. \A pc \in 1 .. 10 : Leads(k, Ls__Infix_58[pc], PLs__Infix_58[pc], PLs__Infix_58[pc + 1])
  <2>1. Leads(k, Ls__Infix_58[1], PLs__Infix_58[1], PLs__Infix_58[2])
    BY <1>1, <1>2
    DEF Leads, StepFits, PreFits, Pre, Same, Pt, KeepsSysargs
  <2>2. Leads(k, Ls__Infix_58[2], PLs__Infix_58[2], PLs__Infix_58[3])
    <3>1. Lists(Arg(1), Arg(1))
      BY ListsOf
    <3> QED
      BY <1>1, <1>2, <3>1
      DEF Leads, StepFits, PushFits, Push, Pt, KeepsSysargs, Lists
  <2>3. Leads(k, Ls__Infix_58[3], PLs__Infix_58[3], PLs__Infix_58[4])
    <3>1. Lists(Arg(1), Arg(2))
      BY ListsOf
    <3> QED
      BY <1>1, <1>2, <3>1
      DEF Leads, StepFits, PushFits, Push, Pt, KeepsSysargs, Lists
  <2>4. Leads(k, Ls__Infix_58[4], PLs__Infix_58[4], PLs__Infix_58[5])
    BY <1>1, <1>2, NamesOf, Apart
    DEF Leads, StepFits, CopyFits, Copy, Pt, KeepsSysargs, Names
  <2>5. Leads(k, Ls__Infix_58[5], PLs__Infix_58[5], PLs__Infix_58[6])
    BY <1>1, <1>2, NamesOf, Apart
    DEF Leads, StepFits, CopyFits, Copy, Pt, KeepsSysargs, Names
  <2>6. Leads(k, Ls__Infix_58[6], PLs__Infix_58[6], PLs__Infix_58[7])
    BY <1>1, <1>2, NamesOf, Apart
    DEF Leads, StepFits, SetFits, Set, Pt, KeepsSysargs, Names, LamaValues
  <2>7. Leads(k, Ls__Infix_58[7], PLs__Infix_58[7], PLs__Infix_58[8])
    <3>1. MayCall(Discipline, k, <<Arg(1), Arg(2)>>, TRUE, {Arg(1), Arg(2), Local(1), Local(2), Local(3)}, "Bsexp", <<Local(1), Local(2), Local(3)>>, Result)
      <4>1. TRUE \/ k[1] \in Unguarded
        BY DEF Unguarded
      <4>2. Sysargs \notin {Arg(1), Arg(2), Local(1), Local(2), Local(3)}
        BY NamesOf DEF Names
      <4>3. <<Local(1), Local(2), Local(3)>> \in Seq({Arg(1), Arg(2), Local(1), Local(2), Local(3)} \intersect (ArgSet(1, 2) \union Locals))
        BY NamesOf DEF Names
      <4>4. Result \in Locals \ Range(<<Arg(1), Arg(2)>>)
        <5>1. Lists(Arg(1), Arg(2))
          BY ListsOf
        <5> QED
          BY <5>1, NamesOf DEF Names, Lists
      <4>5. /\ <<"Bsexp", Len(<<Local(1), Local(2), Local(3)>>)>> \in DOMAIN Discipline
            /\ Discipline[<<"Bsexp", Len(<<Local(1), Local(2), Local(3)>>)>>].rank < Discipline[k].rank
            /\ Discipline[k].lax /\ Discipline[k].rank = MaxDepth
        <5>1. Len(<<Local(1), Local(2), Local(3)>>) = 3
          OBVIOUS
        <5>2. Rank(k[1]) = 3 /\ IsLax(k[1]) = TRUE
          BY DEF Rank, IsLax
        <5>3. Discipline[k].rank = 3 /\ Discipline[k].lax = TRUE
          BY <5>2, OuterRules
        <5>4. <<"Bsexp", 3>> \in DOMAIN Discipline /\ Discipline[<<"Bsexp", 3>>].rank = 1
          BY InnerRules
        <5> HIDE DEF k
        <5> QED
          BY <5>1, <5>3, <5>4 DEF MaxDepth
      <4> QED
        BY <4>1, <4>2, <4>3, <4>4, <4>5 DEF MayCall
    <3>2. StepFits(Discipline, k, Call("Bsexp", <<Local(1), Local(2), Local(3)>>, Result),
                   Pt(<<Arg(1), Arg(2)>>, TRUE, {Arg(1), Arg(2), Local(1), Local(2), Local(3)}, {}),
                   Pt(<<Arg(1), Arg(2)>>, TRUE, {Arg(1), Arg(2), Result}, {Result}))
      <4>1. Lists(Arg(1), Arg(2))
        BY ListsOf
      <4>2. /\ {Arg(1), Arg(2), Result} \subseteq Lasting(Discipline, k, <<Arg(1), Arg(2)>>, {Arg(1), Arg(2), Local(1), Local(2), Local(3)}) \union {Result}
            /\ {Result} \subseteq ({} \intersect Range(<<Arg(1), Arg(2)>>)) \union {Result}
        BY <4>1, NamesOf DEF Names, Lasting, Lists, Unguarded
      <4> QED
        BY <3>1, <4>2, CallRule
    <3> QED
      BY <1>1, <1>2, <3>2 DEF Leads
  <2>8. Leads(k, Ls__Infix_58[8], PLs__Infix_58[8], PLs__Infix_58[9])
    <3>1. Lists(Arg(1), Arg(2))
      BY ListsOf
    <3> QED
      BY <1>1, <1>2, Apart, <3>1
      DEF Leads, StepFits, PopFits, Pop, Pt, KeepsSysargs, Lists
  <2>9. Leads(k, Ls__Infix_58[9], PLs__Infix_58[9], PLs__Infix_58[10])
    <3>1. Lists(Arg(1), Arg(1))
      BY ListsOf
    <3> QED
      BY <1>1, <1>2, Apart, <3>1
      DEF Leads, StepFits, PopFits, Pop, Pt, KeepsSysargs, Lists
  <2>10. Leads(k, Ls__Infix_58[10], PLs__Infix_58[10], PLs__Infix_58[11])
    BY <1>1, <1>2
    DEF Leads, StepFits, PostFits, Post, Same, Pt, KeepsSysargs
  <2> HIDE DEF k
  <2> QED
    BY <2>1, <2>2, <2>3, <2>4, <2>5, <2>6, <2>7, <2>8, <2>9, <2>10
<1>6. Sized(Ls__Infix_58, PLs__Infix_58, 10)
  BY DEF Sized, Ls__Infix_58, PLs__Infix_58
<1>7. EntryFits(PLs__Infix_58[1], 2) /\ ExitFits(k, PLs__Infix_58[11])
  BY <1>2, NamesOf DEF Names, EntryFits, ExitFits, Pt
<1> QED
  BY <1>4, <1>5, <1>6, <1>7, FitsRule

LEMMA Li__Infix_4343Typed ==
  LET k == <<"Li__Infix_4343", 2>>
  IN  Fits(k, Li__Infix_4343, PLi__Infix_4343)
<1> DEFINE k == <<"Li__Infix_4343", 2>>
<1>1. /\ Li__Infix_4343[1] = Use({Arg(1), Arg(2)})
      /\ Li__Infix_4343[2] = Pre
      /\ Li__Infix_4343[3] = Push(Arg(1))
      /\ Li__Infix_4343[4] = Push(Arg(2))
      /\ Li__Infix_4343[5] = Alloc
      /\ Li__Infix_4343[6] = Pop(Arg(2))
      /\ Li__Infix_4343[7] = Pop(Arg(1))
      /\ Li__Infix_4343[8] = Use({Arg(1), Arg(2), Result})
      /\ Li__Infix_4343[9] = Post
  BY DEF Li__Infix_4343
<1>2. /\ PLi__Infix_4343[1] = Pt(<<>>, FALSE, {Arg(1), Arg(2)}, {})
      /\ PLi__Infix_4343[2] = Pt(<<>>, FALSE, {Arg(1), Arg(2)}, {})
      /\ PLi__Infix_4343[3] = Pt(<<>>, TRUE, {Arg(1), Arg(2)}, {})
      /\ PLi__Infix_4343[4] = Pt(<<Arg(1)>>, TRUE, {Arg(1), Arg(2)}, {})
      /\ PLi__Infix_4343[5] = Pt(<<Arg(1), Arg(2)>>, TRUE, {Arg(1), Arg(2)}, {})
      /\ PLi__Infix_4343[6] = Pt(<<Arg(1), Arg(2)>>, TRUE, {Arg(1), Arg(2), Result}, {Result})
      /\ PLi__Infix_4343[7] = Pt(<<Arg(1)>>, TRUE, {Arg(1), Arg(2), Result}, {Result})
      /\ PLi__Infix_4343[8] = Pt(<<>>, TRUE, {Arg(1), Arg(2), Result}, {Result})
      /\ PLi__Infix_4343[9] = Pt(<<>>, TRUE, {Result}, {Result})
      /\ PLi__Infix_4343[10] = Pt(<<>>, FALSE, {Result}, {Result})
  BY DEF PLi__Infix_4343
<1>3. /\ PointGood(k, <<>>, FALSE, {Arg(1), Arg(2)}, {})
      /\ PointGood(k, <<>>, TRUE, {Arg(1), Arg(2)}, {})
      /\ PointGood(k, <<Arg(1)>>, TRUE, {Arg(1), Arg(2)}, {})
      /\ PointGood(k, <<Arg(1), Arg(2)>>, TRUE, {Arg(1), Arg(2)}, {})
      /\ PointGood(k, <<Arg(1), Arg(2)>>, TRUE, {Arg(1), Arg(2), Result}, {Result})
      /\ PointGood(k, <<Arg(1)>>, TRUE, {Arg(1), Arg(2), Result}, {Result})
      /\ PointGood(k, <<>>, TRUE, {Arg(1), Arg(2), Result}, {Result})
      /\ PointGood(k, <<>>, TRUE, {Result}, {Result})
      /\ PointGood(k, <<>>, FALSE, {Result}, {Result})
  BY NamesOf DEF Names, PointGood, Unguarded
<1>4. \A pc \in 1 .. 10 : PointIn(k, PLi__Infix_4343[pc])
  <2>1. /\ PointOk(k, PLi__Infix_4343[1])
        /\ PointOk(k, PLi__Infix_4343[2])
        /\ PointOk(k, PLi__Infix_4343[3])
        /\ PointOk(k, PLi__Infix_4343[4])
        /\ PointOk(k, PLi__Infix_4343[5])
        /\ PointOk(k, PLi__Infix_4343[6])
        /\ PointOk(k, PLi__Infix_4343[7])
        /\ PointOk(k, PLi__Infix_4343[8])
        /\ PointOk(k, PLi__Infix_4343[9])
        /\ PointOk(k, PLi__Infix_4343[10])
    BY <1>2, <1>3 DEF PointOk
  <2> HIDE DEF k
  <2> QED
    BY <2>1, PointRule
<1>5. \A pc \in 1 .. 9 : Leads(k, Li__Infix_4343[pc], PLi__Infix_4343[pc], PLi__Infix_4343[pc + 1])
  <2>1. Leads(k, Li__Infix_4343[1], PLi__Infix_4343[1], PLi__Infix_4343[2])
    BY <1>1, <1>2
    DEF Leads, StepFits, UseFits, Use, Same, Pt, KeepsSysargs
  <2>2. Leads(k, Li__Infix_4343[2], PLi__Infix_4343[2], PLi__Infix_4343[3])
    BY <1>1, <1>2
    DEF Leads, StepFits, PreFits, Pre, Same, Pt, KeepsSysargs
  <2>3. Leads(k, Li__Infix_4343[3], PLi__Infix_4343[3], PLi__Infix_4343[4])
    <3>1. Lists(Arg(1), Arg(1))
      BY ListsOf
    <3> QED
      BY <1>1, <1>2, <3>1
      DEF Leads, StepFits, PushFits, Push, Pt, KeepsSysargs, Lists
  <2>4. Leads(k, Li__Infix_4343[4], PLi__Infix_4343[4], PLi__Infix_4343[5])
    <3>1. Lists(Arg(1), Arg(2))
      BY ListsOf
    <3> QED
      BY <1>1, <1>2, <3>1
      DEF Leads, StepFits, PushFits, Push, Pt, KeepsSysargs, Lists
  <2>5. Leads(k, Li__Infix_4343[5], PLi__Infix_4343[5], PLi__Infix_4343[6])
    <3>1. StepFits(Discipline, k, Alloc, Pt(<<Arg(1), Arg(2)>>, TRUE, {Arg(1), Arg(2)}, {}),
                   Pt(<<Arg(1), Arg(2)>>, TRUE, {Arg(1), Arg(2), Result}, {Result}))
      <4>1. Lists(Arg(1), Arg(2))
        BY ListsOf
      <4> QED
        BY <4>1, NamesOf, AllocRule DEF Names, Lasting, Lists
    <3> QED
      BY <1>1, <1>2, <3>1 DEF Leads
  <2>6. Leads(k, Li__Infix_4343[6], PLi__Infix_4343[6], PLi__Infix_4343[7])
    <3>1. Lists(Arg(1), Arg(2))
      BY ListsOf
    <3> QED
      BY <1>1, <1>2, <3>1
      DEF Leads, StepFits, PopFits, Pop, Pt, KeepsSysargs, Lists
  <2>7. Leads(k, Li__Infix_4343[7], PLi__Infix_4343[7], PLi__Infix_4343[8])
    <3>1. Lists(Arg(1), Arg(1))
      BY ListsOf
    <3> QED
      BY <1>1, <1>2, <3>1
      DEF Leads, StepFits, PopFits, Pop, Pt, KeepsSysargs, Lists
  <2>8. Leads(k, Li__Infix_4343[8], PLi__Infix_4343[8], PLi__Infix_4343[9])
    BY <1>1, <1>2, Apart
    DEF Leads, StepFits, UseFits, Use, Same, Pt, KeepsSysargs
  <2>9. Leads(k, Li__Infix_4343[9], PLi__Infix_4343[9], PLi__Infix_4343[10])
    BY <1>1, <1>2
    DEF Leads, StepFits, PostFits, Post, Same, Pt, KeepsSysargs
  <2> HIDE DEF k
  <2> QED
    BY <2>1, <2>2, <2>3, <2>4, <2>5, <2>6, <2>7, <2>8, <2>9
<1>6. Sized(Li__Infix_4343, PLi__Infix_4343, 9)
  BY DEF Sized, Li__Infix_4343, PLi__Infix_4343
<1>7. EntryFits(PLi__Infix_4343[1], 2) /\ ExitFits(k, PLi__Infix_4343[10])
  BY <1>2, NamesOf DEF Names, EntryFits, ExitFits, Pt
<1> QED
  BY <1>4, <1>5, <1>6, <1>7, FitsRule

LEMMA LsprintfTyped ==
  LET k == <<"Lsprintf", 1>>
  IN  Fits(k, Lsprintf, PLsprintf)
<1> DEFINE k == <<"Lsprintf", 1>>
<1>1. /\ Lsprintf[1] = Use({Arg(1)})
      /\ Lsprintf[2] = Set("c_pointer", Local(1))
      /\ Lsprintf[3] = Pre
      /\ Lsprintf[4] = Push(Arg(1))
      /\ Lsprintf[5] = Call("Bstring", <<Local(1)>>, Result)
      /\ Lsprintf[6] = Pop(Arg(1))
      /\ Lsprintf[7] = Post
  BY DEF Lsprintf
<1>2. /\ PLsprintf[1] = Pt(<<>>, FALSE, {Arg(1)}, {})
      /\ PLsprintf[2] = Pt(<<>>, FALSE, {Arg(1)}, {})
      /\ PLsprintf[3] = Pt(<<>>, FALSE, {Arg(1), Local(1)}, {})
      /\ PLsprintf[4] = Pt(<<>>, TRUE, {Arg(1), Local(1)}, {})
      /\ PLsprintf[5] = Pt(<<Arg(1)>>, TRUE, {Arg(1), Local(1)}, {})
      /\ PLsprintf[6] = Pt(<<Arg(1)>>, TRUE, {Arg(1), Result}, {Result})
      /\ PLsprintf[7] = Pt(<<>>, TRUE, {Result}, {Result})
      /\ PLsprintf[8] = Pt(<<>>, FALSE, {Result}, {Result})
  BY DEF PLsprintf
<1>3. /\ PointGood(k, <<>>, FALSE, {Arg(1)}, {})
      /\ PointGood(k, <<>>, FALSE, {Arg(1), Local(1)}, {})
      /\ PointGood(k, <<>>, TRUE, {Arg(1), Local(1)}, {})
      /\ PointGood(k, <<Arg(1)>>, TRUE, {Arg(1), Local(1)}, {})
      /\ PointGood(k, <<Arg(1)>>, TRUE, {Arg(1), Result}, {Result})
      /\ PointGood(k, <<>>, TRUE, {Result}, {Result})
      /\ PointGood(k, <<>>, FALSE, {Result}, {Result})
  BY NamesOf DEF Names, PointGood, Unguarded
<1>4. \A pc \in 1 .. 8 : PointIn(k, PLsprintf[pc])
  <2>1. /\ PointOk(k, PLsprintf[1])
        /\ PointOk(k, PLsprintf[2])
        /\ PointOk(k, PLsprintf[3])
        /\ PointOk(k, PLsprintf[4])
        /\ PointOk(k, PLsprintf[5])
        /\ PointOk(k, PLsprintf[6])
        /\ PointOk(k, PLsprintf[7])
        /\ PointOk(k, PLsprintf[8])
    BY <1>2, <1>3 DEF PointOk
  <2> HIDE DEF k
  <2> QED
    BY <2>1, PointRule
<1>5. \A pc \in 1 .. 7 : Leads(k, Lsprintf[pc], PLsprintf[pc], PLsprintf[pc + 1])
  <2>1. Leads(k, Lsprintf[1], PLsprintf[1], PLsprintf[2])
    BY <1>1, <1>2
    DEF Leads, StepFits, UseFits, Use, Same, Pt, KeepsSysargs
  <2>2. Leads(k, Lsprintf[2], PLsprintf[2], PLsprintf[3])
    BY <1>1, <1>2, NamesOf, Apart
    DEF Leads, StepFits, SetFits, Set, Pt, KeepsSysargs, Names, LamaValues
  <2>3. Leads(k, Lsprintf[3], PLsprintf[3], PLsprintf[4])
    BY <1>1, <1>2
    DEF Leads, StepFits, PreFits, Pre, Same, Pt, KeepsSysargs
  <2>4. Leads(k, Lsprintf[4], PLsprintf[4], PLsprintf[5])
    <3>1. Lists(Arg(1), Arg(1))
      BY ListsOf
    <3> QED
      BY <1>1, <1>2, <3>1
      DEF Leads, StepFits, PushFits, Push, Pt, KeepsSysargs, Lists
  <2>5. Leads(k, Lsprintf[5], PLsprintf[5], PLsprintf[6])
    <3>1. MayCall(Discipline, k, <<Arg(1)>>, TRUE, {Arg(1), Local(1)}, "Bstring", <<Local(1)>>, Result)
      <4>1. TRUE \/ k[1] \in Unguarded
        BY DEF Unguarded
      <4>2. Sysargs \notin {Arg(1), Local(1)}
        BY NamesOf DEF Names
      <4>3. <<Local(1)>> \in Seq({Arg(1), Local(1)} \intersect (ArgSet(1, 1) \union Locals))
        BY NamesOf DEF Names
      <4>4. Result \in Locals \ Range(<<Arg(1)>>)
        <5>1. Lists(Arg(1), Arg(1))
          BY ListsOf
        <5> QED
          BY <5>1, NamesOf DEF Names, Lists
      <4>5. /\ <<"Bstring", Len(<<Local(1)>>)>> \in DOMAIN Discipline
            /\ Discipline[<<"Bstring", Len(<<Local(1)>>)>>].rank < Discipline[k].rank
            /\ ~Discipline[<<"Bstring", Len(<<Local(1)>>)>>].scanned
        <5>1. Len(<<Local(1)>>) = 1
          OBVIOUS
        <5> QED
          BY <5>1, InnerRules, OuterRules DEF Rank
      <4> QED
        BY <4>1, <4>2, <4>3, <4>4, <4>5 DEF MayCall
    <3>2. StepFits(Discipline, k, Call("Bstring", <<Local(1)>>, Result),
                   Pt(<<Arg(1)>>, TRUE, {Arg(1), Local(1)}, {}),
                   Pt(<<Arg(1)>>, TRUE, {Arg(1), Result}, {Result}))
      <4>1. Lists(Arg(1), Arg(1))
        BY ListsOf
      <4>2. /\ {Arg(1), Result} \subseteq Lasting(Discipline, k, <<Arg(1)>>, {Arg(1), Local(1)}) \union {Result}
            /\ {Result} \subseteq ({} \intersect Range(<<Arg(1)>>)) \union {Result}
        BY <4>1, NamesOf DEF Names, Lasting, Lists, Unguarded
      <4> QED
        BY <3>1, <4>2, CallRule
    <3> QED
      BY <1>1, <1>2, <3>2 DEF Leads
  <2>6. Leads(k, Lsprintf[6], PLsprintf[6], PLsprintf[7])
    <3>1. Lists(Arg(1), Arg(1))
      BY ListsOf
    <3> QED
      BY <1>1, <1>2, Apart, <3>1
      DEF Leads, StepFits, PopFits, Pop, Pt, KeepsSysargs, Lists
  <2>7. Leads(k, Lsprintf[7], PLsprintf[7], PLsprintf[8])
    BY <1>1, <1>2
    DEF Leads, StepFits, PostFits, Post, Same, Pt, KeepsSysargs
  <2> HIDE DEF k
  <2> QED
    BY <2>1, <2>2, <2>3, <2>4, <2>5, <2>6, <2>7
<1>6. Sized(Lsprintf, PLsprintf, 7)
  BY DEF Sized, Lsprintf, PLsprintf
<1>7. EntryFits(PLsprintf[1], 1) /\ ExitFits(k, PLsprintf[8])
  BY <1>2, NamesOf DEF Names, EntryFits, ExitFits, Pt
<1> QED
  BY <1>4, <1>5, <1>6, <1>7, FitsRule

LEMMA LgetEnvTyped ==
  LET k == <<"LgetEnv", 1>>
  IN  Fits(k, LgetEnv, PLgetEnv)
<1> DEFINE k == <<"LgetEnv", 1>>
<1>1. /\ LgetEnv[1] = Use({Arg(1)})
      /\ LgetEnv[2] = Set("c_pointer", Local(1))
      /\ LgetEnv[3] = Pre
      /\ LgetEnv[4] = Call("Bstring", <<Local(1)>>, Result)
      /\ LgetEnv[5] = Post
  BY DEF LgetEnv
<1>2. /\ PLgetEnv[1] = Pt(<<>>, FALSE, {Arg(1)}, {})
      /\ PLgetEnv[2] = Pt(<<>>, FALSE, {Arg(1)}, {})
      /\ PLgetEnv[3] = Pt(<<>>, FALSE, {Local(1)}, {})
      /\ PLgetEnv[4] = Pt(<<>>, TRUE, {Local(1)}, {})
      /\ PLgetEnv[5] = Pt(<<>>, TRUE, {Result}, {Result})
      /\ PLgetEnv[6] = Pt(<<>>, FALSE, {Result}, {Result})
  BY DEF PLgetEnv
<1>3. /\ PointGood(k, <<>>, FALSE, {Arg(1)}, {})
      /\ PointGood(k, <<>>, FALSE, {Local(1)}, {})
      /\ PointGood(k, <<>>, TRUE, {Local(1)}, {})
      /\ PointGood(k, <<>>, TRUE, {Result}, {Result})
      /\ PointGood(k, <<>>, FALSE, {Result}, {Result})
  BY NamesOf DEF Names, PointGood, Unguarded
<1>4. \A pc \in 1 .. 6 : PointIn(k, PLgetEnv[pc])
  <2>1. /\ PointOk(k, PLgetEnv[1])
        /\ PointOk(k, PLgetEnv[2])
        /\ PointOk(k, PLgetEnv[3])
        /\ PointOk(k, PLgetEnv[4])
        /\ PointOk(k, PLgetEnv[5])
        /\ PointOk(k, PLgetEnv[6])
    BY <1>2, <1>3 DEF PointOk
  <2> HIDE DEF k
  <2> QED
    BY <2>1, PointRule
<1>5. \A pc \in 1 .. 5 : Leads(k, LgetEnv[pc], PLgetEnv[pc], PLgetEnv[pc + 1])
  <2>1. Leads(k, LgetEnv[1], PLgetEnv[1], PLgetEnv[2])
    BY <1>1, <1>2
    DEF Leads, StepFits, UseFits, Use, Same, Pt, KeepsSysargs
  <2>2. Leads(k, LgetEnv[2], PLgetEnv[2], PLgetEnv[3])
    BY <1>1, <1>2, NamesOf, Apart
    DEF Leads, StepFits, SetFits, Set, Pt, KeepsSysargs, Names, LamaValues
  <2>3. Leads(k, LgetEnv[3], PLgetEnv[3], PLgetEnv[4])
    BY <1>1, <1>2
    DEF Leads, StepFits, PreFits, Pre, Same, Pt, KeepsSysargs
  <2>4. Leads(k, LgetEnv[4], PLgetEnv[4], PLgetEnv[5])
    <3>1. MayCall(Discipline, k, <<>>, TRUE, {Local(1)}, "Bstring", <<Local(1)>>, Result)
      <4>1. TRUE \/ k[1] \in Unguarded
        BY DEF Unguarded
      <4>2. Sysargs \notin {Local(1)}
        BY NamesOf DEF Names
      <4>3. <<Local(1)>> \in Seq({Local(1)} \intersect (ArgSet(1, 1) \union Locals))
        BY NamesOf DEF Names
      <4>4. Result \in Locals \ Range(<<>>)
        <5>1. Lists(Result, Result)
          BY ListsOf
        <5> QED
          BY <5>1, NamesOf DEF Names, Lists
      <4>5. /\ <<"Bstring", Len(<<Local(1)>>)>> \in DOMAIN Discipline
            /\ Discipline[<<"Bstring", Len(<<Local(1)>>)>>].rank < Discipline[k].rank
            /\ ~Discipline[<<"Bstring", Len(<<Local(1)>>)>>].scanned
        <5>1. Len(<<Local(1)>>) = 1
          OBVIOUS
        <5> QED
          BY <5>1, InnerRules, OuterRules DEF Rank
      <4> QED
        BY <4>1, <4>2, <4>3, <4>4, <4>5 DEF MayCall
    <3>2. StepFits(Discipline, k, Call("Bstring", <<Local(1)>>, Result),
                   Pt(<<>>, TRUE, {Local(1)}, {}),
                   Pt(<<>>, TRUE, {Result}, {Result}))
      <4>1. Lists(Result, Result)
        BY ListsOf
      <4>2. /\ {Result} \subseteq Lasting(Discipline, k, <<>>, {Local(1)}) \union {Result}
            /\ {Result} \subseteq ({} \intersect Range(<<>>)) \union {Result}
        BY <4>1, NamesOf DEF Names, Lasting, Lists, Unguarded
      <4> QED
        BY <3>1, <4>2, CallRule
    <3> QED
      BY <1>1, <1>2, <3>2 DEF Leads
  <2>5. Leads(k, LgetEnv[5], PLgetEnv[5], PLgetEnv[6])
    BY <1>1, <1>2
    DEF Leads, StepFits, PostFits, Post, Same, Pt, KeepsSysargs
  <2> HIDE DEF k
  <2> QED
    BY <2>1, <2>2, <2>3, <2>4, <2>5
<1>6. Sized(LgetEnv, PLgetEnv, 5)
  BY DEF Sized, LgetEnv, PLgetEnv
<1>7. EntryFits(PLgetEnv[1], 1) /\ ExitFits(k, PLgetEnv[6])
  BY <1>2, NamesOf DEF Names, EntryFits, ExitFits, Pt
<1> QED
  BY <1>4, <1>5, <1>6, <1>7, FitsRule

LEMMA LreadLineTyped ==
  LET k == <<"LreadLine", 0>>
  IN  Fits(k, LreadLine, PLreadLine)
<1> DEFINE k == <<"LreadLine", 0>>
<1>1. /\ LreadLine[1] = Set("c_pointer", Local(1))
      /\ LreadLine[2] = Call("Bstring", <<Local(1)>>, Result)
  BY DEF LreadLine
<1>2. /\ PLreadLine[1] = Pt(<<>>, FALSE, {}, {})
      /\ PLreadLine[2] = Pt(<<>>, FALSE, {Local(1)}, {})
      /\ PLreadLine[3] = Pt(<<>>, FALSE, {Result}, {Result})
  BY DEF PLreadLine
<1>3. /\ PointGood(k, <<>>, FALSE, {}, {})
      /\ PointGood(k, <<>>, FALSE, {Local(1)}, {})
      /\ PointGood(k, <<>>, FALSE, {Result}, {Result})
  BY NamesOf DEF Names, PointGood, Unguarded
<1>4. \A pc \in 1 .. 3 : PointIn(k, PLreadLine[pc])
  <2>1. /\ PointOk(k, PLreadLine[1])
        /\ PointOk(k, PLreadLine[2])
        /\ PointOk(k, PLreadLine[3])
    BY <1>2, <1>3 DEF PointOk
  <2> HIDE DEF k
  <2> QED
    BY <2>1, PointRule
<1>5. \A pc \in 1 .. 2 : Leads(k, LreadLine[pc], PLreadLine[pc], PLreadLine[pc + 1])
  <2>1. Leads(k, LreadLine[1], PLreadLine[1], PLreadLine[2])
    BY <1>1, <1>2, NamesOf, Apart
    DEF Leads, StepFits, SetFits, Set, Pt, KeepsSysargs, Names, LamaValues
  <2>2. Leads(k, LreadLine[2], PLreadLine[2], PLreadLine[3])
    <3>1. MayCall(Discipline, k, <<>>, FALSE, {Local(1)}, "Bstring", <<Local(1)>>, Result)
      <4>1. k[1] \in Unguarded
        BY DEF Unguarded
      <4>2. Sysargs \notin {Local(1)}
        BY NamesOf DEF Names
      <4>3. <<Local(1)>> \in Seq({Local(1)} \intersect (ArgSet(1, 0) \union Locals))
        BY NamesOf DEF Names
      <4>4. Result \in Locals \ Range(<<>>)
        <5>1. Lists(Result, Result)
          BY ListsOf
        <5> QED
          BY <5>1, NamesOf DEF Names, Lists
      <4>5. /\ <<"Bstring", Len(<<Local(1)>>)>> \in DOMAIN Discipline
            /\ Discipline[<<"Bstring", Len(<<Local(1)>>)>>].rank < Discipline[k].rank
            /\ ~Discipline[<<"Bstring", Len(<<Local(1)>>)>>].scanned
        <5>1. Len(<<Local(1)>>) = 1
          OBVIOUS
        <5> QED
          BY <5>1, InnerRules, OuterRules DEF Rank
      <4> QED
        BY <4>1, <4>2, <4>3, <4>4, <4>5 DEF MayCall
    <3>2. StepFits(Discipline, k, Call("Bstring", <<Local(1)>>, Result),
                   Pt(<<>>, FALSE, {Local(1)}, {}),
                   Pt(<<>>, FALSE, {Result}, {Result}))
      <4>1. Lists(Result, Result)
        BY ListsOf
      <4>2. /\ {Result} \subseteq Lasting(Discipline, k, <<>>, {Local(1)}) \union {Result}
            /\ {Result} \subseteq ({} \intersect Range(<<>>)) \union {Result}
        BY <4>1, NamesOf DEF Names, Lasting, Lists, Unguarded
      <4> QED
        BY <3>1, <4>2, CallRule
    <3> QED
      BY <1>1, <1>2, <3>2 DEF Leads
  <2> HIDE DEF k
  <2> QED
    BY <2>1, <2>2
<1>6. Sized(LreadLine, PLreadLine, 2)
  BY DEF Sized, LreadLine, PLreadLine
<1>7. EntryFits(PLreadLine[1], 0) /\ ExitFits(k, PLreadLine[3])
  BY <1>2, NamesOf DEF Names, EntryFits, ExitFits, Pt
<1> QED
  BY <1>4, <1>5, <1>6, <1>7, FitsRule

LEMMA LfreadTyped ==
  LET k == <<"Lfread", 1>>
  IN  Fits(k, Lfread, PLfread)
<1> DEFINE k == <<"Lfread", 1>>
<1>1. /\ Lfread[1] = Use({Arg(1)})
      /\ Lfread[2] = Set("c_pointer", Local(1))
      /\ Lfread[3] = Call("LmakeString", <<>>, Result)
      /\ Lfread[4] = Use({Result, Arg(1)})
  BY DEF Lfread
<1>2. /\ PLfread[1] = Pt(<<>>, FALSE, {Arg(1)}, {})
      /\ PLfread[2] = Pt(<<>>, FALSE, {Arg(1)}, {})
      /\ PLfread[3] = Pt(<<>>, FALSE, {Arg(1), Local(1)}, {})
      /\ PLfread[4] = Pt(<<>>, FALSE, {Arg(1), Result}, {Result})
      /\ PLfread[5] = Pt(<<>>, FALSE, {Result}, {Result})
  BY DEF PLfread
<1>3. /\ PointGood(k, <<>>, FALSE, {Arg(1)}, {})
      /\ PointGood(k, <<>>, FALSE, {Arg(1), Local(1)}, {})
      /\ PointGood(k, <<>>, FALSE, {Arg(1), Result}, {Result})
      /\ PointGood(k, <<>>, FALSE, {Result}, {Result})
  BY NamesOf DEF Names, PointGood, Unguarded
<1>4. \A pc \in 1 .. 5 : PointIn(k, PLfread[pc])
  <2>1. /\ PointOk(k, PLfread[1])
        /\ PointOk(k, PLfread[2])
        /\ PointOk(k, PLfread[3])
        /\ PointOk(k, PLfread[4])
        /\ PointOk(k, PLfread[5])
    BY <1>2, <1>3 DEF PointOk
  <2> HIDE DEF k
  <2> QED
    BY <2>1, PointRule
<1>5. \A pc \in 1 .. 4 : Leads(k, Lfread[pc], PLfread[pc], PLfread[pc + 1])
  <2>1. Leads(k, Lfread[1], PLfread[1], PLfread[2])
    BY <1>1, <1>2
    DEF Leads, StepFits, UseFits, Use, Same, Pt, KeepsSysargs
  <2>2. Leads(k, Lfread[2], PLfread[2], PLfread[3])
    BY <1>1, <1>2, NamesOf, Apart
    DEF Leads, StepFits, SetFits, Set, Pt, KeepsSysargs, Names, LamaValues
  <2>3. Leads(k, Lfread[3], PLfread[3], PLfread[4])
    <3>1. MayCall(Discipline, k, <<>>, FALSE, {Arg(1), Local(1)}, "LmakeString", <<>>, Result)
      <4>1. k[1] \in Unguarded
        BY DEF Unguarded
      <4>2. Sysargs \notin {Arg(1), Local(1)}
        BY NamesOf DEF Names
      <4>3. <<>> \in Seq({Arg(1), Local(1)} \intersect (ArgSet(1, 1) \union Locals))
        BY NamesOf DEF Names
      <4>4. Result \in Locals \ Range(<<>>)
        <5>1. Lists(Result, Result)
          BY ListsOf
        <5> QED
          BY <5>1, NamesOf DEF Names, Lists
      <4>5. /\ <<"LmakeString", Len(<<>>)>> \in DOMAIN Discipline
            /\ Discipline[<<"LmakeString", Len(<<>>)>>].rank < Discipline[k].rank
            /\ ~Discipline[<<"LmakeString", Len(<<>>)>>].scanned
        <5>1. Len(<<>>) = 0
          OBVIOUS
        <5> QED
          BY <5>1, InnerRules, OuterRules DEF Rank
      <4> QED
        BY <4>1, <4>2, <4>3, <4>4, <4>5 DEF MayCall
    <3>2. StepFits(Discipline, k, Call("LmakeString", <<>>, Result),
                   Pt(<<>>, FALSE, {Arg(1), Local(1)}, {}),
                   Pt(<<>>, FALSE, {Arg(1), Result}, {Result}))
      <4>1. Lists(Result, Result)
        BY ListsOf
      <4>2. /\ {Arg(1), Result} \subseteq Lasting(Discipline, k, <<>>, {Arg(1), Local(1)}) \union {Result}
            /\ {Result} \subseteq ({} \intersect Range(<<>>)) \union {Result}
        BY <4>1, NamesOf DEF Names, Lasting, Lists, Unguarded
      <4> QED
        BY <3>1, <4>2, CallRule
    <3> QED
      BY <1>1, <1>2, <3>2 DEF Leads
  <2>4. Leads(k, Lfread[4], PLfread[4], PLfread[5])
    BY <1>1, <1>2, Apart
    DEF Leads, StepFits, UseFits, Use, Same, Pt, KeepsSysargs
  <2> HIDE DEF k
  <2> QED
    BY <2>1, <2>2, <2>3, <2>4
<1>6. Sized(Lfread, PLfread, 4)
  BY DEF Sized, Lfread, PLfread
<1>7. EntryFits(PLfread[1], 1) /\ ExitFits(k, PLfread[5])
  BY <1>2, NamesOf DEF Names, EntryFits, ExitFits, Pt
<1> QED
  BY <1>4, <1>5, <1>6, <1>7, FitsRule


\* Barray and Bsexp.
LiteralBody(n) == <<Pre, Alloc, Use(ArgSet(1, n) \union {Result}), Post>>

LEMMA LiteralTyped ==
  ASSUME NEW k, NEW n \in Nat, k[2] = n, k[1] \in {"Barray", "Bsexp"}, k \in Keys
  PROVE  Fits(k, LiteralBody(n), PLiteral(n))
<1> DEFINE args == ArgSet(1, n)
           body == LiteralBody(n)
           L == PLiteral(n)
<1>1. /\ body[1] = Pre /\ body[2] = Alloc /\ body[3] = Use(args \union {Result}) /\ body[4] = Post
      /\ Len(body) = 4
  BY DEF LiteralBody
<1>2. /\ L[1] = Pt(<<>>, FALSE, args, {}) /\ L[2] = Pt(<<>>, TRUE, args, {})
      /\ L[3] = Pt(<<>>, TRUE, args \union {Result}, {Result})
      /\ L[4] = Pt(<<>>, TRUE, {Result}, {Result}) /\ L[5] = Pt(<<>>, FALSE, {Result}, {Result})
      /\ L = [pc \in 1 .. 5 |-> L[pc]] /\ Len(L) = 5
  BY DEF PLiteral
<1>3. /\ k[1] \notin Unguarded /\ k[1] # "set_args"
      /\ IsScanned(k[1]) = TRUE
  BY DEF Unguarded, IsScanned, Rank
<1>4. Discipline[k].scanned = TRUE
  BY <1>3, OfDiscipline
<1> HIDE DEF body, L
<1>5. Sysargs \notin args /\ Result \in Locals /\ Result # Sysargs
  BY NamesOf DEF Names, ArgSet, Arg, Sysargs
<1>6. /\ PointGood(k, <<>>, FALSE, args, {})
      /\ PointGood(k, <<>>, TRUE, args, {})
      /\ PointGood(k, <<>>, TRUE, args \union {Result}, {Result})
      /\ PointGood(k, <<>>, TRUE, {Result}, {Result})
      /\ PointGood(k, <<>>, FALSE, {Result}, {Result})
  BY <1>3, <1>5 DEF PointGood
<1> HIDE DEF args
<1>7. \A pc \in 1 .. 5 : PointIn(k, L[pc])
  <2>1. /\ PointOk(k, L[1]) /\ PointOk(k, L[2]) /\ PointOk(k, L[3])
        /\ PointOk(k, L[4]) /\ PointOk(k, L[5])
    BY <1>2, <1>6 DEF PointOk
  <2> QED
    BY <2>1, PointRule
<1>8. \A pc \in 1 .. 4 : Leads(k, body[pc], L[pc], L[pc + 1])
  <2>1. Leads(k, body[1], L[1], L[2])
    BY <1>1, <1>2 DEF Leads, StepFits, PreFits, Pre, Same, Pt, KeepsSysargs
  <2>2. Leads(k, body[2], L[2], L[3])
    <3>1. args \union {Result} \subseteq Lasting(Discipline, k, <<>>, args) \union {Result}
      BY <1>4 DEF Lasting, args
    <3>2. StepFits(Discipline, k, Alloc, Pt(<<>>, TRUE, args, {}),
                   Pt(<<>>, TRUE, args \union {Result}, {Result}))
      BY <1>5, <3>1, AllocRule
    <3> QED
      BY <1>1, <1>2, <3>2 DEF Leads
  <2>3. Leads(k, body[3], L[3], L[4])
    BY <1>1, <1>2, <1>5 DEF Leads, StepFits, UseFits, Use, Same, Pt, KeepsSysargs
  <2>4. Leads(k, body[4], L[4], L[5])
    BY <1>1, <1>2 DEF Leads, StepFits, PostFits, Post, Same, Pt, KeepsSysargs
  <2> QED
    BY <2>1, <2>2, <2>3, <2>4
<1>9. Sized(body, L, 4)
  BY <1>1, <1>2 DEF Sized
<1>10. EntryFits(L[1], k[2]) /\ ExitFits(k, L[4 + 1])
  BY <1>2, <1>3 DEF EntryFits, ExitFits, Pt, args
<1>11. Fits(k, body, L)
  BY <1>7, <1>8, <1>9, <1>10, FitsRule
<1> QED
  BY <1>11 DEF body, L

\* Bclosure: the words beyond the arguments are pushed and popped.
ClosureSteps(body, n, z) ==
  /\ Len(body) = 2 * z + 4
  /\ body[1] = Pre
  /\ \A i \in 1 .. z : body[i + 1] = Push(Older(i))
  /\ body[z + 2] = Alloc
  /\ body[z + 3] = Use(ArgSet(1, n) \union {Result})
  /\ body[z + 4] = Post
  /\ \A i \in 1 .. z : body[z + 4 + i] = Pop(Older(z - i + 1))

LEMMA ClosureBody ==
  ASSUME NEW n \in Nat, NEW z \in Nat, n - 1 = z
  PROVE  ClosureSteps(Bclosure(n), n, z)
<1> DEFINE u == Use(ArgSet(1, n) \union {Result})
           push == [i \in 1 .. z |-> Push(Older(i))]
           pop == [i \in 1 .. z |-> Pop(Older(z - i + 1))]
           mid == <<Alloc, u, Post>>
           all == {Pre, Alloc, u, Post} \union {push[i] : i \in 1 .. z} \union {pop[i] : i \in 1 .. z}
           body == Bclosure(n)
<1>1. body = <<Pre>> \o push \o mid \o pop
  BY DEF Bclosure
<1>2. /\ {Pre, Alloc, u, Post} \subseteq all
      /\ \A i \in 1 .. z : push[i] \in all /\ pop[i] \in all
  OBVIOUS
<1>3. /\ push = [i \in 1 .. z |-> push[i]] /\ pop = [i \in 1 .. z |-> pop[i]]
      /\ \A i \in 1 .. z : push[i] = Push(Older(i)) /\ pop[i] = Pop(Older(z - i + 1))
  OBVIOUS
<1>4. Len(mid) = 3 /\ mid[1] = Alloc /\ mid[2] = u /\ mid[3] = Post
  OBVIOUS
<1>5. mid \in Seq({Alloc, u, Post})
  OBVIOUS
<1> HIDE DEF u, push, pop, all, body
<1>6. mid \in Seq(all) /\ <<Pre>> \in Seq(all)
  BY <1>2, <1>5
<1> HIDE DEF mid
<1>7. push \in Seq(all) /\ Len(push) = z /\ pop \in Seq(all) /\ Len(pop) = z
  BY <1>2, <1>3, Listed
<1> DEFINE b1 == <<Pre>> \o push
           b2 == b1 \o mid
<1>8. b1 \in Seq(all) /\ Joined(<<Pre>>, push, 1, z)
  BY <1>6, <1>7, Joins
<1>9. /\ Len(b1) = 1 + z /\ b1[1] = Pre /\ \A i \in 1 .. z : b1[1 + i] = push[i]
  BY <1>8 DEF Joined
<1> HIDE DEF b1
<1>10. b2 \in Seq(all) /\ Joined(b1, mid, 1 + z, 3)
  <2>1. 1 + z \in Nat
    OBVIOUS
  <2> QED
    BY <1>4, <1>6, <1>8, <1>9, <2>1, Joins
<1>11. /\ Len(b2) = 1 + z + 3 /\ \A i \in 1 .. 1 + z : b2[i] = b1[i]
       /\ b2[1 + z + 1] = Alloc /\ b2[1 + z + 2] = u /\ b2[1 + z + 3] = Post
  BY <1>4, <1>10 DEF Joined
<1> HIDE DEF b2
<1>12. body = b2 \o pop
  BY <1>1 DEF b2, b1
<1>13. Joined(b2, pop, 1 + z + 3, z)
  <2>1. 1 + z + 3 \in Nat
    OBVIOUS
  <2> QED
    BY <1>7, <1>10, <1>11, <2>1, Joins
<1>14. /\ Len(body) = 1 + z + 3 + z /\ \A i \in 1 .. 1 + z + 3 : body[i] = b2[i]
       /\ \A j \in 1 .. z : body[1 + z + 3 + j] = pop[j]
  BY <1>12, <1>13 DEF Joined
<1> HIDE <1>12, <1>13
<1>15. \A i \in 1 .. 1 + z : body[i] = b1[i]
  <2>1. \A i \in 1 .. 1 + z : i \in 1 .. 1 + z + 3
    OBVIOUS
  <2> QED
    BY <1>11, <1>14, <2>1
<1>16. Len(body) = 2 * z + 4
  <2>1. 1 + z + 3 + z = 2 * z + 4
    OBVIOUS
  <2> QED
    BY <1>14, <2>1
<1>17. body[1] = Pre
  BY <1>9, <1>15
<1>18. \A i \in 1 .. z : body[i + 1] = push[i]
  <2>1. \A i \in 1 .. z : 1 + i \in 1 .. 1 + z /\ i + 1 = 1 + i
    OBVIOUS
  <2> QED
    BY <1>9, <1>15, <2>1
<1>19. body[z + 2] = Alloc /\ body[z + 3] = u /\ body[z + 4] = Post
  <2>1. /\ 1 + z + 1 = z + 2 /\ 1 + z + 2 = z + 3 /\ 1 + z + 3 = z + 4
        /\ z + 2 \in 1 .. 1 + z + 3 /\ z + 3 \in 1 .. 1 + z + 3 /\ z + 4 \in 1 .. 1 + z + 3
    OBVIOUS
  <2> QED
    BY <1>11, <1>14, <2>1
<1>20. \A j \in 1 .. z : body[z + 4 + j] = pop[j]
  <2>1. \A j \in 1 .. z : 1 + z + 3 + j = z + 4 + j
    OBVIOUS
  <2> QED
    BY <1>14, <2>1
<1>21. ClosureSteps(body, n, z)
  BY <1>3, <1>16, <1>17, <1>18, <1>19, <1>20 DEF ClosureSteps, u
<1> QED
  BY <1>21 DEF body

OlderHeldOf(r, l) ==
  /\ OlderHeld(r) \in Seq(l) /\ Range(OlderHeld(r)) = OlderSet(r)
  /\ r > 0 => OlderHeld(r) = Append(OlderHeld(r - 1), Older(r))

LEMMA OlderHeldGrows ==
  ASSUME NEW r \in Nat, NEW l, OlderSet(r) \subseteq l
  PROVE  OlderHeldOf(r, l)
<1>1. OlderHeld(r) = [i \in 1 .. r |-> Older(i)]
  BY DEF OlderHeld
<1>2. \A i \in 1 .. r : OlderHeld(r)[i] = Older(i) /\ OlderHeld(r)[i] \in OlderSet(r)
  BY <1>1 DEF OlderSet
<1>3. /\ OlderHeld(r) \in Seq(OlderSet(r)) /\ Len(OlderHeld(r)) = r
      /\ OlderHeld(r) \in Seq(l)
  <2>1. OlderHeld(r) = [i \in 1 .. r |-> OlderHeld(r)[i]]
    BY <1>1
  <2>2. \A i \in 1 .. r : OlderHeld(r)[i] \in l
    BY <1>2
  <2> QED
    BY <1>2, <2>1, <2>2, Listed
<1>4. Range(OlderHeld(r)) = OlderSet(r)
  BY <1>1, <1>2 DEF Range, OlderSet
<1>5. ASSUME r > 0
      PROVE  OlderHeld(r) = Append(OlderHeld(r - 1), Older(r))
  <2> DEFINE s == OlderHeld(r - 1)
             a == Older(r)
             S == OlderSet(r)
  <2>1. s = [i \in 1 .. r - 1 |-> Older(i)]
    BY DEF OlderHeld
  <2>2. \A i \in 1 .. r - 1 : s[i] = OlderHeld(r)[i] /\ s[i] \in S
    BY <1>2, <2>1
  <2>3. r - 1 \in Nat
    BY <1>5
  <2>4. s \in Seq(S) /\ Len(s) = r - 1
    BY <2>1, <2>2, <2>3
  <2>5. OlderHeld(r)[r] = a /\ a \in S
    BY <1>2, <1>5
  <2> HIDE DEF s, a, S
  <2>6. /\ Append(s, a) \in Seq(S) /\ Len(Append(s, a)) = r
        /\ \A i \in 1 .. r - 1 : Append(s, a)[i] = s[i]
        /\ Append(s, a)[r] = a
    BY <2>4, <2>5, AppendProperties
  <2>7. \A i \in 1 .. r : OlderHeld(r)[i] = Append(s, a)[i]
    BY <2>2, <2>5, <2>6
  <2>8. OlderHeld(r) \in Seq(S)
    BY <1>3 DEF S
  <2> QED
    BY <1>3, <2>6, <2>7, <2>8, SeqEqual DEF s, a
<1> QED
  BY <1>3, <1>4, <1>5 DEF OlderHeldOf

ClosureAt(L, n, z) ==
  /\ L = [pc \in 1 .. 2 * z + 5 |-> L[pc]] /\ Len(L) = 2 * z + 5
  /\ L[1] = Pt(<<>>, FALSE, ArgSet(1, n) \union OlderSet(z), {})
  /\ \A i \in 0 .. z : L[i + 2] = Pushing(n, z, i)
  /\ L[z + 3] = Made(n, z) /\ L[z + 4] = Made(n, z)
  /\ \A i \in 0 .. z : L[z + 5 + i] = Popping(z, z - i)

LEMMA ClosurePointsAt ==
  ASSUME NEW n, NEW z \in Nat
  PROVE  ClosureAt(ClosurePoints(n, z), n, z)
<1> DEFINE L == ClosurePoints(n, z)
<1>1. L = [pc \in 1 .. 2 * z + 5 |->
             IF pc = 1 THEN Pt(<<>>, FALSE, ArgSet(1, n) \union OlderSet(z), {})
             ELSE IF pc <= z + 2 THEN Pushing(n, z, pc - 2)
             ELSE IF pc <= z + 4 THEN Made(n, z)
             ELSE Popping(z, 2 * z + 5 - pc)]
  BY DEF ClosurePoints
<1> HIDE DEF L
<1>2. Len(L) = 2 * z + 5
  <2>1. 2 * z + 5 \in Nat
    OBVIOUS
  <2> QED
    BY <1>1, <2>1
<1>3. L = [pc \in 1 .. 2 * z + 5 |-> L[pc]]
  BY <1>1
<1>4. L[1] = Pt(<<>>, FALSE, ArgSet(1, n) \union OlderSet(z), {})
  <2>1. 1 \in 1 .. 2 * z + 5
    OBVIOUS
  <2> QED
    BY <1>1, <2>1
<1>5. \A i \in 0 .. z : L[i + 2] = Pushing(n, z, i)
  <2> TAKE i \in 0 .. z
  <2>1. i + 2 \in 1 .. 2 * z + 5 /\ i + 2 # 1 /\ i + 2 <= z + 2 /\ i + 2 - 2 = i
    OBVIOUS
  <2>2. L[i + 2] = Pushing(n, z, i + 2 - 2)
    BY <1>1, <2>1
  <2> QED
    BY <2>1, <2>2
<1>6. L[z + 3] = Made(n, z) /\ L[z + 4] = Made(n, z)
  <2>1. /\ z + 3 \in 1 .. 2 * z + 5 /\ z + 3 # 1 /\ ~(z + 3 <= z + 2) /\ z + 3 <= z + 4
        /\ z + 4 \in 1 .. 2 * z + 5 /\ z + 4 # 1 /\ ~(z + 4 <= z + 2) /\ z + 4 <= z + 4
    OBVIOUS
  <2> QED
    BY <1>1, <2>1
<1>7. \A i \in 0 .. z : L[z + 5 + i] = Popping(z, z - i)
  <2> TAKE i \in 0 .. z
  <2>1. /\ z + 5 + i \in 1 .. 2 * z + 5 /\ z + 5 + i # 1 /\ ~(z + 5 + i <= z + 2)
        /\ ~(z + 5 + i <= z + 4) /\ 2 * z + 5 - (z + 5 + i) = z - i
    OBVIOUS
  <2>2. L[z + 5 + i] = Popping(z, 2 * z + 5 - (z + 5 + i))
    BY <1>1, <2>1
  <2> QED
    BY <2>1, <2>2
<1> QED
  BY <1>2, <1>3, <1>4, <1>5, <1>6, <1>7 DEF ClosureAt, L

LEMMA ClosureTyped ==
  ASSUME NEW n \in 1 .. NArgs
  PROVE  Fits(<<"Bclosure", n>>, Bclosure(n), ClosurePoints(n, n - 1))
<1> DEFINE k == <<"Bclosure", n>>
           z == n - 1
           body == Bclosure(n)
           L == ClosurePoints(n, z)
           args == ArgSet(1, n)
           olders == OlderSet(z)
           all == args \union olders \union {Result}
<1>1. n \in Nat /\ z \in Nat /\ n - 1 = z /\ 1 .. z \subseteq Words
  BY ConstantsAssumption DEF Words
<1>2. k[1] = "Bclosure" /\ k[2] = n /\ k \in Keys
  BY <1>1, ConstantsAssumption DEF Keys, Called, Lengths32, Literals
<1>3. k[1] \notin Unguarded /\ k[1] # "set_args" /\ IsScanned(k[1]) = TRUE
  BY <1>2 DEF Unguarded, IsScanned, Rank
<1> HIDE DEF k, z
<1>4. ClosureSteps(body, n, z) /\ ClosureAt(L, n, z)
  BY <1>1, ClosureBody, ClosurePointsAt
<1> HIDE DEF body, L
<1>5. Discipline[k].scanned = TRUE
  BY <1>2, <1>3, OfDiscipline
<1>6. /\ Sysargs \notin args /\ Sysargs \notin olders /\ Result # Sysargs /\ Result \in Locals
      /\ olders \subseteq Olders /\ Sysargs \notin all
  <2>1. Sysargs \notin args /\ Sysargs \notin olders
    BY DEF ArgSet, Arg, OlderSet, Older, Sysargs
  <2>2. olders \subseteq Olders
    BY <1>1 DEF OlderSet, Olders
  <2> QED
    BY <2>1, <2>2, NamesOf DEF Names
<1>7. ASSUME NEW r \in 0 .. z
      PROVE  /\ OlderHeld(r) \in Seq(olders) /\ Range(OlderHeld(r)) \subseteq olders
             /\ OlderHeld(r) \in Seq(args \union olders)
             /\ OlderHeld(r) \in Seq(all) /\ OlderHeld(r) \in Seq(olders \union {Result})
             /\ r > 0 => /\ OlderHeld(r) = Append(OlderHeld(r - 1), Older(r))
                         /\ Older(r) \in olders
             /\ r = z => Range(OlderHeld(r)) = olders
  <2>1. r \in Nat /\ 1 .. r \subseteq 1 .. z
    BY <1>1
  <2>2. OlderSet(r) \subseteq olders /\ (r > 0 => Older(r) \in olders)
    BY <2>1 DEF OlderSet
  <2> HIDE DEF args, all
  <2>3. /\ OlderHeldOf(r, olders) /\ OlderHeldOf(r, args \union olders)
        /\ OlderHeldOf(r, olders \union {Result})
    BY <2>1, <2>2, OlderHeldGrows
  <2>4. OlderHeldOf(r, all)
    BY <2>1, <2>2, OlderHeldGrows DEF all
  <2> QED
    BY <2>2, <2>3, <2>4 DEF OlderHeldOf
<1>8. OlderHeld(0) = <<>>
  BY DEF OlderHeld
<1> HIDE DEF args, olders, all
<1>9. ASSUME NEW r \in 0 .. z
      PROVE  /\ PointIn(k, Pushing(n, z, r)) /\ PointIn(k, Made(n, z))
             /\ PointIn(k, Popping(z, r))
  <2>1. z \in 0 .. z
    BY <1>1
  <2>2. /\ PointGood(k, OlderHeld(r), TRUE, args \union olders, {})
        /\ PointGood(k, OlderHeld(z), TRUE, args \union olders \union {Result}, {Result})
        /\ PointGood(k, OlderHeld(r), FALSE, olders \union {Result}, {Result})
    BY <1>2, <1>3, <1>6, <1>7, <2>1 DEF PointGood, args, all
  <2>3. /\ PointOk(k, Pushing(n, z, r)) /\ PointOk(k, Made(n, z)) /\ PointOk(k, Popping(z, r))
    BY <2>2 DEF PointOk, Pushing, Made, Popping, args, olders
  <2> QED
    BY <2>3, PointRule
<1>10. PointIn(k, Pt(<<>>, FALSE, args \union olders, {}))
  <2>1. PointGood(k, <<>>, FALSE, args \union olders, {})
    BY <1>2, <1>3, <1>6 DEF PointGood, args
  <2>2. PointOk(k, Pt(<<>>, FALSE, args \union olders, {}))
    BY <2>1 DEF PointOk
  <2> QED
    BY <2>2, PointRule
<1>11. \A pc \in 1 .. 2 * z + 4 + 1 : PointIn(k, L[pc])
  <2> TAKE pc \in 1 .. 2 * z + 4 + 1
  <2>1. CASE pc = 1
    BY <1>4, <1>10, <2>1 DEF ClosureAt, args, olders
  <2>2. CASE pc \in 2 .. z + 2
    <3>1. pc - 2 \in 0 .. z /\ pc - 2 + 2 = pc
      BY <1>1, <2>2
    <3> QED
      BY <1>4, <1>9, <3>1 DEF ClosureAt
  <2>3. CASE pc \in {z + 3, z + 4}
    <3>1. z \in 0 .. z
      BY <1>1
    <3> QED
      BY <1>4, <1>9, <2>3, <3>1 DEF ClosureAt
  <2>4. CASE pc \in z + 5 .. 2 * z + 5
    <3>1. pc - (z + 5) \in 0 .. z /\ z + 5 + (pc - (z + 5)) = pc /\ z - (pc - (z + 5)) \in 0 .. z
      BY <1>1, <2>4
    <3>2. L[pc] = Popping(z, z - (pc - (z + 5)))
      BY <1>4, <3>1 DEF ClosureAt
    <3> QED
      BY <1>9, <3>1, <3>2
  <2>5. pc = 1 \/ pc \in 2 .. z + 2 \/ pc \in {z + 3, z + 4} \/ pc \in z + 5 .. 2 * z + 5
    BY <1>1
  <2> QED
    BY <2>1, <2>2, <2>3, <2>4, <2>5
<1>12. Leads(k, Pre, Pt(<<>>, FALSE, args \union olders, {}), Pushing(n, z, 0))
  <2>1. Pushing(n, z, 0) = Pt(<<>>, TRUE, args \union olders, {})
    BY <1>8 DEF Pushing, args, olders
  <2> QED
    BY <2>1 DEF Leads, StepFits, PreFits, Pre, Same, Pt, KeepsSysargs
<1>13. ASSUME NEW r \in 1 .. z
       PROVE  Leads(k, Push(Older(r)), Pushing(n, z, r - 1), Pushing(n, z, r))
  <2> DEFINE h == OlderHeld(r)
             g == OlderHeld(r - 1)
             a == Older(r)
  <2>1. h = Append(g, a) /\ a \in args \union olders
    <3>1. r \in 0 .. z /\ r > 0
      BY <1>1
    <3> QED
      BY <1>7, <3>1
  <2> HIDE DEF h, g, a
  <2>2. Leads(k, Push(a), Pt(g, TRUE, args \union olders, {}), Pt(h, TRUE, args \union olders, {}))
    BY <2>1 DEF Leads, StepFits, PushFits, Push, Pt, KeepsSysargs
  <2> QED
    BY <2>2 DEF Pushing, h, g, a, args, olders
<1>14. Leads(k, Alloc, Pushing(n, z, z), Made(n, z))
  <2> DEFINE h == OlderHeld(z)
             l == args \union olders
  <2>1. Range(h) = olders
    <3>1. z \in 0 .. z
      BY <1>1
    <3> QED
      BY <1>7, <3>1
  <2> HIDE DEF h
  <2>2. all \subseteq Lasting(Discipline, k, h, l) \union {Result}
    BY <1>2, <1>5, <2>1 DEF Lasting, all, args
  <2>3. Sysargs \notin l
    BY <1>6
  <2> HIDE DEF l
  <2>4. StepFits(Discipline, k, Alloc, Pt(h, TRUE, l, {}), Pt(h, TRUE, all, {Result}))
    BY <2>2, <2>3, AllocRule
  <2> QED
    BY <2>4 DEF Leads, Pushing, Made, h, l, all, args, olders
<1>15. Leads(k, Use(args \union {Result}), Made(n, z), Made(n, z))
  BY <1>6 DEF Leads, StepFits, UseFits, Use, Same, Pt, KeepsSysargs, Made, args
<1>16. Leads(k, Post, Made(n, z), Popping(z, z))
  <2> DEFINE h == OlderHeld(z)
  <2> HIDE DEF h
  <2>1. Leads(k, Post, Pt(h, TRUE, all, {Result}), Pt(h, FALSE, olders \union {Result}, {Result}))
    BY <1>6 DEF Leads, StepFits, PostFits, Post, Same, Pt, KeepsSysargs, all
  <2> QED
    BY <2>1 DEF Made, Popping, h, all, args, olders
<1>17. ASSUME NEW r \in 1 .. z
       PROVE  Leads(k, Pop(Older(r)), Popping(z, r), Popping(z, r - 1))
  <2> DEFINE h == OlderHeld(r)
             g == OlderHeld(r - 1)
             a == Older(r)
             l == olders \union {Result}
  <2>1. h = Append(g, a)
    <3>1. r \in 0 .. z /\ r > 0
      BY <1>1
    <3> QED
      BY <1>7, <3>1
  <2> HIDE DEF h, g, a, l
  <2>2. Leads(k, Pop(a), Pt(h, FALSE, l, {Result}), Pt(g, FALSE, l, {Result}))
    BY <2>1 DEF Leads, StepFits, PopFits, Pop, Pt, KeepsSysargs
  <2> QED
    BY <2>2 DEF Popping, h, g, a, l, olders
<1>18. \A pc \in 1 .. 2 * z + 4 : Leads(k, body[pc], L[pc], L[pc + 1])
  <2> TAKE pc \in 1 .. 2 * z + 4
  <2>0. z \in 0 .. z /\ 0 \in 0 .. z
    BY <1>1
  <2>1. CASE pc = 1
    <3>1. L[2] = Pushing(n, z, 0)
      <4>1. 0 + 2 = 2
        OBVIOUS
      <4> QED
        BY <1>4, <2>0, <4>1 DEF ClosureAt
    <3>2. body[1] = Pre /\ L[1] = Pt(<<>>, FALSE, args \union olders, {})
      BY <1>4 DEF ClosureAt, ClosureSteps, args, olders
    <3>3. L[pc + 1] = L[2] /\ L[pc] = L[1] /\ body[pc] = body[1]
      <4>1. pc + 1 = 2
        BY <2>1
      <4> QED
        BY <2>1, <4>1
    <3> QED
      BY <1>12, <3>1, <3>2, <3>3
  <2>2. CASE pc \in 2 .. z + 1
    <3>1. PICK i \in 1 .. z : pc = i + 1
      BY <1>1, <2>2
    <3>2. i - 1 \in 0 .. z /\ i \in 0 .. z /\ i - 1 + 2 = pc /\ i + 2 = pc + 1
      BY <1>1, <3>1
    <3>3. L[pc] = Pushing(n, z, i - 1) /\ L[pc + 1] = Pushing(n, z, i)
      BY <1>4, <3>2 DEF ClosureAt
    <3>4. body[pc] = Push(Older(i))
      BY <1>4, <3>1 DEF ClosureSteps
    <3> QED
      BY <1>13, <3>3, <3>4
  <2>3. CASE pc = z + 2
    <3>1. z + 2 + 1 = z + 3
      BY <1>1
    <3>2. L[z + 2] = Pushing(n, z, z) /\ L[z + 3] = Made(n, z) /\ body[z + 2] = Alloc
      BY <1>4, <2>0 DEF ClosureAt, ClosureSteps
    <3> QED
      BY <1>14, <2>3, <3>1, <3>2
  <2>4. CASE pc = z + 3
    <3>1. z + 3 + 1 = z + 4
      BY <1>1
    <3>2. L[z + 3] = Made(n, z) /\ L[z + 4] = Made(n, z) /\ body[z + 3] = Use(args \union {Result})
      BY <1>4 DEF ClosureAt, ClosureSteps, args
    <3> QED
      BY <1>15, <2>4, <3>1, <3>2
  <2>5. CASE pc = z + 4
    <3>1. z + 4 + 1 = z + 5 + 0 /\ z - 0 = z
      BY <1>1
    <3>2. L[z + 4] = Made(n, z) /\ L[z + 5 + 0] = Popping(z, z - 0) /\ body[z + 4] = Post
      BY <1>4, <2>0 DEF ClosureAt, ClosureSteps
    <3> QED
      BY <1>16, <2>5, <3>1, <3>2
  <2>6. CASE pc \in z + 5 .. 2 * z + 4
    <3>1. PICK i \in 1 .. z : pc = z + 4 + i
      <4>1. pc - (z + 4) \in 1 .. z /\ pc = z + 4 + (pc - (z + 4))
        BY <1>1, <2>6
      <4> QED
        BY <4>1
    <3>2. /\ i - 1 \in 0 .. z /\ i \in 0 .. z /\ z + 5 + (i - 1) = pc /\ z + 5 + i = pc + 1
          /\ z - i + 1 \in 1 .. z /\ z - (i - 1) = z - i + 1 /\ z - i = z - i + 1 - 1
      BY <1>1, <3>1
    <3>3. L[pc] = Popping(z, z - i + 1) /\ L[pc + 1] = Popping(z, z - i + 1 - 1)
      <4>1. L[z + 5 + (i - 1)] = Popping(z, z - (i - 1)) /\ L[z + 5 + i] = Popping(z, z - i)
        BY <1>4, <3>2 DEF ClosureAt
      <4> QED
        BY <3>2, <4>1
    <3>4. body[pc] = Pop(Older(z - i + 1))
      BY <1>4, <3>1 DEF ClosureSteps
    <3>5. PICK m \in 1 .. z : m = z - i + 1
      BY <3>2
    <3>6. L[pc] = Popping(z, m) /\ L[pc + 1] = Popping(z, m - 1) /\ body[pc] = Pop(Older(m))
      BY <1>1, <3>3, <3>4, <3>5
    <3> QED
      BY <1>17, <3>5, <3>6
  <2>7. pc = 1 \/ pc \in 2 .. z + 1 \/ pc \in {z + 2, z + 3, z + 4} \/ pc \in z + 5 .. 2 * z + 4
    BY <1>1
  <2> QED
    BY <2>1, <2>2, <2>3, <2>4, <2>5, <2>6, <2>7
<1>19. Sized(body, L, 2 * z + 4)
  <2>1. 2 * z + 4 \in Nat /\ 2 * z + 4 + 1 = 2 * z + 5
    BY <1>1
  <2> QED
    BY <1>4, <2>1 DEF Sized, ClosureAt, ClosureSteps
<1>20. EntryFits(L[1], k[2]) /\ ExitFits(k, L[2 * z + 4 + 1])
  <2>1. 2 * z + 4 + 1 = z + 5 + z /\ z \in 0 .. z /\ z - z = 0
    BY <1>1
  <2>2. L[2 * z + 4 + 1] = Popping(z, 0)
    BY <1>4, <2>1 DEF ClosureAt
  <2>3. L[1] = Pt(<<>>, FALSE, args \union olders, {})
    BY <1>4 DEF ClosureAt, args, olders
  <2>4. EntryFits(L[1], k[2])
    BY <1>2, <1>6, <2>3 DEF EntryFits, Pt, args
  <2>5. ExitFits(k, L[2 * z + 4 + 1])
    BY <1>3, <1>8, <2>2 DEF ExitFits, Pt, Popping
  <2> QED
    BY <2>4, <2>5
<1>21. 2 * z + 4 \in Nat
  BY <1>1
<1>22. Fits(k, body, L)
  BY <1>11, <1>18, <1>19, <1>20, <1>21, FitsRule
<1> QED
  BY <1>22 DEF k, body, L, z

\* The steps of the loop over argv come in threes.
SetArgsSteps(body, n) ==
  /\ Len(body) = 3 * n + 7
  /\ body[1] = Pre /\ body[2] = Call("LmakeArray", <<>>, Local(1)) /\ body[3] = Push(Local(1))
  /\ \A j \in 1 .. n : /\ body[3 * j + 1] = Copy(Arg(j), Local(2))
                       /\ body[3 * j + 2] = Call("Bstring", <<Local(2)>>, Result)
                       /\ body[3 * j + 3] = Use({Local(1), Result})
  /\ body[3 * n + 4] = Pop(Local(1)) /\ body[3 * n + 5] = Post
  /\ body[3 * n + 6] = Copy(Local(1), Sysargs) /\ body[3 * n + 7] = Push(Sysargs)

LEMMA SetArgsBody ==
  ASSUME NEW n \in Nat
  PROVE  SetArgsSteps(SetArgs(n), n)
<1> DEFINE s == <<Pre, Call("LmakeArray", <<>>, Local(1)), Push(Local(1))>>
           loop == SetArgsLoop(n)
           t == <<Pop(Local(1)), Post, Copy(Local(1), Sysargs), Push(Sysargs)>>
           all == {s[i] : i \in 1 .. 3} \union {loop[i] : i \in 1 .. 3 * n} \union {t[i] : i \in 1 .. 4}
<1>1. loop = [i \in 1 .. 3 * n |-> CASE i % 3 = 1 -> Copy(Arg((i + 2) \div 3), Local(2))
                                     [] i % 3 = 2 -> Call("Bstring", <<Local(2)>>, Result)
                                     [] i % 3 = 0 -> Use({Local(1), Result})]
  BY DEF SetArgsLoop
<1>2. /\ s[1] = Pre /\ s[2] = Call("LmakeArray", <<>>, Local(1)) /\ s[3] = Push(Local(1))
      /\ t[1] = Pop(Local(1)) /\ t[2] = Post /\ t[3] = Copy(Local(1), Sysargs) /\ t[4] = Push(Sysargs)
  OBVIOUS
<1>3. SetArgs(n) = s \o loop \o t
  BY DEF SetArgs
<1>4. /\ s = [i \in 1 .. 3 |-> s[i]] /\ t = [i \in 1 .. 4 |-> t[i]]
      /\ loop = [i \in 1 .. 3 * n |-> loop[i]]
  BY <1>1
<1>5. \A j \in 1 .. n : /\ loop[3 * j - 2] = Copy(Arg(j), Local(2))
                        /\ loop[3 * j - 1] = Call("Bstring", <<Local(2)>>, Result)
                        /\ loop[3 * j] = Use({Local(1), Result})
  <2> TAKE j \in 1 .. n
  <2>1. /\ 3 * j - 2 \in 1 .. 3 * n /\ (3 * j - 2) % 3 = 1 /\ (3 * j - 2 + 2) \div 3 = j
        /\ 3 * j - 1 \in 1 .. 3 * n /\ (3 * j - 1) % 3 = 2
        /\ 3 * j \in 1 .. 3 * n /\ (3 * j) % 3 = 0
    OBVIOUS
  <2>2. loop[3 * j - 2] = Copy(Arg(j), Local(2))
    <3> DEFINE i == 3 * j - 2
    <3>1. i \in 1 .. 3 * n /\ i % 3 = 1 /\ i % 3 # 2 /\ i % 3 # 0 /\ (i + 2) \div 3 = j
      BY <2>1
    <3> HIDE DEF i
    <3>2. loop[i] = Copy(Arg((i + 2) \div 3), Local(2))
      BY <1>1, <3>1
    <3> QED
      BY <3>1, <3>2 DEF i
  <2>3. loop[3 * j - 1] = Call("Bstring", <<Local(2)>>, Result)
    <3> DEFINE i == 3 * j - 1
    <3>1. i \in 1 .. 3 * n /\ i % 3 # 1 /\ i % 3 = 2 /\ i % 3 # 0
      BY <2>1
    <3> HIDE DEF i
    <3>2. loop[i] = Call("Bstring", <<Local(2)>>, Result)
      BY <1>1, <3>1
    <3> QED
      BY <3>2 DEF i
  <2>4. loop[3 * j] = Use({Local(1), Result})
    <3> DEFINE i == 3 * j
    <3>1. i \in 1 .. 3 * n /\ i % 3 # 1 /\ i % 3 # 2 /\ i % 3 = 0
      BY <2>1
    <3> HIDE DEF i
    <3>2. loop[i] = Use({Local(1), Result})
      BY <1>1, <3>1
    <3> QED
      BY <3>2 DEF i
  <2> QED
    BY <2>2, <2>3, <2>4
<1> HIDE DEF s, loop, t
<1>6. s \in Seq(all) /\ Len(s) = 3 /\ t \in Seq(all) /\ Len(t) = 4
  <2>1. (\A i \in 1 .. 3 : s[i] \in all) /\ (\A i \in 1 .. 4 : t[i] \in all)
    OBVIOUS
  <2>2. 3 \in Nat /\ 4 \in Nat
    OBVIOUS
  <2> HIDE DEF all
  <2> QED
    BY <1>4, <2>1, <2>2, Listed
<1>7. loop \in Seq(all) /\ Len(loop) = 3 * n
  <2>1. (\A i \in 1 .. 3 * n : loop[i] \in all) /\ 3 * n \in Nat
    OBVIOUS
  <2> HIDE DEF all
  <2> QED
    BY <1>4, <2>1, Listed
<1> HIDE DEF all
<1> DEFINE b == s \o loop
<1>8. b \in Seq(all) /\ Joined(s, loop, 3, 3 * n)
  <2>1. 3 \in Nat /\ 3 * n \in Nat
    OBVIOUS
  <2> QED
    BY <1>6, <1>7, <2>1, Joins
<1>9. /\ Len(b) = 3 + 3 * n /\ b[1] = s[1] /\ b[2] = s[2] /\ b[3] = s[3]
      /\ \A i \in 1 .. 3 * n : b[3 + i] = loop[i]
  <2>1. 1 \in 1 .. 3 /\ 2 \in 1 .. 3 /\ 3 \in 1 .. 3
    OBVIOUS
  <2> QED
    BY <1>8, <2>1 DEF Joined
<1> HIDE DEF b
<1>10. Joined(b, t, 3 + 3 * n, 4)
  <2>1. 3 + 3 * n \in Nat /\ 4 \in Nat
    OBVIOUS
  <2> QED
    BY <1>6, <1>8, <1>9, <2>1, Joins
<1> DEFINE body == SetArgs(n)
<1>11. body = b \o t
  BY <1>3 DEF b
<1> HIDE DEF body
<1>12. /\ Len(body) = 3 + 3 * n + 4 /\ \A i \in 1 .. 3 + 3 * n : body[i] = b[i]
       /\ \A i \in 1 .. 4 : body[3 + 3 * n + i] = t[i]
  BY <1>10, <1>11 DEF Joined
<1>13. body[1] = s[1] /\ body[2] = s[2] /\ body[3] = s[3]
  <2>1. {1, 2, 3} \subseteq 1 .. 3 + 3 * n
    OBVIOUS
  <2> QED
    BY <1>9, <1>12, <2>1
<1>14. \A j \in 1 .. n : /\ body[3 * j + 1] = loop[3 * j - 2]
                         /\ body[3 * j + 2] = loop[3 * j - 1]
                         /\ body[3 * j + 3] = loop[3 * j]
  <2> TAKE j \in 1 .. n
  <2>1. /\ 3 * j - 2 \in 1 .. 3 * n /\ 3 + (3 * j - 2) = 3 * j + 1 /\ 3 * j + 1 \in 1 .. 3 + 3 * n
        /\ 3 * j - 1 \in 1 .. 3 * n /\ 3 + (3 * j - 1) = 3 * j + 2 /\ 3 * j + 2 \in 1 .. 3 + 3 * n
        /\ 3 * j \in 1 .. 3 * n /\ 3 + 3 * j = 3 * j + 3 /\ 3 * j + 3 \in 1 .. 3 + 3 * n
    OBVIOUS
  <2> QED
    BY <1>9, <1>12, <2>1
<1>15. /\ body[3 * n + 4] = t[1] /\ body[3 * n + 5] = t[2]
       /\ body[3 * n + 6] = t[3] /\ body[3 * n + 7] = t[4]
  <2>1. /\ 3 + 3 * n + 1 = 3 * n + 4 /\ 3 + 3 * n + 2 = 3 * n + 5
        /\ 3 + 3 * n + 3 = 3 * n + 6 /\ 3 + 3 * n + 4 = 3 * n + 7
        /\ {1, 2, 3, 4} \subseteq 1 .. 4
    OBVIOUS
  <2> QED
    BY <1>12, <2>1
<1>16. Len(body) = 3 * n + 7
  <2>1. 3 + 3 * n + 4 = 3 * n + 7
    OBVIOUS
  <2> QED
    BY <1>12, <2>1
<1>17. SetArgsSteps(body, n)
  BY <1>2, <1>5, <1>13, <1>14, <1>15, <1>16 DEF SetArgsSteps
<1> QED
  BY <1>17 DEF body

SetArgsAt(P, n) ==
  /\ P = [pc \in 1 .. 3 * n + 8 |-> P[pc]] /\ Len(P) = 3 * n + 8
  /\ P[1] = Pt(<<>>, FALSE, ArgSet(1, n), {})
  /\ P[2] = Pt(<<>>, TRUE, ArgSet(1, n), {})
  /\ P[3] = Pt(<<>>, TRUE, ArgSet(1, n) \union {Local(1)}, {Local(1)})
  /\ \A j \in 1 .. n + 1 : P[3 * j + 1] = Looping(n, {})
  /\ \A j \in 1 .. n : P[3 * j + 2] = Looping(n, {Local(2)})
  /\ \A j \in 1 .. n : P[3 * j + 3] = Looping(n, {Result})
  /\ P[3 * n + 5] = Pt(<<>>, TRUE, {Local(1)}, {Local(1)})
  /\ P[3 * n + 6] = Pt(<<>>, FALSE, {Local(1)}, {Local(1)})
  /\ P[3 * n + 7] = Pt(<<>>, FALSE, {Sysargs}, {Sysargs})
  /\ P[3 * n + 8] = Pt(<<Sysargs>>, FALSE, {Sysargs}, {Sysargs})

LEMMA SetArgsPoints ==
  ASSUME NEW n \in Nat
  PROVE  SetArgsAt(PSetArgs(n), n)
<1> DEFINE P == PSetArgs(n)
<1>1. P = [pc \in 1 .. 3 * n + 8 |->
             IF pc = 1 THEN Pt(<<>>, FALSE, ArgSet(1, n), {})
             ELSE IF pc = 2 THEN Pt(<<>>, TRUE, ArgSet(1, n), {})
             ELSE IF pc = 3 THEN Pt(<<>>, TRUE, ArgSet(1, n) \union {Local(1)}, {Local(1)})
             ELSE IF pc <= 3 * n + 4
               THEN Looping(n, IF pc % 3 = 1 THEN {} ELSE IF pc % 3 = 2 THEN {Local(2)} ELSE {Result})
             ELSE IF pc = 3 * n + 5 THEN Pt(<<>>, TRUE, {Local(1)}, {Local(1)})
             ELSE IF pc = 3 * n + 6 THEN Pt(<<>>, FALSE, {Local(1)}, {Local(1)})
             ELSE IF pc = 3 * n + 7 THEN Pt(<<>>, FALSE, {Sysargs}, {Sysargs})
             ELSE Pt(<<Sysargs>>, FALSE, {Sysargs}, {Sysargs})]
  BY DEF PSetArgs
<1> HIDE DEF P
<1>2. P = [pc \in 1 .. 3 * n + 8 |-> P[pc]]
  BY <1>1
<1>3. Len(P) = 3 * n + 8
  <2>1. 3 * n + 8 \in Nat
    OBVIOUS
  <2> QED
    BY <1>2, <2>1
<1>4. /\ P[1] = Pt(<<>>, FALSE, ArgSet(1, n), {})
      /\ P[2] = Pt(<<>>, TRUE, ArgSet(1, n), {})
      /\ P[3] = Pt(<<>>, TRUE, ArgSet(1, n) \union {Local(1)}, {Local(1)})
  <2>1. 1 \in 1 .. 3 * n + 8 /\ 2 \in 1 .. 3 * n + 8 /\ 3 \in 1 .. 3 * n + 8
    OBVIOUS
  <2> QED
    BY <1>1, <2>1
<1>5. \A j \in 1 .. n + 1 : P[3 * j + 1] = Looping(n, {})
  <2> TAKE j \in 1 .. n + 1
  <2> DEFINE pc == 3 * j + 1
  <2>1. /\ pc \in 1 .. 3 * n + 8 /\ pc \notin {1, 2, 3} /\ pc <= 3 * n + 4 /\ pc % 3 = 1
    OBVIOUS
  <2> HIDE DEF pc
  <2>2. P[pc] = Looping(n, {})
    BY <1>1, <2>1
  <2> QED
    BY <2>2 DEF pc
<1>6. \A j \in 1 .. n : P[3 * j + 2] = Looping(n, {Local(2)})
  <2> TAKE j \in 1 .. n
  <2> DEFINE pc == 3 * j + 2
  <2>1. /\ pc \in 1 .. 3 * n + 8 /\ pc \notin {1, 2, 3} /\ pc <= 3 * n + 4 /\ pc % 3 = 2 /\ pc % 3 # 1
    OBVIOUS
  <2> HIDE DEF pc
  <2>2. P[pc] = Looping(n, {Local(2)})
    BY <1>1, <2>1
  <2> QED
    BY <2>2 DEF pc
<1>7. \A j \in 1 .. n : P[3 * j + 3] = Looping(n, {Result})
  <2> TAKE j \in 1 .. n
  <2> DEFINE pc == 3 * j + 3
  <2>1. /\ pc \in 1 .. 3 * n + 8 /\ pc \notin {1, 2, 3} /\ pc <= 3 * n + 4 /\ pc % 3 # 1 /\ pc % 3 # 2
    OBVIOUS
  <2> HIDE DEF pc
  <2>2. P[pc] = Looping(n, {Result})
    BY <1>1, <2>1
  <2> QED
    BY <2>2 DEF pc
<1>8. /\ P[3 * n + 5] = Pt(<<>>, TRUE, {Local(1)}, {Local(1)})
      /\ P[3 * n + 6] = Pt(<<>>, FALSE, {Local(1)}, {Local(1)})
      /\ P[3 * n + 7] = Pt(<<>>, FALSE, {Sysargs}, {Sysargs})
      /\ P[3 * n + 8] = Pt(<<Sysargs>>, FALSE, {Sysargs}, {Sysargs})
  <2>1. {3 * n + 5, 3 * n + 6, 3 * n + 7, 3 * n + 8} \subseteq (1 .. 3 * n + 8) \ {1, 2, 3}
    OBVIOUS
  <2>2. /\ ~(3 * n + 5 <= 3 * n + 4) /\ ~(3 * n + 6 <= 3 * n + 4)
        /\ ~(3 * n + 7 <= 3 * n + 4) /\ ~(3 * n + 8 <= 3 * n + 4)
        /\ 3 * n + 6 # 3 * n + 5 /\ 3 * n + 7 # 3 * n + 5 /\ 3 * n + 7 # 3 * n + 6
        /\ 3 * n + 8 # 3 * n + 5 /\ 3 * n + 8 # 3 * n + 6 /\ 3 * n + 8 # 3 * n + 7
    OBVIOUS
  <2> QED
    BY <1>1, <2>1, <2>2
<1> QED
  BY <1>2, <1>3, <1>4, <1>5, <1>6, <1>7, <1>8 DEF SetArgsAt, P

\* Where a step of set_args stands.
PcOf(pc, n) ==
  \/ pc \in {1, 2, 3} \/ pc \in {3 * n + 5, 3 * n + 6, 3 * n + 7, 3 * n + 8}
  \/ \E j \in 1 .. n + 1 : pc = 3 * j + 1
  \/ \E j \in 1 .. n : pc = 3 * j + 2
  \/ \E j \in 1 .. n : pc = 3 * j + 3

LEMMA EveryPc ==
  ASSUME NEW n \in Nat, NEW pc \in 1 .. 3 * n + 8
  PROVE  PcOf(pc, n)
<1> SUFFICES ASSUME pc \in 4 .. 3 * n + 4
             PROVE  PcOf(pc, n)
  BY DEF PcOf
<1> DEFINE j == (pc - 1) \div 3
<1>1. /\ j \in 1 .. n + 1
      /\ pc = 3 * j + 1 \/ ((pc = 3 * j + 2 \/ pc = 3 * j + 3) /\ j \in 1 .. n)
  OBVIOUS
<1> HIDE DEF j
<1> QED
  BY <1>1 DEF PcOf

LEMMA SetArgsTyped ==
  ASSUME NEW n \in 0 .. NArgs
  PROVE  Fits(<<"set_args", n>>, SetArgs(n), PSetArgs(n))
<1> DEFINE k == <<"set_args", n>>
           body == SetArgs(n)
           P == PSetArgs(n)
<1>1. n \in Nat
  BY ConstantsAssumption
<1>2. SetArgsSteps(body, n) /\ SetArgsAt(P, n)
  BY <1>1, SetArgsBody, SetArgsPoints
<1>3. /\ k[1] = "set_args" /\ k[2] = n /\ k[1] \notin Unguarded /\ k \in Keys
      /\ Rank(k[1]) = 3 /\ IsScanned(k[1]) = TRUE
  BY DEF Unguarded, Keys, Rank, IsScanned
<1>4. Discipline[k].rank = 3 /\ Discipline[k].scanned
  <2>1. Discipline[k].rank = Rank(k[1]) /\ Discipline[k].scanned = IsScanned(k[1])
    BY <1>3, OfDiscipline
  <2>2. Discipline[k].scanned = TRUE
    BY <1>3, <2>1
  <2> QED
    BY <1>3, <2>1, <2>2
<1> HIDE DEF k, body, P
<1>5. /\ Sysargs \notin ArgSet(1, n) /\ ArgSet(1, n) \intersect Locals = {}
      /\ {Local(1), Local(2), Result} \subseteq Locals /\ Local(1) # Result
      /\ Local(1) # Local(2) /\ Local(1) # Sysargs /\ Local(2) # Sysargs /\ Result # Sysargs
  BY NamesOf DEF Names, ArgSet, Arg, Locals, Local, Sysargs
<1> DEFINE args == ArgSet(1, n)
<1> HIDE DEF args
<1>6. /\ Append(<<>>, Local(1)) = <<Local(1)>> /\ Range(<<Local(1)>>) = {Local(1)}
      /\ Append(<<>>, Sysargs) = <<Sysargs>> /\ Range(<<Sysargs>>) = {Sysargs} /\ Range(<<>>) = {}
  BY ListsOf DEF Lists
<1>7. ASSUME NEW made \in {{}, {Local(2)}, {Result}}
      PROVE  PointIn(k, Looping(n, made))
  <2>1. PointGood(k, <<Local(1)>>, TRUE, args \union {Local(1)} \union made, {Local(1)})
    BY <1>3, <1>5 DEF PointGood, args
  <2>2. PointOk(k, Looping(n, made))
    BY <2>1 DEF PointOk, Looping, args
  <2> QED
    BY <2>2, PointRule
<1>8. /\ PointIn(k, Pt(<<>>, FALSE, args, {}))
      /\ PointIn(k, Pt(<<>>, TRUE, args, {}))
      /\ PointIn(k, Pt(<<>>, TRUE, args \union {Local(1)}, {Local(1)}))
      /\ PointIn(k, Pt(<<>>, TRUE, {Local(1)}, {Local(1)}))
      /\ PointIn(k, Pt(<<>>, FALSE, {Local(1)}, {Local(1)}))
  <2>1. /\ PointGood(k, <<>>, FALSE, args, {})
        /\ PointGood(k, <<>>, TRUE, args, {})
        /\ PointGood(k, <<>>, TRUE, args \union {Local(1)}, {Local(1)})
        /\ PointGood(k, <<>>, TRUE, {Local(1)}, {Local(1)})
        /\ PointGood(k, <<>>, FALSE, {Local(1)}, {Local(1)})
    BY <1>3, <1>5 DEF PointGood, args
  <2>2. /\ PointOk(k, Pt(<<>>, FALSE, args, {}))
        /\ PointOk(k, Pt(<<>>, TRUE, args, {}))
        /\ PointOk(k, Pt(<<>>, TRUE, args \union {Local(1)}, {Local(1)}))
        /\ PointOk(k, Pt(<<>>, TRUE, {Local(1)}, {Local(1)}))
        /\ PointOk(k, Pt(<<>>, FALSE, {Local(1)}, {Local(1)}))
    BY <2>1 DEF PointOk
  <2> QED
    BY <2>2, PointRule
<1>9. ASSUME NEW h \in {<<>>, <<Sysargs>>}
      PROVE  PointIn(k, Pt(h, FALSE, {Sysargs}, {Sysargs}))
  <2>1. Sysargs \in Operands(n)
    BY DEF Operands
  <2>2. h \in Seq(Operands(n)) /\ Range(h) \subseteq {Sysargs}
    <3>1. <<>> \in Seq(Operands(n)) /\ <<Sysargs>> \in Seq(Operands(n))
      BY <2>1
    <3>2. Range(<<>>) \subseteq {Sysargs} /\ Range(<<Sysargs>>) \subseteq {Sysargs}
      BY <1>6
    <3> QED
      BY <3>1, <3>2
  <2> QED
    BY <1>3, <2>1, <2>2 DEF PointIn, Points, PointFits, Pt
<1>10. \A pc \in 1 .. 3 * n + 7 + 1 : PointIn(k, P[pc])
  <2> TAKE pc \in 1 .. 3 * n + 7 + 1
  <2>1. CASE pc \in {1, 2, 3}
    BY <1>2, <1>8, <2>1 DEF SetArgsAt, args
  <2>2. CASE pc \in {3 * n + 5, 3 * n + 6, 3 * n + 7, 3 * n + 8}
    BY <1>2, <1>8, <1>9, <2>2 DEF SetArgsAt
  <2>3. CASE \E j \in 1 .. n + 1 : pc = 3 * j + 1
    BY <1>2, <1>7, <2>3 DEF SetArgsAt
  <2>4. CASE \/ \E j \in 1 .. n : pc = 3 * j + 2
             \/ \E j \in 1 .. n : pc = 3 * j + 3
    BY <1>2, <1>7, <2>4 DEF SetArgsAt
  <2>5. \/ pc \in {1, 2, 3} \/ pc \in {3 * n + 5, 3 * n + 6, 3 * n + 7, 3 * n + 8}
        \/ \E j \in 1 .. n + 1 : pc = 3 * j + 1
        \/ \E j \in 1 .. n : pc = 3 * j + 2
        \/ \E j \in 1 .. n : pc = 3 * j + 3
    <3>1. pc \in 1 .. 3 * n + 8
      BY <1>1
    <3>2. PcOf(pc, n)
      BY <1>1, <3>1, EveryPc
    <3> QED
      BY <3>2 DEF PcOf
  <2> QED
    BY <2>1, <2>2, <2>3, <2>4, <2>5
<1>11. /\ Leads(k, Pre, Pt(<<>>, FALSE, args, {}), Pt(<<>>, TRUE, args, {}))
       /\ Leads(k, Post, Pt(<<>>, TRUE, {Local(1)}, {Local(1)}), Pt(<<>>, FALSE, {Local(1)}, {Local(1)}))
  BY <1>3, <1>5 DEF Leads, StepFits, PreFits, Pre, PostFits, Post, Same, Pt, KeepsSysargs, args
<1>12. Leads(k, Call("LmakeArray", <<>>, Local(1)), Pt(<<>>, TRUE, args, {}),
             Pt(<<>>, TRUE, args \union {Local(1)}, {Local(1)}))
  <2>1. MayCall(Discipline, k, <<>>, TRUE, args, "LmakeArray", <<>>, Local(1))
    <3>1. Len(<<>>) = 0 /\ <<>> \in Seq(args \intersect (ArgSet(1, k[2]) \union Locals))
      OBVIOUS
    <3>2. /\ <<"LmakeArray", Len(<<>>)>> \in DOMAIN Discipline
          /\ Discipline[<<"LmakeArray", Len(<<>>)>>].rank < Discipline[k].rank
          /\ ~Discipline[<<"LmakeArray", Len(<<>>)>>].scanned
      BY <1>4, <3>1, InnerRules
    <3>3. Sysargs \notin args
      BY <1>5 DEF args
    <3> QED
      BY <1>5, <1>6, <3>1, <3>2, <3>3 DEF MayCall
  <2>2. args \union {Local(1)} \subseteq Lasting(Discipline, k, <<>>, args) \union {Local(1)}
    BY <1>3, <1>4 DEF Lasting, args
  <2>3. {Local(1)} \subseteq ({} \intersect Range(<<>>)) \union {Local(1)}
    OBVIOUS
  <2>4. StepFits(Discipline, k, Call("LmakeArray", <<>>, Local(1)), Pt(<<>>, TRUE, args, {}),
                 Pt(<<>>, TRUE, args \union {Local(1)}, {Local(1)}))
    BY <2>1, <2>2, <2>3, CallRule
  <2> QED
    BY <2>4 DEF Leads
<1>13. Leads(k, Push(Local(1)), Pt(<<>>, TRUE, args \union {Local(1)}, {Local(1)}), Looping(n, {}))
  BY <1>3, <1>5, <1>6 DEF Leads, StepFits, PushFits, Push, Pt, KeepsSysargs, Looping, args
<1>14. ASSUME NEW j \in 1 .. n
       PROVE  Leads(k, Copy(Arg(j), Local(2)), Looping(n, {}), Looping(n, {Local(2)}))
  <2>1. Arg(j) \in args
    BY DEF ArgSet, args
  <2>2. Arg(j) # Local(2)
    BY DEF Arg, Local
  <2> QED
    BY <1>3, <1>5, <2>1, <2>2 DEF Leads, StepFits, CopyFits, Copy, Pt, KeepsSysargs, Looping, args
<1>15. Leads(k, Call("Bstring", <<Local(2)>>, Result), Looping(n, {Local(2)}), Looping(n, {Result}))
  <2> DEFINE l == args \union {Local(1)} \union {Local(2)}
             h == <<Local(1)>>
  <2>1. MayCall(Discipline, k, h, TRUE, l, "Bstring", <<Local(2)>>, Result)
    <3>1. Len(<<Local(2)>>) = 1
      OBVIOUS
    <3>2. <<Local(2)>> \in Seq(l \intersect (ArgSet(1, k[2]) \union Locals))
      BY <1>5
    <3>3. /\ <<"Bstring", Len(<<Local(2)>>)>> \in DOMAIN Discipline
          /\ Discipline[<<"Bstring", Len(<<Local(2)>>)>>].rank < Discipline[k].rank
          /\ ~Discipline[<<"Bstring", Len(<<Local(2)>>)>>].scanned
      BY <1>4, <3>1, InnerRules
    <3>4. Sysargs \notin l /\ Result \in Locals \ Range(h)
      BY <1>5, <1>6 DEF args
    <3> HIDE DEF l, h
    <3> QED
      BY <3>2, <3>3, <3>4 DEF MayCall
  <2>2. /\ args \union {Local(1)} \union {Result} \subseteq Lasting(Discipline, k, h, l) \union {Result}
        /\ {Local(1)} \subseteq ({Local(1)} \intersect Range(h)) \union {Result}
    BY <1>3, <1>4, <1>6 DEF Lasting, args
  <2> HIDE DEF l, h
  <2>3. StepFits(Discipline, k, Call("Bstring", <<Local(2)>>, Result), Pt(h, TRUE, l, {Local(1)}),
                 Pt(h, TRUE, args \union {Local(1)} \union {Result}, {Local(1)}))
    BY <2>1, <2>2, CallRule
  <2> QED
    BY <2>3 DEF Leads, Looping, l, h, args
<1>16. Leads(k, Use({Local(1), Result}), Looping(n, {Result}), Looping(n, {}))
  BY <1>3, <1>5 DEF Leads, StepFits, UseFits, Use, Same, Pt, KeepsSysargs, Looping
<1>17. Leads(k, Pop(Local(1)), Looping(n, {}), Pt(<<>>, TRUE, {Local(1)}, {Local(1)}))
  BY <1>3, <1>5, <1>6 DEF Leads, StepFits, PopFits, Pop, Pt, KeepsSysargs, Looping
<1>18. Leads(k, Copy(Local(1), Sysargs), Pt(<<>>, FALSE, {Local(1)}, {Local(1)}),
             Pt(<<>>, FALSE, {Sysargs}, {Sysargs}))
  BY <1>3, <1>5 DEF Leads, StepFits, CopyFits, Copy, Pt, KeepsSysargs
<1>19. Leads(k, Push(Sysargs), Pt(<<>>, FALSE, {Sysargs}, {Sysargs}),
             Pt(<<Sysargs>>, FALSE, {Sysargs}, {Sysargs}))
  BY <1>3, <1>6 DEF Leads, StepFits, PushFits, Push, Pt, KeepsSysargs
<1>20. \A pc \in 1 .. 3 * n + 7 : Leads(k, body[pc], P[pc], P[pc + 1])
  <2> TAKE pc \in 1 .. 3 * n + 7
  <2>1. CASE pc \in {1, 2}
    <3>1. (pc = 1 /\ pc + 1 = 2) \/ (pc = 2 /\ pc + 1 = 3)
      BY <2>1
    <3> QED
      BY <1>2, <1>11, <1>12, <3>1 DEF SetArgsAt, SetArgsSteps, args
  <2>2. CASE pc = 3
    <3>1. pc + 1 = 3 * 1 + 1 /\ 1 \in 1 .. n + 1
      BY <1>1, <2>2
    <3>2. P[pc + 1] = Looping(n, {})
      BY <1>2, <3>1 DEF SetArgsAt
    <3> QED
      BY <1>2, <1>13, <2>2, <3>2 DEF SetArgsAt, SetArgsSteps, args
  <2>3. CASE \E j \in 1 .. n : pc = 3 * j + 1
    <3>1. PICK j \in 1 .. n : pc = 3 * j + 1
      BY <2>3
    <3>2. j \in 1 .. n + 1 /\ pc + 1 = 3 * j + 2
      BY <3>1
    <3>3. P[pc] = Looping(n, {}) /\ P[pc + 1] = Looping(n, {Local(2)})
      BY <1>2, <3>1, <3>2 DEF SetArgsAt
    <3>4. body[pc] = Copy(Arg(j), Local(2))
      BY <1>2, <3>1 DEF SetArgsSteps
    <3> QED
      BY <1>14, <3>3, <3>4
  <2>4. CASE \E j \in 1 .. n : pc = 3 * j + 2
    <3>1. PICK j \in 1 .. n : pc = 3 * j + 2
      BY <2>4
    <3>2. pc + 1 = 3 * j + 3
      BY <3>1
    <3>3. P[pc] = Looping(n, {Local(2)}) /\ P[pc + 1] = Looping(n, {Result})
      BY <1>2, <3>1, <3>2 DEF SetArgsAt
    <3>4. body[pc] = Call("Bstring", <<Local(2)>>, Result)
      BY <1>2, <3>1 DEF SetArgsSteps
    <3> QED
      BY <1>15, <3>3, <3>4
  <2>5. CASE \E j \in 1 .. n : pc = 3 * j + 3
    <3>1. PICK j \in 1 .. n : pc = 3 * j + 3
      BY <2>5
    <3>2. j + 1 \in 1 .. n + 1 /\ pc + 1 = 3 * (j + 1) + 1
      BY <3>1
    <3>3. P[pc] = Looping(n, {Result}) /\ P[pc + 1] = Looping(n, {})
      BY <1>2, <3>1, <3>2 DEF SetArgsAt
    <3>4. body[pc] = Use({Local(1), Result})
      BY <1>2, <3>1 DEF SetArgsSteps
    <3> QED
      BY <1>16, <3>3, <3>4
  <2>6. CASE pc = 3 * n + 4
    <3>1. n + 1 \in 1 .. n + 1 /\ 3 * (n + 1) + 1 = pc /\ pc + 1 = 3 * n + 5
      BY <1>1, <2>6
    <3>2. P[pc] = Looping(n, {})
      BY <1>2, <3>1 DEF SetArgsAt
    <3>3. P[pc + 1] = Pt(<<>>, TRUE, {Local(1)}, {Local(1)}) /\ body[pc] = Pop(Local(1))
      BY <1>2, <2>6, <3>1 DEF SetArgsAt, SetArgsSteps
    <3> QED
      BY <1>17, <3>2, <3>3
  <2>7. CASE pc \in {3 * n + 5, 3 * n + 6, 3 * n + 7}
    <3>1. \/ pc = 3 * n + 5 /\ pc + 1 = 3 * n + 6
          \/ pc = 3 * n + 6 /\ pc + 1 = 3 * n + 7
          \/ pc = 3 * n + 7 /\ pc + 1 = 3 * n + 8
      BY <2>7
    <3> QED
      BY <1>2, <1>11, <1>18, <1>19, <3>1 DEF SetArgsAt, SetArgsSteps
  <2>8. \/ pc \in {1, 2, 3} \/ pc \in {3 * n + 5, 3 * n + 6, 3 * n + 7, 3 * n + 8}
        \/ \E j \in 1 .. n + 1 : pc = 3 * j + 1
        \/ \E j \in 1 .. n : pc = 3 * j + 2
        \/ \E j \in 1 .. n : pc = 3 * j + 3
    <3>1. pc \in 1 .. 3 * n + 8
      BY <1>1
    <3>2. PcOf(pc, n)
      BY <1>1, <3>1, EveryPc
    <3> QED
      BY <3>2 DEF PcOf
  <2>9. ASSUME NEW j \in 1 .. n + 1, pc = 3 * j + 1
        PROVE  pc = 3 * n + 4 \/ \E i \in 1 .. n : pc = 3 * i + 1
    <3>1. j = n + 1 \/ j \in 1 .. n
      OBVIOUS
    <3> QED
      BY <2>9, <3>1
  <2>10. pc # 3 * n + 8
    OBVIOUS
  <2> QED
    BY <2>1, <2>2, <2>3, <2>4, <2>5, <2>6, <2>7, <2>8, <2>9, <2>10
<1>21. Sized(body, P, 3 * n + 7)
  <2>1. 3 * n + 7 \in Nat /\ 3 * n + 7 + 1 = 3 * n + 8
    BY <1>1
  <2> QED
    BY <1>2, <2>1 DEF Sized, SetArgsAt, SetArgsSteps
<1>22. EntryFits(P[1], k[2]) /\ ExitFits(k, P[3 * n + 7 + 1])
  <2>1. 3 * n + 7 + 1 = 3 * n + 8
    BY <1>1
  <2>2. P[1] = Pt(<<>>, FALSE, ArgSet(1, n), {}) /\ P[3 * n + 7 + 1] = Pt(<<Sysargs>>, FALSE, {Sysargs}, {Sysargs})
    BY <1>2, <2>1 DEF SetArgsAt
  <2> QED
    BY <1>3, <2>2 DEF EntryFits, ExitFits, Pt
<1>23. 3 * n + 7 \in Nat
  BY <1>1
<1>24. Fits(k, body, P)
  BY <1>10, <1>20, <1>21, <1>22, <1>23, FitsRule
<1> QED
  BY <1>24 DEF k, body, P

LEMMA KeyParts ==
  ASSUME NEW k \in Keys
  PROVE  /\ k = <<k[1], k[2]>> /\ k[1] \in Called \union {"set_args"} /\ k[2] \in 0 .. NArgs
         /\ k[1] # "set_args" => k[2] \in Lengths32(k[1])
BY DEF Keys

LEMMA KeyFits ==
  ASSUME NEW k \in Keys
  PROVE  Fits(k, Steps(k), PointsOf(k[1], k[2]))
<1> DEFINE f == k[1]
           n == k[2]
<1>1. /\ k = <<f, n>> /\ f \in Called \union {"set_args"} /\ n \in 0 .. NArgs
      /\ f # "set_args" => n \in Lengths32(f)
  BY KeyParts
<1>2. Steps(k) = Body32(f, n)
  BY <1>1, FunctionsAssumption DEF Steps
<1> HIDE DEF f, n
<1> SUFFICES Fits(<<f, n>>, Body32(f, n), PointsOf(f, n))
  BY <1>1, <1>2 DEF f, n
<1>3. CASE f = "LmakeString"
  <2>1. n = 0
    BY <1>1, <1>3 DEF Lengths32, Literals
  <2>2. Body32(f, n) = LmakeString /\ PointsOf(f, n) = PLmakeString
    BY <1>3 DEF Body32, PointsOf
  <2> QED
    BY <1>3, <2>1, <2>2, LmakeStringTyped
<1>4. CASE f = "LmakeArray"
  <2>1. n = 0
    BY <1>1, <1>4 DEF Lengths32, Literals
  <2>2. Body32(f, n) = LmakeArray /\ PointsOf(f, n) = PLmakeArray
    BY <1>4 DEF Body32, PointsOf
  <2> QED
    BY <1>4, <2>1, <2>2, LmakeArrayTyped
<1>5. CASE f = "Bstring"
  <2>1. n = 1
    BY <1>1, <1>5 DEF Lengths32, Literals
  <2>2. Body32(f, n) = Bstring /\ PointsOf(f, n) = PBstring
    BY <1>5 DEF Body32, PointsOf
  <2> QED
    BY <1>5, <2>1, <2>2, BstringTyped
<1>6. CASE f = "Lstringcat"
  <2>1. n = 1
    BY <1>1, <1>6 DEF Lengths32, Literals
  <2>2. Body32(f, n) = Lstringcat /\ PointsOf(f, n) = PLstringcat
    BY <1>6 DEF Body32, PointsOf
  <2> QED
    BY <1>6, <2>1, <2>2, LstringcatTyped
<1>7. CASE f = "Lstring"
  <2>1. n = 1
    BY <1>1, <1>7 DEF Lengths32, Literals
  <2>2. Body32(f, n) = Lstring /\ PointsOf(f, n) = PLstring
    BY <1>7 DEF Body32, PointsOf
  <2> QED
    BY <1>7, <2>1, <2>2, LstringTyped
<1>8. CASE f = "Lsubstring"
  <2>1. n = 1
    BY <1>1, <1>8 DEF Lengths32, Literals
  <2>2. Body32(f, n) = Lsubstring /\ PointsOf(f, n) = PLsubstring
    BY <1>8 DEF Body32, PointsOf
  <2> QED
    BY <1>8, <2>1, <2>2, LsubstringTyped
<1>9. CASE f = "LcloneString"
  <2>1. n = 1
    BY <1>1, <1>9 DEF Lengths32, Literals
  <2>2. Body32(f, n) = LcloneString /\ PointsOf(f, n) = PLcloneString
    BY <1>9 DEF Body32, PointsOf
  <2> QED
    BY <1>9, <2>1, <2>2, LcloneStringTyped
<1>10. CASE f = "LcloneBlock"
  <2>1. n = 1
    BY <1>1, <1>10 DEF Lengths32, Literals
  <2>2. Body32(f, n) = LcloneBlock /\ PointsOf(f, n) = PLcloneBlock
    BY <1>10 DEF Body32, PointsOf
  <2> QED
    BY <1>10, <2>1, <2>2, LcloneBlockTyped
<1>11. CASE f = "Ls__Infix_58"
  <2>1. n = 2
    BY <1>1, <1>11 DEF Lengths32, Literals
  <2>2. Body32(f, n) = Ls__Infix_58 /\ PointsOf(f, n) = PLs__Infix_58
    BY <1>11 DEF Body32, PointsOf
  <2> QED
    BY <1>11, <2>1, <2>2, Ls__Infix_58Typed
<1>12. CASE f = "Li__Infix_4343"
  <2>1. n = 2
    BY <1>1, <1>12 DEF Lengths32, Literals
  <2>2. Body32(f, n) = Li__Infix_4343 /\ PointsOf(f, n) = PLi__Infix_4343
    BY <1>12 DEF Body32, PointsOf
  <2> QED
    BY <1>12, <2>1, <2>2, Li__Infix_4343Typed
<1>13. CASE f = "Lsprintf"
  <2>1. n = 1
    BY <1>1, <1>13 DEF Lengths32, Literals
  <2>2. Body32(f, n) = Lsprintf /\ PointsOf(f, n) = PLsprintf
    BY <1>13 DEF Body32, PointsOf
  <2> QED
    BY <1>13, <2>1, <2>2, LsprintfTyped
<1>14. CASE f = "LgetEnv"
  <2>1. n = 1
    BY <1>1, <1>14 DEF Lengths32, Literals
  <2>2. Body32(f, n) = LgetEnv /\ PointsOf(f, n) = PLgetEnv
    BY <1>14 DEF Body32, PointsOf
  <2> QED
    BY <1>14, <2>1, <2>2, LgetEnvTyped
<1>15. CASE f = "LreadLine"
  <2>1. n = 0
    BY <1>1, <1>15 DEF Lengths32, Literals
  <2>2. Body32(f, n) = LreadLine /\ PointsOf(f, n) = PLreadLine
    BY <1>15 DEF Body32, PointsOf
  <2> QED
    BY <1>15, <2>1, <2>2, LreadLineTyped
<1>16. CASE f = "Lfread"
  <2>1. n = 1
    BY <1>1, <1>16 DEF Lengths32, Literals
  <2>2. Body32(f, n) = Lfread /\ PointsOf(f, n) = PLfread
    BY <1>16 DEF Body32, PointsOf
  <2> QED
    BY <1>16, <2>1, <2>2, LfreadTyped
<1>17. CASE f = "Bclosure"
  <2>1. n \in 1 .. NArgs
    BY <1>1, <1>17 DEF Lengths32, Literals
  <2>2. Body32(f, n) = Bclosure(n) /\ PointsOf(f, n) = ClosurePoints(n, n - 1)
    BY <1>17 DEF Body32, PointsOf
  <2> QED
    BY <1>17, <2>1, <2>2, ClosureTyped
<1>18. CASE f = "Barray"
  <2>1. n \in Nat /\ <<f, n>> \in Keys
    BY <1>1, ConstantsAssumption DEF f, n
  <2>2. Body32(f, n) = LiteralBody(n) /\ PointsOf(f, n) = PLiteral(n)
    BY <1>18 DEF Body32, PointsOf, Barray, LiteralBody
  <2>3. <<f, n>>[1] = f /\ <<f, n>>[2] = n
    OBVIOUS
  <2> QED
    BY <1>18, <2>1, <2>2, <2>3, LiteralTyped
<1>19. CASE f = "Bsexp"
  <2>1. n \in Nat /\ <<f, n>> \in Keys
    BY <1>1, ConstantsAssumption DEF f, n
  <2>2. Body32(f, n) = LiteralBody(n) /\ PointsOf(f, n) = PLiteral(n)
    BY <1>19 DEF Body32, PointsOf, Bsexp, LiteralBody
  <2>3. <<f, n>>[1] = f /\ <<f, n>>[2] = n
    OBVIOUS
  <2> QED
    BY <1>19, <2>1, <2>2, <2>3, LiteralTyped
<1>20. CASE f = "set_args"
  <2>1. Body32(f, n) = SetArgs(n) /\ PointsOf(f, n) = PSetArgs(n)
    BY <1>20 DEF Body32, PointsOf
  <2> QED
    BY <1>1, <1>20, <2>1, SetArgsTyped
<1> QED
  BY <1>1, <1>3, <1>4, <1>5, <1>6, <1>7, <1>8, <1>9, <1>10, <1>11, <1>12, <1>13, <1>14, <1>15, <1>16, <1>17, <1>18, <1>19, <1>20 DEF Called

LEMMA RankIs ==
  ASSUME NEW f
  PROVE  /\ Rank(f) \in 1 .. MaxDepth
         /\ f \in Unguarded \union {"set_args"} => Rank(f) = MaxDepth
BY DEF Rank, MaxDepth, Unguarded

LEMMA KeyShaped ==
  ASSUME NEW k \in Keys
  PROVE  Shaped(Discipline, k) /\ BodyFits(Discipline, k)
<1>1. Typed(Discipline, k, Steps(k), Discipline[k].points)
  BY KeyFits, OfDiscipline DEF Fits
<1>2. k = <<k[1], k[2]>> /\ k[1] \in Named /\ k[2] \in 0 .. NArgs
  BY KeyParts DEF Called, Named
<1>3. Discipline[k] \in Rules(k[2])
  <2>1. Discipline[k].points \in Seq(Points(k[2]))
    BY <1>1 DEF Typed
  <2>2. Discipline[k].points = PointsOf(k[1], k[2])
    BY OfDiscipline
  <2>3. Rank(k[1]) \in 1 .. MaxDepth
    BY RankIs
  <2>4. Discipline[k] = [points |-> PointsOf(k[1], k[2]), rank |-> Rank(k[1]),
                         scanned |-> IsScanned(k[1]), lax |-> IsLax(k[1])]
    BY DEF Discipline
  <2>5. IsScanned(k[1]) \in BOOLEAN /\ IsLax(k[1]) \in BOOLEAN
    BY DEF IsScanned, IsLax
  <2>6. PointsOf(k[1], k[2]) \in Seq(Points(k[2]))
    BY <2>1, <2>2
  <2> QED
    BY <2>3, <2>4, <2>5, <2>6 DEF Rules
<1>4. k[1] \in Unguarded \union {"set_args"} => Discipline[k].rank = MaxDepth
  BY RankIs, OfDiscipline
<1>5. Shaped(Discipline, k)
  BY <1>1, <1>2, <1>3, <1>4 DEF Shaped, Typed, Unguarded
<1>6. BodyFits(Discipline, k)
  BY <1>1 DEF BodyFits, Typed
<1> QED
  BY <1>5, <1>6

\* Every function keeps the discipline, which has every function called.
LEMMA DisciplineIsKept == WellTyped(Discipline)
<1>1. DOMAIN Discipline = Keys
  BY DEF Discipline
<1> QED
  BY <1>1, KeyShaped DEF WellTyped

LEMMA DisciplineCovers == Covers(Discipline)
<1>1. DOMAIN Discipline = Keys
  BY DEF Discipline
<1>2. ASSUME NEW n \in 0 .. NArgs
      PROVE  <<"set_args", n>> \in DOMAIN Discipline
  BY <1>1 DEF Keys
<1>3. ASSUME NEW f \in Functions, NEW n \in Lengths(f)
      PROVE  /\ <<f, n>> \in DOMAIN Discipline /\ f # "set_args"
             /\ \A i \in 1 .. n : Passed(f, n, i) \subseteq LamaValues
  <2>1. f \in Called /\ f # "set_args" /\ n \in Lengths32(f)
    BY <1>3, FunctionsAssumption DEF Called
  <2>2. n \in 0 .. NArgs
    BY <2>1, ConstantsAssumption DEF Lengths32
  <2>3. <<f, n>> \in DOMAIN Discipline
    BY <1>1, <2>1, <2>2 DEF Keys
  <2>4. ASSUME NEW i \in 1 .. n
        PROVE  Passed(f, n, i) \subseteq LamaValues
    <3>1. Passed(f, n, i) = Passed32(f, n, i)
      BY <1>3, <2>1, FunctionsAssumption
    <3>2. Passed32(f, n, i) \in {{"c_pointer"}, {"unboxed"}, LamaValues, {"current"}}
      BY DEF Passed32
    <3> QED
      BY <3>1, <3>2 DEF LamaValues
  <2> QED
    BY <2>1, <2>3, <2>4
<1> QED
  BY <1>2, <1>3 DEF Covers

-----------------------------------------------------------------------------
(* The steps of this runtime. *)

LEMMA PreIsKept ==
  ASSUME IInv, __pre_gc
  PROVE  IInv'
<1>1. Here("pre")
  BY StepIsHere DEF IInv, __pre_gc
<1>2. /\ Stepped(frames, frames') /\ UNCHANGED <<mem, pool, exited>>
      /\ top' = IF top = 0 THEN Len(frames) ELSE top
  BY <1>1, AdvanceSteps DEF __pre_gc, depth
<1>3. PICK b \in 0 .. 1 : \E p, q : /\ Sound(Discipline, mem, frames, top, pool, b)
                                    /\ Takes(Discipline, frames, frames', Step, p, q)
  BY <1>1, <1>2, DisciplineIsKept, StepIsTaken DEF IInv
<1>4. Sound(Discipline, mem, frames', IF top = 0 THEN Len(frames) ELSE top, pool, b)
  BY <1>1, <1>3, DisciplineIsKept, SoundPre DEF Here
<1>5. Sound(Discipline, mem, frames', top', pool, b)
  BY <1>2, <1>4
<1> QED
  BY <1>2, <1>5 DEF IInv, ProtocolInv

\* The frame that set __gc_stack_top is found by its address.
LEMMA PostIsKept ==
  ASSUME IInv, __post_gc
  PROVE  IInv'
<1>1. Here("post")
  BY StepIsHere DEF IInv, __post_gc
<1>2. /\ Stepped(frames, frames') /\ UNCHANGED <<mem, pool, exited>>
      /\ top' = IF top = Len(frames) THEN 0 ELSE top
  BY <1>1, AdvanceSteps DEF __post_gc, depth
<1>3. PICK b \in 0 .. 1 : \E p, q : /\ Sound(Discipline, mem, frames, top, pool, b)
                                    /\ Takes(Discipline, frames, frames', Step, p, q)
  BY <1>1, <1>2, DisciplineIsKept, StepIsTaken DEF IInv
<1>4. Sound(Discipline, mem, frames', IF top = Len(frames) THEN 0 ELSE top, pool, b)
  BY <1>1, <1>3, DisciplineIsKept, SoundPost DEF Here
<1>5. Sound(Discipline, mem, frames', top', pool, b)
  BY <1>2, <1>4
<1> QED
  BY <1>2, <1>5 DEF IInv, ProtocolInv

\* push_extra_root, with room in the pool or without.
LEMMA PushIsKept ==
  ASSUME IInv, push_extra_root
  PROVE  IInv'
<1>1. Here("push")
  BY StepIsHere DEF IInv, push_extra_root
<1>2. CASE Len(pool) >= MaxRoots
  <2>1. exited' = TRUE /\ UNCHANGED <<mem, frames, top, pool>>
    BY <1>2 DEF push_extra_root
  <2> QED
    BY <2>1 DEF IInv, ProtocolInv
<1>3. CASE ~(Len(pool) >= MaxRoots)
  <2>1. pool' = Append(pool, The(Step.cell)) /\ Advance /\ UNCHANGED <<mem, top, exited>>
    BY <1>3 DEF push_extra_root
  <2>2. Stepped(frames, frames')
    BY <1>1, <2>1, AdvanceSteps
  <2>3. PICK b \in 0 .. 1 : \E p, q : /\ Sound(Discipline, mem, frames, top, pool, b)
                                      /\ Takes(Discipline, frames, frames', Step, p, q)
    BY <1>1, <2>2, DisciplineIsKept, StepIsTaken DEF IInv
  <2>4. pool' = Append(pool, Place(frames, Len(frames), Step.cell))
    BY <1>1, <2>1 DEF Here
  <2>5. Sound(Discipline, mem, frames', top, pool', b)
    BY <1>1, <2>3, <2>4, DisciplineIsKept, SoundPush DEF Here
  <2>6. Len(pool') <= MaxRoots
    <3>1. pool \in Seq(Cells)
      BY <2>3 DEF Sound, PoolFits
    <3>2. PICK n \in Nat : n = Len(pool)
      BY <3>1
    <3>3. Len(pool') = n + 1
      BY <2>1, <3>1, <3>2
    <3> QED
      BY <1>3, <3>2, <3>3, ConstantsAssumption
  <2> QED
    BY <2>1, <2>5, <2>6 DEF IInv, ProtocolInv
<1> QED
  BY <1>2, <1>3

LEMMA PopIsKept ==
  ASSUME IInv, pop_extra_root
  PROVE  IInv'
<1>1. Here("pop")
  BY StepIsHere DEF IInv, pop_extra_root
<1>2. Advance /\ pool' = Front(pool) /\ UNCHANGED <<mem, top, exited>>
  BY DEF pop_extra_root
<1>3. Stepped(frames, frames')
  BY <1>1, <1>2, AdvanceSteps
<1>4. PICK b \in 0 .. 1 : \E p, q : /\ Sound(Discipline, mem, frames, top, pool, b)
                                    /\ Takes(Discipline, frames, frames', Step, p, q)
  BY <1>1, <1>3, DisciplineIsKept, StepIsTaken DEF IInv
<1>5. Sound(Discipline, mem, frames', top, pool', b) /\ pool # <<>>
  BY <1>1, <1>2, <1>4, DisciplineIsKept, SoundPop DEF Here
<1>6. Len(pool') <= MaxRoots
  <2>1. pool \in Seq(Cells)
    BY <1>4 DEF Sound, PoolFits
  <2>2. PICK n \in Nat : n = Len(pool) /\ n > 0
    BY <1>5, <2>1
  <2>3. Front(pool) = [i \in 1 .. n - 1 |-> pool[i]]
    <3>1. Front(pool) = SubSeq(pool, 1, n - 1)
      BY <2>2 DEF Front
    <3> QED
      BY <2>1, <2>2, <3>1
  <2>4. Len(pool') = n - 1
    <3>1. n - 1 \in Nat
      BY <2>2
    <3> QED
      BY <1>2, <2>3, <3>1
  <2>5. n <= MaxRoots
    BY <2>2 DEF IInv, ProtocolInv
  <2> QED
    BY <2>2, <2>4, <2>5, ConstantsAssumption
<1> QED
  BY <1>2, <1>5, <1>6 DEF IInv, ProtocolInv

\* Every step keeps the invariant.
LEMMA StepKeeps ==
  ASSUME IInv, [Next]_vars
  PROVE  IInv'
<1>1. CASE UNCHANGED vars
  BY <1>1 DEF IInv, ProtocolInv, vars
<1>2. CASE Start \/ CallRuntime
  BY <1>2, StartKeeps, CallRuntimeKeeps, DisciplineIsKept, DisciplineCovers DEF IInv
<1>3. CASE __pre_gc \/ __post_gc
  BY <1>3, PreIsKept, PostIsKept
<1>4. CASE push_extra_root \/ pop_extra_root
  BY <1>4, PushIsKept, PopIsKept
<1>5. CASE AllocFits \/ AllocCollects
  BY <1>5, AllocKeeps, DisciplineIsKept DEF IInv
<1>6. CASE UseWords \/ CopyWord \/ SetWord
  BY <1>6, UseWordsKeeps, CopyWordKeeps, SetWordKeeps, DisciplineIsKept DEF IInv
<1>7. CASE CallInner \/ Return
  BY <1>7, CallInnerKeeps, ReturnKeeps, DisciplineIsKept DEF IInv
<1> QED
  BY <1>1, <1>2, <1>3, <1>4, <1>5, <1>6, <1>7 DEF Next

LEMMA SpecKeeps == Spec => []IInv
<1>1. Init => IInv
  BY InitIsSound DEF IInv
<1>2. IInv /\ [Next]_vars => IInv'
  BY StepKeeps
<1> QED
  BY <1>1, <1>2, PTL DEF Spec

-----------------------------------------------------------------------------
(* What the invariant implies. *)

\* Only under the operator ":" are words not accounted for.
LEMMA OnlyConsIsLax ==
  ASSUME NEW fs, FramesFit(Discipline, fs), NEW d \in 1 .. Len(fs), fs[1].fn # "Ls__Infix_58"
  PROVE  Trusted(Discipline, fs, d)
<1>1. PICK n \in 0 .. 3 : n = Len(fs)
  BY DepthOf
<1>2. 1 \in 1 .. Len(fs)
  BY <1>1
<1>3. Key(fs[1]) \in Keys
  BY <1>2 DEF FramesFit, FrameFits, Discipline
<1>4. Key(fs[1])[1] = fs[1].fn
  BY DEF Key
<1>5. IsLax(Key(fs[1])[1]) = FALSE
  BY <1>4 DEF IsLax
<1>6. Discipline[Key(fs[1])].lax = FALSE
  BY <1>3, <1>5, OfDiscipline
<1> QED
  BY <1>6 DEF Trusted

LEMMA UsesImplied ==
  ASSUME IInv
  PROVE  OnlyConsUsesStale
<1> SUFFICES ASSUME frames[1].fn # "Ls__Infix_58"
             PROVE  UsesAreCurrent
  BY DEF OnlyConsUsesStale
<1>1. ProtocolInv(Discipline)
  BY DEF IInv
<1>2. FramesFit(Discipline, frames)
  BY <1>1 DEF ProtocolInv, Sound
<1>3. PICK n \in 0 .. 3 : n = Len(frames)
  BY <1>2, DepthOf
<1>4. CASE n = 0
  <2>1. ~AtStep("use") /\ ~AtStep("copy")
    BY <1>3, <1>4 DEF AtStep, depth
  <2> QED
    BY <2>1 DEF UsesAreCurrent
<1>5. CASE n # 0
  <2>1. Len(frames) \in 1 .. Len(frames)
    BY <1>3, <1>5
  <2>2. Trusted(Discipline, frames, Len(frames))
    BY <1>2, <2>1, OnlyConsIsLax
  <2> QED
    BY <1>1, <2>2, UsesAreKept, DisciplineIsKept
<1> QED
  BY <1>4, <1>5

\* For argument lists and pools of any size, no function uses or copies a word
\* that a collection has left stale, but what the operator ":" calls.
THEOREM OnlyConsPassesStaleWords == Spec => []OnlyConsUsesStale
<1>1. IInv => OnlyConsUsesStale
  BY UsesImplied
<1> QED
  BY <1>1, SpecKeeps, PTL

\* The checks of __pre_gc, __post_gc and pop_extra_root never fail: each word
\* removed from the pool is the last registered.
THEOREM Runtime32ChecksPass == Spec => []ChecksPass
<1>1. IInv => ChecksPass
  BY ChecksAreKept, DisciplineIsKept DEF IInv
<1> QED
  BY <1>1, SpecKeeps, PTL

\* Between two calls __gc_stack_top is zero, the pool holds global_sysargs
\* alone, and what the program can reach is current.
THEOREM Runtime32CallsAreBalanced == Spec => []CallsAreBalanced
<1>1. IInv => CallsAreBalanced
  BY CallsBalance, DisciplineIsKept DEF IInv
<1> QED
  BY <1>1, SpecKeeps, PTL
=============================================================================
