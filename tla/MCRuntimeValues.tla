--------------------------- MODULE MCRuntimeValues ---------------------------
(* RuntimeValues with words of ten bits and small heaps, whose objects         *)
(* assignment makes equal and different; addresses that are no object's lie    *)
(* outside the heap, 4 is an address of code.                                  *)
EXTENDS RuntimeValues, TLC

String(s)     == [tag |-> STRING_TAG, sexp |-> 0, contents |-> s]
Array(s)      == [tag |-> ARRAY_TAG, sexp |-> 0, contents |-> s]
SExp(t, s)    == [tag |-> SEXP_TAG, sexp |-> t, contents |-> s]
Closure(c, s) == [tag |-> CLOSURE_TAG, sexp |-> 0, contents |-> <<c>> \o s]

One == BOX(1)

\* The tag the runtime gives a constructor with a long name.
MCTag == LtagHash(<<1, 2, 1, 3>>)

MCHeaps == {16 :> String(<<1>>) @@ 18 :> String(<<1, -3>>)
              @@ 20 :> Array(<<One>>) @@ 22 :> Array(<<One, One>>) @@ 24 :> Array(<<>>),
            20 :> Array(<<One>>) @@ 22 :> SExp(MCTag, <<One>>) @@ 24 :> SExp(MCTag, <<One>>)
              @@ 26 :> Closure(4, <<One>>) @@ 28 :> Closure(4, <<>>)}

MCWords == {BOX(-1), One, 2, 16, 18, 20, 22, 24, 26, 28}

MCStored == {BOX(32), One, 16, 20, 22, 24}

MCNames == UNION {{s \in [1 .. n -> 0 .. 3] : s[1] # 0} : n \in 1 .. 4}
===============================================================================
