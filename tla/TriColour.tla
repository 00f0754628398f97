------------------------------ MODULE TriColour ------------------------------
(***************************************************************************)
(* What the mark phase promises, without its queue: grey objects are known *)
(* to be live and still have to be looked at, black ones are done with.    *)
(* src/runtime/gc.c finds room for the grey set inside the heap; here it   *)
(* is just a set.                                                          *)
(***************************************************************************)
EXTENDS Integers

CONSTANTS N, FieldWords, RootWords, NotHeap

Obj   == 1..N
Field == 1..FieldWords
Root  == 1..RootWords

VARIABLES fields, roots, grey, black, done

vars == <<fields, roots, grey, black, done>>

Init ==
  /\ grey = {}
  /\ black = {}
  /\ done = (RootWords = 0)

\* a root turns grey once no other grey object is left
ShadeRoot ==
  /\ ~done /\ grey = {}
  /\ \E r \in Root : roots[r] \in Obj \ black /\ grey' = {roots[r]}
  /\ UNCHANGED <<fields, roots, black, done>>

\* a grey object turns black
Blacken ==
  /\ ~done
  /\ \E o \in grey : grey' = grey \ {o} /\ black' = black \union {o}
  /\ UNCHANGED <<fields, roots, done>>

\* a child of a black object turns grey
ShadeChild ==
  /\ ~done
  /\ \E o \in black : \E f \in Field :
       /\ fields[o][f] \in Obj \ (black \union grey)
       /\ grey' = grey \union {fields[o][f]}
  /\ UNCHANGED <<fields, roots, black, done>>

\* the phase ends only when every root, and every child of a black object, is
\* black
Finish ==
  /\ ~done /\ grey = {}
  /\ \A r \in Root : roots[r] \in Obj => roots[r] \in black
  /\ \A o \in black : \A f \in Field : fields[o][f] \in Obj => fields[o][f] \in black
  /\ done' = TRUE
  /\ UNCHANGED <<fields, roots, grey, black>>

Next == ShadeRoot \/ Blacken \/ ShadeChild \/ Finish

Spec == Init /\ [][Next]_vars
=============================================================================
