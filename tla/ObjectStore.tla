----------------------------- MODULE ObjectStore -----------------------------
(***************************************************************************)
(* What a collected heap promises to the program: objects have an identity *)
(* and keep their contents, whoever moves them, and a fresh object is none *)
(* of those the program can still reach.  Only what is reachable is kept,  *)
(* so that a collection is no step of this specification at all.           *)
(***************************************************************************)
EXTENDS Integers, Sequences

CONSTANTS
  Cells,      \* words of the program that may hold a value
  Ids,        \* identities
  Requests    \* the objects a program may ask for: a tag, and where each
              \* field comes from (a cell), or the text of a string

VARIABLES
  cells,      \* the value in each word
  store       \* the reachable objects, by identity

Ref(id)  == <<"ref", id>>
Other(n) == <<"other", n>>     \* an integer, or an address outside the heap

Zero == Other(1)               \* BOX (0)

Pointees(o) ==
  IF o.tag = "string" THEN {}
  ELSE {o.fields[i][2] : i \in {j \in DOMAIN o.fields : o.fields[j][1] = "ref"}}

Roots(c) == {c[x][2] : x \in {y \in Cells : c[y][1] = "ref"}}

Closed(S, c, s) == Roots(c) \subseteq S /\ \A id \in S : Pointees(s[id]) \subseteq S

\* The objects reached from the words of c: the smallest closed set.
Reach(c, s) == {id \in DOMAIN s : \A S \in SUBSET DOMAIN s : Closed(S, c, s) => id \in S}

Live(c, s) == [id \in Reach(c, s) |-> s[id]]

Contents(req) ==
  IF req.tag = "string" THEN req.args ELSE [i \in DOMAIN req.args |-> cells[req.args[i]]]

Init == /\ cells = [c \in Cells |-> Zero]
        /\ store = << >>

New(c, req) ==
  \E id \in Ids \ DOMAIN store :
    /\ cells' = [cells EXCEPT ![c] = Ref(id)]
    /\ store' = Live(cells', [x \in DOMAIN store \union {id} |->
                                IF x = id THEN [tag |-> req.tag, fields |-> Contents(req)]
                                ELSE store[x]])

Move(c, d) == /\ cells' = [cells EXCEPT ![c] = cells[d]]
              /\ store' = Live(cells', store)

Drop(c) == /\ cells' = [cells EXCEPT ![c] = Zero]
           /\ store' = Live(cells', store)

SetField(c, i, d) ==
  /\ cells[c][1] = "ref"
  /\ store[cells[c][2]].tag # "string"
  /\ i \in DOMAIN store[cells[c][2]].fields
  /\ store' = Live(cells, [store EXCEPT ![cells[c][2]].fields[i] = cells[d]])
  /\ UNCHANGED cells

Operation == \E c \in Cells : \/ Drop(c)
                              \/ \E req \in Requests : New(c, req)
                              \/ \E d \in Cells : Move(c, d)
                              \/ \E d \in Cells, i \in 1 .. 3 : SetField(c, i, d)

vars == <<cells, store>>

Next == vars' # vars /\ Operation

Spec == Init /\ [][Next]_vars
=============================================================================
