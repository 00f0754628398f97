----------------------------- MODULE MCX86Frame -----------------------------
(***************************************************************************)
(* Small programs for the model of the hardware stack: a main, a function  *)
(* without parameters, one with two of them in registers and one on the    *)
(* stack, and a closure.                                                   *)
(***************************************************************************)
EXTENDS X86Frame

MCShapes ==
  {[nargs |-> 2, nlocals |-> 1, memory |-> 1, closure |-> FALSE, main |-> TRUE],
   [nargs |-> 0, nlocals |-> 1, memory |-> 1, closure |-> FALSE, main |-> FALSE],
   [nargs |-> 3, nlocals |-> 0, memory |-> 1, closure |-> FALSE, main |-> FALSE],
   [nargs |-> 1, nlocals |-> 1, memory |-> 0, closure |-> TRUE, main |-> FALSE]}
=============================================================================
