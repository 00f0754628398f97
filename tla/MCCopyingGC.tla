---------------------------- MODULE MCCopyingGC ----------------------------
(* CopyingGC with one word of data, and one of the stack that is also an   *)
(* extra root.                                                             *)
EXTENDS CopyingGC

MCScan == <<"g1", "s1", "s1">>

\* The string's terminating zero needs a word of its own.
MCRequests == {[tag |-> "array", args |-> <<>>],
               [tag |-> "sexp", args |-> <<"g1", "s1">>],
               [tag |-> "closure", args |-> <<"s1">>],
               [tag |-> "string", args |-> <<1, 1, 1, 1>>]}
=============================================================================
