CONSTANTS
  Half = 32
  InitialHeaps <- MCHeaps
  Words <- MCWords
  Stored <- MCStored
  Chars = 4
  MAX_SEXP_TAGLEN = 3
  Names <- MCNames
SPECIFICATION Spec
INVARIANTS
  CompareIsLinear
  HashFollowsCompare
  PatternsFollowCompare
  TagsAreFaithful
CHECK_DEADLOCK FALSE
