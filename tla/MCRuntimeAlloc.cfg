CONSTANTS
  Body <- Body64
  Lengths <- Lengths64
  Passed <- Passed64
  NArgs = 4
  MaxRoots = 3
  Functions = {"LmakeString", "LmakeArray", "Bstring", "Lsubstring", "LcloneString", "LcloneBlock", "Lstring", "Bclosure", "Barray", "Bsexp", "Ls__Infix_58", "Li__Infix_4343", "LgetEnv", "Bsprintf", "LreadLine", "Lfread"}
SPECIFICATION Spec
INVARIANTS
  UsesAreCurrent
  RootsAreCurrent
  ChecksPass
  CallsAreBalanced
  OnlyLongLiteralsExit
CHECK_DEADLOCK FALSE
