CONSTANTS
  Body <- Body32
  Lengths <- Lengths32
  Passed <- Passed32
  NArgs = 4
  MaxRoots = 3
  Functions = {"LmakeString", "LmakeArray", "Bstring", "Lstringcat", "Lstring", "Lsubstring", "LcloneString", "LcloneBlock", "Bclosure", "Barray", "Bsexp", "Li__Infix_4343", "Lsprintf", "LgetEnv", "Ls__Infix_58", "LreadLine", "Lfread"}
SPECIFICATION Spec
INVARIANTS
  OnlyConsUsesStale
  ChecksPass
  CallsAreBalanced
CHECK_DEADLOCK FALSE
