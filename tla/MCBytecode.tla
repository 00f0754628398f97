----------------------------- MODULE MCBytecode -----------------------------
(* Bytecode with integers of two bytes.  The first instruction is any, so that *)
(* every row of the tables is used; those after it define and use labels,     *)
(* strings and global variables, before and after one another.                *)
EXTENDS Bytecode

F == <<1>>
G == <<1, 2>>

MCBuiltin == <<<<3>>, <<4>>, <<5>>, <<6>>>>

Simple == {Insn(op, <<>>) : op \in Range(optab) \union Range(patt)
             \union {"STI", "STA", "END", "RET", "DROP", "DUP", "SWAP", "ELEM"}}

Numbers == {Insn(op, <<Num(n)>>) : op \in {"CONST", "CALLC", "ARRAY", "LINE", "Barray"},
                                   n \in {0, -2, 300}}
            \union {Insn(op, <<Num(2), Num(1)>>) : op \in {"BEGIN", "CBEGIN", "FAIL"}}

Variables == {Insn(op, <<Loc(k, 1)>>) : op \in {"LD", "LDA", "ST"}, k \in {"L", "A", "C"}}

Calls == {Insn("CALL", <<Lab(b), Num(1)>>) : b \in Range(MCBuiltin)}

Linking ==
  {Insn("LABEL", <<Lab(F)>>), Insn("SLABEL", <<Lab(G)>>), Insn("PUBLIC", <<Lab(F)>>),
   Insn("PUBLIC", <<Lab(G)>>), Insn("JMP", <<Lab(F)>>), Insn("CALL", <<Lab(G), Num(1)>>),
   Insn("LD", <<Loc("G", F)>>), Insn("ST", <<Loc("G", G)>>),
   Insn("CLOSURE", <<Lab(F), Num(2), Loc("L", 1), Loc("G", G)>>),
   Insn("STRING", <<Str(F)>>), Insn("SEXP", <<Str(G), Num(1)>>)}

Other == {Insn("FLABEL", <<Lab(F)>>), Insn("TAG", <<Str(G), Num(2)>>),
          Insn("CJMPz", <<Lab(F)>>), Insn("CJMPnz", <<Lab(G)>>), Insn("EXTERN", <<Lab(G)>>),
          Insn("CLOSURE", <<Lab(F), Num(0)>>)}

MCInsns(k) == IF k = 1 THEN Simple \union Numbers \union Variables \union Calls \union Other
                            \union Linking
              ELSE Linking
=============================================================================
