------------------------------ MODULE Bytecode ------------------------------
(***************************************************************************)
(* The bytecode file: ByteCode.compile (src/src/SM.ml) writes it from a    *)
(* stack machine program, one instruction at a time; the reader            *)
(* (src/byterun/byterun.c) unpacks it and lists the instructions again.    *)
(* The two know the encoding from tables of their own.                     *)
(*                                                                         *)
(* A program is an instruction sequence that grows as long as it pleases   *)
(* the compiler.  A name is a sequence of characters other than zero.  An  *)
(* integer takes IntBytes bytes, the lowest first.                         *)
(***************************************************************************)
EXTENDS Integers, Sequences, FiniteSets, SequencesExt

CONSTANTS
  Insns(_),   \* the instructions that may stand at a place of the program
  MaxInsns,   \* bound: the length of a program
  IntBytes,   \* bytes of an integer (4 in the code)
  Builtin     \* the labels of read, write, length and string, in this order

ASSUME BytesAssumption == MaxInsns \in Nat /\ IntBytes \in Nat \ {0}

VARIABLES
  phase,   \* "writing", "reading", "done", or "failed": an undefined label
  insns,   \* the program
  w,       \* what the writer has gathered
  file,    \* the bytes of the file
  ip,      \* the reader's place in the code
  out      \* its listing: of each instruction the place, the name, the operands

vars == <<phase, insns, w, file, ip, out>>

(***************************************************************************)
(* Instructions.  The operator of BINOP and the pattern of PATT are the    *)
(* instruction's name, and so is Barray, the call of ".array".  A          *)
(* designation is a kind and a number, or a global variable's name.        *)
(***************************************************************************)
Insn(op, args) == [op |-> op, args |-> args]

Str(s)    == [kind |-> "string", value |-> s]
Num(n)    == [kind |-> "number", value |-> n]
Lab(l)    == [kind |-> "label", value |-> l]
Loc(k, x) == [kind |-> k, value |-> x]

LabelOps == {"LABEL", "FLABEL", "SLABEL"}
MetaOps  == {"EXTERN", "PUBLIC"}

-----------------------------------------------------------------------------
(***************************************************************************)
(* The writer.                                                             *)
(***************************************************************************)
optab == <<"+", "-", "*", "/", "%", "<", "<=", ">", ">=", "==", "!=", "&&", "!!">>
patt  == <<"=str", "#string", "#array", "#sexp", "#ref", "#val", "#fun">>

opnum(s) == IndexFirstSubSeq(<<s>>, optab)

Opcode(op) ==
  CASE op = "CONST" -> 16 [] op = "STRING" -> 17 [] op = "SEXP"   -> 18
    [] op = "STI"   -> 19 [] op = "STA"    -> 20 [] op = "JMP"    -> 21
    [] op = "END"   -> 22 [] op = "RET"    -> 23 [] op = "DROP"   -> 24
    [] op = "DUP"   -> 25 [] op = "SWAP"   -> 26 [] op = "ELEM"   -> 27
    [] op = "LD"    -> 32 [] op = "LDA"    -> 48 [] op = "ST"     -> 64
    [] op = "CJMPz" -> 80 [] op = "CJMPnz" -> 81 [] op = "BEGIN"  -> 82
    [] op = "CBEGIN" -> 83 [] op = "CLOSURE" -> 84 [] op = "CALLC" -> 85
    [] op = "CALL"  -> 86 [] op = "TAG"    -> 87 [] op = "ARRAY"  -> 88
    [] op = "FAIL"  -> 89 [] op = "LINE"   -> 90
    [] op = "Barray" -> 116
    [] op \in Range(optab) -> opnum(op)
    [] op \in Range(patt)  -> 96 + IndexFirstSubSeq(<<op>>, patt) - 1

\* Mutant: locals and arguments change places.
DesignationCodeSwapped(k) == CASE k = "G" -> 0 [] k = "A" -> 1 [] k = "L" -> 2 [] k = "C" -> 3

DesignationCode(k) == CASE k = "G" -> 0 [] k = "L" -> 1 [] k = "A" -> 2 [] k = "C" -> 3

\* Int32.of_int keeps the low bits.
IntCode(n) == [i \in 1 .. IntBytes |-> (n \div 256^(i - 1)) % 256]

AddBytes(st, bytes) == [st EXCEPT !.code = @ \o bytes]
AddInt(st, n)       == AddBytes(st, IntCode(n))

\* StringTab.add: a string that is in the table is not added again.
Interned(st, s) ==
  IF s \in DOMAIN st.smap THEN st
  ELSE [st EXCEPT !.smap  = [x \in DOMAIN @ \union {s} |-> IF x = s THEN st.index ELSE @[x]],
                  !.stab  = @ \o Append(s, 0),
                  !.index = @ + Len(s) + 1]

AddString(st, s) == LET t == Interned(st, s) IN AddInt(t, t.smap[s])

AddFixup(st, l) ==
  AddInt([st EXCEPT !.fixups = Append(@, [at |-> Len(st.code), label |-> l])], 0)

\* The number of a global variable is given when it is first met.
Numbered(st, g) ==
  IF g \in Range(st.globals) THEN st ELSE [st EXCEPT !.globals = Append(@, g)]

AddDesignation(st, base, d) ==
  LET t == IF d.kind = "G" THEN Numbered(st, d.value) ELSE st
      n == IF d.kind = "G" THEN IndexFirstSubSeq(<<d.value>>, t.globals) - 1 ELSE d.value
  IN  AddInt(AddBytes(t, <<base + DesignationCode(d.kind)>>), n)

AddOperand(st, a) ==
  CASE a.kind = "string" -> AddString(st, a.value)
    [] a.kind = "number" -> AddInt(st, a.value)
    [] a.kind = "label"  -> AddFixup(st, a.value)
    [] OTHER             -> AddDesignation(st, 0, a)

AddLabel(st, l) ==
  [st EXCEPT !.lmap = [x \in DOMAIN @ \union {l} |-> IF x = l THEN Len(st.code) ELSE @[x]]]

CallsBuiltin(i) == i.op = "CALL" /\ i.args[1].value \in Range(Builtin)

\* insn_code: one case of it for each instruction.
InsnCode(st, i) ==
  CASE i.op \in LabelOps -> AddLabel(st, i.args[1].value)
    [] i.op = "PUBLIC"   -> [st EXCEPT !.pubs = @ \union {i.args[1].value}]
    [] i.op = "EXTERN"   -> st
    [] i.op \in {"LD", "LDA", "ST"} -> AddDesignation(st, Opcode(i.op), i.args[1])
    [] CallsBuiltin(i)   ->
         AddBytes(st, <<112 + IndexFirstSubSeq(<<i.args[1].value>>, Builtin) - 1>>)
    [] OTHER             -> FoldLeft(AddOperand, AddBytes(st, <<Opcode(i.op)>>), i.args)

EmptyFunction == [x \in {} |-> x]

Init == /\ phase = "writing"
        /\ insns = <<>>
        /\ w = [code |-> <<>>, smap |-> EmptyFunction, stab |-> <<>>, index |-> 0,
                lmap |-> EmptyFunction, pubs |-> {}, globals |-> <<>>, fixups |-> <<>>]
        /\ file = <<>>
        /\ ip = 0
        /\ out = <<>>

Write == /\ phase = "writing"
         /\ Len(insns) < MaxInsns
         /\ \E i \in Insns(Len(insns) + 1) : insns' = Append(insns, i) /\ w' = InsnCode(w, i)
         /\ UNCHANGED <<phase, file, ip, out>>

\* The labels that fixups and public symbols ask for.
Wanted == {f.label : f \in Range(w.fixups)} \union w.pubs

Undefined == Wanted \ DOMAIN w.lmap

WriteFails == /\ phase = "writing"
              /\ Undefined /= {}
              /\ phase' = "failed"
              /\ UNCHANGED <<insns, w, file, ip, out>>

Code ==
  FoldLeft(LAMBDA c, f : [k \in DOMAIN c |->
                            IF k \in f.at + 1 .. f.at + IntBytes
                              THEN IntCode(w.lmap[f.label])[k - f.at] ELSE c[k]],
           Append(w.code, 255), w.fixups)

\* The names of the public symbols go to the string table last.
Published == FoldLeft(Interned, w, SetToSeq(w.pubs))

Header ==
  IntCode(Len(Published.stab)) \o IntCode(Len(w.globals)) \o IntCode(Cardinality(w.pubs))

\* Mutant: the offset comes before the name.
PublicsSwapped ==
  FlattenSeq([k \in 1 .. Cardinality(w.pubs) |->
    LET l == SetToSeq(w.pubs)[k] IN IntCode(w.lmap[l]) \o IntCode(Published.smap[l])])

Publics ==
  FlattenSeq([k \in 1 .. Cardinality(w.pubs) |->
    LET l == SetToSeq(w.pubs)[k] IN IntCode(Published.smap[l]) \o IntCode(w.lmap[l])])

WriteFile == /\ phase = "writing"
             /\ Undefined = {}
             /\ phase' = "reading"
             /\ file' = Header \o Publics \o Published.stab \o Code
             /\ UNCHANGED <<insns, w, ip, out>>

-----------------------------------------------------------------------------
(***************************************************************************)
(* The reader.  An address counts from zero, a byte of the file from one.  *)
(***************************************************************************)
IntAt(a) ==
  LET n == FoldLeft(LAMBDA acc, i : acc + file[a + i] * 256^(i - 1), 0,
                    [i \in 1 .. IntBytes |-> i])
  IN  IF n >= 128 * 256^(IntBytes - 1) THEN n - 256^IntBytes ELSE n

stringtab_size        == IntAt(0)
global_area_size      == IntAt(IntBytes)
public_symbols_number == IntAt(2 * IntBytes)

public_ptr == 3 * IntBytes
string_ptr == public_ptr + public_symbols_number * 2 * IntBytes
code_ptr   == string_ptr + stringtab_size

get_string(pos) ==
  LET start == string_ptr + pos + 1
      end   == CHOOSE k \in start .. Len(file) :
                 file[k] = 0 /\ \A j \in start .. k - 1 : file[j] /= 0
  IN  SubSeq(file, start, end - 1)

get_public_name(k)   == get_string(IntAt(public_ptr + k * 2 * IntBytes))
get_public_offset(k) == IntAt(public_ptr + (k * 2 + 1) * IntBytes)

ops   == <<"+", "-", "*", "/", "%", "<", "<=", ">", ">=", "==", "!=", "&&", "!!">>
pats  == <<"=str", "#string", "#array", "#sexp", "#ref", "#val", "#fun">>
lds   == <<"LD", "LDA", "ST">>
kinds == <<"G", "L", "A", "C">>

Invalid == [op |-> "invalid", args |-> <<>>]

\* The names and operands of the instructions of group 1, of group 5 and of
\* group 7, from number 0.
Case1 == <<Insn("CONST", <<"number">>), Insn("STRING", <<"string">>),
           Insn("SEXP", <<"string", "number">>), Insn("STI", <<>>), Insn("STA", <<>>),
           Insn("JMP", <<"label">>), Insn("END", <<>>), Insn("RET", <<>>),
           Insn("DROP", <<>>), Insn("DUP", <<>>), Insn("SWAP", <<>>), Insn("ELEM", <<>>)>>

Case5 == <<Insn("CJMPz", <<"label">>), Insn("CJMPnz", <<"label">>),
           Insn("BEGIN", <<"number", "number">>), Insn("CBEGIN", <<"number", "number">>),
           Insn("CLOSURE", <<"label", "number">>), Insn("CALLC", <<"number">>),
           Insn("CALL", <<"label", "number">>), Insn("TAG", <<"string", "number">>),
           Insn("ARRAY", <<"number">>), Insn("FAIL", <<"number", "number">>),
           Insn("LINE", <<"number">>)>>

\* Mutant: the array's length is not read.
Case7NoLength == <<Insn("Lread", <<>>), Insn("Lwrite", <<>>), Insn("Llength", <<>>),
                   Insn("Lstring", <<>>), Insn("Barray", <<>>)>>

Case7 == <<Insn("Lread", <<>>), Insn("Lwrite", <<>>), Insn("Llength", <<>>),
           Insn("Lstring", <<>>), Insn("Barray", <<"number">>)>>

Row(table, l) == IF l < Len(table) THEN table[l + 1] ELSE Invalid

Layout(h, l) ==
  CASE h = 0        -> IF l \in 1 .. Len(ops) THEN Insn(ops[l], <<>>) ELSE Invalid
    [] h = 1        -> Row(Case1, l)
    [] h \in 2 .. 4 -> IF l < Len(kinds) THEN Insn(lds[h - 1], <<kinds[l + 1]>>) ELSE Invalid
    [] h = 5        -> Row(Case5, l)
    [] h = 6        -> IF l < Len(pats) THEN Insn(pats[l + 1], <<>>) ELSE Invalid
    [] h = 7        -> Row(Case7, l)
    [] OTHER        -> Invalid

\* A string operand is an index into the table.
Operand(kind, a) ==
  [kind |-> kind, value |-> IF kind = "string" THEN get_string(IntAt(a)) ELSE IntAt(a)]

Operands(layout, a) ==
  [k \in DOMAIN layout |-> Operand(layout[k], a + (k - 1) * IntBytes)]

\* What a closure captures: a byte and an integer for each variable.
Captured(n, a) ==
  [k \in 1 .. n |->
     LET at == a + (k - 1) * (1 + IntBytes) IN Operand(kinds[file[at + 1] + 1], at + 1)]

\* One turn of the loop of disassemble.
Disassemble ==
  /\ phase = "reading"
  /\ LET start == code_ptr + ip
         row   == Layout(file[start + 1] \div 16, file[start + 1] % 16)
         args  == Operands(row.args, start + 1)
         size  == 1 + Len(args) * IntBytes
         more  == IF row.op = "CLOSURE" THEN Captured(args[2].value, start + size) ELSE <<>>
     IN  /\ file[start + 1] \div 16 /= 15
         /\ row /= Invalid
         /\ out' = Append(out, [at |-> ip, op |-> row.op, args |-> args \o more])
         /\ ip' = ip + size + Len(more) * (1 + IntBytes)
  /\ UNCHANGED <<phase, insns, w, file>>

Stop == /\ phase = "reading"
        /\ file[code_ptr + ip + 1] \div 16 = 15
        /\ phase' = "done"
        /\ out' = Append(out, [at |-> ip, op |-> "<end>", args |-> <<>>])
        /\ UNCHANGED <<insns, w, file, ip>>

Next == Write \/ WriteFails \/ WriteFile \/ Disassemble \/ Stop

Spec == Init /\ [][Next]_vars

-----------------------------------------------------------------------------
IsCode(i) == i.op \notin LabelOps \union MetaOps

Emitted == SelectSeq(insns, IsCode)

\* The place of a label in the listing: the instruction after its last definition.
Defined(l) == {k \in DOMAIN insns : insns[k].op \in LabelOps /\ insns[k].args[1].value = l}

PlaceOf(l) == out[Len(SelectSeq(SubSeq(insns, 1, Max(Defined(l))), IsCode)) + 1].at

\* Global variables are numbered in the order the program mentions them.
Mentions ==
  LET globals(i) == SelectSeq(i.args, LAMBDA a : a.kind = "G")
  IN  FlattenSeq([k \in DOMAIN Emitted |-> globals(Emitted[k])])

NumberOf(a) ==
  LET first == Min({k \in DOMAIN Mentions : Mentions[k] = a})
  IN  Cardinality({Mentions[k] : k \in 1 .. first - 1})

Meant(a) == CASE a.kind = "label" -> PlaceOf(a.value)
              [] a.kind = "G"     -> NumberOf(a)
              [] OTHER            -> a.value

ListedAs(i, entry) ==
  IF CallsBuiltin(i)
    THEN entry.op = <<"Lread", "Lwrite", "Llength", "Lstring">>
                      [IndexFirstSubSeq(<<i.args[1].value>>, Builtin)] /\ entry.args = <<>>
    ELSE /\ entry.op = i.op
         /\ Len(entry.args) = Len(i.args)
         /\ \A k \in DOMAIN i.args : /\ entry.args[k].kind = i.args[k].kind
                                     /\ entry.args[k].value = Meant(i.args[k])

\* The writer's variables hold bytes and places in the code.
TypeOK ==
  /\ Range(w.code) \union Range(file) \subseteq 0 .. 255
  /\ Range(w.lmap) \subseteq 0 .. Len(w.code)
  /\ w.index = Len(w.stab)
  /\ \A f \in Range(w.fixups) : f.at + IntBytes <= Len(w.code)

\* The reader finds the program that was written: the same instructions in the
\* same order with the same operands, though the two tables of opcodes are kept
\* by hand in two languages; a label reads as the place of the instruction after
\* it, whether it was defined before its use or after.
RoundTrip ==
  phase = "done" =>
    /\ Len(out) = Len(Emitted) + 1
    /\ \A k \in DOMAIN Emitted : ListedAs(Emitted[k], out[k])

\* The reader meets no opcode it does not know, reads no byte beyond the file,
\* and stops at the file's last byte; the global area it has by then has a word
\* for every global variable the code mentions.
ReaderStaysInside ==
  /\ TypeOK
  /\ phase = "reading" =>
       /\ code_ptr + ip < Len(file)
       /\ LET byte == file[code_ptr + ip + 1] IN
            IF byte \div 16 = 15 THEN code_ptr + ip + 1 = Len(file)
            ELSE LET row == Layout(byte \div 16, byte % 16) IN
                 /\ row /= Invalid
                 /\ code_ptr + ip + 1 + Len(row.args) * IntBytes < Len(file)
  /\ phase = "done" =>
       \A entry \in Range(out) : \A a \in Range(entry.args) :
         a.kind = "G" => a.value \in 0 .. global_area_size - 1

\* The table of public symbols names the labels the program publishes, at the
\* instructions they stand for.
PublicsAreFound ==
  phase = "done" =>
    {<<get_public_name(k), get_public_offset(k)>> : k \in 0 .. public_symbols_number - 1}
      = {<<l, PlaceOf(l)>> : l \in {i.args[1].value : i \in {j \in Range(insns) : j.op = "PUBLIC"}}}
=============================================================================
