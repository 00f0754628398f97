--------------------------- MODULE X86FrameProofs ---------------------------
(***************************************************************************)
(* For every set of functions and every number of registers: each call     *)
(* leaves the stack as it found it, and at each runtime call the stack is  *)
(* aligned.  Whatever the calls in between and however often they          *)
(* collected, a value that a function still needs is never a pointer into  *)
(* a heap that is gone; and no symbolic stack outgrows its frame.  Of the  *)
(* words nobody needs, those that may hold such a pointer are known.       *)
(***************************************************************************)
EXTENDS X86Frame, SequenceTheorems, TLAPS

Activation ==
  [shape : Shapes, rbp : Int, depth : Nat, assigned : SUBSET Int, align : Nat,
   saved : Seq(Registers), extra : Nat]

RuntimeCall == [saved : Seq(Registers), extra : Nat, result : BOOLEAN, active : BOOLEAN]

\* Where %rsp was when the sequence that led to an activation began: below the
\* saved %rbp, the return address and all that the sequence pushed.
Before(fr) == fr.rbp - 2 - fr.extra - Len(fr.saved)

\* Activations lie on one another, each on an even number of words; only main's
\* frame may need a word more for that.
Stacked(fs) ==
  /\ fs \in Seq(Activation)
  /\ \A d \in 1 .. Len(fs) : Base(fs[d]) % 2 = 0
  /\ \A d \in 2 .. Len(fs) : fs[d].align = 0 /\ Before(fs[d]) = Base(fs[d - 1])

\* The inductive invariant: what StackRestored says of the running function
\* holds of every activation below it, and a runtime call under way can be
\* undone in the same way.
IInv ==
  /\ sp \in Int
  /\ call \in RuntimeCall
  /\ Stacked(frames)
  /\ ~started => frames = <<>> /\ ~call.active /\ sp \in {0, 1}
  /\ ~call.active /\ frames /= <<>> => sp = Base(Running)
  /\ call.active => /\ frames /= <<>>
                    /\ sp - call.extra - Len(call.saved) = Base(Running)
                    /\ sp % 2 = 0

-----------------------------------------------------------------------------
\* Sums of words that are even in number.
LEMMA EvenSums ==
  ASSUME NEW i \in Int, NEW j \in Int, NEW k \in Int, (i + j) % 2 = 0, k % 2 = 0
  PROVE  /\ j % 2 = 0 => (i + k) % 2 = 0
         /\ (i + j + k) % 2 = 0
  OBVIOUS

\* LSize: the words of a frame are even in number.
LEMMA FramesAreEven ==
  ASSUME NEW shape \in Shapes
  PROVE  LSize(shape) \in Nat /\ LSize(shape) % 2 = 0
<1>1. Allocated(shape) \in Nat
  BY ShapesAssumption DEF Allocated
<1> QED
  BY <1>1 DEF LSize

\* The parameters that a function counts and those that its code names.
LEMMA NamedParameters ==
  ASSUME NEW shape \in Shapes
  PROVE  /\ Named(shape) \in Nat /\ Named(shape) <= shape.nargs
         /\ shape \in Functions => Named(shape) = shape.nargs
  BY ShapesAssumption DEF Named, Functions

LEMMA BaseIsAPlace ==
  ASSUME NEW fr \in Activation
  PROVE  Base(fr) \in Int /\ Before(fr) \in Int
<1>1. LSize(fr.shape) \in Nat
  BY FramesAreEven DEF Activation
<1>2. Len(fr.saved) \in Nat
  BY DEF Activation
<1> QED
  BY <1>1, <1>2 DEF Base, Before, Activation

\* protect_registers answers a list of registers.
LEMMA ProtectedAreRegisters ==
  ASSUME NEW fr \in Activation, NEW depth \in Nat
  PROVE  ProtectRegisters(fr, depth) \in Seq(Registers)
<1> DEFINE k == Least(fr.shape.nargs, ArgRegs)
           m == Least(depth, SymRegs)
<1>1. k \in Nat /\ k <= ArgRegs /\ m \in Nat /\ m <= SymRegs
  BY ShapesAssumption DEF Least, Activation
<1>2. [i \in 1 .. k |-> ArgReg(i)] \in Seq(Registers)
  BY <1>1, ShapesAssumption DEF Registers
<1>3. [i \in 1 .. m |-> SymReg(i)] \in Seq(Registers)
  BY <1>1, ShapesAssumption DEF Registers
<1>4. LiveRegisters(fr, depth) \in Seq(Registers)
  BY <1>2, <1>3 DEF LiveRegisters
<1>5. (IF fr.shape.closure THEN <<R15>> ELSE <<>>) \in Seq(Registers)
  <2>1. R15 \in Registers
    BY DEF Registers
  <2>2. <<R15>> \in Seq(Registers) /\ <<>> \in Seq(Registers)
    BY <2>1
  <2> QED
    BY <2>2
<1> QED
  BY <1>4, <1>5 DEF ProtectRegisters

\* A call sequence pushes as many words as it drops and pops, and an even
\* number of them.
LEMMA SequenceIsBalanced ==
  ASSUME NEW saved \in Seq(Registers), NEW n \in Nat, NEW args,
         args = [i \in 1 .. n |-> args[i]]
  PROVE  /\ Len(PushValues(saved, args)) = Len(saved) + Dropped(Len(saved), n)
         /\ Len(PushValues(saved, args)) % 2 = 0
         /\ Dropped(Len(saved), n) \in Nat
<1> DEFINE S  == {regs[saved[i]] : i \in DOMAIN saved} \union {"plain"}
                   \union {args[i] : i \in 1 .. n}
           fl == Fillers(Len(saved), n)
<1>1. Len(saved) \in Nat /\ DOMAIN saved = 1 .. Len(saved)
  OBVIOUS
<1>2. /\ [i \in DOMAIN saved |-> regs[saved[i]]] \in Seq(S)
      /\ Len([i \in DOMAIN saved |-> regs[saved[i]]]) = Len(saved)
  BY <1>1
<1>3. fl \in 0 .. 1
  BY <1>1 DEF Fillers
<1>4. /\ [i \in 1 .. fl |-> "plain"] \in Seq(S)
      /\ Len([i \in 1 .. fl |-> "plain"]) = fl
  BY <1>3
<1>5. args \in Seq(S) /\ Len(args) = n
  <2>1. [i \in 1 .. n |-> args[i]] \in Seq(S)
    OBVIOUS
  <2>2. Len([i \in 1 .. n |-> args[i]]) = n
    OBVIOUS
  <2> QED
    BY <2>1, <2>2
<1>6. Len(PushValues(saved, args)) = Len(saved) + fl + n
  <2> DEFINE s == [i \in DOMAIN saved |-> regs[saved[i]]]
             f == [i \in 1 .. fl |-> "plain"]
  <2> HIDE DEF s, f, fl, S
  <2>1. s \o f \in Seq(S) /\ Len(s \o f) = Len(saved) + fl
    BY <1>2, <1>4, <1>3, <1>1 DEF s, f
  <2>2. Len((s \o f) \o args) = Len(saved) + fl + n
    BY <2>1, <1>5, <1>3, <1>1
  <2>3. PushValues(saved, args) = (s \o f) \o args
    BY <1>5 DEF PushValues, s, f, fl
  <2> QED
    BY <2>2, <2>3
<1>7. Dropped(Len(saved), n) = fl + n
  BY <1>1 DEF Dropped, Fillers
<1>8. (Len(saved) + fl + n) % 2 = 0
  <2>1. fl = (Len(saved) + n) % 2
    BY DEF Fillers
  <2>2. Len(saved) + n \in Nat
    BY <1>1
  <2>3. (Len(saved) + n + fl) % 2 = 0
    BY <2>1, <2>2
  <2>4. Len(saved) + n + fl = Len(saved) + fl + n
    BY <1>1, <1>3
  <2> QED
    BY <2>3, <2>4
<1> HIDE DEF fl
<1> QED
  BY <1>1, <1>3, <1>6, <1>7, <1>8

-----------------------------------------------------------------------------
(***************************************************************************)
(* The three changes of the stack of activations.                          *)
(***************************************************************************)
\* The running function changes its symbolic stack or its locals.
LEMMA ReplaceTop ==
  ASSUME NEW fs, Stacked(fs), fs /= <<>>, NEW a \in Activation,
         a.shape = fs[Len(fs)].shape, a.rbp = fs[Len(fs)].rbp,
         a.align = fs[Len(fs)].align, a.saved = fs[Len(fs)].saved,
         a.extra = fs[Len(fs)].extra
  PROVE  LET gs == [fs EXCEPT ![Len(fs)] = a]
         IN /\ Stacked(gs) /\ Len(gs) = Len(fs) /\ gs /= <<>>
            /\ gs[Len(gs)] = a
            /\ Base(gs[Len(gs)]) = Base(fs[Len(fs)])
<1> DEFINE gs == [fs EXCEPT ![Len(fs)] = a]
<1>1. fs \in Seq(Activation) /\ Len(fs) \in Nat \ {0}
  BY DEF Stacked
<1>2. gs \in Seq(Activation) /\ Len(gs) = Len(fs) /\ gs /= <<>>
  BY <1>1
<1>3. gs[Len(fs)] = a /\ \A d \in 1 .. Len(fs) : d /= Len(fs) => gs[d] = fs[d]
  BY <1>1
<1>4. \A d \in 1 .. Len(fs) : /\ Base(gs[d]) = Base(fs[d])
                              /\ Before(gs[d]) = Before(fs[d])
                              /\ gs[d].align = fs[d].align
  BY <1>3 DEF Base, Before
<1> HIDE DEF gs
<1>5. \A d \in 1 .. Len(gs) : Base(gs[d]) % 2 = 0
  BY <1>2, <1>4 DEF Stacked
<1>6. \A d \in 2 .. Len(gs) : gs[d].align = 0 /\ Before(gs[d]) = Base(gs[d - 1])
  <2> SUFFICES ASSUME NEW d \in 2 .. Len(gs)
               PROVE  gs[d].align = 0 /\ Before(gs[d]) = Base(gs[d - 1])
    OBVIOUS
  <2>1. d \in 1 .. Len(fs) /\ d - 1 \in 1 .. Len(fs) /\ d \in 2 .. Len(fs)
    BY <1>1, <1>2
  <2> QED
    BY <2>1, <1>4 DEF Stacked
<1>7. Stacked(gs)
  BY <1>2, <1>5, <1>6 DEF Stacked
<1>8. Base(gs[Len(gs)]) = Base(fs[Len(fs)])
  BY <1>1, <1>2, <1>4
<1>9. gs[Len(gs)] = a
  BY <1>2, <1>3
<1> QED
  BY <1>2, <1>7, <1>8, <1>9 DEF gs

\* ... the number of positions in use on its symbolic stack, ...
LEMMA SetDepth ==
  ASSUME NEW fs, Stacked(fs), fs /= <<>>, NEW k \in Nat
  PROVE  LET gs == [fs EXCEPT ![Len(fs)].depth = k]
         IN /\ Stacked(gs) /\ Len(gs) = Len(fs) /\ gs /= <<>>
            /\ Base(gs[Len(gs)]) = Base(fs[Len(fs)])
<1> DEFINE fr == fs[Len(fs)]
           a  == [fr EXCEPT !.depth = k]
<1>1. fr \in Activation
  BY DEF Stacked
<1>2. /\ a \in Activation /\ a.shape = fr.shape /\ a.rbp = fr.rbp
      /\ a.align = fr.align /\ a.saved = fr.saved /\ a.extra = fr.extra
  BY <1>1 DEF Activation
<1>3. [fs EXCEPT ![Len(fs)].depth = k] = [fs EXCEPT ![Len(fs)] = a]
  OBVIOUS
<1> QED
  BY <1>2, <1>3, ReplaceTop

\* ... or the locals it has assigned.
LEMMA SetAssigned ==
  ASSUME NEW fs, Stacked(fs), fs /= <<>>, NEW i \in Int
  PROVE  LET gs == [fs EXCEPT ![Len(fs)].assigned = @ \union {i}]
         IN /\ Stacked(gs) /\ Len(gs) = Len(fs) /\ gs /= <<>>
            /\ Base(gs[Len(gs)]) = Base(fs[Len(fs)])
<1> DEFINE fr == fs[Len(fs)]
           a  == [fr EXCEPT !.assigned = @ \union {i}]
<1>1. fr \in Activation
  BY DEF Stacked
<1>2. /\ a \in Activation /\ a.shape = fr.shape /\ a.rbp = fr.rbp
      /\ a.align = fr.align /\ a.saved = fr.saved /\ a.extra = fr.extra
  BY <1>1 DEF Activation
<1>3. [fs EXCEPT ![Len(fs)].assigned = @ \union {i}] = [fs EXCEPT ![Len(fs)] = a]
  OBVIOUS
<1> QED
  BY <1>2, <1>3, ReplaceTop

\* A function begins where its caller's sequence left off.
LEMMA PushActivation ==
  ASSUME NEW fs, Stacked(fs), NEW a \in Activation,
         Base(a) % 2 = 0,
         fs /= <<>> => a.align = 0 /\ Before(a) = Base(fs[Len(fs)])
  PROVE  /\ Stacked(Append(fs, a)) /\ Append(fs, a) /= <<>>
         /\ Append(fs, a)[Len(Append(fs, a))] = a
<1> DEFINE gs == Append(fs, a)
<1>1. fs \in Seq(Activation) /\ Len(fs) \in Nat
  BY DEF Stacked
<1>2. gs \in Seq(Activation) /\ Len(gs) = Len(fs) + 1 /\ gs /= <<>>
  BY <1>1
<1>3. gs[Len(fs) + 1] = a /\ \A d \in 1 .. Len(fs) : gs[d] = fs[d]
  BY <1>1
<1> HIDE DEF gs
<1>4. \A d \in 1 .. Len(gs) : Base(gs[d]) % 2 = 0
  <2> SUFFICES ASSUME NEW d \in 1 .. Len(gs)
               PROVE  Base(gs[d]) % 2 = 0
    OBVIOUS
  <2>1. d \in 1 .. Len(fs) \/ d = Len(fs) + 1
    BY <1>1, <1>2
  <2> QED
    BY <2>1, <1>3 DEF Stacked
<1>5. \A d \in 2 .. Len(gs) : gs[d].align = 0 /\ Before(gs[d]) = Base(gs[d - 1])
  <2> SUFFICES ASSUME NEW d \in 2 .. Len(gs)
               PROVE  gs[d].align = 0 /\ Before(gs[d]) = Base(gs[d - 1])
    OBVIOUS
  <2>1. CASE d \in 2 .. Len(fs)
    <3>1. d \in 1 .. Len(fs) /\ d - 1 \in 1 .. Len(fs)
      BY <2>1, <1>1
    <3> QED
      BY <2>1, <3>1, <1>3 DEF Stacked
  <2>2. CASE d = Len(fs) + 1
    <3>1. Len(fs) \in 1 .. Len(fs) /\ fs /= <<>> /\ d - 1 = Len(fs)
      BY <2>2, <1>1
    <3> QED
      BY <2>2, <3>1, <1>3
  <2>3. d \in 2 .. Len(fs) \/ d = Len(fs) + 1
    BY <1>1, <1>2
  <2> QED
    BY <2>1, <2>2, <2>3
<1>6. Stacked(gs) /\ gs[Len(gs)] = a
  BY <1>2, <1>3, <1>4, <1>5 DEF Stacked
<1> QED
  BY <1>2, <1>6 DEF gs

\* A function gives its activation up.
LEMMA PopActivation ==
  ASSUME NEW fs, Stacked(fs), fs /= <<>>
  PROVE  /\ Stacked(Front(fs)) /\ Len(Front(fs)) = Len(fs) - 1
         /\ \A d \in 1 .. Len(fs) - 1 : Front(fs)[d] = fs[d]
<1>1. fs \in Seq(Activation) /\ Len(fs) \in Nat \ {0}
  BY DEF Stacked
<1>2. /\ Front(fs) \in Seq(Activation) /\ Len(Front(fs)) = Len(fs) - 1
      /\ \A d \in 1 .. Len(fs) - 1 : Front(fs)[d] = fs[d]
  <2>1. /\ 1 \in 1 .. Len(fs) + 1 /\ Len(fs) - 1 \in 1 - 1 .. Len(fs)
        /\ Len(fs) - 1 - 1 + 1 = Len(fs) - 1
        /\ \A d \in 1 .. Len(fs) - 1 : 1 + d - 1 = d
    BY <1>1
  <2> DEFINE front == SubSeq(fs, 1, Len(fs) - 1)
  <2>2. Len(fs) - 1 \in Nat
    BY <1>1
  <2>3. front \in Seq(Activation)
    BY <1>1, <2>1
  <2>4. Len(front) = Len(fs) - 1
    BY <1>1, <2>1, <2>2
  <2>5. \A d \in 1 .. Len(fs) - 1 : front[d] = fs[d]
    BY <1>1, <2>1, <2>2
  <2> QED
    BY <2>3, <2>4, <2>5 DEF Front
<1>3. \A d \in 1 .. Len(fs) - 1 : d \in 1 .. Len(fs)
  BY <1>1
<1>4. \A d \in 2 .. Len(fs) - 1 : d \in 1 .. Len(fs) - 1 /\ d - 1 \in 1 .. Len(fs) - 1
                                  /\ d \in 2 .. Len(fs)
  BY <1>1
<1>5. Stacked(Front(fs))
  BY <1>2, <1>3, <1>4 DEF Stacked
<1> QED
  BY <1>2, <1>5

-----------------------------------------------------------------------------
LEMMA InitIsStacked == Init => IInv
<1> SUFFICES ASSUME Init
             PROVE  IInv
  OBVIOUS
<1>1. call \in RuntimeCall /\ ~call.active
  BY DEF Init, NoCall, RuntimeCall
<1>2. Stacked(frames)
  BY DEF Init, Stacked
<1> QED
  BY <1>1, <1>2 DEF Init, IInv

\* The steps that only move operands and locals.
LEMMA TopChanges ==
  ASSUME IInv, InLama, UNCHANGED <<sp, call, started>>,
         Stacked(frames'), frames' /= <<>>, Base(Running') = Base(Running)
  PROVE  IInv'
<1>1. frames /= <<>> /\ started' = started
  BY DEF InLama
<1>2. sp' = Base(Running')
  BY <1>1 DEF IInv, InLama
<1>3. started
  BY <1>1 DEF IInv
<1> QED
  BY <1>1, <1>2, <1>3 DEF IInv, InLama

\* The running activation is one of those on the stack.
LEMMA RunningIsActivation ==
  ASSUME IInv, frames /= <<>>
  PROVE  /\ frames \in Seq(Activation) /\ Len(frames) \in 1 .. Len(frames)
         /\ Running \in Activation /\ started
<1>1. frames \in Seq(Activation) /\ Len(frames) \in Nat \ {0}
  BY DEF IInv, Stacked
<1> QED
  BY <1>1 DEF Running, IInv

LEMMA NewFrameIsActivation ==
  ASSUME NEW shape \in Shapes, NEW rbp \in Int, NEW saved \in Seq(Registers), NEW extra \in Nat
  PROVE  LET a == NewFrame(shape, rbp, saved, extra)
         IN /\ a \in Activation /\ a.align = 0
            /\ Base(a) = rbp + LSize(shape)
            /\ Before(a) = rbp - 2 - extra - Len(saved)
<1>1. LSize(shape) \in Nat
  BY FramesAreEven
<1> QED
  BY <1>1 DEF NewFrame, Activation, Base, Before

LEMMA StepKeepsStacked ==
  ASSUME IInv, [Next]_vars
  PROVE  IInv'
<1>1. CASE EnterMain
  <2>1. PICK shape \in Shapes :
          LET rbp   == sp + 2
              align == (rbp + LSize(shape)) % 2
          IN /\ frames' = <<[NewFrame(shape, rbp, <<>>, 0) EXCEPT !.align = align]>>
             /\ sp' = rbp + LSize(shape) + align
    BY <1>1 DEF EnterMain
  <2> DEFINE rbp   == sp + 2
             align == (rbp + LSize(shape)) % 2
             a     == [NewFrame(shape, rbp, <<>>, 0) EXCEPT !.align = align]
  <2>2. sp \in {0, 1} /\ frames = <<>> /\ started'
    BY <1>1 DEF EnterMain, IInv
  <2>3. /\ LSize(shape) \in Nat /\ rbp \in Nat
        /\ align \in Nat /\ (rbp + LSize(shape) + align) % 2 = 0
    BY <2>2, FramesAreEven
  <2>4. a \in Activation /\ Base(a) = rbp + LSize(shape) + align
    <3> DEFINE b == NewFrame(shape, rbp, <<>>, 0)
    <3>1. <<>> \in Seq(Registers)
      OBVIOUS
    <3>2. rbp \in Int /\ align \in Nat /\ LSize(shape) \in Nat
      BY <2>3
    <3> HIDE DEF rbp, align
    <3>3. b \in Activation
      BY <3>1, <3>2, NewFrameIsActivation
    <3>4. b.shape = shape /\ b.rbp = rbp
      BY DEF NewFrame
    <3> HIDE DEF b
    <3>5. [b EXCEPT !.align = align] \in Activation
      BY <3>2, <3>3 DEF Activation
    <3>6. /\ [b EXCEPT !.align = align].align = align
          /\ [b EXCEPT !.align = align].shape = shape
          /\ [b EXCEPT !.align = align].rbp = rbp
      BY <3>3, <3>4 DEF Activation
    <3>7. a = [b EXCEPT !.align = align]
      BY DEF b
    <3> HIDE DEF a
    <3> QED
      BY <3>5, <3>6, <3>7 DEF Base
  <2>5. Stacked(frames') /\ frames' /= <<>> /\ Running' = a
    <3>1. frames' = Append(frames, a)
      BY <2>1, <2>2
    <3>2. Base(a) % 2 = 0 /\ Stacked(frames)
      BY <2>3, <2>4 DEF IInv
    <3> HIDE DEF a
    <3> QED
      BY <3>1, <3>2, <2>2, <2>4, PushActivation DEF Running
  <2>6. /\ call' \in RuntimeCall /\ call'.active
        /\ sp' - call'.extra - Len(call'.saved) = sp'
    <3>1. /\ call' = [saved |-> <<>>, extra |-> 0, result |-> FALSE, active |-> TRUE]
          /\ sp' \in Int
      BY <1>1, <2>1, <2>3 DEF EnterMain
    <3>2. <<>> \in Seq(Registers)
      OBVIOUS
    <3>3. call' \in RuntimeCall
      BY <3>1, <3>2 DEF RuntimeCall
    <3>4. call'.extra = 0 /\ Len(call'.saved) = 0
      BY <3>1
    <3>5. call'.active
      BY <3>1
    <3>6. sp' \in Int
      BY <3>1
    <3>7. \A k \in Int : k - 0 - 0 = k
      OBVIOUS
    <3> QED
      BY <3>3, <3>4, <3>5, <3>6, <3>7
  <2>7. sp' = Base(Running') /\ sp' \in Int /\ sp' % 2 = 0
    BY <2>1, <2>3, <2>4, <2>5
  <2> QED
    BY <2>2, <2>5, <2>6, <2>7 DEF IInv
<1>2. CASE PushOperand
  <2>1. InLama /\ UNCHANGED <<sp, call, started>>
        /\ frames' = [frames EXCEPT ![Len(frames)].depth = Running.depth + 1]
    BY <1>2 DEF PushOperand, Running
  <2>2. Running.depth + 1 \in Nat /\ frames /= <<>> /\ Stacked(frames)
    BY <2>1, RunningIsActivation DEF InLama, Activation, IInv
  <2>3. Stacked(frames') /\ frames' /= <<>> /\ Base(Running') = Base(Running)
    BY <2>1, <2>2, SetDepth DEF Running
  <2> QED
    BY <2>1, <2>3, TopChanges
<1>3. CASE StoreLocal
  <2>1. PICK i \in 0 .. Running.shape.nlocals - 1 :
          frames' = [frames EXCEPT ![Len(frames)].assigned = @ \union {i}]
    BY <1>3 DEF StoreLocal
  <2>2. InLama /\ UNCHANGED <<sp, call, started>>
    BY <1>3 DEF StoreLocal
  <2>3. frames /= <<>> /\ Stacked(frames) /\ i \in Int
    BY <2>2 DEF InLama, IInv
  <2>4. Stacked(frames') /\ frames' /= <<>> /\ Base(Running') = Base(Running)
    BY <2>1, <2>3, SetAssigned DEF Running
  <2> QED
    BY <2>2, <2>4, TopChanges
<1>4. CASE Drop
  <2>1. InLama /\ Running.depth > 0 /\ UNCHANGED <<sp, call, started>>
        /\ frames' = [frames EXCEPT ![Len(frames)].depth = Running.depth - 1]
    BY <1>4 DEF Drop, Running
  <2>2. Running.depth \in Nat /\ frames /= <<>> /\ Stacked(frames)
    BY <2>1, RunningIsActivation DEF InLama, Activation, IInv
  <2>3. Running.depth - 1 \in Nat
    BY <2>1, <2>2
  <2>4. Stacked(frames') /\ frames' /= <<>> /\ Base(Running') = Base(Running)
    BY <2>1, <2>2, <2>3, SetDepth DEF Running
  <2> QED
    BY <2>1, <2>4, TopChanges
<1>5. CASE CallRuntime
  <2>1. InLama /\ started' = started
    BY <1>5 DEF CallRuntime
  <2>2. Running \in Activation /\ frames /= <<>> /\ started
    BY <2>1, RunningIsActivation DEF InLama
  <2> DEFINE left(n)  == Running.depth - n
             saved(n) == ProtectRegisters(Running, left(n))
             args(n)  == [i \in 1 .. n |-> ValueAt(Running, Running.depth - i + 1)]
             words(n) == Len(PushValues(saved(n), args(n)))
  <2>3. PICK n \in 0 .. Running.depth :
          /\ sp' = sp + words(n)
          /\ call' = [saved |-> saved(n), extra |-> Dropped(Len(saved(n)), n),
                      result |-> TRUE, active |-> TRUE]
          /\ frames' = [frames EXCEPT ![Len(frames)].depth = left(n)]
    BY <1>5 DEF CallRuntime
  <2>4. Running.depth \in Nat /\ n \in Nat /\ left(n) \in Nat
    BY <2>2 DEF Activation
  <2>5. saved(n) \in Seq(Registers)
    BY <2>2, <2>4, ProtectedAreRegisters
  <2>6. /\ words(n) = Len(saved(n)) + Dropped(Len(saved(n)), n)
        /\ words(n) % 2 = 0 /\ Dropped(Len(saved(n)), n) \in Nat
    <3>1. args(n) = [i \in 1 .. n |-> args(n)[i]]
      OBVIOUS
    <3> HIDE DEF args, saved
    <3> QED
      BY <2>4, <2>5, <3>1, SequenceIsBalanced
  <2>8. Stacked(frames') /\ frames' /= <<>> /\ Base(Running') = Base(Running)
    <3>1. frames' = [frames EXCEPT ![Len(frames)].depth = left(n)] /\ Stacked(frames)
      BY <2>3 DEF IInv
    <3> HIDE DEF left
    <3> QED
      BY <2>2, <2>4, <3>1, SetDepth DEF Running
  <2>9. sp = Base(Running) /\ sp % 2 = 0 /\ sp \in Int
    BY <2>1, <2>2, RunningIsActivation DEF IInv, InLama, Stacked, Running
  <2> HIDE DEF saved, args, words, left
  <2>10. /\ call' \in RuntimeCall /\ call'.active
         /\ call'.extra = Dropped(Len(saved(n)), n) /\ call'.saved = saved(n)
    BY <2>3, <2>5, <2>6 DEF RuntimeCall
  <2>11. sp' \in Int /\ sp' % 2 = 0 /\ sp' - call'.extra - Len(call'.saved) = sp
    <3>1. Len(saved(n)) \in Nat
      BY <2>5
    <3>2. sp' = sp + words(n)
      BY <2>3
    <3>3. sp' \in Int /\ sp' - Dropped(Len(saved(n)), n) - Len(saved(n)) = sp
      BY <2>6, <2>9, <3>1, <3>2
    <3>4. words(n) \in Int /\ words(n) % 2 = 0
      BY <2>6, <3>1
    <3>5. sp' % 2 = 0
      BY <2>9, <3>2, <3>4
    <3> QED
      BY <2>10, <3>3, <3>5
  <2> QED
    BY <2>1, <2>2, <2>8, <2>9, <2>10, <2>11 DEF IInv
<1>6. CASE RuntimeReturns
  <2>1. call.active /\ call' = NoCall /\ started' = started
    BY <1>6 DEF RuntimeReturns
  <2>2. frames /= <<>> /\ Running \in Activation /\ started
    BY <2>1, RunningIsActivation DEF IInv
  <2>3. /\ sp' = sp - call.extra - Len(call.saved)
        /\ \/ frames' = [frames EXCEPT ![Len(frames)].depth = @ + 1]
           \/ frames' = frames
    BY <1>6 DEF RuntimeReturns
  <2>4. Stacked(frames') /\ frames' /= <<>> /\ Base(Running') = Base(Running)
    <3>1. CASE frames' = frames
      BY <2>2, <3>1 DEF IInv, Running
    <3>2. CASE frames' = [frames EXCEPT ![Len(frames)].depth = @ + 1]
      <4>1. Running.depth + 1 \in Nat /\ Stacked(frames)
        BY <2>2 DEF Activation, IInv
      <4>2. frames' = [frames EXCEPT ![Len(frames)].depth = Running.depth + 1]
        BY <3>2 DEF Running
      <4> QED
        BY <2>2, <4>1, <4>2, SetDepth DEF Running
    <3> QED
      BY <2>3, <3>1, <3>2
  <2>5. sp' = Base(Running') /\ sp' \in Int
    <3>1. Base(Running) \in Int
      BY <2>2, BaseIsAPlace
    <3> QED
      BY <2>1, <2>3, <2>4, <3>1 DEF IInv
  <2>6. call' \in RuntimeCall /\ ~call'.active
    BY <2>1 DEF NoCall, RuntimeCall
  <2> QED
    BY <2>1, <2>2, <2>4, <2>5, <2>6 DEF IInv
<1>7. CASE CallLama
  <2>1. InLama /\ UNCHANGED <<call, started>>
    BY <1>7 DEF CallLama
  <2>2. /\ Running \in Activation /\ frames /= <<>> /\ started
        /\ frames \in Seq(Activation) /\ Len(frames) \in 1 .. Len(frames)
    BY <2>1, RunningIsActivation DEF InLama
  <2> DEFINE left(s)  == Running.depth - s.nargs
             saved(s) == ProtectRegisters(Running, left(s))
             args(s)  == StackedArguments(s.nargs)
             words(s) == Len(PushValues(saved(s), args(s)))
             rbp(s)   == sp + words(s) + 2
             extra(s) == Dropped(Len(saved(s)), StackArgs(s.nargs))
  <2>3. PICK shape \in Shapes, viaClosure \in BOOLEAN :
          LET pops == shape.nargs + IF viaClosure THEN 1 ELSE 0
          IN /\ Running.depth >= pops
             /\ sp' = rbp(shape) + LSize(shape)
             /\ frames' = Append([frames EXCEPT ![Len(frames)].depth = @ - pops],
                                 NewFrame(shape, rbp(shape), saved(shape), extra(shape)))
    BY <1>7 DEF CallLama, Functions
  <2> DEFINE pops == shape.nargs + IF viaClosure THEN 1 ELSE 0
             gs   == [frames EXCEPT ![Len(frames)].depth = Running.depth - pops]
             new  == NewFrame(shape, rbp(shape), saved(shape), extra(shape))
  <2>4. /\ shape.nargs \in Nat /\ left(shape) \in Nat
        /\ StackArgs(shape.nargs) \in Nat /\ Running.depth - pops \in Nat
    <3>1. shape.nargs \in Nat /\ ArgRegs \in Nat /\ Running.depth \in Nat
      BY <2>2, ShapesAssumption DEF Activation
    <3>2. Running.depth >= pops
      BY <2>3
    <3>3. pops \in Nat /\ pops >= shape.nargs
      BY <3>1
    <3> HIDE DEF pops
    <3> QED
      BY <3>1, <3>2, <3>3 DEF StackArgs, Most
  <2>5. saved(shape) \in Seq(Registers) /\ Len(saved(shape)) \in Nat
    BY <2>2, <2>4, ProtectedAreRegisters
  <2>6. /\ words(shape) = Len(saved(shape)) + extra(shape)
        /\ words(shape) % 2 = 0 /\ extra(shape) \in Nat
    <3>1. args(shape) = [i \in 1 .. StackArgs(shape.nargs) |-> args(shape)[i]]
      BY DEF StackedArguments
    <3> HIDE DEF args, saved
    <3> QED
      BY <2>4, <2>5, <3>1, SequenceIsBalanced
  <2>7. sp = Base(Running) /\ sp % 2 = 0 /\ sp \in Int
    BY <2>1, <2>2 DEF IInv, InLama, Stacked, Running
  <2>8. frames' = Append(gs, new)
    BY <2>3 DEF Running
  <2>9. Stacked(gs) /\ gs /= <<>> /\ Base(gs[Len(gs)]) = sp
    <3>1. Stacked(frames)
      BY DEF IInv
    <3> HIDE DEF pops
    <3> QED
      BY <2>2, <2>4, <2>7, <3>1, SetDepth DEF Running
  <2> HIDE DEF gs, pops, left, saved, args, words, extra
  <2>10. LSize(shape) \in Nat /\ LSize(shape) % 2 = 0
    BY FramesAreEven
  <2>11. rbp(shape) \in Int /\ (rbp(shape) + LSize(shape)) % 2 = 0
    BY <2>5, <2>6, <2>7, <2>10
  <2>12. /\ new \in Activation /\ new.align = 0
         /\ Base(new) = rbp(shape) + LSize(shape)
         /\ Before(new) = sp
    <3>1. Before(new) = rbp(shape) - 2 - extra(shape) - Len(saved(shape))
      BY <2>5, <2>6, <2>11, NewFrameIsActivation
    <3>2. rbp(shape) - 2 - extra(shape) - Len(saved(shape)) = sp
      BY <2>5, <2>6, <2>7
    <3> QED
      BY <2>5, <2>6, <2>11, <3>1, <3>2, NewFrameIsActivation
  <2> HIDE DEF new, rbp
  <2>13. Stacked(frames') /\ frames' /= <<>> /\ Running' = new
    BY <2>8, <2>9, <2>11, <2>12, PushActivation DEF Running
  <2>14. sp' = Base(Running') /\ sp' \in Int
    BY <2>3, <2>10, <2>11, <2>12, <2>13
  <2> QED
    BY <2>1, <2>2, <2>13, <2>14 DEF IInv, InLama
<1>8. CASE TailCallLama
  <2>1. InLama /\ Len(frames) > 1 /\ UNCHANGED <<call, started>>
    BY <1>8 DEF TailCallLama
  <2>2. /\ Running \in Activation /\ frames /= <<>> /\ started
        /\ frames \in Seq(Activation) /\ Len(frames) \in 2 .. Len(frames)
    BY <2>1, RunningIsActivation DEF InLama
  <2> DEFINE fr == Running
  <2>3. PICK shape \in Shapes :
          /\ sp' = fr.rbp + LSize(shape)
          /\ frames' = Append(Front(frames), NewFrame(shape, fr.rbp, fr.saved, fr.extra))
    BY <1>8 DEF TailCallLama, Functions
  <2> DEFINE new == NewFrame(shape, fr.rbp, fr.saved, fr.extra)
             gs  == Front(frames)
  <2>4. /\ fr.shape \in Shapes /\ fr.rbp \in Int
        /\ fr.saved \in Seq(Registers) /\ fr.extra \in Nat
    BY <2>2 DEF Activation
  <2>5. fr.align = 0 /\ Base(fr) % 2 = 0 /\ Before(fr) = Base(frames[Len(frames) - 1])
    BY <2>2 DEF IInv, Stacked, Running
  <2>6. /\ LSize(shape) \in Nat /\ LSize(shape) % 2 = 0
        /\ LSize(fr.shape) \in Nat /\ LSize(fr.shape) % 2 = 0
    BY <2>4, FramesAreEven
  <2>7. (fr.rbp + LSize(shape)) % 2 = 0
    <3>1. (fr.rbp + LSize(fr.shape)) % 2 = 0
      BY <2>4, <2>5, <2>6 DEF Base
    <3> HIDE DEF fr
    <3> QED
      BY <2>4, <2>6, <3>1, EvenSums
  <2>8. /\ new \in Activation /\ new.align = 0
        /\ Base(new) = fr.rbp + LSize(shape)
        /\ Before(new) = Before(fr)
    BY <2>4, NewFrameIsActivation DEF Before
  <2>9. /\ Stacked(gs) /\ Len(gs) = Len(frames) - 1
        /\ \A d \in 1 .. Len(frames) - 1 : gs[d] = frames[d]
    BY <2>2, PopActivation DEF IInv
  <2>10. gs[Len(gs)] = frames[Len(frames) - 1]
    BY <2>2, <2>9
  <2> HIDE DEF new, gs, fr
  <2>11. Stacked(frames') /\ frames' /= <<>> /\ Running' = new
    BY <2>3, <2>5, <2>7, <2>8, <2>9, <2>10, PushActivation DEF Running, new, gs
  <2>12. sp' = Base(Running') /\ sp' \in Int
    BY <2>3, <2>4, <2>6, <2>8, <2>11
  <2> QED
    BY <2>1, <2>2, <2>11, <2>12 DEF IInv, InLama
<1>9. CASE ReturnLama
  <2>1. InLama /\ UNCHANGED <<call, started>>
    BY <1>9 DEF ReturnLama
  <2>2. /\ Running \in Activation /\ frames /= <<>> /\ started
        /\ frames \in Seq(Activation) /\ Len(frames) \in Nat \ {0}
    BY <2>1, RunningIsActivation DEF InLama
  <2>3. sp' = Before(Running) /\ sp' \in Int
    BY <1>9, <2>2, BaseIsAPlace DEF ReturnLama, Before
  <2>4. CASE Len(frames) = 1
    <3>1. frames' = <<>>
      BY <1>9, <2>4 DEF ReturnLama
    <3>2. Stacked(frames')
      BY <3>1 DEF Stacked
    <3> QED
      BY <2>1, <2>2, <2>3, <3>1, <3>2 DEF IInv, InLama
  <2>5. CASE Len(frames) /= 1
    <3> DEFINE gs == Front(frames)
               n  == Len(frames) - 1
    <3>1. frames' = [gs EXCEPT ![n].depth = @ + 1]
      BY <1>9, <2>5 DEF ReturnLama
    <3>2. n \in Nat \ {0} /\ Len(frames) \in 2 .. Len(frames)
      <4>1. Len(frames) \in Nat \ {0} /\ Len(frames) /= 1
        BY <2>2, <2>5
      <4> HIDE DEF n
      <4>2. \A k \in Nat \ {0} : k /= 1 => k - 1 \in Nat \ {0} /\ k \in 2 .. k
        OBVIOUS
      <4>3. Len(frames) - 1 \in Nat \ {0} /\ Len(frames) \in 2 .. Len(frames)
        BY <4>1, <4>2
      <4> QED
        BY <4>3 DEF n
    <3>3. Stacked(gs) /\ Len(gs) = n /\ gs[n] = frames[n] /\ gs \in Seq(Activation)
      BY <2>2, <3>2, PopActivation DEF IInv, Stacked
    <3>4. gs[n] \in Activation /\ gs /= <<>>
      BY <3>2, <3>3
    <3>7. Before(Running) = Base(gs[n])
      BY <3>2, <3>3 DEF IInv, Stacked, Running
    <3> HIDE DEF gs, n
    <3>5. gs[n].depth + 1 \in Nat /\ frames' = [gs EXCEPT ![Len(gs)].depth = gs[n].depth + 1]
      <4>1. gs[n].depth \in Nat
        BY <3>4 DEF Activation
      <4>2. Len(gs) = n
        BY <3>3
      <4>3. frames' = [gs EXCEPT ![Len(gs)].depth = gs[n].depth + 1]
        BY <3>1, <4>2
      <4> QED
        BY <4>1, <4>3
    <3>6. Stacked(frames') /\ frames' /= <<>> /\ Base(Running') = Base(gs[n])
      BY <3>3, <3>4, <3>5, SetDepth DEF Running
    <3> QED
      BY <2>1, <2>2, <2>3, <3>6, <3>7 DEF IInv, InLama
  <2> QED
    BY <2>4, <2>5
<1>10. CASE UNCHANGED vars
  BY <1>10 DEF vars, IInv, Running
<1> QED
  BY <1>1, <1>2, <1>3, <1>4, <1>5, <1>6, <1>7, <1>8, <1>9, <1>10 DEF Next

-----------------------------------------------------------------------------
\* Every call, tail call and return leaves %rsp where the caller had it.
THEOREM CallsRestoreTheStack == Spec => []StackRestored
<1>1. Init => IInv
  BY InitIsStacked
<1>2. IInv /\ [Next]_vars => IInv'
  BY StepKeepsStacked
<1>3. IInv => StackRestored
  BY DEF IInv, StackRestored, InLama
<1> QED
  BY <1>1, <1>2, <1>3, PTL DEF Spec

\* However many registers and arguments the sequences push, each runtime call
\* finds the stack aligned to 16 bytes.
THEOREM SafePointsAreAligned == Spec => []RuntimeCallsAligned
<1>1. Init => IInv
  BY InitIsStacked
<1>2. IInv /\ [Next]_vars => IInv'
  BY StepKeepsStacked
<1>3. IInv => RuntimeCallsAligned
  BY DEF IInv, RuntimeCallsAligned
<1> QED
  BY <1>1, <1>2, <1>3, PTL DEF Spec

-----------------------------------------------------------------------------
(* Live values. *)

Clean == Kinds \ {"old"}

\* The registers whose value an activation needs, ...
LiveRegs(fr) ==
  {r \in Registers :
     \/ r = R15 /\ fr.shape.closure
     \/ \E i \in 1 .. Least(Named(fr.shape), ArgRegs) : r = ArgReg(i)
     \/ \E i \in 1 .. Least(fr.depth, SymRegs) : r = SymReg(i)}

\* ... and the words: parameters, assigned locals and operands.
LiveWords(fr) ==
  {w \in Int :
     \/ \E i \in ArgRegs .. fr.shape.nargs - 1 : w = Slot(fr, ArgSlot(i))
     \/ \E i \in fr.assigned : w = Slot(fr, i)
     \/ \E i \in SymRegs + 1 .. fr.depth : w = Slot(fr, PositionSlot(fr.shape, i))}

\* An activation keeps to the words it has.
Fits(fr) ==
  /\ fr.depth <= SymRegs + fr.shape.memory
  /\ fr.assigned \subseteq 0 .. fr.shape.nlocals - 1
  /\ StackArgs(fr.shape.nargs) <= fr.extra
  /\ Before(fr) >= 0
  /\ Base(fr) <= MaxWords

\* What a sequence saved from word b on is current in memory m as far as
\* activation fr needs it; main's argument registers need not be.
Kept(fr, saved, b, m) ==
  \A i \in 1 .. Len(saved) : saved[i] \in LiveRegs(fr) => m[b + i] \in Clean

\* All that the activations need in memory m is current, and what each of them
\* needs in registers is among those that the call it waits for will pop.
Sound(fs, m) ==
  /\ \A d \in 1 .. Len(fs) : Fits(fs[d])
  /\ \A d \in 1 .. Len(fs) : \A w \in LiveWords(fs[d]) : m[w] \in Clean
  /\ \A d \in 2 .. Len(fs) : /\ LiveRegs(fs[d - 1]) \subseteq Range(fs[d].saved)
                             /\ HasRoom(fs[d - 1], 1)
                             /\ Kept(fs[d - 1], fs[d].saved, Before(fs[d]), m)
  /\ \A d, e \in 1 .. Len(fs) : d <= e => Base(fs[d]) <= Base(fs[e])

\* The inductive invariant: the same of the runtime call under way, and of the
\* registers themselves while compiled code runs.
LInv ==
  /\ mem \in [1 .. MaxWords -> Kinds]
  /\ regs \in [Registers -> Kinds]
  /\ Sound(frames, mem)
  /\ InLama => \A r \in LiveRegs(Running) : regs[r] \in Clean
  /\ call.active => /\ LiveRegs(Running) \subseteq Range(call.saved)
                    /\ Kept(Running, call.saved, Base(Running), mem)
                    /\ call.result => HasRoom(Running, 1)
                    /\ sp <= MaxWords

\* What a call sequence and the prologue behind it leave in the stack: no old
\* pointer but in the slot that is not filled, and where main saved arguments.
Pushes(saved) ==
  /\ \A w \in 1 .. sp : mem[w] \in Clean => mem'[w] \in Clean
  /\ \A w \in sp + 1 .. sp' :
       \/ mem'[w] \in Clean
       \/ w \in Unfilled(Running')
       \/ /\ Running.shape.main
          /\ \E i \in 1 .. Len(saved) : w = sp + i /\ saved[i] \in MainArgRegs

\* The same of a tail call, which pushes nothing.
Refills ==
  /\ \A w \in 1 .. MaxWords : mem[w] \in Clean => mem'[w] \in Clean
  /\ \A w \in Running.rbp + 1 .. sp' : mem'[w] \in Clean \/ w \in Unfilled(Running')

-----------------------------------------------------------------------------
LEMMA CleanKinds == Clean \subseteq Kinds /\ "plain" \in Clean /\ "current" \in Clean
                    /\ "old" \notin Clean /\ \A k \in Kinds : k /= "old" => k \in Clean
  BY DEF Clean, Kinds

\* Where the parts of a frame are.
LEMMA FrameLayout ==
  ASSUME NEW fr \in Activation, Fits(fr)
  PROVE  /\ fr.rbp \in 2 .. Base(fr) /\ Base(fr) \in 2 .. MaxWords
         /\ Allocated(fr.shape) \in Nat /\ fr.rbp + Allocated(fr.shape) <= Base(fr)
         /\ Before(fr) + Len(fr.saved) + fr.extra + 2 = fr.rbp
         /\ Before(fr) \in Nat /\ Len(fr.saved) \in Nat
<1> DEFINE rbp    == fr.rbp
           extra  == fr.extra
           align  == fr.align
           pops   == Len(fr.saved)
           size   == LSize(fr.shape)
           used   == Allocated(fr.shape)
           before == Before(fr)
           base   == Base(fr)
<1>1. /\ rbp \in Int /\ extra \in Nat /\ pops \in Nat /\ align \in Nat
      /\ fr.shape \in Shapes
  BY DEF Activation
<1>2. used \in Nat
  BY <1>1, ShapesAssumption DEF Allocated
<1>3. size \in Nat /\ used <= size
  BY <1>2 DEF LSize
<1>4. before = rbp - 2 - extra - pops /\ base = rbp + size + align
  BY DEF Before, Base
<1>5. before >= 0 /\ base <= MaxWords
  BY DEF Fits
<1>6. before \in Int /\ base \in Int /\ MaxWords \in Nat
  BY BaseIsAPlace, ShapesAssumption
<1> HIDE DEF rbp, extra, align, pops, size, used, before, base
<1>7. /\ rbp \in 2 .. base /\ base \in 2 .. MaxWords /\ rbp + used <= base
      /\ before + pops + extra + 2 = rbp /\ before \in Nat
  BY <1>1, <1>2, <1>3, <1>4, <1>5, <1>6
<1> QED
  BY <1>1, <1>2, <1>7 DEF rbp, extra, align, pops, size, used, before, base

\* The word of a parameter that found no register, ...
LEMMA ParameterWord ==
  ASSUME NEW fr \in Activation, Fits(fr), NEW i \in ArgRegs .. fr.shape.nargs - 1
  PROVE  /\ Slot(fr, ArgSlot(i)) = fr.rbp - 2 - (i - ArgRegs)
         /\ i - ArgRegs \in Nat /\ i - ArgRegs < StackArgs(fr.shape.nargs)
         /\ Slot(fr, ArgSlot(i)) \in 1 .. Base(fr)
<1> DEFINE rbp    == fr.rbp
           extra  == fr.extra
           pops   == Len(fr.saved)
           n      == fr.shape.nargs
           k      == StackArgs(n)
           before == Before(fr)
           base   == Base(fr)
           slot   == ArgSlot(i)
<1>1. n \in Nat /\ ArgRegs \in Nat /\ extra \in Nat
  BY ShapesAssumption DEF Activation
<1>2. i \in Int /\ i - ArgRegs \in Nat /\ slot \in Int /\ slot < 0 /\ slot = -(i - ArgRegs) - 1
  BY <1>1 DEF ArgSlot
<1>3. k \in Nat /\ i - ArgRegs < k
  BY <1>1, <1>2 DEF StackArgs, Most
<1>4. k <= extra
  BY DEF Fits
<1>5. /\ rbp \in 2 .. base /\ base \in Int
      /\ before + pops + extra + 2 = rbp /\ before \in Nat /\ pops \in Nat
  BY FrameLayout
<1> HIDE DEF slot
<1>6. Slot(fr, slot) = rbp + slot - 1
  BY <1>2 DEF Slot
<1> HIDE DEF rbp, extra, pops, n, k, before, base
<1>7. rbp + slot - 1 = rbp - 2 - (i - ArgRegs) /\ rbp + slot - 1 \in 1 .. base
  BY <1>1, <1>2, <1>3, <1>4, <1>5
<1> QED
  BY <1>2, <1>3, <1>6, <1>7 DEF rbp, extra, pops, n, k, before, base, slot

\* ... of a register that the caller's sequence pushed, ...
LEMMA SavedWord ==
  ASSUME NEW fr \in Activation, Fits(fr), NEW i \in 1 .. Len(fr.saved)
  PROVE  Before(fr) + i \in 1 .. Base(fr)
<1> DEFINE rbp    == fr.rbp
           extra  == fr.extra
           pops   == Len(fr.saved)
           before == Before(fr)
           base   == Base(fr)
<1>1. extra \in Nat
  BY DEF Activation
<1>2. /\ rbp \in 2 .. base /\ base \in Int
      /\ before + pops + extra + 2 = rbp /\ before \in Nat /\ pops \in Nat
  BY FrameLayout
<1> HIDE DEF rbp, extra, before, base
<1>3. i \in 1 .. pops
  OBVIOUS
<1> HIDE DEF pops
<1>4. before + i \in 1 .. base
  BY <1>1, <1>2, <1>3
<1> QED
  BY <1>4 DEF before, base

\* ... of a local, ...
LEMMA LocalWord ==
  ASSUME NEW fr \in Activation, Fits(fr), NEW i \in 0 .. Allocated(fr.shape) - 1
  PROVE  Slot(fr, i) = fr.rbp + i + 1 /\ Slot(fr, i) \in 1 .. Base(fr)
<1> DEFINE rbp  == fr.rbp
           used == Allocated(fr.shape)
           base == Base(fr)
<1>1. rbp \in 2 .. base /\ base \in Int /\ used \in Nat /\ rbp + used <= base
  BY FrameLayout
<1>2. i \in 0 .. used - 1
  OBVIOUS
<1>3. i \in Int /\ i >= 0
  BY <1>1, <1>2
<1>4. Slot(fr, i) = rbp + i + 1
  BY <1>3 DEF Slot
<1> HIDE DEF rbp, used, base
<1>5. rbp + i + 1 \in 1 .. base
  BY <1>1, <1>2
<1> QED
  BY <1>4, <1>5 DEF rbp, base

\* ... and of an operand in memory.
LEMMA OperandWord ==
  ASSUME NEW fr \in Activation, Fits(fr), NEW i \in SymRegs + 1 .. SymRegs + fr.shape.memory
  PROVE  Slot(fr, PositionSlot(fr.shape, i)) \in 1 .. Base(fr)
<1>1. /\ fr.shape.nlocals \in Nat /\ fr.shape.memory \in Nat /\ SymRegs \in Nat
  BY ShapesAssumption DEF Activation
<1>2. PositionSlot(fr.shape, i) \in 0 .. Allocated(fr.shape) - 1
  BY <1>1 DEF PositionSlot, Allocated
<1> QED
  BY <1>2, LocalWord

LEMMA LiveWordsAreInFrame ==
  ASSUME NEW fr \in Activation, Fits(fr), NEW w \in LiveWords(fr)
  PROVE  w \in 1 .. Base(fr)
<1>1. CASE \E i \in ArgRegs .. fr.shape.nargs - 1 : w = Slot(fr, ArgSlot(i))
  BY <1>1, ParameterWord
<1>3. CASE \E i \in fr.assigned : w = Slot(fr, i)
  <2>1. PICK i \in fr.assigned : w = Slot(fr, i)
    BY <1>3
  <2>2. /\ fr.shape.nlocals \in Nat /\ fr.shape.memory \in Nat
    BY ShapesAssumption DEF Activation
  <2>3. i \in 0 .. fr.shape.nlocals - 1
    BY DEF Fits
  <2>4. i \in 0 .. Allocated(fr.shape) - 1
    BY <2>2, <2>3 DEF Allocated
  <2> QED
    BY <2>1, <2>4, LocalWord
<1>4. CASE \E i \in SymRegs + 1 .. fr.depth : w = Slot(fr, PositionSlot(fr.shape, i))
  <2>1. PICK i \in SymRegs + 1 .. fr.depth : w = Slot(fr, PositionSlot(fr.shape, i))
    BY <1>4
  <2>2. /\ fr.depth \in Nat /\ SymRegs \in Nat /\ fr.shape.memory \in Nat
        /\ fr.depth <= SymRegs + fr.shape.memory
    BY ShapesAssumption DEF Activation, Fits
  <2>3. i \in SymRegs + 1 .. SymRegs + fr.shape.memory
    BY <2>2
  <2> QED
    BY <2>1, <2>3, OperandWord
<1> QED
  BY <1>1, <1>3, <1>4 DEF LiveWords

-----------------------------------------------------------------------------
(***************************************************************************)
(* Soundness under the changes of the stack of activations and of memory.  *)
(***************************************************************************)
\* A step that writes no old pointer into the words in use harms no activation.
LEMMA SoundCleaner ==
  ASSUME NEW fs, NEW m, NEW n, Stacked(fs), Sound(fs, m), fs /= <<>>,
         \A w \in 1 .. Base(fs[Len(fs)]) : m[w] \in Clean => n[w] \in Clean
  PROVE  Sound(fs, n)
<1>1. fs \in Seq(Activation) /\ Len(fs) \in Nat \ {0}
  BY DEF Stacked
<1>2. ASSUME NEW d \in 1 .. Len(fs), NEW w \in 1 .. Base(fs[d]), m[w] \in Clean
      PROVE  n[w] \in Clean
  <2>1. fs[d] \in Activation
    BY <1>1
  <2>2. Len(fs) \in 1 .. Len(fs) /\ d <= Len(fs)
    BY <1>1
  <2>3. Base(fs[d]) <= Base(fs[Len(fs)])
    BY <2>2 DEF Sound
  <2>4. Base(fs[d]) \in Int /\ Base(fs[Len(fs)]) \in Int
    BY <1>1, <2>1, <2>2, BaseIsAPlace
  <2>5. w \in 1 .. Base(fs[Len(fs)])
    BY <2>3, <2>4
  <2> QED
    BY <1>2, <2>5
<1>3. ASSUME NEW d \in 1 .. Len(fs), NEW w \in LiveWords(fs[d])
      PROVE  n[w] \in Clean
  <2>1. fs[d] \in Activation /\ Fits(fs[d]) /\ m[w] \in Clean
    BY <1>1 DEF Sound
  <2>2. w \in 1 .. Base(fs[d])
    BY <2>1, LiveWordsAreInFrame
  <2> QED
    BY <1>2, <2>1, <2>2
<1>4. ASSUME NEW d \in 2 .. Len(fs)
      PROVE  Kept(fs[d - 1], fs[d].saved, Before(fs[d]), n)
  <2>1. d \in 1 .. Len(fs)
    BY <1>1
  <2>2. fs[d] \in Activation /\ Fits(fs[d])
    BY <1>1, <2>1 DEF Sound
  <2>3. Kept(fs[d - 1], fs[d].saved, Before(fs[d]), m)
    BY DEF Sound
  <2>4. \A i \in 1 .. Len(fs[d].saved) : Before(fs[d]) + i \in 1 .. Base(fs[d])
    BY <2>2, SavedWord
  <2> QED
    BY <1>2, <2>1, <2>3, <2>4 DEF Kept
<1> QED
  BY <1>3, <1>4 DEF Sound

LEMMA SoundTop ==
  ASSUME NEW fs, NEW m, Stacked(fs), Sound(fs, m), fs /= <<>>, NEW a \in Activation,
         a.shape = fs[Len(fs)].shape, a.rbp = fs[Len(fs)].rbp,
         a.align = fs[Len(fs)].align, a.saved = fs[Len(fs)].saved,
         a.extra = fs[Len(fs)].extra,
         Fits(a), \A w \in LiveWords(a) : m[w] \in Clean
  PROVE  Sound([fs EXCEPT ![Len(fs)] = a], m)
<1> DEFINE gs == [fs EXCEPT ![Len(fs)] = a]
<1>1. fs \in Seq(Activation) /\ Len(fs) \in Nat \ {0}
  BY DEF Stacked
<1>2. Len(gs) = Len(fs) /\ gs[Len(fs)] = a
      /\ \A d \in 1 .. Len(fs) : d /= Len(fs) => gs[d] = fs[d]
  BY <1>1
<1>3. \A d \in 1 .. Len(fs) : /\ Base(gs[d]) = Base(fs[d]) /\ gs[d].saved = fs[d].saved
                              /\ Before(gs[d]) = Before(fs[d])
  BY <1>2 DEF Base, Before
<1> HIDE DEF gs
<1>4. \A d \in 1 .. Len(gs) : Fits(gs[d]) /\ \A w \in LiveWords(gs[d]) : m[w] \in Clean
  BY <1>2 DEF Sound
<1>5. \A d \in 2 .. Len(gs) : d \in 2 .. Len(fs) /\ d \in 1 .. Len(fs)
                              /\ d - 1 \in 1 .. Len(fs) /\ d - 1 /= Len(fs)
  BY <1>1, <1>2
<1>6. \A d \in 2 .. Len(gs) : /\ LiveRegs(gs[d - 1]) \subseteq Range(gs[d].saved)
                              /\ HasRoom(gs[d - 1], 1)
                              /\ Kept(gs[d - 1], gs[d].saved, Before(gs[d]), m)
  BY <1>2, <1>3, <1>5 DEF Sound
<1>7. \A d, e \in 1 .. Len(gs) : d <= e => Base(gs[d]) <= Base(gs[e])
  BY <1>2, <1>3 DEF Sound
<1>8. Sound(gs, m)
  BY <1>4, <1>6, <1>7 DEF Sound
<1> QED
  BY <1>8 DEF gs

LEMMA SoundPush ==
  ASSUME NEW fs, NEW m, Stacked(fs), Sound(fs, m), fs /= <<>>, NEW a \in Activation,
         Fits(a), \A w \in LiveWords(a) : m[w] \in Clean,
         LiveRegs(fs[Len(fs)]) \subseteq Range(a.saved), HasRoom(fs[Len(fs)], 1),
         Kept(fs[Len(fs)], a.saved, Before(a), m), Before(a) = Base(fs[Len(fs)])
  PROVE  Sound(Append(fs, a), m)
<1> DEFINE gs == Append(fs, a)
<1>1. fs \in Seq(Activation) /\ Len(fs) \in Nat \ {0}
  BY DEF Stacked
<1>2. Len(gs) = Len(fs) + 1 /\ gs[Len(fs) + 1] = a /\ \A d \in 1 .. Len(fs) : gs[d] = fs[d]
  BY <1>1
<1>3. Base(fs[Len(fs)]) <= Base(a)
  <2> DEFINE b == Before(a)
             c == Base(a)
             r == a.rbp
             k == Len(a.saved)
             x == a.extra
  <2>1. b \in Nat /\ b + k + x + 2 = r /\ r \in 2 .. c /\ c \in Int /\ k \in Nat
    BY FrameLayout
  <2>2. x \in Nat
    BY DEF Activation
  <2> HIDE DEF b, c, r, k, x
  <2>3. b <= c
    BY <2>1, <2>2
  <2> QED
    BY <2>3 DEF b, c
<1> HIDE DEF gs
<1>4. \A d \in 1 .. Len(gs) : d \in 1 .. Len(fs) \/ d = Len(fs) + 1
  BY <1>1, <1>2
<1>5. \A d \in 1 .. Len(gs) : Fits(gs[d]) /\ \A w \in LiveWords(gs[d]) : m[w] \in Clean
  BY <1>2, <1>4 DEF Sound
<1>6. \A d \in 2 .. Len(gs) : /\ LiveRegs(gs[d - 1]) \subseteq Range(gs[d].saved)
                              /\ HasRoom(gs[d - 1], 1)
                              /\ Kept(gs[d - 1], gs[d].saved, Before(gs[d]), m)
  <2> SUFFICES ASSUME NEW d \in 2 .. Len(gs)
               PROVE  /\ LiveRegs(gs[d - 1]) \subseteq Range(gs[d].saved)
                      /\ HasRoom(gs[d - 1], 1)
                      /\ Kept(gs[d - 1], gs[d].saved, Before(gs[d]), m)
    OBVIOUS
  <2>1. CASE d \in 2 .. Len(fs)
    <3>1. d \in 1 .. Len(fs) /\ d - 1 \in 1 .. Len(fs)
      BY <1>1, <2>1
    <3> QED
      BY <1>2, <2>1, <3>1 DEF Sound
  <2>2. CASE d = Len(fs) + 1
    <3>1. Len(fs) \in 1 .. Len(fs) /\ d - 1 = Len(fs)
      BY <1>1, <2>2
    <3> QED
      BY <1>2, <2>2, <3>1
  <2>3. d \in 2 .. Len(fs) \/ d = Len(fs) + 1
    BY <1>1, <1>2
  <2> QED
    BY <2>1, <2>2, <2>3
<1>7. \A d, e \in 1 .. Len(gs) : d <= e => Base(gs[d]) <= Base(gs[e])
  <2> SUFFICES ASSUME NEW d \in 1 .. Len(gs), NEW e \in 1 .. Len(gs), d <= e
               PROVE  Base(gs[d]) <= Base(gs[e])
    OBVIOUS
  <2>1. CASE e \in 1 .. Len(fs)
    <3>1. d \in 1 .. Len(fs)
      BY <1>1, <1>2, <2>1
    <3> QED
      BY <1>2, <2>1, <3>1 DEF Sound
  <2>2. CASE d = Len(fs) + 1
    <3>1. e = d
      BY <1>1, <1>2, <2>2
    <3>2. Base(a) \in Int
      BY BaseIsAPlace
    <3> QED
      BY <1>2, <2>2, <3>1, <3>2
  <2>3. CASE d \in 1 .. Len(fs) /\ e = Len(fs) + 1
    <3>1. Len(fs) \in 1 .. Len(fs) /\ d <= Len(fs)
      BY <1>1, <2>3
    <3>2. Base(fs[d]) <= Base(fs[Len(fs)])
      BY <2>3, <3>1 DEF Sound
    <3>3. Base(fs[d]) \in Int /\ Base(fs[Len(fs)]) \in Int /\ Base(a) \in Int
      BY <1>1, <2>3, <3>1, BaseIsAPlace
    <3>4. Base(fs[d]) <= Base(a)
      BY <1>3, <3>2, <3>3
    <3> QED
      BY <1>2, <2>3, <3>4
  <2> QED
    BY <1>4, <2>1, <2>2, <2>3
<1>8. Sound(gs, m)
  BY <1>5, <1>6, <1>7 DEF Sound
<1> QED
  BY <1>8 DEF gs

LEMMA SoundPop ==
  ASSUME NEW fs, NEW m, Stacked(fs), Sound(fs, m), fs /= <<>>
  PROVE  Sound(Front(fs), m)
<1> DEFINE gs == Front(fs)
<1>1. fs \in Seq(Activation) /\ Len(fs) \in Nat \ {0}
  BY DEF Stacked
<1>2. Len(gs) = Len(fs) - 1 /\ \A d \in 1 .. Len(fs) - 1 : gs[d] = fs[d]
  BY PopActivation
<1> HIDE DEF gs
<1>3. \A d \in 1 .. Len(gs) : d \in 1 .. Len(fs) /\ d \in 1 .. Len(fs) - 1
  BY <1>1, <1>2
<1>4. \A d \in 2 .. Len(gs) : d \in 2 .. Len(fs) /\ d \in 1 .. Len(fs) - 1
                              /\ d - 1 \in 1 .. Len(fs) - 1
  BY <1>1, <1>2
<1>5. Sound(gs, m)
  BY <1>2, <1>3, <1>4 DEF Sound
<1> QED
  BY <1>5 DEF gs

-----------------------------------------------------------------------------
(***************************************************************************)
(* Operands: reading one, giving some up, placing a result.                *)
(***************************************************************************)
\* An operand of the symbolic stack is among what its function needs.
LEMMA ValueIsClean ==
  ASSUME NEW fr \in Activation, NEW i \in 1 .. fr.depth,
         \A w \in LiveWords(fr) : mem[w] \in Clean,
         \A r \in LiveRegs(fr) : regs[r] \in Clean, Fits(fr)
  PROVE  ValueAt(fr, i) \in Clean
<1>1. fr.depth \in Nat /\ SymRegs \in Nat
  BY ShapesAssumption DEF Activation
<1>2. CASE i <= SymRegs
  <2>1. i \in 1 .. Least(fr.depth, SymRegs) /\ i \in 1 .. SymRegs
    BY <1>1, <1>2 DEF Least
  <2>2. SymReg(i) \in Registers
    BY <2>1 DEF Registers
  <2>3. SymReg(i) \in LiveRegs(fr)
    BY <2>1, <2>2 DEF LiveRegs
  <2> QED
    BY <1>2, <2>3 DEF ValueAt, PositionIsRegister
<1>3. CASE ~(i <= SymRegs)
  <2> DEFINE w == Slot(fr, PositionSlot(fr.shape, i))
  <2>1. i \in SymRegs + 1 .. fr.depth
    BY <1>1, <1>3
  <2>2. fr.shape.memory \in Nat /\ fr.depth <= SymRegs + fr.shape.memory
    BY ShapesAssumption DEF Activation, Fits
  <2>3. i \in SymRegs + 1 .. SymRegs + fr.shape.memory
    BY <1>1, <2>1, <2>2
  <2>4. w \in 1 .. Base(fr)
    BY <2>3, OperandWord
  <2>5. w \in Int
    BY <2>4
  <2> HIDE DEF w
  <2>6. w \in LiveWords(fr)
    BY <2>1, <2>5 DEF LiveWords, w
  <2> QED
    BY <1>3, <2>6 DEF ValueAt, PositionIsRegister, w
<1> QED
  BY <1>2, <1>3

LEMMA WithDepth ==
  ASSUME NEW fr \in Activation, NEW k \in Nat
  PROVE  LET a == [fr EXCEPT !.depth = k]
         IN /\ a \in Activation /\ a.depth = k /\ a.assigned = fr.assigned
            /\ a.shape = fr.shape /\ a.rbp = fr.rbp
            /\ a.align = fr.align /\ a.saved = fr.saved /\ a.extra = fr.extra
  BY DEF Activation

\* A function with fewer operands needs less.
LEMMA FewerOperands ==
  ASSUME NEW fr \in Activation, NEW k \in Nat, k <= fr.depth, Fits(fr)
  PROVE  LET a == [fr EXCEPT !.depth = k]
         IN /\ Fits(a) /\ LiveWords(a) \subseteq LiveWords(fr)
            /\ LiveRegs(a) \subseteq LiveRegs(fr)
<1> DEFINE a == [fr EXCEPT !.depth = k]
<1>1. /\ a \in Activation /\ a.depth = k /\ a.assigned = fr.assigned
      /\ a.shape = fr.shape /\ a.rbp = fr.rbp
      /\ a.align = fr.align /\ a.saved = fr.saved /\ a.extra = fr.extra
  BY WithDepth
<1> HIDE DEF a
<1>2. /\ fr.depth \in Nat /\ fr.shape \in Shapes /\ SymRegs \in Nat
      /\ fr.shape.memory \in Nat
  BY ShapesAssumption DEF Activation
<1>3. Before(a) = Before(fr) /\ Base(a) = Base(fr) /\ \A i : Slot(a, i) = Slot(fr, i)
  BY <1>1 DEF Before, Base, Slot
<1>4. a.depth <= SymRegs + a.shape.memory
  <2>1. fr.depth <= SymRegs + fr.shape.memory
    BY DEF Fits
  <2> QED
    BY <1>1, <1>2, <2>1
<1>5. Fits(a)
  BY <1>1, <1>3, <1>4 DEF Fits
<1>6. SymRegs + 1 .. a.depth \subseteq SymRegs + 1 .. fr.depth
  BY <1>1, <1>2
<1>7. 1 .. Least(a.depth, SymRegs) \subseteq 1 .. Least(fr.depth, SymRegs)
  BY <1>1, <1>2 DEF Least
<1>8. LiveWords(a) \subseteq LiveWords(fr)
  BY <1>1, <1>3, <1>6 DEF LiveWords
<1>9. LiveRegs(a) \subseteq LiveRegs(fr)
  BY <1>1, <1>7 DEF LiveRegs
<1> QED
  BY <1>5, <1>8, <1>9 DEF a

\* One operand more is in one register or one word more.
LEMMA OneOperandMore ==
  ASSUME NEW fr \in Activation, Fits(fr), HasRoom(fr, 1)
  PROVE  LET a == [fr EXCEPT !.depth = fr.depth + 1]
             i == fr.depth + 1
         IN /\ Fits(a)
            /\ \A w \in LiveWords(a) : \/ w \in LiveWords(fr)
                                       \/ /\ ~PositionIsRegister(i)
                                          /\ w = Slot(fr, PositionSlot(fr.shape, i))
            /\ \A r \in LiveRegs(a) : r \in LiveRegs(fr) \/ (PositionIsRegister(i) /\ r = SymReg(i))
            /\ PositionIsRegister(i) => SymReg(i) \in Registers
            /\ ~PositionIsRegister(i) =>
                 Slot(fr, PositionSlot(fr.shape, i)) \in 1 .. Base(fr)
<1> DEFINE i == fr.depth + 1
           a == [fr EXCEPT !.depth = i]
<1>1. fr.depth \in Nat /\ i \in Nat /\ SymRegs \in Nat /\ fr.shape.memory \in Nat
  BY ShapesAssumption DEF Activation
<1>2. /\ a \in Activation /\ a.depth = i /\ a.assigned = fr.assigned
      /\ a.shape = fr.shape /\ a.rbp = fr.rbp
      /\ a.align = fr.align /\ a.saved = fr.saved /\ a.extra = fr.extra
  BY <1>1, WithDepth
<1>3. i <= SymRegs + fr.shape.memory
  BY DEF HasRoom
<1>4. i \in 1 .. i /\ \A j \in Int : j <= i => j = i \/ j <= fr.depth
  BY <1>1
<1> HIDE DEF a
<1>5. Before(a) = Before(fr) /\ Base(a) = Base(fr) /\ \A j : Slot(a, j) = Slot(fr, j)
  BY <1>2 DEF Before, Base, Slot
<1>6. Fits(a)
  BY <1>2, <1>3, <1>5 DEF Fits
<1>7. \A j \in SymRegs + 1 .. a.depth : j \in SymRegs + 1 .. fr.depth \/ (j = i /\ ~(i <= SymRegs))
  BY <1>1, <1>2
<1>8. \A j \in 1 .. Least(a.depth, SymRegs) :
        j \in 1 .. Least(fr.depth, SymRegs) \/ (j = i /\ i <= SymRegs)
  BY <1>1, <1>2 DEF Least
<1> HIDE DEF i
<1>9. \A w \in LiveWords(a) : \/ w \in LiveWords(fr)
                              \/ /\ ~PositionIsRegister(i)
                                 /\ w = Slot(fr, PositionSlot(fr.shape, i))
  BY <1>2, <1>5, <1>7 DEF LiveWords, PositionIsRegister
<1>10. \A r \in LiveRegs(a) : r \in LiveRegs(fr) \/ (PositionIsRegister(i) /\ r = SymReg(i))
  BY <1>2, <1>8 DEF LiveRegs, PositionIsRegister
<1>11. PositionIsRegister(i) => SymReg(i) \in Registers
  <2>1. i >= 1
    BY <1>1 DEF i
  <2>2. i <= SymRegs => i \in 1 .. SymRegs
    BY <1>1, <2>1
  <2> QED
    BY <2>2 DEF PositionIsRegister, Registers
<1>12. ~PositionIsRegister(i) => Slot(fr, PositionSlot(fr.shape, i)) \in 1 .. Base(fr)
  <2>1. ~(i <= SymRegs) => i \in SymRegs + 1 .. SymRegs + fr.shape.memory
    BY <1>1, <1>3
  <2> QED
    BY <2>1, OperandWord DEF PositionIsRegister
<1> QED
  BY <1>6, <1>9, <1>10, <1>11, <1>12 DEF a, i

\* The activation on top gives operands up.
LEMMA SoundDrop ==
  ASSUME NEW fs, NEW m, Stacked(fs), Sound(fs, m), fs /= <<>>,
         NEW k \in Nat, k <= fs[Len(fs)].depth
  PROVE  LET gs == [fs EXCEPT ![Len(fs)].depth = k]
         IN /\ Sound(gs, m) /\ Len(gs) = Len(fs)
            /\ gs[Len(gs)] = [fs[Len(fs)] EXCEPT !.depth = k]
            /\ LiveRegs(gs[Len(gs)]) \subseteq LiveRegs(fs[Len(fs)])
<1> DEFINE fr == fs[Len(fs)]
           a  == [fr EXCEPT !.depth = k]
           gs == [fs EXCEPT ![Len(fs)] = a]
<1>1. fs \in Seq(Activation) /\ Len(fs) \in 1 .. Len(fs)
  BY DEF Stacked
<1>2. fr \in Activation /\ Fits(fr) /\ \A w \in LiveWords(fr) : m[w] \in Clean
  BY <1>1 DEF Sound
<1>3. /\ a \in Activation /\ a.shape = fr.shape /\ a.rbp = fr.rbp
      /\ a.align = fr.align /\ a.saved = fr.saved /\ a.extra = fr.extra
  BY <1>2, WithDepth
<1>4. Fits(a) /\ LiveWords(a) \subseteq LiveWords(fr) /\ LiveRegs(a) \subseteq LiveRegs(fr)
  BY <1>2, FewerOperands
<1>5. Len(gs) = Len(fs) /\ gs[Len(gs)] = a
  BY <1>1
<1>6. [fs EXCEPT ![Len(fs)].depth = k] = gs
  OBVIOUS
<1> HIDE DEF a
<1>7. Sound(gs, m)
  BY <1>2, <1>3, <1>4, SoundTop
<1> HIDE DEF gs
<1> QED
  BY <1>4, <1>5, <1>6, <1>7 DEF a

\* The activation on top receives a result, in registers r and memory m.
LEMMA SoundResult ==
  ASSUME NEW fs, NEW m, NEW r, Stacked(fs), Sound(fs, m), fs /= <<>>,
         m \in [1 .. MaxWords -> Kinds], r \in [Registers -> Kinds],
         \A x \in LiveRegs(fs[Len(fs)]) : r[x] \in Clean,
         HasRoom(fs[Len(fs)], 1), WithResult(fs[Len(fs)], r, m)
  PROVE  LET gs == [fs EXCEPT ![Len(fs)].depth = fs[Len(fs)].depth + 1]
         IN /\ Sound(gs, mem') /\ Len(gs) = Len(fs)
            /\ \A x \in LiveRegs(gs[Len(gs)]) : regs'[x] \in Clean
            /\ mem' \in [1 .. MaxWords -> Kinds] /\ regs' \in [Registers -> Kinds]
<1> DEFINE fr == fs[Len(fs)]
           i  == fr.depth + 1
           a  == [fr EXCEPT !.depth = fr.depth + 1]
           gs == [fs EXCEPT ![Len(fs)] = a]
           w0 == Slot(fr, PositionSlot(fr.shape, i))
<1>1. fs \in Seq(Activation) /\ Len(fs) \in 1 .. Len(fs)
  BY DEF Stacked
<1>2. fr \in Activation /\ Fits(fr) /\ \A w \in LiveWords(fr) : m[w] \in Clean
  BY <1>1 DEF Sound
<1>3. fr.depth + 1 \in Nat
  BY <1>2 DEF Activation
<1>4. /\ a \in Activation /\ a.shape = fr.shape /\ a.rbp = fr.rbp
      /\ a.align = fr.align /\ a.saved = fr.saved /\ a.extra = fr.extra
  BY <1>2, <1>3, WithDepth
<1>5. /\ Fits(a)
      /\ \A w \in LiveWords(a) : w \in LiveWords(fr) \/ (~PositionIsRegister(i) /\ w = w0)
      /\ \A x \in LiveRegs(a) : x \in LiveRegs(fr) \/ (PositionIsRegister(i) /\ x = SymReg(i))
      /\ PositionIsRegister(i) => SymReg(i) \in Registers
      /\ ~PositionIsRegister(i) => w0 \in 1 .. Base(fr)
  BY <1>2, OneOperandMore
<1>6. Len(gs) = Len(fs) /\ gs[Len(gs)] = a
  BY <1>1
<1>7. [fs EXCEPT ![Len(fs)].depth = fs[Len(fs)].depth + 1] = gs
  OBVIOUS
<1>8. 1 .. Base(fr) \subseteq 1 .. MaxWords
  <2>1. Base(fr) \in Int /\ MaxWords \in Int /\ Base(fr) <= MaxWords
    BY <1>2, BaseIsAPlace, ShapesAssumption DEF Fits
  <2> QED
    BY <2>1
<1> HIDE DEF a
<1>9. CASE PositionIsRegister(i)
  <2>1. regs' = [r EXCEPT ![SymReg(i)] = "current"] /\ mem' = m
    BY <1>9 DEF WithResult
  <2>2. /\ regs' \in [Registers -> Kinds] /\ regs'[SymReg(i)] \in Clean
        /\ \A x \in Registers : r[x] \in Clean => regs'[x] \in Clean
    BY <1>5, <1>9, <2>1, CleanKinds
  <2>3. \A x \in LiveRegs(a) : x \in Registers
    BY DEF LiveRegs
  <2>4. \A x \in LiveRegs(a) : regs'[x] \in Clean
    BY <1>5, <2>2, <2>3
  <2>5. \A w \in LiveWords(a) : m[w] \in Clean
    BY <1>2, <1>5, <1>9
  <2>6. Sound(gs, m)
    BY <1>2, <1>4, <1>5, <2>5, SoundTop
  <2> HIDE DEF gs
  <2> QED
    BY <1>6, <1>7, <2>1, <2>2, <2>4, <2>6
<1>10. CASE ~PositionIsRegister(i)
  <2>1. regs' = r /\ mem' = [m EXCEPT ![w0] = "current"]
    BY <1>10 DEF WithResult
  <2>2. w0 \in 1 .. MaxWords
    BY <1>5, <1>8, <1>10
  <2> HIDE DEF w0
  <2>3. /\ mem' \in [1 .. MaxWords -> Kinds] /\ mem'[w0] \in Clean
        /\ \A w \in 1 .. MaxWords : m[w] \in Clean => mem'[w] \in Clean
    BY <2>1, <2>2, CleanKinds
  <2>4. \A x \in LiveRegs(a) : regs'[x] \in Clean
    BY <1>5, <1>10, <2>1
  <2>5. \A w \in 1 .. Base(fr) : m[w] \in Clean => mem'[w] \in Clean
    BY <1>8, <2>3
  <2>6. Sound(fs, mem')
    BY <2>5, SoundCleaner
  <2>7. \A w \in LiveWords(a) : mem'[w] \in Clean
    <3>1. \A w \in LiveWords(fr) : w \in 1 .. Base(fr)
      BY <1>2, LiveWordsAreInFrame
    <3> QED
      BY <1>2, <1>5, <2>3, <2>5, <3>1
  <2>8. Sound(gs, mem')
    BY <1>2, <1>4, <1>5, <2>6, <2>7, SoundTop
  <2> HIDE DEF gs
  <2> QED
    BY <1>6, <1>7, <2>1, <2>3, <2>4, <2>8
<1> QED
  BY <1>9, <1>10

-----------------------------------------------------------------------------
(***************************************************************************)
(* What the sequences write, and what they pop.                            *)
(***************************************************************************)
\* The prologue's fillers are no pointers.
LEMMA FilledIsClean ==
  ASSUME NEW m \in [1 .. MaxWords -> Kinds], NEW rbp, NEW shape
  PROVE  /\ Filled(m, rbp, shape) \in [1 .. MaxWords -> Kinds]
         /\ \A w \in 1 .. MaxWords : m[w] \in Clean => Filled(m, rbp, shape)[w] \in Clean
<1>1. \A w \in 1 .. MaxWords : Filled(m, rbp, shape)[w] \in {"plain", m[w]}
  BY DEF Filled
<1>2. Filled(m, rbp, shape) = [w \in 1 .. MaxWords |-> Filled(m, rbp, shape)[w]]
  BY DEF Filled
<1> QED
  BY <1>1, <1>2, CleanKinds

\* ... and only the slot of an odd frame is left as it was.
LEMMA FrameIsFilled ==
  ASSUME NEW m \in [1 .. MaxWords -> Kinds], NEW shape \in Shapes, NEW rbp \in Int,
         NEW w \in rbp + 1 .. rbp + LSize(shape), w \in 1 .. MaxWords
  PROVE  \/ Filled(m, rbp, shape)[w] \in Clean
         \/ w \in rbp + 1 .. rbp + LSize(shape) - Allocated(shape)
<1>1. Allocated(shape) \in Nat /\ LSize(shape) \in Nat
  BY FramesAreEven, ShapesAssumption DEF Allocated
<1>2. CASE w \in rbp + LSize(shape) - Allocated(shape) + 1 .. rbp + LSize(shape)
  <2>1. Filled(m, rbp, shape)[w] = "plain"
    BY <1>2 DEF Filled
  <2> QED
    BY <2>1, CleanKinds
<1>3. CASE ~(w \in rbp + LSize(shape) - Allocated(shape) + 1 .. rbp + LSize(shape))
  BY <1>1, <1>3
<1> QED
  BY <1>2, <1>3

\* The pushes of a sequence.
LEMMA PushedWords ==
  ASSUME NEW m \in [1 .. MaxWords -> Kinds], NEW s \in Nat, NEW values \in Seq(Kinds)
  PROVE  /\ PushAll(m, s, values) \in [1 .. MaxWords -> Kinds]
         /\ \A w \in 1 .. MaxWords : w <= s => PushAll(m, s, values)[w] = m[w]
         /\ \A i \in 1 .. Len(values) : s + i \in 1 .. MaxWords =>
              PushAll(m, s, values)[s + i] = values[i]
<1>1. Len(values) \in Nat /\ \A i \in 1 .. Len(values) : values[i] \in Kinds
  OBVIOUS
<1>2. /\ \A w \in s + 1 .. s + Len(values) : w - s \in 1 .. Len(values)
      /\ \A i \in 1 .. Len(values) : s + i \in s + 1 .. s + Len(values) /\ s + i - s = i
      /\ \A w \in Int : w <= s => ~(w \in s + 1 .. s + Len(values))
  BY <1>1
<1>3. \A w \in 1 .. MaxWords :
        PushAll(m, s, values)[w] = IF w \in s + 1 .. s + Len(values) THEN values[w - s] ELSE m[w]
  BY DEF PushAll
<1>4. PushAll(m, s, values) = [w \in 1 .. MaxWords |-> PushAll(m, s, values)[w]]
  BY DEF PushAll
<1>5. \A w \in 1 .. MaxWords : PushAll(m, s, values)[w] \in Kinds
  BY <1>1, <1>2, <1>3
<1>6. \A w \in 1 .. MaxWords : w <= s => PushAll(m, s, values)[w] = m[w]
  BY <1>2, <1>3
<1>7. \A i \in 1 .. Len(values) : s + i \in 1 .. MaxWords =>
              PushAll(m, s, values)[s + i] = values[i]
  BY <1>2, <1>3
<1> HIDE DEF PushAll
<1> QED
  BY <1>4, <1>5, <1>6, <1>7

LEMMA ConcatRange ==
  ASSUME NEW S, NEW s \in Seq(S), NEW t \in Seq(S)
  PROVE  /\ Range(s) \subseteq Range(s \o t) /\ Range(t) \subseteq Range(s \o t)
         /\ Range(s \o t) \subseteq Range(s) \union Range(t)
<1>1. /\ Len(s) \in Nat /\ Len(t) \in Nat /\ DOMAIN s = 1 .. Len(s) /\ DOMAIN t = 1 .. Len(t)
  OBVIOUS
<1>2. /\ s \o t \in Seq(S) /\ Len(s \o t) = Len(s) + Len(t)
      /\ DOMAIN (s \o t) = 1 .. Len(s) + Len(t)
  OBVIOUS
<1>3. \A i \in 1 .. Len(s) : i \in DOMAIN (s \o t) /\ (s \o t)[i] = s[i]
  BY <1>1, <1>2
<1>4. \A i \in 1 .. Len(t) : Len(s) + i \in DOMAIN (s \o t) /\ (s \o t)[Len(s) + i] = t[i]
  BY <1>1, <1>2
<1>5. \A j \in DOMAIN (s \o t) : \/ j \in 1 .. Len(s)
                                 \/ \E i \in 1 .. Len(t) : j = Len(s) + i
  <2> SUFFICES ASSUME NEW j \in 1 .. Len(s) + Len(t), ~(j \in 1 .. Len(s))
               PROVE  \E i \in 1 .. Len(t) : j = Len(s) + i
    BY <1>2
  <2>1. j - Len(s) \in 1 .. Len(t) /\ j = Len(s) + (j - Len(s))
    BY <1>1
  <2> QED
    BY <2>1
<1>6. \A j \in DOMAIN (s \o t) : (s \o t)[j] \in Range(s) \union Range(t)
  BY <1>1, <1>3, <1>4, <1>5 DEF Range
<1> QED
  BY <1>1, <1>3, <1>4, <1>6 DEF Range

\* protect_registers pushes all that the function still needs, and nothing else
\* but the argument registers of main.
LEMMA LiveAreProtected ==
  ASSUME NEW fr \in Activation, NEW left \in Nat, NEW k \in Nat, k <= left
  PROVE  /\ LiveRegs([fr EXCEPT !.depth = k]) \subseteq Range(ProtectRegisters(fr, left))
         /\ left <= fr.depth => \A r \in Range(ProtectRegisters(fr, left)) :
              r \in LiveRegs(fr) \/ (fr.shape.main /\ r \in MainArgRegs)
<1> DEFINE n == Least(fr.shape.nargs, ArgRegs)
           l == Least(left, SymRegs)
           A == [i \in 1 .. n |-> ArgReg(i)]
           B == [i \in 1 .. l |-> SymReg(i)]
           C == IF fr.shape.closure THEN <<R15>> ELSE <<>>
<1>1. /\ SymRegs \in Nat /\ ArgRegs \in Nat /\ fr.shape.nargs \in Nat
      /\ fr.shape.closure \in BOOLEAN
      /\ Named(fr.shape) \in Nat /\ Named(fr.shape) <= fr.shape.nargs
  BY ShapesAssumption, NamedParameters DEF Activation
<1>2. /\ n \in Nat /\ n <= ArgRegs /\ l \in Nat /\ l <= SymRegs
      /\ 1 .. Least(Named(fr.shape), ArgRegs) \subseteq 1 .. n
  BY <1>1 DEF Least
<1>3. /\ \A i \in 1 .. n : ArgReg(i) \in Registers
      /\ \A i \in 1 .. l : SymReg(i) \in Registers
      /\ R15 \in Registers
  <2>1. 1 .. n \subseteq 1 .. ArgRegs /\ 1 .. l \subseteq 1 .. SymRegs
    BY <1>1, <1>2
  <2> QED
    BY <2>1 DEF Registers
<1>4. A \in Seq(Registers) /\ B \in Seq(Registers) /\ C \in Seq(Registers)
  <2>1. A \in Seq(Registers) /\ B \in Seq(Registers)
    BY <1>2, <1>3
  <2>2. <<R15>> \in Seq(Registers) /\ <<>> \in Seq(Registers)
    BY <1>3
  <2> QED
    BY <2>1, <2>2
<1>5. /\ \A x : x \in Range(A) <=> \E i \in 1 .. n : x = ArgReg(i)
      /\ \A x : x \in Range(B) <=> \E i \in 1 .. l : x = SymReg(i)
  BY DEF Range
<1>6. \A x : x \in Range(C) <=> (x = R15 /\ fr.shape.closure)
  <2>1. CASE fr.shape.closure
    <3>1. C = <<R15>> /\ DOMAIN <<R15>> = {1} /\ <<R15>>[1] = R15
      BY <2>1
    <3> QED
      BY <2>1, <3>1 DEF Range
  <2>2. CASE ~fr.shape.closure
    <3>1. C = <<>> /\ DOMAIN <<>> = {}
      BY <2>2
    <3> QED
      BY <2>2, <3>1 DEF Range
  <2> QED
    BY <2>1, <2>2
<1>7. ProtectRegisters(fr, left) = C \o (A \o B)
  BY DEF ProtectRegisters, LiveRegisters
<1>8. \A x : x \in Range(ProtectRegisters(fr, left)) <=>
               (x \in Range(A) \/ x \in Range(B) \/ x \in Range(C))
  <2> HIDE DEF A, B, C
  <2> DEFINE D == A \o B
  <2>1. D \in Seq(Registers)
    BY <1>4
  <2>2. /\ Range(A) \subseteq Range(D) /\ Range(B) \subseteq Range(D)
        /\ Range(D) \subseteq Range(A) \union Range(B)
    BY <1>4, ConcatRange
  <2> HIDE DEF D
  <2>3. /\ Range(C) \subseteq Range(C \o D) /\ Range(D) \subseteq Range(C \o D)
        /\ Range(C \o D) \subseteq Range(C) \union Range(D)
    BY <1>4, <2>1, ConcatRange
  <2>4. ProtectRegisters(fr, left) = C \o D
    BY <1>7 DEF D
  <2> QED
    BY <2>2, <2>3, <2>4
<1> HIDE DEF A, B, C
<1> DEFINE a == [fr EXCEPT !.depth = k]
<1>9. a.shape = fr.shape /\ a.depth = k
  BY WithDepth
<1> HIDE DEF a
<1>10. 1 .. Least(a.depth, SymRegs) \subseteq 1 .. l
  BY <1>1, <1>9 DEF Least
<1>11. LiveRegs(a) \subseteq Range(ProtectRegisters(fr, left))
  BY <1>2, <1>5, <1>6, <1>8, <1>9, <1>10 DEF LiveRegs
<1>12. ASSUME left <= fr.depth, NEW r \in Range(ProtectRegisters(fr, left))
       PROVE  r \in LiveRegs(fr) \/ (fr.shape.main /\ r \in MainArgRegs)
  <2>1. CASE r \in Range(A)
    <3>1. PICK i \in 1 .. n : r = ArgReg(i)
      BY <1>5, <2>1
    <3>2. CASE fr.shape.main
      <4>1. fr.shape.nargs = MainArgs /\ MainArgs \in Nat
        BY <3>2, ShapesAssumption DEF Activation, MainArgs
      <4>2. i \in 1 .. MainArgs
        BY <1>1, <4>1 DEF Least
      <4> QED
        BY <3>1, <3>2, <4>2 DEF MainArgRegs
    <3>3. CASE ~fr.shape.main
      <4>1. Named(fr.shape) = fr.shape.nargs
        BY <3>3 DEF Named
      <4> QED
        BY <1>3, <3>1, <4>1 DEF LiveRegs
    <3> QED
      BY <3>2, <3>3
  <2>2. CASE r \in Range(B)
    <3>1. PICK i \in 1 .. l : r = SymReg(i)
      BY <1>5, <2>2
    <3>2. fr.depth \in Nat
      BY DEF Activation
    <3>3. i \in 1 .. Least(fr.depth, SymRegs)
      BY <1>1, <1>12, <3>2 DEF Least
    <3> QED
      BY <1>3, <3>1, <3>3 DEF LiveRegs
  <2>3. CASE r \in Range(C)
    BY <1>3, <1>6, <2>3 DEF LiveRegs
  <2> QED
    BY <1>8, <1>12, <2>1, <2>2, <2>3
<1> QED
  BY <1>11, <1>12 DEF a

\* What a sequence pushes: registers as they are, then fillers and arguments.
LEMMA PushedValues ==
  ASSUME NEW saved \in Seq(Registers), NEW args \in Seq(Clean),
         regs \in [Registers -> Kinds]
  PROVE  LET p == PushValues(saved, args)
         IN /\ p \in Seq(Kinds)
            /\ \A i \in 1 .. Len(saved) : p[i] = regs[saved[i]]
            /\ \A i \in Len(saved) + 1 .. Len(p) : p[i] \in Clean
<1> DEFINE s == [i \in DOMAIN saved |-> regs[saved[i]]]
           n == Fillers(Len(saved), Len(args))
           f == [i \in 1 .. n |-> "plain"]
           t == f \o args
           l == Len(saved)
<1>1. DOMAIN saved = 1 .. l /\ l \in Nat /\ Len(args) \in Nat
  OBVIOUS
<1>2. \A i \in 1 .. l : regs[saved[i]] \in Kinds
  BY <1>1
<1>3. s \in Seq(Kinds) /\ Len(s) = l /\ \A i \in 1 .. l : s[i] = regs[saved[i]]
  BY <1>1, <1>2
<1>4. n \in Nat
  BY <1>1 DEF Fillers
<1>5. f \in Seq(Clean)
  BY <1>4, CleanKinds
<1> HIDE DEF s, f
<1>6. t \in Seq(Clean) /\ t \in Seq(Kinds)
  BY <1>5, CleanKinds
<1>7. PushValues(saved, args) = s \o t
  <2>1. (s \o f) \o args = s \o (f \o args)
    BY <1>3, <1>5, CleanKinds
  <2> QED
    BY <2>1 DEF PushValues, s, f
<1> HIDE DEF t, l
<1>8. /\ s \o t \in Seq(Kinds) /\ Len(s \o t) = l + Len(t) /\ Len(t) \in Nat
      /\ \A i \in 1 .. l : (s \o t)[i] = s[i]
      /\ \A i \in l + 1 .. l + Len(t) : (s \o t)[i] = t[i - l] /\ i - l \in 1 .. Len(t)
  <2>1. Len(t) \in Nat /\ s \o t \in Seq(Kinds)
    BY <1>3, <1>6
  <2>2. Len(s \o t) = l + Len(t)
    <3>1. Len(s \o t) = Len(s) + Len(t)
      BY <1>3, <1>6, ConcatProperties
    <3>2. Len(s) = l
      BY <1>3
    <3> QED
      BY <3>1, <3>2
  <2>3. \A i \in 1 .. Len(s) + Len(t) :
          (s \o t)[i] = IF i <= Len(s) THEN s[i] ELSE t[i - Len(s)]
    BY <1>3, <1>6
  <2>4. /\ \A i \in 1 .. l : i \in 1 .. l + Len(t) /\ i <= l
        /\ \A i \in l + 1 .. l + Len(t) : /\ i \in 1 .. l + Len(t) /\ ~(i <= l)
                                          /\ i - l \in 1 .. Len(t)
    BY <1>1, <2>1
  <2> QED
    BY <1>3, <2>1, <2>2, <2>3, <2>4
<1>9. \A i \in 1 .. Len(t) : t[i] \in Clean
  BY <1>6
<1> QED
  BY <1>3, <1>7, <1>8, <1>9 DEF l

\* A sequence pops what it pushed.
LEMMA RestoredAreClean ==
  ASSUME NEW fr, NEW saved \in Seq(Registers), NEW base \in Int, NEW m,
         \A i \in 1 .. Len(saved) : m[base + i] \in Kinds,
         Kept(fr, saved, base, m), LiveRegs(fr) \subseteq Range(saved)
  PROVE  /\ Restored(saved, base, m) \in [Registers -> Kinds]
         /\ \A r \in LiveRegs(fr) : Restored(saved, base, m)[r] \in Clean
<1>1. DOMAIN saved = 1 .. Len(saved)
  OBVIOUS
<1>2. ASSUME NEW r \in Range(saved)
      PROVE  LET j == CHOOSE i \in DOMAIN saved : saved[i] = r
             IN r \in Registers /\ j \in 1 .. Len(saved) /\ saved[j] = r
  <2>1. \E i \in DOMAIN saved : saved[i] = r
    BY <1>2 DEF Range
  <2>2. /\ (CHOOSE i \in DOMAIN saved : saved[i] = r) \in DOMAIN saved
        /\ saved[CHOOSE i \in DOMAIN saved : saved[i] = r] = r
    BY <2>1
  <2> QED
    BY <1>1, <2>2
<1>3. ASSUME NEW r \in Range(saved)
      PROVE  /\ Restored(saved, base, m)[r] \in Kinds
             /\ r \in LiveRegs(fr) => Restored(saved, base, m)[r] \in Clean
  <2> DEFINE j == CHOOSE i \in DOMAIN saved : saved[i] = r
  <2>1. r \in Registers /\ j \in 1 .. Len(saved) /\ saved[j] = r
    BY <1>2
  <2>2. Restored(saved, base, m)[r] = m[base + j]
    BY <2>1 DEF Restored
  <2> HIDE DEF j
  <2> QED
    BY <2>1, <2>2 DEF Kept
<1>4. \A r \in Registers : r \notin Range(saved) => Restored(saved, base, m)[r] = "old"
  BY DEF Restored
<1>5. \A r \in Registers : Restored(saved, base, m)[r] \in Kinds
  <2>1. "old" \in Kinds
    BY DEF Kinds
  <2> QED
    BY <1>3, <1>4, <2>1
<1>6. Restored(saved, base, m) = [r \in Registers |-> Restored(saved, base, m)[r]]
  BY DEF Restored
<1> QED
  BY <1>3, <1>5, <1>6

-----------------------------------------------------------------------------
(***************************************************************************)
(* The steps.                                                              *)
(***************************************************************************)
LEMMA RunningIsSound ==
  ASSUME IInv, LInv, frames /= <<>>
  PROVE  /\ Running \in Activation /\ Fits(Running) /\ Stacked(frames)
         /\ \A w \in LiveWords(Running) : mem[w] \in Clean
         /\ Base(Running) \in 2 .. MaxWords
<1>1. Running \in Activation /\ Len(frames) \in 1 .. Len(frames) /\ Stacked(frames)
  BY RunningIsActivation DEF IInv
<1>2. Fits(Running) /\ \A w \in LiveWords(Running) : mem[w] \in Clean
  BY <1>1 DEF LInv, Sound, Running
<1> QED
  BY <1>1, <1>2, FrameLayout

\* What is left to show when compiled code runs after the step.
LEMMA CodeRuns ==
  ASSUME ~call'.active, Sound(frames', mem'),
         mem' \in [1 .. MaxWords -> Kinds], regs' \in [Registers -> Kinds],
         frames' /= <<>> => \A r \in LiveRegs(Running') : regs'[r] \in Clean
  PROVE  LInv'
  BY DEF LInv, InLama

LEMMA InitIsSound == Init => LInv
<1> SUFFICES ASSUME Init
             PROVE  LInv
  OBVIOUS
<1>1. frames = <<>> /\ ~call.active
  BY DEF Init, NoCall
<1>2. "plain" \in Kinds
  BY DEF Kinds
<1>3. mem \in [1 .. MaxWords -> Kinds] /\ regs \in [Registers -> Kinds]
  BY <1>2 DEF Init
<1>4. Sound(frames, mem)
  BY <1>1 DEF Sound
<1> QED
  BY <1>1, <1>3, <1>4 DEF LInv, InLama

LEMMA PushOperandKeeps ==
  ASSUME IInv, LInv, PushOperand
  PROVE  LInv'
<1>1. /\ InLama /\ HasRoom(Running, 1) /\ WithResult(Running, regs, mem) /\ call' = call
      /\ frames' = [frames EXCEPT ![Len(frames)].depth = frames[Len(frames)].depth + 1]
  BY DEF PushOperand
<1>2. frames /= <<>> /\ ~call.active
  BY <1>1 DEF InLama
<1>3. Stacked(frames)
  BY DEF IInv
<1>4. /\ Sound(frames, mem) /\ mem \in [1 .. MaxWords -> Kinds]
      /\ regs \in [Registers -> Kinds] /\ \A x \in LiveRegs(Running) : regs[x] \in Clean
  BY <1>1 DEF LInv
<1>5. /\ Sound(frames', mem')
      /\ \A x \in LiveRegs(Running') : regs'[x] \in Clean
      /\ mem' \in [1 .. MaxWords -> Kinds] /\ regs' \in [Registers -> Kinds]
  BY <1>1, <1>2, <1>3, <1>4, SoundResult DEF Running
<1> QED
  BY <1>1, <1>2, <1>5, CodeRuns

LEMMA DropKeeps ==
  ASSUME IInv, LInv, Drop
  PROVE  LInv'
<1>1. /\ InLama /\ Running.depth > 0 /\ UNCHANGED <<mem, regs, call>>
      /\ frames' = [frames EXCEPT ![Len(frames)].depth = Running.depth - 1]
  BY DEF Drop, Running
<1>2. frames /= <<>> /\ ~call.active
  BY <1>1 DEF InLama
<1>3. Running \in Activation /\ Stacked(frames)
  BY <1>2, RunningIsSound
<1>4. Running.depth - 1 \in Nat /\ Running.depth - 1 <= Running.depth
  BY <1>1, <1>3 DEF Activation
<1> DEFINE k == Running.depth - 1
<1>5. /\ Sound(frames, mem) /\ mem \in [1 .. MaxWords -> Kinds]
      /\ regs \in [Registers -> Kinds] /\ \A x \in LiveRegs(Running) : regs[x] \in Clean
  BY <1>1 DEF LInv
<1>6. k \in Nat /\ k <= frames[Len(frames)].depth
      /\ frames' = [frames EXCEPT ![Len(frames)].depth = k]
  BY <1>1, <1>4 DEF Running
<1> HIDE DEF k
<1>7. Sound(frames', mem) /\ LiveRegs(Running') \subseteq LiveRegs(Running)
  BY <1>2, <1>3, <1>5, <1>6, SoundDrop DEF Running
<1> QED
  BY <1>1, <1>2, <1>5, <1>7, CodeRuns

LEMMA StoreLocalKeeps ==
  ASSUME IInv, LInv, StoreLocal
  PROVE  LInv'
<1>1. InLama /\ Running.depth > 0 /\ UNCHANGED <<regs, call>>
  BY DEF StoreLocal
<1>2. PICK i \in 0 .. Running.shape.nlocals - 1 :
        /\ mem' = [mem EXCEPT ![Slot(Running, i)] = ValueAt(Running, Running.depth)]
        /\ frames' = [frames EXCEPT ![Len(frames)].assigned = @ \union {i}]
  BY DEF StoreLocal
<1> DEFINE fr == Running
           a  == [fr EXCEPT !.assigned = @ \union {i}]
           w0 == Slot(fr, i)
           v  == ValueAt(fr, fr.depth)
<1>3. frames /= <<>> /\ ~call.active
  BY <1>1 DEF InLama
<1>4. /\ fr \in Activation /\ Fits(fr) /\ Stacked(frames)
      /\ \A w \in LiveWords(fr) : mem[w] \in Clean
      /\ Base(fr) \in 2 .. MaxWords
  BY <1>3, RunningIsSound
<1>5. /\ Sound(frames, mem) /\ mem \in [1 .. MaxWords -> Kinds]
      /\ regs \in [Registers -> Kinds] /\ \A x \in LiveRegs(fr) : regs[x] \in Clean
  BY <1>1 DEF LInv
<1>6. fr.depth \in 1 .. fr.depth
  BY <1>1, <1>4 DEF Activation
<1>7. v \in Clean
  BY <1>4, <1>5, <1>6, ValueIsClean
<1>8. /\ fr.shape.nlocals \in Nat /\ fr.shape.memory \in Nat
  BY <1>4, ShapesAssumption DEF Activation
<1>9. i \in 0 .. Allocated(fr.shape) - 1 /\ i \in Int
  BY <1>8 DEF Allocated
<1>10. w0 \in 1 .. Base(fr)
  BY <1>4, <1>9, LocalWord
<1>11. 1 .. Base(fr) \subseteq 1 .. MaxWords
  <2>1. Base(fr) \in Int /\ Base(fr) <= MaxWords /\ MaxWords \in Int
    BY <1>4, ShapesAssumption
  <2> QED
    BY <2>1
<1>12. /\ a \in Activation /\ a.shape = fr.shape /\ a.rbp = fr.rbp /\ a.depth = fr.depth
       /\ a.align = fr.align /\ a.saved = fr.saved /\ a.extra = fr.extra
       /\ a.assigned = fr.assigned \union {i}
  BY <1>4, <1>9 DEF Activation
<1>13. frames' = [frames EXCEPT ![Len(frames)] = a]
  BY <1>2 DEF Running
<1>14. mem' = [mem EXCEPT ![w0] = v]
  BY <1>2
<1> HIDE DEF v, w0, a
<1>15. /\ mem' \in [1 .. MaxWords -> Kinds] /\ mem'[w0] \in Clean
       /\ \A w \in 1 .. MaxWords : mem[w] \in Clean => mem'[w] \in Clean
  BY <1>5, <1>7, <1>10, <1>11, <1>14, CleanKinds
<1>16. Sound(frames, mem')
  BY <1>3, <1>4, <1>5, <1>11, <1>15, SoundCleaner DEF Running
<1>17. Before(a) = Before(fr) /\ Base(a) = Base(fr) /\ \A j : Slot(a, j) = Slot(fr, j)
  BY <1>12 DEF Before, Base, Slot
<1>18. Fits(a)
  BY <1>4, <1>12, <1>17 DEF Fits
<1>19. \A w \in LiveWords(a) : w \in LiveWords(fr) \/ w = w0
  BY <1>12, <1>17 DEF LiveWords, w0
<1>20. \A w \in LiveWords(a) : mem'[w] \in Clean
  <2>1. \A w \in LiveWords(fr) : w \in 1 .. MaxWords
    BY <1>4, <1>11, LiveWordsAreInFrame
  <2> QED
    BY <1>4, <1>15, <1>19, <2>1
<1>21. Sound(frames', mem')
  BY <1>3, <1>4, <1>12, <1>13, <1>16, <1>18, <1>20, SoundTop DEF Running
<1>22. Running' = a
  <2>1. frames \in Seq(Activation) /\ Len(frames) \in 1 .. Len(frames)
    BY <1>3, RunningIsActivation
  <2> QED
    BY <1>13, <2>1 DEF Running
<1>23. LiveRegs(a) = LiveRegs(fr)
  BY <1>12 DEF LiveRegs
<1> QED
  BY <1>1, <1>3, <1>5, <1>15, <1>21, <1>22, <1>23, CodeRuns

\* main needs nothing at first.
LEMMA EnterMainKeeps ==
  ASSUME IInv, LInv, EnterMain
  PROVE  LInv'
<1>1. PICK shape \in Shapes :
        /\ shape.main
        /\ LET rbp   == sp + 2
               align == (rbp + LSize(shape)) % 2
           IN /\ rbp + LSize(shape) + align < MaxWords
              /\ mem' = Filled(mem, rbp, shape)
              /\ frames' = <<[NewFrame(shape, rbp, <<>>, 0) EXCEPT !.align = align]>>
              /\ sp' = rbp + LSize(shape) + align
  BY DEF EnterMain
<1> DEFINE rbp   == sp + 2
           align == (rbp + LSize(shape)) % 2
           b     == NewFrame(shape, rbp, <<>>, 0)
           a     == [b EXCEPT !.align = align]
<1>2. /\ ~started /\ UNCHANGED regs
      /\ call' = [saved |-> <<>>, extra |-> 0, result |-> FALSE, active |-> TRUE]
  BY DEF EnterMain
<1>3. sp \in {0, 1}
  BY <1>2 DEF IInv
<1>4. mem \in [1 .. MaxWords -> Kinds] /\ regs \in [Registers -> Kinds]
  BY DEF LInv
<1>5. mem' \in [1 .. MaxWords -> Kinds]
  BY <1>1, <1>4, FilledIsClean
<1>6. LSize(shape) \in Nat /\ rbp \in Nat /\ align \in Nat /\ rbp - 2 - 0 - 0 >= 0
  BY <1>3, FramesAreEven
<1>7. rbp + LSize(shape) + align < MaxWords /\ frames' = <<a>>
      /\ sp' = rbp + LSize(shape) + align
  BY <1>1
<1> HIDE DEF rbp, align
<1>8. /\ b.shape = shape /\ b.rbp = rbp /\ b.saved = <<>> /\ b.extra = 0
      /\ b.depth = 0 /\ b.assigned = {}
  BY DEF NewFrame
<1>9. b \in Activation
  <2>1. <<>> \in Seq(Registers) /\ 0 \in Nat /\ rbp \in Int
    BY <1>6
  <2> QED
    BY <2>1, NewFrameIsActivation
<1> HIDE DEF b
<1>10. /\ a.shape = shape /\ a.rbp = rbp /\ a.saved = <<>> /\ a.extra = 0
       /\ a.depth = 0 /\ a.assigned = {} /\ a.align = align
  BY <1>8, <1>9 DEF Activation
<1> HIDE DEF a
<1>11. Len(a.saved) = 0
  BY <1>10
<1>12. Before(a) = rbp - 2 - 0 - 0 /\ Base(a) = rbp + LSize(shape) + align
  BY <1>10, <1>11 DEF Before, Base
<1>13. /\ ArgRegs \in Nat /\ SymRegs \in Nat /\ MaxWords \in Nat /\ shape.memory \in Nat
       /\ shape.nargs = 2 /\ 2 <= ArgRegs /\ ~shape.closure /\ Named(shape) = 0
  BY <1>1, ShapesAssumption DEF MainArgs, Named
<1>14. Fits(a)
  <2>1. StackArgs(a.shape.nargs) = 0
    BY <1>10, <1>13 DEF StackArgs, Most
  <2>2. Base(a) <= MaxWords
    BY <1>6, <1>7, <1>12, <1>13
  <2>3. 0 <= SymRegs + shape.memory
    BY <1>13
  <2> QED
    BY <1>6, <1>10, <1>12, <2>1, <2>2, <2>3 DEF Fits
<1>15. LiveWords(a) = {} /\ LiveRegs(a) = {}
  <2>1. ArgRegs .. 2 - 1 = {} /\ 1 .. 0 = {} /\ SymRegs + 1 .. 0 = {}
    BY <1>13
  <2>2. Least(0, ArgRegs) = 0 /\ Least(0, SymRegs) = 0
    BY <1>13 DEF Least
  <2>3. LiveWords(a) = {}
    BY <1>10, <1>13, <2>1 DEF LiveWords
  <2>4. LiveRegs(a) = {}
    BY <1>10, <1>13, <2>1, <2>2 DEF LiveRegs
  <2> QED
    BY <2>3, <2>4
<1>16. Len(<<a>>) = 1 /\ <<a>>[1] = a /\ 1 .. 1 = {1} /\ 2 .. 1 = {}
  OBVIOUS
<1>17. Base(a) \in Int
  BY <1>6, <1>12
<1>18. Sound(frames', mem')
  <2>1. Base(a) <= Base(a)
    BY <1>17
  <2> QED
    BY <1>7, <1>14, <1>15, <1>16, <2>1 DEF Sound
<1>19. Running' = a
  BY <1>7, <1>16 DEF Running
<1>20. /\ call'.active /\ ~call'.result
       /\ Kept(a, call'.saved, Base(a), mem')
  <2>1. call'.active /\ ~call'.result /\ Len(call'.saved) = 0 /\ 1 .. 0 = {}
    BY <1>2
  <2> QED
    BY <2>1 DEF Kept
<1>21. sp' <= MaxWords
  BY <1>6, <1>7, <1>13
<1> QED
  BY <1>2, <1>4, <1>5, <1>15, <1>18, <1>19, <1>20, <1>21 DEF LInv, InLama

\* The sequence of a runtime call puts what the function needs into the stack.
LEMMA CallRuntimeKeeps ==
  ASSUME IInv, LInv, CallRuntime
  PROVE  LInv' /\ Pushes(call'.saved)
<1> DEFINE left(n)   == Running.depth - n
           saved(n)  == ProtectRegisters(Running, left(n))
           args(n)   == [i \in 1 .. n |-> ValueAt(Running, Running.depth - i + 1)]
           pushed(n) == PushValues(saved(n), args(n))
<1>1. PICK n \in 0 .. Running.depth :
        /\ HasRoom([Running EXCEPT !.depth = left(n)], 1)
        /\ sp + Len(pushed(n)) < MaxWords
        /\ mem' = PushAll(mem, sp, pushed(n))
        /\ sp' = sp + Len(pushed(n))
        /\ call' = [saved |-> saved(n), extra |-> Dropped(Len(saved(n)), n),
                    result |-> TRUE, active |-> TRUE]
        /\ frames' = [frames EXCEPT ![Len(frames)].depth = left(n)]
  BY DEF CallRuntime
<1> DEFINE s  == saved(n)
           as == args(n)
           p  == pushed(n)
           k  == left(n)
           fr == Running
<1>2. InLama /\ UNCHANGED regs /\ frames /= <<>>
  BY DEF CallRuntime, InLama
<1>3. /\ fr \in Activation /\ Fits(fr) /\ Stacked(frames)
      /\ \A w \in LiveWords(fr) : mem[w] \in Clean
      /\ Base(fr) \in 2 .. MaxWords
  BY <1>2, RunningIsSound
<1>4. /\ Sound(frames, mem) /\ mem \in [1 .. MaxWords -> Kinds]
      /\ regs \in [Registers -> Kinds] /\ \A x \in LiveRegs(fr) : regs[x] \in Clean
  BY <1>2 DEF LInv
<1>5. k \in Nat /\ k <= fr.depth /\ n \in Nat
      /\ \A i \in 1 .. n : fr.depth - i + 1 \in 1 .. fr.depth
  BY <1>3 DEF Activation
<1>6. as \in Seq(Clean) /\ Len(as) = n /\ as = [i \in 1 .. n |-> as[i]]
  <2>1. \A i \in 1 .. n : ValueAt(fr, fr.depth - i + 1) \in Clean
    BY <1>3, <1>4, <1>5, ValueIsClean
  <2> QED
    BY <1>5, <2>1
<1>7. /\ sp + Len(p) < MaxWords /\ mem' = PushAll(mem, sp, p) /\ sp' = sp + Len(p)
      /\ call'.saved = s /\ call'.active
      /\ frames' = [frames EXCEPT ![Len(frames)].depth = k]
      /\ HasRoom([fr EXCEPT !.depth = k], 1)
      /\ p = PushValues(s, as)
  BY <1>1
<1>8. s \in Seq(Registers)
  BY <1>3, <1>5, ProtectedAreRegisters
<1>9. /\ LiveRegs([fr EXCEPT !.depth = k]) \subseteq LiveRegs(fr)
      /\ LiveRegs([fr EXCEPT !.depth = k]) \subseteq Range(s)
      /\ \A r \in Range(s) : r \in LiveRegs(fr) \/ (fr.shape.main /\ r \in MainArgRegs)
  <2>1. k <= k
    BY <1>5
  <2> HIDE DEF k
  <2>2. s = ProtectRegisters(fr, k)
    BY DEF k
  <2> HIDE DEF s
  <2> QED
    BY <1>3, <1>5, <2>1, <2>2, LiveAreProtected, FewerOperands
<1> HIDE DEF s, as, p, k
<1>10. /\ p \in Seq(Kinds) /\ \A i \in 1 .. Len(s) : p[i] = regs[s[i]]
       /\ \A i \in Len(s) + 1 .. Len(p) : p[i] \in Clean
  BY <1>4, <1>6, <1>7, <1>8, PushedValues
<1>11. Len(s) <= Len(p) /\ Len(p) \in Nat /\ Len(s) \in Nat
  <2> DEFINE d == Dropped(Len(s), n)
             l == Len(p)
             m == Len(s)
  <2>1. l = m + d /\ d \in Nat
    BY <1>5, <1>6, <1>7, <1>8, SequenceIsBalanced
  <2>2. m \in Nat
    BY <1>8
  <2> HIDE DEF d, l, m
  <2>3. m <= l /\ l \in Nat
    BY <2>1, <2>2
  <2> QED
    BY <2>2, <2>3 DEF l, m
<1>12. sp \in Nat /\ sp = Base(fr)
  <2>1. sp = Base(fr)
    BY <1>2 DEF IInv, InLama
  <2> QED
    BY <1>3, <2>1
<1>13. /\ mem' \in [1 .. MaxWords -> Kinds]
       /\ \A w \in 1 .. MaxWords : w <= sp => mem'[w] = mem[w]
       /\ \A i \in 1 .. Len(p) : sp + i \in 1 .. MaxWords => mem'[sp + i] = p[i]
  <2>1. /\ PushAll(mem, sp, p) \in [1 .. MaxWords -> Kinds]
        /\ \A w \in 1 .. MaxWords : w <= sp => PushAll(mem, sp, p)[w] = mem[w]
        /\ \A i \in 1 .. Len(p) : sp + i \in 1 .. MaxWords =>
             PushAll(mem, sp, p)[sp + i] = p[i]
    BY <1>4, <1>10, <1>12, PushedWords
  <2>2. mem' = PushAll(mem, sp, p)
    BY <1>7
  <2> QED
    BY <2>1, <2>2
<1>14. /\ \A i \in 1 .. Len(s) : sp + i \in 1 .. MaxWords /\ i \in 1 .. Len(p)
       /\ \A w \in 1 .. sp : w \in 1 .. MaxWords /\ w <= sp
       /\ sp' <= MaxWords
  <2>1. MaxWords \in Nat
    BY ShapesAssumption
  <2> DEFINE l == Len(p)
             m == Len(s)
  <2>2. sp + l < MaxWords /\ m <= l /\ l \in Nat /\ m \in Nat /\ sp' = sp + l
    BY <1>7, <1>11
  <2> HIDE DEF l, m
  <2>3. /\ \A i \in 1 .. m : sp + i \in 1 .. MaxWords /\ i \in 1 .. l
        /\ \A w \in 1 .. sp : w \in 1 .. MaxWords /\ w <= sp
        /\ sp' <= MaxWords
    BY <1>12, <2>1, <2>2
  <2> QED
    BY <2>3 DEF l, m
<1>15. Kept([fr EXCEPT !.depth = k], s, sp, mem')
  <2> SUFFICES ASSUME NEW i \in 1 .. Len(s), s[i] \in LiveRegs([fr EXCEPT !.depth = k])
               PROVE  mem'[sp + i] \in Clean
    BY DEF Kept
  <2>1. mem'[sp + i] = regs[s[i]]
    BY <1>10, <1>13, <1>14
  <2> QED
    BY <1>4, <1>9, <2>1
<1>16. Sound(frames, mem')
  BY <1>2, <1>3, <1>4, <1>12, <1>13, <1>14, SoundCleaner DEF Running
<1>17. /\ Sound(frames', mem') /\ Running' = [fr EXCEPT !.depth = k]
       /\ Base(Running') = Base(fr)
  <2>1. Sound(frames', mem') /\ Running' = [fr EXCEPT !.depth = k]
    BY <1>2, <1>3, <1>5, <1>7, <1>16, SoundDrop DEF Running
  <2>2. Base(Running') = Base(fr)
    BY <1>2, <1>3, <1>5, <1>7, SetDepth DEF Running
  <2> QED
    BY <2>1, <2>2
<1>18. Pushes(s)
  <2>1. \A w \in 1 .. sp : mem[w] \in Clean => mem'[w] \in Clean
    BY <1>13, <1>14
  <2>2. ASSUME NEW w \in sp + 1 .. sp'
        PROVE  \/ mem'[w] \in Clean
               \/ fr.shape.main /\ \E i \in 1 .. Len(s) : w = sp + i /\ s[i] \in MainArgRegs
    <3> DEFINE i  == w - sp
               ls == Len(s)
               lp == Len(p)
    <3>1. sp' = sp + lp /\ lp \in Nat /\ ls \in Nat /\ sp' <= MaxWords /\ MaxWords \in Nat
      BY <1>7, <1>11, <1>14, ShapesAssumption
    <3> HIDE DEF ls, lp
    <3>2. /\ i \in 1 .. lp /\ w = sp + i /\ sp + i \in 1 .. MaxWords
          /\ i \in 1 .. ls \/ i \in ls + 1 .. lp
      BY <1>12, <3>1
    <3> HIDE DEF i
    <3>3. mem'[w] = p[i]
      BY <1>13, <3>2 DEF lp
    <3>4. CASE i \in ls + 1 .. lp
      BY <1>10, <3>3, <3>4 DEF ls, lp
    <3>5. CASE i \in 1 .. ls
      <4>1. mem'[w] = regs[s[i]]
        BY <1>10, <3>3, <3>5 DEF ls
      <4>2. s[i] \in Range(s)
        BY <1>8, <3>5 DEF Range, ls
      <4>3. CASE s[i] \in LiveRegs(fr)
        BY <1>4, <4>1, <4>3
      <4>4. CASE fr.shape.main /\ s[i] \in MainArgRegs
        BY <3>2, <3>5, <4>4 DEF ls
      <4> QED
        BY <1>9, <4>2, <4>3, <4>4
    <3> QED
      BY <3>2, <3>4, <3>5
  <2> QED
    BY <2>1, <2>2 DEF Pushes
<1>19. LInv'
  BY <1>2, <1>4, <1>7, <1>9, <1>12, <1>13, <1>14, <1>15, <1>17 DEF LInv, InLama
<1> QED
  BY <1>7, <1>18, <1>19

\* The runtime leaves alone what lies below the stack top, where the sequence
\* finds it again.
LEMMA RuntimeReturnsKeeps ==
  ASSUME IInv, LInv, RuntimeReturns
  PROVE  LInv'
<1> DEFINE after(v) == [w \in DOMAIN mem |-> IF w <= sp THEN mem[w] ELSE v]
           base     == sp - call.extra - Len(call.saved)
           popped(v) == Restored(call.saved, base, after(v))
<1>1. PICK v \in {"current", "old"} :
        IF call.result
          THEN /\ WithResult(Running, popped(v), after(v))
               /\ frames' = [frames EXCEPT ![Len(frames)].depth = @ + 1]
          ELSE regs' = popped(v) /\ mem' = after(v) /\ UNCHANGED frames
  BY DEF RuntimeReturns
<1> DEFINE m == after(v)
           r == popped(v)
           fr == Running
<1>2. call.active /\ call' = NoCall /\ ~call'.active
  BY DEF RuntimeReturns, NoCall
<1>3. frames /= <<>> /\ base = Base(fr) /\ sp \in Int /\ call \in RuntimeCall
  BY <1>2 DEF IInv
<1>4. /\ fr \in Activation /\ Fits(fr) /\ Stacked(frames)
      /\ \A w \in LiveWords(fr) : mem[w] \in Clean
      /\ Base(fr) \in 2 .. MaxWords
  BY <1>3, RunningIsSound
<1>5. /\ Sound(frames, mem) /\ mem \in [1 .. MaxWords -> Kinds]
      /\ LiveRegs(fr) \subseteq Range(call.saved)
      /\ Kept(fr, call.saved, Base(fr), mem)
      /\ call.result => HasRoom(fr, 1)
      /\ sp <= MaxWords
  BY <1>2 DEF LInv
<1>6. call.saved \in Seq(Registers) /\ Len(call.saved) \in Nat /\ call.extra \in Nat
  BY <1>3 DEF RuntimeCall
<1>7. /\ m \in [1 .. MaxWords -> Kinds]
      /\ \A w \in 1 .. MaxWords : w <= sp => m[w] = mem[w]
  <2>1. v \in Kinds
    BY DEF Kinds
  <2> QED
    BY <1>5, <2>1
<1>8. /\ 1 .. Base(fr) \subseteq 1 .. MaxWords
      /\ \A w \in 1 .. Base(fr) : w <= sp
      /\ \A i \in 1 .. Len(call.saved) : Base(fr) + i \in 1 .. MaxWords /\ Base(fr) + i <= sp
  <2> DEFINE b == Base(fr)
             l == Len(call.saved)
             x == call.extra
  <2>1. b = sp - x - l /\ b \in 2 .. MaxWords /\ l \in Nat /\ x \in Nat /\ sp <= MaxWords
        /\ MaxWords \in Nat /\ sp \in Int
    BY <1>3, <1>4, <1>5, <1>6, ShapesAssumption
  <2> HIDE DEF b, l, x
  <2>2. /\ 1 .. b \subseteq 1 .. MaxWords
        /\ \A w \in 1 .. b : w <= sp
        /\ \A i \in 1 .. l : b + i \in 1 .. MaxWords /\ b + i <= sp
    BY <2>1
  <2> QED
    BY <2>2 DEF b, l
<1> HIDE DEF after
<1>9. /\ Kept(fr, call.saved, Base(fr), m)
      /\ \A i \in 1 .. Len(call.saved) : m[Base(fr) + i] \in Kinds
  BY <1>5, <1>7, <1>8 DEF Kept
<1>10. r \in [Registers -> Kinds] /\ \A x \in LiveRegs(fr) : r[x] \in Clean
  <2>1. base \in Int
    BY <1>3, <1>4
  <2>2. r = Restored(call.saved, base, m)
    OBVIOUS
  <2> HIDE DEF base, r, m, fr
  <2> QED
    BY <1>3, <1>5, <1>6, <1>9, <2>1, <2>2, RestoredAreClean
<1>11. Sound(frames, m)
  <2>1. \A w \in 1 .. Base(fr) : mem[w] \in Clean => m[w] \in Clean
    BY <1>7, <1>8
  <2> HIDE DEF m
  <2> QED
    BY <1>3, <1>4, <1>5, <2>1, SoundCleaner DEF Running
<1>12. CASE call.result
  <2>1. /\ WithResult(fr, r, m)
        /\ frames' = [frames EXCEPT ![Len(frames)].depth = frames[Len(frames)].depth + 1]
    BY <1>1, <1>12
  <2>2. HasRoom(fr, 1)
    BY <1>5, <1>12
  <2> HIDE DEF r, m
  <2>3. /\ Sound(frames', mem')
        /\ \A x \in LiveRegs(Running') : regs'[x] \in Clean
        /\ mem' \in [1 .. MaxWords -> Kinds] /\ regs' \in [Registers -> Kinds]
    BY <1>3, <1>4, <1>7, <1>10, <1>11, <2>1, <2>2, SoundResult DEF Running
  <2> QED
    BY <1>2, <2>3, CodeRuns
<1>13. CASE ~call.result
  <2>1. regs' = r /\ mem' = m /\ frames' = frames
    BY <1>1, <1>13
  <2>2. Running' = fr
    BY <2>1 DEF Running
  <2> HIDE DEF r, m
  <2> QED
    BY <1>2, <1>7, <1>10, <1>11, <2>1, <2>2, CodeRuns
<1> QED
  BY <1>12, <1>13

\* An argument is an operand, ...
LEMMA ArgumentIsClean ==
  ASSUME IInv, LInv, InLama, NEW n \in Nat, n <= Running.depth, NEW k \in 1 .. n
  PROVE  Argument(n, k) \in Clean
<1>1. /\ Running \in Activation /\ Fits(Running)
      /\ \A w \in LiveWords(Running) : mem[w] \in Clean
      /\ \A r \in LiveRegs(Running) : regs[r] \in Clean
  BY RunningIsSound DEF InLama, LInv
<1>2. Running.depth \in Nat
  BY <1>1 DEF Activation
<1>3. Running.depth - n + k \in 1 .. Running.depth
  BY <1>2
<1> QED
  BY <1>1, <1>3, ValueIsClean DEF Argument

\* ... and a function finds in registers what it needs there at its entry.
LEMMA EntryIsClean ==
  ASSUME IInv, LInv, InLama, NEW n \in Nat, NEW viaClosure \in BOOLEAN,
         Running.depth >= n + (IF viaClosure THEN 1 ELSE 0),
         NEW a, a.depth = 0, Named(a.shape) = n, a.shape.closure => viaClosure
  PROVE  /\ Entry(n, viaClosure) \in [Registers -> Kinds]
         /\ \A r \in LiveRegs(a) : Entry(n, viaClosure)[r] \in Clean
<1> DEFINE E == Entry(n, viaClosure)
           l == Least(n, ArgRegs)
<1>1. /\ Running \in Activation /\ Fits(Running)
      /\ \A w \in LiveWords(Running) : mem[w] \in Clean
      /\ \A r \in LiveRegs(Running) : regs[r] \in Clean
      /\ regs \in [Registers -> Kinds]
  BY RunningIsSound DEF InLama, LInv
<1>2. Running.depth \in Nat /\ ArgRegs \in Nat /\ SymRegs \in Nat
  BY <1>1, ShapesAssumption DEF Activation
<1>3. /\ l \in Nat /\ 1 .. l \subseteq 1 .. n /\ n <= Running.depth
      /\ viaClosure => Running.depth - n \in 1 .. Running.depth
  BY <1>2 DEF Least
<1>4. \A k \in 1 .. l : Argument(n, k) \in Clean
  BY <1>3, ArgumentIsClean
<1>5. viaClosure => ValueAt(Running, Running.depth - n) \in Clean
  BY <1>1, <1>3, ValueIsClean
<1> HIDE DEF l
<1>6. \A k : ArgReg(k)[2] = k /\ ArgReg(k) /= R15
  BY DEF ArgReg, R15
<1>7. \A r \in Registers :
        E[r] = IF \E k \in 1 .. l : r = ArgReg(k) THEN Argument(n, r[2])
               ELSE IF r = R15 /\ viaClosure THEN ValueAt(Running, Running.depth - n)
               ELSE regs[r]
  BY DEF Entry, l
<1>8. E = [r \in Registers |-> E[r]]
  BY DEF Entry
<1> HIDE DEF E
<1>9. \A r \in Registers : (\E k \in 1 .. l : r = ArgReg(k)) => E[r] \in Clean
  BY <1>4, <1>6, <1>7
<1>10. \A r \in Registers : r = R15 /\ viaClosure => E[r] \in Clean
  BY <1>5, <1>6, <1>7
<1>11. \A r \in Registers : E[r] \in Kinds
  <2>1. \A r \in Registers : E[r] \in Clean \/ E[r] = regs[r]
    BY <1>7, <1>9, <1>10
  <2> QED
    BY <1>1, <2>1, CleanKinds
<1>12. \A r \in LiveRegs(a) : \/ r = R15 /\ viaClosure
                              \/ \E k \in 1 .. l : r = ArgReg(k)
  <2>1. Least(a.depth, SymRegs) = 0 /\ 1 .. 0 = {}
    BY <1>2 DEF Least
  <2> QED
    BY <2>1 DEF LiveRegs, l
<1>13. \A r \in LiveRegs(a) : r \in Registers
  BY DEF LiveRegs
<1>14. \A r \in LiveRegs(a) : E[r] \in Clean
  BY <1>9, <1>10, <1>12, <1>13
<1> QED
  BY <1>8, <1>11, <1>14 DEF E

\* A new activation: its frame fits, and it needs words only of what its
\* caller's sequence pushed.
LEMMA NewFrameFits ==
  ASSUME NEW shape \in Shapes, NEW rbp \in Int, NEW saved \in Seq(Registers),
         NEW extra \in Nat, StackArgs(shape.nargs) <= extra,
         rbp - 2 - extra - Len(saved) >= 0, rbp + LSize(shape) < MaxWords
  PROVE  LET a == NewFrame(shape, rbp, saved, extra)
         IN /\ Fits(a)
            /\ \A w \in LiveWords(a) :
                 /\ \E i \in ArgRegs .. shape.nargs - 1 : w = rbp - 2 - (i - ArgRegs)
                 /\ w \in rbp - 2 - extra + 1 .. rbp - 2
<1> DEFINE a == NewFrame(shape, rbp, saved, extra)
           l == Len(saved)
           b == rbp - 2 - extra - l
<1>1. a \in Activation /\ Base(a) = rbp + LSize(shape) /\ Before(a) = b
  BY NewFrameIsActivation
<1>2. /\ a.shape = shape /\ a.rbp = rbp /\ a.saved = saved /\ a.extra = extra
      /\ a.depth = 0 /\ a.assigned = {}
  BY DEF NewFrame
<1>3. /\ ArgRegs \in Nat /\ SymRegs \in Nat /\ MaxWords \in Nat /\ shape.memory \in Nat
      /\ shape.nargs \in Nat /\ LSize(shape) \in Nat
  BY ShapesAssumption, FramesAreEven
<1> HIDE DEF a, l
<1>4. Fits(a)
  <2>1. 0 <= SymRegs + shape.memory /\ rbp + LSize(shape) <= MaxWords
    BY <1>3
  <2>2. b >= 0
    BY DEF l
  <2> HIDE DEF b
  <2> QED
    BY <1>1, <1>2, <2>1, <2>2 DEF Fits
<1>5. ASSUME NEW w \in LiveWords(a)
      PROVE  /\ \E i \in ArgRegs .. shape.nargs - 1 : w = rbp - 2 - (i - ArgRegs)
             /\ w \in rbp - 2 - extra + 1 .. rbp - 2
  <2>1. SymRegs + 1 .. a.depth = {}
    BY <1>2, <1>3
  <2>2. PICK i \in ArgRegs .. a.shape.nargs - 1 : w = Slot(a, ArgSlot(i))
    BY <1>2, <2>1 DEF LiveWords
  <2>3. /\ Slot(a, ArgSlot(i)) = a.rbp - 2 - (i - ArgRegs)
        /\ i - ArgRegs \in Nat /\ i - ArgRegs < StackArgs(a.shape.nargs)
    BY <1>1, <1>4, ParameterWord
  <2>4. StackArgs(shape.nargs) \in Int
    BY <1>3 DEF StackArgs, Most
  <2>5. i - ArgRegs < extra
    BY <1>2, <1>3, <2>3, <2>4
  <2>6. w = rbp - 2 - (i - ArgRegs) /\ i \in ArgRegs .. shape.nargs - 1
    BY <1>2, <2>2, <2>3
  <2> QED
    BY <1>3, <2>3, <2>5, <2>6
<1> QED
  BY <1>4, <1>5 DEF a, l

\* The sequence of a call and the callee's prologue.
LEMMA CallLamaKeeps ==
  ASSUME IInv, LInv, CallLama
  PROVE  LInv' /\ frames' /= <<>> /\ Pushes(Running'.saved)
<1> DEFINE fr        == Running
           left(s)   == fr.depth - s.nargs
           saved(s)  == ProtectRegisters(fr, left(s))
           args(s)   == StackedArguments(s.nargs)
           pushed(s) == PushValues(saved(s), args(s))
           rbp(s)    == sp + Len(pushed(s)) + 2
           extra(s)  == Dropped(Len(saved(s)), StackArgs(s.nargs))
<1>1. PICK shape \in Functions, viaClosure \in BOOLEAN :
        LET pops == shape.nargs + IF viaClosure THEN 1 ELSE 0
        IN /\ shape.closure => viaClosure
           /\ fr.depth >= pops
           /\ HasRoom(fr, 1 - pops)
           /\ rbp(shape) + LSize(shape) < MaxWords
           /\ sp' = rbp(shape) + LSize(shape)
           /\ mem' = Filled(PushAll(mem, sp, pushed(shape) \o <<"plain", "plain">>),
                            rbp(shape), shape)
           /\ regs' = Entry(shape.nargs, viaClosure)
           /\ frames' = Append([frames EXCEPT ![Len(frames)].depth = fr.depth - pops],
                               NewFrame(shape, rbp(shape), saved(shape), extra(shape)))
  BY DEF CallLama, Running
<1> DEFINE n    == shape.nargs
           pops == n + IF viaClosure THEN 1 ELSE 0
           k    == fr.depth - pops
           gs   == [frames EXCEPT ![Len(frames)].depth = k]
           s    == saved(shape)
           as   == args(shape)
           p    == pushed(shape)
           q    == p \o <<"plain", "plain">>
           x    == extra(shape)
           b    == rbp(shape)
           m    == PushAll(mem, sp, q)
           new  == NewFrame(shape, b, s, x)
<1>2. InLama /\ frames /= <<>> /\ ~call.active /\ call' = call
  BY DEF CallLama, InLama
<1>3. /\ fr \in Activation /\ Fits(fr) /\ Stacked(frames)
      /\ \A w \in LiveWords(fr) : mem[w] \in Clean
      /\ Base(fr) \in 2 .. MaxWords
  BY <1>2, RunningIsSound
<1>4. /\ Sound(frames, mem) /\ mem \in [1 .. MaxWords -> Kinds]
      /\ regs \in [Registers -> Kinds] /\ \A r \in LiveRegs(fr) : regs[r] \in Clean
  BY <1>2 DEF LInv
<1>5. /\ n \in Nat /\ fr.depth \in Nat /\ ArgRegs \in Nat /\ SymRegs \in Nat
      /\ fr.shape.memory \in Nat /\ LSize(shape) \in Nat /\ MaxWords \in Nat
      /\ shape \in Shapes /\ Named(shape) = n
  BY <1>3, ShapesAssumption, FramesAreEven, NamedParameters DEF Activation, Functions
<1>6. fr.depth >= pops /\ HasRoom(fr, 1 - pops)
  BY <1>1
<1>7. /\ pops \in Nat /\ n <= pops /\ k \in Nat /\ k <= left(shape) /\ k <= fr.depth
      /\ left(shape) \in Nat /\ left(shape) <= fr.depth /\ n <= fr.depth
      /\ StackArgs(n) \in Nat /\ StackArgs(n) <= n
      /\ \A j \in 1 .. StackArgs(n) : n - j + 1 \in 1 .. n
  <2>1. pops \in Nat /\ n <= pops
    BY <1>5
  <2>2. fr.depth >= pops
    BY <1>6
  <2>3. StackArgs(n) \in Nat /\ StackArgs(n) <= n
    BY <1>5 DEF StackArgs, Most
  <2>4. \A j \in 1 .. StackArgs(n) : n - j + 1 \in 1 .. n
    BY <1>5, <2>3
  <2> HIDE DEF pops, n
  <2>5. k \in Nat /\ k <= fr.depth - n /\ k <= fr.depth /\ fr.depth - n \in Nat
        /\ fr.depth - n <= fr.depth /\ n <= fr.depth
    BY <1>5, <2>1, <2>2
  <2>6. left(shape) = fr.depth - n
    BY DEF n
  <2> HIDE DEF left
  <2> QED
    BY <2>1, <2>3, <2>4, <2>5, <2>6
<1>8. HasRoom([fr EXCEPT !.depth = k], 1)
  <2>1. fr.depth + (1 - pops) <= SymRegs + fr.shape.memory
    BY <1>6 DEF HasRoom
  <2> HIDE DEF pops
  <2>2. k + 1 <= SymRegs + fr.shape.memory
    BY <1>5, <1>7, <2>1
  <2>3. [fr EXCEPT !.depth = k].depth = k /\ [fr EXCEPT !.depth = k].shape = fr.shape
    BY <1>3, <1>7, WithDepth
  <2> HIDE DEF k
  <2> QED
    BY <2>2, <2>3 DEF HasRoom
<1>9. /\ s \in Seq(Registers) /\ LiveRegs([fr EXCEPT !.depth = k]) \subseteq LiveRegs(fr)
      /\ LiveRegs([fr EXCEPT !.depth = k]) \subseteq Range(s)
      /\ \A r \in Range(s) : r \in LiveRegs(fr) \/ (fr.shape.main /\ r \in MainArgRegs)
  <2> DEFINE l == left(shape)
  <2>1. l \in Nat /\ l <= fr.depth /\ k \in Nat /\ k <= l
    BY <1>7
  <2>2. s = ProtectRegisters(fr, l)
    OBVIOUS
  <2> HIDE DEF s, l, k
  <2> QED
    BY <1>3, <1>7, <2>1, <2>2, ProtectedAreRegisters, LiveAreProtected, FewerOperands
<1>10. /\ as \in Seq(Clean) /\ Len(as) = StackArgs(n)
       /\ as = [i \in 1 .. StackArgs(n) |-> as[i]]
  <2>1. as = [j \in 1 .. StackArgs(n) |-> Argument(n, n - j + 1)]
    BY DEF StackedArguments
  <2>2. \A j \in 1 .. StackArgs(n) : Argument(n, n - j + 1) \in Clean
    BY <1>2, <1>5, <1>7, ArgumentIsClean
  <2> HIDE DEF as
  <2> QED
    BY <1>7, <2>1, <2>2
<1>11. sp = Base(fr) /\ sp \in Nat
  <2>1. sp = Base(fr)
    BY <1>2 DEF IInv, InLama
  <2> QED
    BY <1>3, <2>1
<1>12. /\ mem' = Filled(m, b, shape) /\ regs' = Entry(n, viaClosure)
       /\ frames' = Append(gs, new) /\ b + LSize(shape) < MaxWords
       /\ shape.closure => viaClosure /\ sp' = b + LSize(shape)
  BY <1>1
<1>13. p = PushValues(s, as) /\ b = sp + Len(p) + 2 /\ x = Dropped(Len(s), StackArgs(n))
  OBVIOUS
<1>31. sp' = b + LSize(shape) /\ b + LSize(shape) < MaxWords
  BY <1>1
<1> HIDE DEF left, saved, args, pushed, rbp, extra, s, as, p, x, b, k
<1>14. /\ p \in Seq(Kinds) /\ \A i \in 1 .. Len(s) : p[i] = regs[s[i]]
       /\ \A i \in Len(s) + 1 .. Len(p) : p[i] \in Clean
  BY <1>4, <1>9, <1>10, <1>13, PushedValues
<1>15. Len(p) = Len(s) + x /\ x \in Nat /\ Len(s) \in Nat
  BY <1>7, <1>9, <1>10, <1>13, SequenceIsBalanced
<1>16. StackArgs(n) <= x
  BY <1>7, <1>9, <1>13, <1>15 DEF Dropped
<1>17. /\ q \in Seq(Kinds) /\ Len(q) = Len(p) + 2
       /\ \A i \in 1 .. Len(p) : q[i] = p[i]
       /\ q[Len(p) + 1] = "plain" /\ q[Len(p) + 2] = "plain"
  <2> DEFINE t == <<"plain", "plain">>
  <2>1. t \in Seq(Kinds) /\ Len(t) = 2 /\ t[1] = "plain" /\ t[2] = "plain"
    BY CleanKinds
  <2> HIDE DEF t
  <2>2. /\ q \in Seq(Kinds) /\ Len(q) = Len(p) + 2
        /\ \A i \in 1 .. Len(p) + 2 : q[i] = IF i <= Len(p) THEN p[i] ELSE t[i - Len(p)]
    BY <1>14, <2>1, ConcatProperties DEF t
  <2>3. Len(p) \in Nat
    BY <1>14
  <2> HIDE DEF q
  <2>4. \A i \in 1 .. Len(p) : q[i] = p[i]
    BY <2>2, <2>3
  <2>5. q[Len(p) + 1] = t[1] /\ q[Len(p) + 2] = t[2]
    BY <2>2, <2>3
  <2> QED
    BY <2>1, <2>2, <2>4, <2>5
<1> HIDE DEF q
<1>18. /\ m \in [1 .. MaxWords -> Kinds]
       /\ \A w \in 1 .. MaxWords : w <= sp => m[w] = mem[w]
       /\ \A i \in 1 .. Len(q) : sp + i \in 1 .. MaxWords => m[sp + i] = q[i]
  BY <1>4, <1>11, <1>17, PushedWords
<1> HIDE DEF m
<1>19. /\ mem' \in [1 .. MaxWords -> Kinds]
       /\ \A w \in 1 .. MaxWords : m[w] \in Clean => mem'[w] \in Clean
  BY <1>12, <1>18, FilledIsClean
<1>20. /\ b \in Int /\ b - 2 - x - Len(s) = sp /\ b - 2 - x - Len(s) >= 0
       /\ \A i \in 1 .. Len(p) : sp + i \in 1 .. MaxWords /\ i \in 1 .. Len(q)
       /\ \A i \in 1 .. Len(s) : i \in 1 .. Len(p)
       /\ \A w \in b - 2 - x + 1 .. b - 2 :
            w - sp \in Len(s) + 1 .. Len(p) /\ w - sp \in 1 .. Len(p) /\ w = sp + (w - sp)
       /\ \A w \in 1 .. sp : w \in 1 .. MaxWords /\ w <= sp
  <2> DEFINE ls == Len(s)
             lp == Len(p)
             lq == Len(q)
             z  == LSize(shape)
  <2>1. /\ lp = ls + x /\ x \in Nat /\ ls \in Nat /\ lq = lp + 2 /\ b = sp + lp + 2
        /\ b + z < MaxWords /\ z \in Nat /\ MaxWords \in Nat
    BY <1>5, <1>12, <1>13, <1>15, <1>17
  <2> HIDE DEF ls, lp, lq, z
  <2>2. b \in Int /\ b - 2 - x - ls = sp
    BY <1>11, <2>1
  <2>3. \A i \in 1 .. lp : sp + i \in 1 .. MaxWords /\ i \in 1 .. lq
    BY <1>11, <2>1
  <2>4. /\ \A i \in 1 .. ls : i \in 1 .. lp
        /\ \A w \in 1 .. sp : w \in 1 .. MaxWords /\ w <= sp
    BY <1>11, <2>1
  <2>5. \A w \in b - 2 - x + 1 .. b - 2 :
          w - sp \in ls + 1 .. lp /\ w - sp \in 1 .. lp /\ w = sp + (w - sp)
    BY <1>11, <2>1
  <2> QED
    BY <1>11, <2>2, <2>3, <2>4, <2>5 DEF ls, lp, lq
<1>21. /\ Fits(new) /\ \A w \in LiveWords(new) : mem'[w] \in Clean
       /\ new \in Activation /\ Before(new) = sp
  <2>1. Fits(new) /\ \A w \in LiveWords(new) : w \in b - 2 - x + 1 .. b - 2
    BY <1>5, <1>9, <1>12, <1>15, <1>16, <1>20, NewFrameFits
  <2>2. new \in Activation /\ Before(new) = b - 2 - x - Len(s)
    BY <1>5, <1>9, <1>15, <1>20, NewFrameIsActivation
  <2>3. ASSUME NEW w \in b - 2 - x + 1 .. b - 2
        PROVE  mem'[w] \in Clean
    <3> DEFINE i == w - sp
    <3>1. i \in Len(s) + 1 .. Len(p) /\ i \in 1 .. Len(p) /\ w = sp + i
      BY <1>20
    <3> HIDE DEF i
    <3>2. m[w] = p[i] /\ p[i] \in Clean /\ w \in 1 .. MaxWords
      BY <1>14, <1>17, <1>18, <1>20, <3>1
    <3> QED
      BY <1>19, <3>2
  <2> QED
    BY <1>20, <2>1, <2>2, <2>3
<1>22. /\ new.saved = s /\ new.depth = 0 /\ new.shape = shape /\ new.rbp = b
  BY DEF NewFrame
<1> HIDE DEF new
<1>23. Sound(frames, mem')
  <2>1. \A w \in 1 .. sp : mem[w] \in Clean => mem'[w] \in Clean
    BY <1>18, <1>19, <1>20
  <2> QED
    BY <1>2, <1>3, <1>4, <1>11, <2>1, SoundCleaner DEF Running
<1>29. Kept([fr EXCEPT !.depth = k], s, sp, mem')
  <2> SUFFICES ASSUME NEW i \in 1 .. Len(s), s[i] \in LiveRegs([fr EXCEPT !.depth = k])
               PROVE  mem'[sp + i] \in Clean
    BY DEF Kept
  <2>1. i \in 1 .. Len(p) /\ i \in 1 .. Len(q) /\ sp + i \in 1 .. MaxWords
    BY <1>20
  <2>2. m[sp + i] = regs[s[i]]
    BY <1>14, <1>17, <1>18, <2>1
  <2>3. regs[s[i]] \in Clean
    BY <1>4, <1>9
  <2> QED
    BY <1>19, <2>1, <2>2, <2>3
<1>30. ASSUME NEW w \in sp + 1 .. sp'
       PROVE  \/ mem'[w] \in Clean
              \/ w \in b + 1 .. b + LSize(shape) - Allocated(shape)
              \/ fr.shape.main /\ \E i \in 1 .. Len(s) : w = sp + i /\ s[i] \in MainArgRegs
  <2> DEFINE i  == w - sp
             ls == Len(s)
             lp == Len(p)
             z  == LSize(shape)
  <2>1. /\ b = sp + lp + 2 /\ sp' = b + z /\ b + z < MaxWords /\ z \in Nat
        /\ lp \in Nat /\ ls \in Nat /\ Len(q) = lp + 2
    <3>1. b = sp + lp + 2 /\ Len(q) = lp + 2
      BY <1>13, <1>17
    <3>2. sp' = b + LSize(shape) /\ b + LSize(shape) < MaxWords
      BY <1>31
    <3>3. z \in Nat /\ ls \in Nat /\ lp \in Nat
      BY <1>5, <1>14, <1>15
    <3>4. sp' = b + z /\ b + z < MaxWords
      BY <3>2 DEF z
    <3> HIDE DEF z, ls, lp
    <3> QED
      BY <3>1, <3>3, <3>4
  <2>5. sp \in Nat /\ MaxWords \in Nat /\ w \in Int
    BY <1>5, <1>11, <2>1
  <2> HIDE DEF ls, lp, z
  <2>2. w \in 1 .. MaxWords /\ w = sp + i /\ i \in Int
    BY <2>1, <2>5
  <2>3. CASE w \in b + 1 .. b + z
    <3>1. Filled(m, b, shape)[w] \in Clean \/ w \in b + 1 .. b + z - Allocated(shape)
      BY <1>5, <1>18, <1>20, <2>2, <2>3, FrameIsFilled DEF z
    <3> QED
      BY <1>12, <3>1 DEF z
  <2>4. CASE ~(w \in b + 1 .. b + z)
    <3>1. /\ i \in 1 .. lp + 2
          /\ i \in 1 .. ls \/ i \in ls + 1 .. lp \/ i = lp + 1 \/ i = lp + 2
          /\ i \in 1 .. ls => i \in 1 .. lp \/ i \in lp + 1 .. lp + 2
      BY <2>1, <2>4, <2>5
    <3>2. ls <= lp
      BY <1>15, <2>1 DEF ls, lp
    <3>3. i \in 1 .. ls \/ i \in ls + 1 .. lp => i \in 1 .. lp
      BY <2>1, <3>2
    <3> HIDE DEF i
    <3>4. m[w] = q[i]
      BY <1>18, <2>1, <2>2, <3>1
    <3>5. CASE i = lp + 1 \/ i = lp + 2
      <4>1. m[w] = "plain"
        BY <1>17, <3>4, <3>5 DEF lp
      <4> QED
        BY <1>19, <2>2, <4>1, CleanKinds
    <3>6. CASE i \in ls + 1 .. lp
      <4>1. m[w] = p[i]
        BY <1>17, <3>3, <3>4, <3>6 DEF lp
      <4>2. p[i] \in Clean
        BY <1>14, <3>6 DEF ls, lp
      <4> QED
        BY <1>19, <2>2, <4>1, <4>2
    <3>7. CASE i \in 1 .. ls
      <4>1. m[w] = p[i]
        BY <1>17, <3>3, <3>4, <3>7 DEF lp
      <4>2. p[i] = regs[s[i]]
        BY <1>14, <3>7 DEF ls
      <4>3. s[i] \in Range(s)
        BY <1>9, <3>7 DEF Range, ls
      <4>4. CASE s[i] \in LiveRegs(fr)
        BY <1>4, <1>19, <2>2, <4>1, <4>2, <4>4
      <4>5. CASE fr.shape.main /\ s[i] \in MainArgRegs
        BY <2>2, <3>7, <4>5 DEF ls
      <4> QED
        BY <1>9, <4>3, <4>4, <4>5
    <3> QED
      BY <3>1, <3>5, <3>6, <3>7
  <2> QED
    BY <2>3, <2>4
<1>24. /\ Sound(gs, mem') /\ Len(gs) = Len(frames) /\ gs[Len(gs)] = [fr EXCEPT !.depth = k]
       /\ Stacked(gs) /\ gs /= <<>> /\ Base(gs[Len(gs)]) = sp
  <2>1. k \in Nat /\ k <= frames[Len(frames)].depth
    BY <1>7 DEF Running
  <2> QED
    BY <1>2, <1>3, <1>11, <1>23, <2>1, SoundDrop, SetDepth DEF Running
<1> HIDE DEF gs, fr
<1>25. Sound(frames', mem')
  BY <1>8, <1>9, <1>12, <1>21, <1>22, <1>24, <1>29, SoundPush
<1>26. Running' = new /\ frames' /= <<>>
  <2>1. gs \in Seq(Activation)
    BY <1>24 DEF Stacked
  <2> QED
    BY <1>12, <1>21, <2>1 DEF Running
<1>27. regs' \in [Registers -> Kinds] /\ \A r \in LiveRegs(new) : regs'[r] \in Clean
  <2>1. Running.depth >= n + (IF viaClosure THEN 1 ELSE 0)
    BY <1>6 DEF fr
  <2>2. new.depth = 0 /\ Named(new.shape) = n /\ (new.shape.closure => viaClosure)
    BY <1>5, <1>12, <1>22
  <2> HIDE DEF n
  <2> QED
    BY <1>2, <1>5, <1>12, <2>1, <2>2, EntryIsClean
<1>28. Pushes(Running'.saved)
  <2>1. \A w \in 1 .. sp : mem[w] \in Clean => mem'[w] \in Clean
    BY <1>18, <1>19, <1>20
  <2>2. Unfilled(Running') = b + 1 .. b + LSize(shape) - Allocated(shape)
    BY <1>22, <1>26 DEF Unfilled
  <2>3. Running'.saved = s
    BY <1>22, <1>26
  <2> QED
    BY <1>30, <2>1, <2>2, <2>3 DEF Pushes, fr
<1> QED
  BY <1>2, <1>19, <1>25, <1>26, <1>27, <1>28, CodeRuns

\* A tail call: the arguments take the parameters' places, and what the caller's
\* sequence will pop stays where it is.
LEMMA TailCallLamaKeeps ==
  ASSUME IInv, LInv, TailCallLama
  PROVE  LInv' /\ frames' /= <<>> /\ Refills
<1> DEFINE fr       == Running
           moved(n) == [w \in DOMAIN mem |->
                          IF \E k \in ArgRegs + 1 .. n : w = Slot(fr, ArgSlot(k - 1))
                          THEN Argument(n, CHOOSE k \in ArgRegs + 1 .. n :
                                             w = Slot(fr, ArgSlot(k - 1)))
                          ELSE mem[w]]
<1>1. PICK shape \in Functions, viaClosure \in BOOLEAN :
        /\ shape.closure => viaClosure
        /\ shape.nargs = fr.shape.nargs
        /\ fr.depth = shape.nargs + IF viaClosure THEN 1 ELSE 0
        /\ fr.rbp + LSize(shape) < MaxWords
        /\ sp' = fr.rbp + LSize(shape)
        /\ mem' = Filled([moved(shape.nargs) EXCEPT ![fr.rbp] = "plain"], fr.rbp, shape)
        /\ regs' = Entry(shape.nargs, viaClosure)
        /\ frames' = Append(Front(frames), NewFrame(shape, fr.rbp, fr.saved, fr.extra))
  BY DEF TailCallLama
<1> DEFINE n   == shape.nargs
           m   == moved(n)
           m1  == [m EXCEPT ![fr.rbp] = "plain"]
           gs  == Front(frames)
           new == NewFrame(shape, fr.rbp, fr.saved, fr.extra)
<1>2. InLama /\ frames /= <<>> /\ ~call.active /\ call' = call /\ Len(frames) > 1
  BY DEF TailCallLama, InLama
<1>3. /\ fr \in Activation /\ Fits(fr) /\ Stacked(frames)
      /\ \A w \in LiveWords(fr) : mem[w] \in Clean
      /\ Base(fr) \in 2 .. MaxWords
  BY <1>2, RunningIsSound
<1>4. Sound(frames, mem) /\ mem \in [1 .. MaxWords -> Kinds]
  BY DEF LInv
<1>5. /\ n \in Nat /\ fr.depth \in Nat /\ ArgRegs \in Nat /\ MaxWords \in Nat
      /\ LSize(shape) \in Nat /\ fr.rbp \in Int /\ fr.extra \in Nat
      /\ fr.saved \in Seq(Registers) /\ fr.shape \in Shapes
      /\ shape \in Shapes /\ Named(shape) = n
  BY <1>3, ShapesAssumption, FramesAreEven, NamedParameters DEF Activation, Functions
<1>6. /\ shape.closure => viaClosure
      /\ n = fr.shape.nargs
      /\ fr.depth = n + IF viaClosure THEN 1 ELSE 0
      /\ fr.rbp + LSize(shape) < MaxWords
      /\ mem' = Filled(m1, fr.rbp, shape) /\ regs' = Entry(n, viaClosure)
      /\ frames' = Append(gs, new) /\ sp' = fr.rbp + LSize(shape)
  BY <1>1
<1>7. /\ n <= fr.depth
      /\ fr.depth >= n + (IF viaClosure THEN 1 ELSE 0)
      /\ \A k \in ArgRegs + 1 .. n : k \in 1 .. n /\ k - 1 \in ArgRegs .. n - 1
      /\ \A i \in ArgRegs .. n - 1 : i + 1 \in ArgRegs + 1 .. n /\ (i + 1) - 1 = i
  BY <1>5, <1>6
<1>8. \A w \in 1 .. MaxWords : m[w] \in Clean \/ m[w] = mem[w]
  <2>1. \A k \in ArgRegs + 1 .. n : Argument(n, k) \in Clean
    BY <1>2, <1>5, <1>7, ArgumentIsClean
  <2> SUFFICES ASSUME NEW w \in 1 .. MaxWords
               PROVE  m[w] \in Clean \/ m[w] = mem[w]
    OBVIOUS
  <2>2. DOMAIN mem = 1 .. MaxWords
    BY <1>4
  <2>3. CASE \E k \in ArgRegs + 1 .. n : w = Slot(fr, ArgSlot(k - 1))
    <3> DEFINE c == CHOOSE k \in ArgRegs + 1 .. n : w = Slot(fr, ArgSlot(k - 1))
    <3>1. c \in ArgRegs + 1 .. n
      BY <2>3
    <3>2. m[w] = Argument(n, c)
      BY <2>2, <2>3
    <3> HIDE DEF c, m
    <3> QED
      BY <2>1, <3>1, <3>2
  <2>4. CASE ~\E k \in ArgRegs + 1 .. n : w = Slot(fr, ArgSlot(k - 1))
    BY <2>2, <2>4
  <2> QED
    BY <2>3, <2>4
<1>9. \A i \in ArgRegs .. n - 1 : Slot(fr, ArgSlot(i)) \in 1 .. MaxWords
                                  => m[Slot(fr, ArgSlot(i))] \in Clean
  <2> SUFFICES ASSUME NEW i \in ArgRegs .. n - 1, Slot(fr, ArgSlot(i)) \in 1 .. MaxWords
               PROVE  m[Slot(fr, ArgSlot(i))] \in Clean
    OBVIOUS
  <2> DEFINE w    == Slot(fr, ArgSlot(i))
             P(k) == w = Slot(fr, ArgSlot(k - 1))
             c    == CHOOSE k \in ArgRegs + 1 .. n : P(k)
  <2>1. i + 1 \in ArgRegs + 1 .. n /\ (i + 1) - 1 = i
    BY <1>7
  <2>2. P(i + 1)
    BY <2>1
  <2>3. \E k \in ArgRegs + 1 .. n : P(k)
    BY <2>1, <2>2
  <2>4. c \in ArgRegs + 1 .. n
    <3> HIDE DEF P
    <3> QED
      BY <2>3
  <2>5. w \in DOMAIN mem
    BY <1>4
  <2>6. m[w] = Argument(n, c)
    BY <2>3, <2>5
  <2>7. c \in 1 .. n
    <3> HIDE DEF c
    <3> QED
      BY <1>7, <2>4
  <2> HIDE DEF c
  <2>8. Argument(n, c) \in Clean
    BY <1>2, <1>5, <1>7, <2>7, ArgumentIsClean
  <2> QED
    BY <2>6, <2>8
<1>10. m = [w \in 1 .. MaxWords |-> m[w]]
  BY <1>4
<1> HIDE DEF m, moved, gs
<1>11. m \in [1 .. MaxWords -> Kinds]
  <2>1. \A w \in 1 .. MaxWords : m[w] \in Kinds
    BY <1>4, <1>8, CleanKinds
  <2> QED
    BY <1>10, <2>1
<1>12. /\ m1 \in [1 .. MaxWords -> Kinds]
       /\ \A w \in 1 .. MaxWords : m[w] \in Clean => m1[w] \in Clean
  BY <1>11, CleanKinds
<1> HIDE DEF m1
<1>13. /\ mem' \in [1 .. MaxWords -> Kinds]
       /\ \A w \in 1 .. MaxWords : m1[w] \in Clean => mem'[w] \in Clean
  BY <1>6, <1>12, FilledIsClean
<1>14. \A w \in 1 .. MaxWords : (mem[w] \in Clean \/ m[w] \in Clean) => mem'[w] \in Clean
  BY <1>8, <1>12, <1>13
<1>15. /\ new.saved = fr.saved /\ new.depth = 0 /\ new.shape = shape /\ new.rbp = fr.rbp
  BY DEF NewFrame
<1>16. /\ new \in Activation /\ Before(new) = fr.rbp - 2 - fr.extra - Len(fr.saved)
  BY <1>5, NewFrameIsActivation
<1>17. Before(fr) = fr.rbp - 2 - fr.extra - Len(fr.saved) /\ Before(fr) >= 0
       /\ StackArgs(n) <= fr.extra
  BY <1>3, <1>6 DEF Before, Fits
<1>18. /\ Fits(new)
       /\ \A w \in LiveWords(new) :
            \E i \in ArgRegs .. n - 1 : w = fr.rbp - 2 - (i - ArgRegs)
  <2> DEFINE b == Before(fr)
             c == fr.rbp
             s == fr.saved
             x == fr.extra
             z == c - 2 - x - Len(s)
  <2>1. b = z /\ z >= 0 /\ StackArgs(n) <= x /\ c + LSize(shape) < MaxWords
    BY <1>6, <1>17
  <2>2. c \in Int /\ s \in Seq(Registers) /\ x \in Nat /\ new = NewFrame(shape, c, s, x)
    BY <1>5
  <2> HIDE DEF b, c, s, x, new
  <2>3. /\ Fits(new)
        /\ \A w \in LiveWords(new) :
             \E i \in ArgRegs .. n - 1 : w = c - 2 - (i - ArgRegs)
    BY <1>5, <2>1, <2>2, NewFrameFits
  <2> HIDE DEF z
  <2> QED
    BY <2>1, <2>3 DEF b, c, s
<1>19. \A w \in 1 .. Base(fr) : w \in 1 .. MaxWords
  BY <1>3, <1>5
<1>20. \A w \in LiveWords(new) : mem'[w] \in Clean
  <2> SUFFICES ASSUME NEW w \in LiveWords(new)
               PROVE  mem'[w] \in Clean
    OBVIOUS
  <2> HIDE DEF fr, n
  <2>1. PICK i \in ArgRegs .. n - 1 : w = fr.rbp - 2 - (i - ArgRegs)
    BY <1>18
  <2>2. w = Slot(fr, ArgSlot(i)) /\ w \in 1 .. Base(fr)
    BY <1>3, <1>6, <2>1, ParameterWord
  <2> QED
    BY <1>9, <1>14, <1>19, <2>2
<1>21. Sound(frames, mem')
  <2>1. \A w \in 1 .. Base(fr) : mem[w] \in Clean => mem'[w] \in Clean
    BY <1>14, <1>19
  <2> QED
    BY <1>2, <1>3, <1>4, <2>1, SoundCleaner DEF Running
<1>22. Len(frames) \in 2 .. Len(frames) /\ Len(frames) - 1 \in 1 .. Len(frames) - 1
  <2>1. Len(frames) \in Nat
    BY <1>3 DEF Stacked
  <2> QED
    BY <1>2, <2>1
<1>23. /\ Sound(gs, mem') /\ Stacked(gs) /\ Len(gs) = Len(frames) - 1
       /\ gs[Len(gs)] = frames[Len(frames) - 1]
  BY <1>2, <1>3, <1>21, <1>22, SoundPop, PopActivation DEF gs
<1>24. gs /= <<>>
  BY <1>22, <1>23
<1>25. /\ LiveRegs(gs[Len(gs)]) \subseteq Range(new.saved) /\ HasRoom(gs[Len(gs)], 1)
       /\ Before(new) = Base(gs[Len(gs)])
       /\ Kept(gs[Len(gs)], new.saved, Before(new), mem')
  <2>1. /\ LiveRegs(frames[Len(frames) - 1]) \subseteq Range(fr.saved)
        /\ HasRoom(frames[Len(frames) - 1], 1)
        /\ Kept(frames[Len(frames) - 1], fr.saved, Before(fr), mem')
    BY <1>21, <1>22 DEF Sound, Running
  <2>2. Before(fr) = Base(frames[Len(frames) - 1])
    BY <1>3, <1>22 DEF Stacked, Running
  <2> HIDE DEF fr, new
  <2> QED
    BY <1>15, <1>16, <1>17, <1>23, <2>1, <2>2
<1> HIDE DEF new
<1>26. Sound(frames', mem')
  BY <1>6, <1>16, <1>18, <1>20, <1>23, <1>24, <1>25, SoundPush
<1>27. Running' = new /\ frames' /= <<>>
  <2>1. gs \in Seq(Activation)
    BY <1>23 DEF Stacked
  <2> QED
    BY <1>6, <1>16, <2>1 DEF Running
<1>28. regs' \in [Registers -> Kinds] /\ \A r \in LiveRegs(new) : regs'[r] \in Clean
  <2>1. new.depth = 0 /\ Named(new.shape) = n /\ (new.shape.closure => viaClosure)
    BY <1>5, <1>6, <1>15
  <2> HIDE DEF n
  <2> QED
    BY <1>2, <1>5, <1>6, <1>7, <2>1, EntryIsClean
<1>29. Refills
  <2>1. \A w \in 1 .. MaxWords : mem[w] \in Clean => mem'[w] \in Clean
    BY <1>14
  <2>2. Unfilled(Running') = fr.rbp + 1 .. fr.rbp + LSize(shape) - Allocated(shape)
    BY <1>15, <1>27 DEF Unfilled
  <2>3. ASSUME NEW w \in fr.rbp + 1 .. sp'
        PROVE  mem'[w] \in Clean \/ w \in Unfilled(Running')
    <3> DEFINE b == fr.rbp
               z == LSize(shape)
    <3>1. sp' = b + z /\ b + z < MaxWords /\ b \in 2 .. Base(fr) /\ Base(fr) \in 2 .. MaxWords
          /\ z \in Nat /\ MaxWords \in Nat
      BY <1>3, <1>5, <1>6, FrameLayout
    <3> HIDE DEF b, z
    <3>2. b \in Int /\ w \in b + 1 .. b + z /\ w \in 1 .. MaxWords
      BY <3>1 DEF b
    <3>3. Filled(m1, b, shape)[w] \in Clean \/ w \in b + 1 .. b + z - Allocated(shape)
      BY <1>5, <1>12, <3>2, FrameIsFilled DEF z
    <3> QED
      BY <1>6, <2>2, <3>3 DEF b, z
  <2> QED
    BY <2>1, <2>3 DEF Refills
<1> QED
  BY <1>2, <1>13, <1>26, <1>27, <1>28, <1>29, CodeRuns

\* A function returns: its caller finds its registers and the result.
LEMMA ReturnLamaKeeps ==
  ASSUME IInv, LInv, ReturnLama
  PROVE  LInv'
<1> DEFINE fr   == Running
           base == Before(fr)
           r    == Restored(fr.saved, base, mem)
           gs   == Front(frames)
<1>1. InLama /\ frames /= <<>> /\ ~call.active /\ call' = call
  BY DEF ReturnLama, InLama
<1>2. /\ fr \in Activation /\ Fits(fr) /\ Stacked(frames)
      /\ \A w \in LiveWords(fr) : mem[w] \in Clean
  BY <1>1, RunningIsSound
<1>3. Sound(frames, mem) /\ mem \in [1 .. MaxWords -> Kinds] /\ regs \in [Registers -> Kinds]
  BY DEF LInv
<1>4. CASE Len(frames) = 1
  <2>1. frames' = <<>> /\ UNCHANGED <<mem, regs>>
    BY <1>4 DEF ReturnLama
  <2>2. Sound(<<>>, mem)
    BY DEF Sound
  <2> QED
    BY <1>1, <1>3, <2>1, <2>2, CodeRuns
<1>5. CASE Len(frames) /= 1
  <2> DEFINE n == Len(frames) - 1
  <2>1. /\ WithResult(frames[n], r, mem)
        /\ frames' = [gs EXCEPT ![n].depth = @ + 1]
    BY <1>5 DEF ReturnLama, Before
  <2>2. n \in 1 .. n /\ Len(frames) \in 2 .. Len(frames)
    <3>1. Len(frames) \in Nat \ {0}
      BY <1>1, <1>2 DEF Stacked
    <3>2. \A k \in Nat \ {0} : k /= 1 => k - 1 \in 1 .. k - 1 /\ k \in 2 .. k
      OBVIOUS
    <3> QED
      BY <1>5, <3>1, <3>2
  <2>3. /\ Sound(gs, mem) /\ Stacked(gs) /\ Len(gs) = n /\ gs[n] = frames[n]
    BY <1>1, <1>2, <1>3, <2>2, SoundPop, PopActivation
  <2>4. /\ LiveRegs(frames[n]) \subseteq Range(fr.saved) /\ HasRoom(frames[n], 1)
        /\ Kept(frames[n], fr.saved, base, mem)
    BY <1>3, <2>2 DEF Sound, Running
  <2>5. r \in [Registers -> Kinds] /\ \A x \in LiveRegs(frames[n]) : r[x] \in Clean
    <3>1. fr.saved \in Seq(Registers) /\ base \in Int
      BY <1>2, BaseIsAPlace DEF Activation
    <3>2. \A i \in 1 .. Len(fr.saved) : mem[base + i] \in Kinds
      <4>1. \A i \in 1 .. Len(fr.saved) : base + i \in 1 .. Base(fr)
        BY <1>2, SavedWord
      <4>2. Base(fr) \in Int /\ MaxWords \in Int /\ Base(fr) <= MaxWords
        BY <1>2, BaseIsAPlace, ShapesAssumption DEF Fits
      <4>3. \A w \in 1 .. Base(fr) : w \in 1 .. MaxWords
        BY <4>2
      <4> QED
        BY <1>3, <4>1, <4>3
    <3> HIDE DEF base, n, fr
    <3> QED
      BY <2>4, <3>1, <3>2, RestoredAreClean
  <2>6. gs /= <<>>
    BY <2>2, <2>3
  <2> HIDE DEF gs, r, n
  <2>7. frames' = [gs EXCEPT ![Len(gs)].depth = gs[Len(gs)].depth + 1]
    BY <2>1, <2>3
  <2>8. /\ WithResult(gs[Len(gs)], r, mem) /\ HasRoom(gs[Len(gs)], 1)
        /\ \A x \in LiveRegs(gs[Len(gs)]) : r[x] \in Clean
    BY <2>1, <2>3, <2>4, <2>5
  <2>9. /\ Sound(frames', mem')
        /\ \A x \in LiveRegs(Running') : regs'[x] \in Clean
        /\ mem' \in [1 .. MaxWords -> Kinds] /\ regs' \in [Registers -> Kinds]
    BY <1>3, <2>3, <2>5, <2>6, <2>7, <2>8, SoundResult DEF Running
  <2> QED
    BY <1>1, <2>9, CodeRuns
<1> QED
  BY <1>4, <1>5

LEMMA StepIsSound ==
  ASSUME IInv, LInv, [Next]_vars
  PROVE  LInv'
<1>1. CASE UNCHANGED vars
  <2>1. Running' = Running
    BY <1>1 DEF vars, Running
  <2> QED
    BY <1>1, <2>1 DEF vars, LInv, InLama
<1>2. CASE Next
  BY <1>2, EnterMainKeeps, PushOperandKeeps, StoreLocalKeeps, DropKeeps, CallRuntimeKeeps,
     RuntimeReturnsKeeps, CallLamaKeeps, TailCallLamaKeeps, ReturnLamaKeeps DEF Next
<1> QED
  BY <1>1, <1>2

-----------------------------------------------------------------------------
\* What a function still needs is what the invariant speaks of.
LEMMA NeededIsLive ==
  ASSUME IInv, LInv, InLama
  PROVE  "old" \notin LiveValues
<1> DEFINE fr == Running
<1>1. /\ fr \in Activation /\ Fits(fr)
      /\ \A w \in LiveWords(fr) : mem[w] \in Clean
      /\ \A r \in LiveRegs(fr) : regs[r] \in Clean
  BY RunningIsSound DEF InLama, LInv
<1>2. /\ ArgRegs \in Nat /\ fr.shape.nargs \in Nat /\ fr.shape.nlocals \in Nat
      /\ fr.shape.memory \in Nat
      /\ Named(fr.shape) \in Nat /\ Named(fr.shape) <= fr.shape.nargs
  BY <1>1, ShapesAssumption, NamedParameters DEF Activation
<1>3. fr.shape.closure => regs[R15] \in Clean
  <2>1. R15 \in Registers
    BY DEF Registers
  <2> QED
    BY <1>1, <2>1 DEF LiveRegs
<1>4. ASSUME NEW i \in 0 .. Named(fr.shape) - 1
      PROVE  IF ArgIsRegister(i) THEN regs[ArgReg(i + 1)] \in Clean
             ELSE mem[Slot(fr, ArgSlot(i))] \in Clean
  <2>1. CASE i < ArgRegs
    <3>1. i + 1 \in 1 .. Least(Named(fr.shape), ArgRegs) /\ i + 1 \in 1 .. ArgRegs
      BY <1>2, <2>1 DEF Least
    <3>2. ArgReg(i + 1) \in Registers
      BY <3>1 DEF Registers
    <3>3. ArgReg(i + 1) \in LiveRegs(fr)
      BY <3>1, <3>2 DEF LiveRegs
    <3> QED
      BY <1>1, <2>1, <3>3 DEF ArgIsRegister
  <2>2. CASE ~(i < ArgRegs)
    <3>1. i \in ArgRegs .. fr.shape.nargs - 1
      BY <1>2, <2>2
    <3>2. Slot(fr, ArgSlot(i)) \in Int
      <4>1. Slot(fr, ArgSlot(i)) \in 1 .. Base(fr)
        BY <1>1, <3>1, ParameterWord
      <4> QED
        BY <4>1
    <3>3. Slot(fr, ArgSlot(i)) \in LiveWords(fr)
      BY <3>1, <3>2 DEF LiveWords
    <3> QED
      BY <1>1, <2>2, <3>3 DEF ArgIsRegister
  <2> QED
    BY <2>1, <2>2
<1>5. ASSUME NEW i \in fr.assigned
      PROVE  mem[Slot(fr, i)] \in Clean
  <2>1. i \in 0 .. fr.shape.nlocals - 1
    BY <1>1 DEF Fits
  <2>2. i \in 0 .. Allocated(fr.shape) - 1
    BY <1>2, <2>1 DEF Allocated
  <2>3. Slot(fr, i) \in 1 .. Base(fr)
    BY <1>1, <2>2, LocalWord
  <2>4. Slot(fr, i) \in LiveWords(fr)
    BY <2>3 DEF LiveWords
  <2> QED
    BY <1>1, <2>4
<1>6. \A i \in 1 .. fr.depth : ValueAt(fr, i) \in Clean
  BY <1>1, ValueIsClean
<1> HIDE DEF fr
<1>7. /\ (IF fr.shape.closure THEN {regs[R15]} ELSE {}) \subseteq Clean
      /\ {IF ArgIsRegister(i) THEN regs[ArgReg(i + 1)]
          ELSE mem[Slot(fr, ArgSlot(i))] : i \in 0 .. Named(fr.shape) - 1} \subseteq Clean
      /\ {mem[Slot(fr, i)] : i \in fr.assigned} \subseteq Clean
      /\ {ValueAt(fr, i) : i \in 1 .. fr.depth} \subseteq Clean
  BY <1>3, <1>4, <1>5, <1>6
<1>8. LiveValues \subseteq Clean
  BY <1>7 DEF LiveValues, fr
<1> QED
  BY <1>8, CleanKinds

\* Whatever is called in between and however often it collects, no value that a
\* function still needs is a pointer into a heap that is gone.
THEOREM LiveValuesStayCurrent == Spec => []LiveValuesAreCurrent
<1>1. Init => IInv /\ LInv
  BY InitIsStacked, InitIsSound
<1>2. IInv /\ LInv /\ [Next]_vars => IInv' /\ LInv'
  BY StepKeepsStacked, StepIsSound
<1>3. IInv /\ LInv => LiveValuesAreCurrent
  BY NeededIsLive DEF LiveValuesAreCurrent
<1> QED
  BY <1>1, <1>2, <1>3, PTL DEF Spec

-----------------------------------------------------------------------------
\* What the types need beyond that: once main has returned, no frame says where
\* the stack ends.
TInv == started \in BOOLEAN /\ (frames = <<>> => sp \in 0 .. MaxWords)

\* While there is a frame, the stack pointer is in the stack.
LEMMA StackPointerIsInStack ==
  ASSUME IInv, LInv, frames /= <<>>
  PROVE  sp \in 0 .. MaxWords
<1> DEFINE b == Base(Running)
           x == call.extra
           l == Len(call.saved)
<1>1. b \in 2 .. MaxWords /\ MaxWords \in Nat
  BY RunningIsSound, ShapesAssumption
<1>2. CASE ~call.active
  <2>1. sp = b
    BY <1>2 DEF IInv
  <2> HIDE DEF b
  <2> QED
    BY <1>1, <2>1
<1>3. CASE call.active
  <2>1. sp \in Int /\ sp - x - l = b /\ x \in Nat /\ l \in Nat /\ sp <= MaxWords
    BY <1>3 DEF IInv, LInv, RuntimeCall
  <2> HIDE DEF b, x, l
  <2> QED
    BY <1>1, <2>1
<1> QED
  BY <1>2, <1>3

LEMMA StepKeepsTypes ==
  ASSUME IInv, LInv, TInv, [Next]_vars
  PROVE  TInv'
<1>1. IInv' /\ LInv'
  BY StepKeepsStacked, StepIsSound
<1>2. started' \in BOOLEAN
  BY DEF TInv, vars, Next, EnterMain, PushOperand, StoreLocal, Drop, CallRuntime,
         RuntimeReturns, CallLama, TailCallLama, ReturnLama
<1>3. CASE frames' /= <<>>
  BY <1>2, <1>3 DEF TInv
<1>4. CASE EnterMain \/ CallRuntime
  <2>1. EnterMain => call'.active
    BY DEF EnterMain
  <2>2. CallRuntime => call'.active
    BY DEF CallRuntime
  <2> QED
    BY <1>1, <1>3, <1>4, <2>1, <2>2 DEF IInv
<1>5. CASE PushOperand \/ StoreLocal \/ Drop
  <2>1. UNCHANGED sp /\ frames /= <<>>
    BY <1>5 DEF PushOperand, StoreLocal, Drop, InLama
  <2> QED
    BY <1>2, <2>1, StackPointerIsInStack DEF TInv
<1>6. CASE RuntimeReturns
  <2>1. sp' = Base(Running) /\ frames /= <<>>
    BY <1>6 DEF RuntimeReturns, IInv
  <2>2. Base(Running) \in 2 .. MaxWords /\ MaxWords \in Nat
    BY <2>1, RunningIsSound, ShapesAssumption
  <2>3. Base(Running) \in 0 .. MaxWords
    BY <2>2
  <2> QED
    BY <1>2, <2>1, <2>3 DEF TInv
<1>7. CASE CallLama \/ TailCallLama
  BY <1>3, <1>7, CallLamaKeeps, TailCallLamaKeeps
<1>8. CASE ReturnLama
  <2> DEFINE fr     == Running
             before == Before(fr)
             base   == Base(fr)
             rbp    == fr.rbp
             pops   == Len(fr.saved)
             extra  == fr.extra
  <2>1. sp' = before /\ frames /= <<>>
    BY <1>8 DEF ReturnLama, Before, InLama
  <2>2. fr \in Activation /\ Fits(fr)
    BY <2>1, RunningIsSound
  <2>3. /\ rbp \in 2 .. base /\ base \in 2 .. MaxWords /\ before + pops + extra + 2 = rbp
        /\ before \in Nat /\ pops \in Nat
    BY <2>2, FrameLayout
  <2>4. extra \in Nat /\ MaxWords \in Nat
    BY <2>2, ShapesAssumption DEF Activation
  <2> HIDE DEF before, base, rbp, pops, extra
  <2>5. before \in 0 .. MaxWords
    BY <2>3, <2>4
  <2> QED
    BY <1>2, <2>1, <2>5 DEF TInv
<1>9. CASE UNCHANGED vars
  BY <1>9 DEF TInv, vars
<1> QED
  BY <1>4, <1>5, <1>6, <1>7, <1>8, <1>9 DEF Next

\* The types hold, and no symbolic stack outgrows its frame.
THEOREM FramesAreTyped == Spec => []TypeOK
<1>1. Init => IInv /\ LInv /\ TInv
  <2>1. \A k \in Nat \ {0} : {0, 1} \subseteq 0 .. k
    OBVIOUS
  <2>2. {0, 1} \subseteq 0 .. MaxWords
    BY <2>1, ShapesAssumption
  <2>3. Init => TInv
    BY <2>2 DEF Init, TInv
  <2> QED
    BY <2>3, InitIsStacked, InitIsSound
<1>2. IInv /\ LInv /\ TInv /\ [Next]_vars => IInv' /\ LInv' /\ TInv'
  BY StepKeepsStacked, StepIsSound, StepKeepsTypes
<1>3. ASSUME IInv, LInv, TInv
      PROVE  TypeOK
  <2>1. \A d \in DOMAIN frames :
          /\ frames[d].shape \in Shapes
          /\ frames[d].depth \in 0 .. SymRegs + frames[d].shape.memory
          /\ frames[d].rbp \in 1 .. MaxWords
          /\ Range(frames[d].saved) \subseteq Registers
          /\ frames[d].assigned \subseteq 0 .. frames[d].shape.nlocals - 1
    <3> SUFFICES ASSUME NEW d \in DOMAIN frames
                 PROVE  /\ frames[d].shape \in Shapes
                        /\ frames[d].depth \in 0 .. SymRegs + frames[d].shape.memory
                        /\ frames[d].rbp \in 1 .. MaxWords
                        /\ Range(frames[d].saved) \subseteq Registers
                        /\ frames[d].assigned \subseteq 0 .. frames[d].shape.nlocals - 1
      OBVIOUS
    <3> DEFINE a == frames[d]
    <3>1. a \in Activation /\ Fits(a)
      BY <1>3 DEF IInv, Stacked, LInv, Sound
    <3> HIDE DEF a
    <3>2. a.rbp \in 2 .. Base(a) /\ Base(a) \in 2 .. MaxWords /\ MaxWords \in Nat
      BY <3>1, FrameLayout, ShapesAssumption
    <3>3. a.rbp \in 1 .. MaxWords
      BY <3>2
    <3>4. /\ a.shape \in Shapes /\ a.depth \in Nat /\ a.saved \in Seq(Registers)
          /\ a.shape.memory \in Nat /\ SymRegs \in Nat
      BY <3>1, ShapesAssumption DEF Activation
    <3>5. /\ a.depth <= SymRegs + a.shape.memory
          /\ a.assigned \subseteq 0 .. a.shape.nlocals - 1
      BY <3>1 DEF Fits
    <3>6. a.depth \in 0 .. SymRegs + a.shape.memory
      BY <3>4, <3>5
    <3>7. Range(a.saved) \subseteq Registers
      BY <3>4 DEF Range
    <3> QED
      BY <3>3, <3>4, <3>5, <3>6, <3>7 DEF a
  <2>2. Range(call.saved) \subseteq Registers
    BY <1>3 DEF IInv, RuntimeCall, Range
  <2> QED
    BY <1>3, <2>1, <2>2, StackPointerIsInStack DEF TypeOK, LInv, TInv
<1> QED
  BY <1>1, <1>2, <1>3, PTL DEF Spec

-----------------------------------------------------------------------------
(* Stale roots. *)

\* What main's sequence has saved, c being the runtime call under way.
MainSaved(fs, c) == IF Len(fs) = 1 THEN c.saved ELSE fs[2].saved

\* Word w is one of those that may be stale.
MayBeStale(fs, c, w) ==
  \/ \E d \in 1 .. Len(fs) : w \in Unfilled(fs[d])
  \/ \E i \in 1 .. Len(MainSaved(fs, c)) :
       w = Base(fs[1]) + i /\ MainSaved(fs, c)[i] \in MainArgRegs

\* The inductive invariant: no other word of the stack is stale at any time, and
\* main is the oldest activation and no other.
SInv ==
  /\ ~started => \A w \in 1 .. MaxWords : mem[w] \in Clean
  /\ \A d \in 1 .. Len(frames) : frames[d].shape.main <=> d = 1
  /\ frames /= <<>> => \A w \in 1 .. sp : mem[w] \in Clean \/ MayBeStale(frames, call, w)

\* The first n activations keep their places.
SamePlaces(fs, gs, n) ==
  /\ n \in 1 .. Len(fs) /\ n \in 1 .. Len(gs)
  /\ \A d \in 1 .. n : /\ fs[d].shape = gs[d].shape /\ fs[d].rbp = gs[d].rbp
                       /\ fs[d].align = gs[d].align /\ fs[d].saved = gs[d].saved

\* A step of the running function that keeps its place.
LEMMA TopKeepsItsPlace ==
  ASSUME NEW fs, Stacked(fs), fs /= <<>>, NEW a \in Activation,
         a.shape = fs[Len(fs)].shape, a.rbp = fs[Len(fs)].rbp,
         a.align = fs[Len(fs)].align, a.saved = fs[Len(fs)].saved
  PROVE  LET gs == [fs EXCEPT ![Len(fs)] = a]
         IN Len(gs) = Len(fs) /\ SamePlaces(fs, gs, Len(fs))
<1> DEFINE gs == [fs EXCEPT ![Len(fs)] = a]
<1>1. fs \in Seq(Activation) /\ Len(fs) \in Nat \ {0}
  BY DEF Stacked
<1>2. Len(gs) = Len(fs)
  BY <1>1
<1>3. gs[Len(fs)] = a /\ \A d \in 1 .. Len(fs) : d /= Len(fs) => gs[d] = fs[d]
  BY <1>1
<1> HIDE DEF gs
<1> QED
  BY <1>1, <1>2, <1>3 DEF SamePlaces, gs

LEMMA DepthKeepsThePlace ==
  ASSUME NEW fs, Stacked(fs), fs /= <<>>, NEW k \in Nat
  PROVE  LET gs == [fs EXCEPT ![Len(fs)].depth = k]
         IN Len(gs) = Len(fs) /\ SamePlaces(fs, gs, Len(fs))
<1> DEFINE a == [fs[Len(fs)] EXCEPT !.depth = k]
<1>1. fs[Len(fs)] \in Activation
  BY DEF Stacked
<1>2. /\ a \in Activation /\ a.shape = fs[Len(fs)].shape /\ a.rbp = fs[Len(fs)].rbp
      /\ a.align = fs[Len(fs)].align /\ a.saved = fs[Len(fs)].saved
  BY <1>1, WithDepth
<1>3. [fs EXCEPT ![Len(fs)].depth = k] = [fs EXCEPT ![Len(fs)] = a]
  OBVIOUS
<1> HIDE DEF a
<1> QED
  BY <1>2, <1>3, TopKeepsItsPlace

\* Places that stay in the stack: a word below the end of the n-th activation may
\* be stale afterwards if it might be before, only the youngest activation, if
\* any, being gone.
LEMMA StaleBelow ==
  ASSUME NEW fs, NEW gs, NEW n, SamePlaces(fs, gs, n), Stacked(fs), Stacked(gs),
         \A d \in 1 .. Len(fs) : Fits(fs[d]),
         n = Len(fs) \/ n = Len(fs) - 1,
         NEW c, NEW e, NEW w \in Int, w <= Base(fs[n]), MayBeStale(fs, c, w)
  PROVE  MayBeStale(gs, e, w)
<1>1. /\ Len(fs) \in Nat /\ Len(gs) \in Nat /\ n \in 1 .. Len(fs) /\ n \in 1 .. Len(gs)
      /\ n \in Nat
      /\ \A d \in 1 .. Len(fs) : fs[d] \in Activation
      /\ \A d \in 1 .. Len(gs) : gs[d] \in Activation
  BY DEF Stacked, SamePlaces
<1>2. CASE \E d \in 1 .. Len(fs) : w \in Unfilled(fs[d])
  <2>1. PICK d \in 1 .. Len(fs) : w \in Unfilled(fs[d])
    BY <1>2
  <2>2. CASE d \in 1 .. n
    <3>1. Unfilled(gs[d]) = Unfilled(fs[d])
      BY <2>2 DEF SamePlaces, Unfilled
    <3>2. d \in 1 .. Len(gs)
      BY <1>1, <2>2
    <3> QED
      BY <2>1, <3>1, <3>2 DEF MayBeStale
  <2>3. CASE ~(d \in 1 .. n)
    <3> DEFINE b == Base(fs[n])
               r == fs[d].rbp
               l == Len(fs[d].saved)
               x == fs[d].extra
    <3>1. d = n + 1 /\ d - 1 = n /\ d \in 2 .. Len(fs)
      BY <1>1, <2>3
    <3>2. Before(fs[d]) = b
      BY <3>1 DEF Stacked
    <3>3. fs[d] \in Activation /\ b \in Int
      BY <1>1, BaseIsAPlace
    <3>4. r \in Int /\ l \in Nat /\ x \in Nat
      BY <3>3 DEF Activation
    <3>5. b = r - 2 - x - l
      BY <3>2 DEF Before
    <3>6. w >= r + 1
      BY <2>1, <3>4 DEF Unfilled
    <3> HIDE DEF b, r, l, x
    <3>7. w <= b
      BY DEF b
    <3> QED
      BY <3>3, <3>4, <3>5, <3>6, <3>7
  <2> QED
    BY <2>2, <2>3
<1>3. CASE \E i \in 1 .. Len(MainSaved(fs, c)) :
             w = Base(fs[1]) + i /\ MainSaved(fs, c)[i] \in MainArgRegs
  <2>1. PICK i \in 1 .. Len(MainSaved(fs, c)) :
          w = Base(fs[1]) + i /\ MainSaved(fs, c)[i] \in MainArgRegs
    BY <1>3
  <2>2. Base(fs[1]) \in Int
    BY <1>1, BaseIsAPlace
  <2>3. i \in Int /\ i >= 1
    OBVIOUS
  <2>4. n /= 1
    <3> DEFINE b == Base(fs[1])
    <3>1. w = b + i /\ b \in Int
      BY <2>1, <2>2
    <3> HIDE DEF b
    <3>2. ~(w <= b)
      BY <2>3, <3>1
    <3> QED
      BY <3>2 DEF b
  <2>5. 1 \in 1 .. n /\ 2 \in 1 .. n /\ Len(fs) /= 1 /\ Len(gs) /= 1
    BY <1>1, <2>4
  <2>6. Base(gs[1]) = Base(fs[1])
    BY <2>5 DEF SamePlaces, Base
  <2>7. MainSaved(gs, e) = MainSaved(fs, c)
    BY <2>5 DEF SamePlaces, MainSaved
  <2> QED
    BY <2>1, <2>6, <2>7 DEF MayBeStale
<1> QED
  BY <1>2, <1>3 DEF MayBeStale

\* Storing a result makes no word stale.
LEMMA ResultIsClean ==
  ASSUME NEW fr, NEW r, NEW m \in [1 .. MaxWords -> Kinds], WithResult(fr, r, m)
  PROVE  \A w \in 1 .. MaxWords : m[w] \in Clean => mem'[w] \in Clean
<1> DEFINE u == Slot(fr, PositionSlot(fr.shape, fr.depth + 1))
<1>1. mem' = m \/ mem' = [m EXCEPT ![u] = "current"]
  BY DEF WithResult
<1> HIDE DEF u
<1>2. CASE mem' = m
  BY <1>2
<1>3. CASE mem' = [m EXCEPT ![u] = "current"]
  BY <1>3, CleanKinds
<1> QED
  BY <1>1, <1>2, <1>3

\* Where the running function's frame ends, and what is below.
LEMMA FrameEnd ==
  ASSUME IInv, LInv, frames /= <<>>
  PROVE  /\ Base(Running) \in 2 .. MaxWords /\ Base(Running) <= sp /\ sp \in Int
         /\ MaxWords \in Nat /\ started
         /\ Len(frames) \in Nat /\ Len(frames) >= 1
         /\ \A w \in 1 .. Base(Running) : w \in 1 .. MaxWords
<1> DEFINE b == Base(Running)
           x == call.extra
           l == Len(call.saved)
<1>1. b \in 2 .. MaxWords /\ MaxWords \in Nat
  BY RunningIsSound, ShapesAssumption
<1>2. started /\ Len(frames) \in Nat /\ Len(frames) >= 1
  <2>1. started /\ frames \in Seq(Activation)
    BY RunningIsActivation
  <2> QED
    BY <2>1
<1>3. b <= sp /\ sp \in Int
  <2>1. sp \in Int
    BY DEF IInv
  <2>2. CASE ~call.active
    <3>1. sp = b
      BY <2>2 DEF IInv
    <3> HIDE DEF b
    <3> QED
      BY <1>1, <3>1
  <2>3. CASE call.active
    <3>1. sp - x - l = b /\ x \in Nat /\ l \in Nat
      BY <2>3 DEF IInv, RuntimeCall
    <3> HIDE DEF b, x, l
    <3> QED
      BY <1>1, <2>1, <3>1
  <2> QED
    BY <2>2, <2>3
<1>4. \A w \in 1 .. b : w \in 1 .. MaxWords
  <2> HIDE DEF b
  <2> QED
    BY <1>1
<1> QED
  BY <1>1, <1>2, <1>3, <1>4

\* What is left to show of a step after which n activations are where they were.
LEMMA StaleStays ==
  ASSUME IInv, LInv, SInv, IInv', frames /= <<>>,
         NEW n, SamePlaces(frames, frames', n), n = Len(frames) \/ n = Len(frames) - 1,
         Len(frames') = n \/ (Len(frames') = n + 1 /\ ~frames'[n + 1].shape.main),
         Base(frames[n]) <= sp,
         \A w \in 1 .. Base(frames[n]) : mem[w] \in Clean => mem'[w] \in Clean,
         \A w \in 1 .. sp' : \/ w <= Base(frames[n]) \/ mem'[w] \in Clean
                             \/ MayBeStale(frames', call', w)
  PROVE  SInv'
<1> DEFINE b == Base(frames[n])
<1>1. /\ Len(frames) \in Nat /\ Len(frames') \in Nat /\ n \in 1 .. Len(frames)
      /\ n \in 1 .. Len(frames') /\ n \in Nat
      /\ Stacked(frames) /\ Stacked(frames')
      /\ \A d \in 1 .. Len(frames) : frames[d] \in Activation
  BY DEF IInv, Stacked, SamePlaces
<1>2. frames' /= <<>> /\ started'
  <2>1. frames' /= <<>>
    BY <1>1
  <2> QED
    BY <2>1 DEF IInv
<1>3. \A d \in 1 .. Len(frames') : frames'[d].shape.main <=> d = 1
  <2> SUFFICES ASSUME NEW d \in 1 .. Len(frames')
               PROVE  frames'[d].shape.main <=> d = 1
    OBVIOUS
  <2>1. CASE d \in 1 .. n
    <3>1. d \in 1 .. Len(frames) /\ frames'[d].shape = frames[d].shape
      BY <1>1, <2>1 DEF SamePlaces
    <3> QED
      BY <3>1 DEF SInv
  <2>2. CASE ~(d \in 1 .. n)
    <3>1. d = n + 1 /\ d /= 1 /\ Len(frames') /= n
      BY <1>1, <2>2
    <3> QED
      BY <3>1
  <2> QED
    BY <2>1, <2>2
<1>4. b \in Int /\ sp \in Int /\ sp' \in Int
  BY <1>1, BaseIsAPlace DEF IInv
<1>5. \A d \in 1 .. Len(frames) : Fits(frames[d])
  BY DEF LInv, Sound
<1>6. ASSUME NEW w \in 1 .. sp'
      PROVE  mem'[w] \in Clean \/ MayBeStale(frames', call', w)
  <2>1. CASE w <= b
    <3>1. w \in 1 .. b /\ w \in 1 .. sp /\ w \in Int
      <4>1. b <= sp
        OBVIOUS
      <4> HIDE DEF b
      <4> QED
        BY <1>4, <2>1, <4>1
    <3>2. mem[w] \in Clean \/ MayBeStale(frames, call, w)
      BY <3>1 DEF SInv
    <3>3. CASE mem[w] \in Clean
      BY <3>1, <3>3
    <3>4. CASE MayBeStale(frames, call, w)
      BY <1>1, <1>5, <2>1, <3>1, <3>4, StaleBelow
    <3> QED
      BY <3>2, <3>3, <3>4
  <2>2. CASE ~(w <= b)
    BY <2>2
  <2> QED
    BY <2>1, <2>2
<1> QED
  BY <1>2, <1>3, <1>6 DEF SInv

\* A step that leaves the running function at the end of its frame.
LEMMA TopStays ==
  ASSUME IInv, LInv, SInv, IInv', frames /= <<>>,
         Len(frames') = Len(frames), SamePlaces(frames, frames', Len(frames)),
         sp' = Base(Running),
         \A w \in 1 .. Base(Running) : mem[w] \in Clean => mem'[w] \in Clean
  PROVE  SInv'
<1> DEFINE n == Len(frames)
<1>1. Base(frames[n]) = Base(Running)
  BY DEF Running
<1>2. Base(frames[n]) <= sp
  BY <1>1, FrameEnd
<1>3. \A w \in 1 .. sp' : w <= Base(frames[n])
  <2>1. Base(Running) \in Int
    BY FrameEnd
  <2> QED
    BY <1>1, <2>1
<1>4. /\ SamePlaces(frames, frames', n) /\ n = Len(frames) /\ Len(frames') = n
      /\ \A w \in 1 .. Base(frames[n]) : mem[w] \in Clean => mem'[w] \in Clean
  BY <1>1
<1> HIDE DEF n
<1> QED
  BY <1>2, <1>3, <1>4, StaleStays

LEMMA InitIsFresh == Init => SInv
<1> SUFFICES ASSUME Init
             PROVE  SInv
  OBVIOUS
<1>1. \A w \in 1 .. MaxWords : mem[w] = "plain"
  BY DEF Init
<1>2. frames = <<>> /\ 1 .. Len(frames) = {}
  BY DEF Init
<1> QED
  BY <1>1, <1>2, CleanKinds DEF SInv

\* main finds a stack without old pointers and fills its frame.
LEMMA EnterMainStale ==
  ASSUME IInv, LInv, SInv, IInv', EnterMain
  PROVE  SInv'
<1>1. PICK shape \in Shapes :
        LET rbp   == sp + 2
            align == (rbp + LSize(shape)) % 2
        IN /\ shape.main
           /\ rbp + LSize(shape) + align < MaxWords
           /\ mem' = Filled(mem, rbp, shape)
           /\ frames' = <<[NewFrame(shape, rbp, <<>>, 0) EXCEPT !.align = align]>>
           /\ sp' = rbp + LSize(shape) + align
  BY DEF EnterMain
<1> DEFINE rbp == sp + 2
           a   == [NewFrame(shape, rbp, <<>>, 0) EXCEPT !.align = (rbp + LSize(shape)) % 2]
<1>2. /\ ~started /\ started' /\ mem \in [1 .. MaxWords -> Kinds]
      /\ \A w \in 1 .. MaxWords : mem[w] \in Clean
  BY DEF EnterMain, SInv, LInv
<1>3. /\ shape.main /\ mem' = Filled(mem, rbp, shape) /\ frames' = <<a>>
      /\ sp' < MaxWords
  BY <1>1
<1>4. a.shape = shape
  BY DEF NewFrame
<1> HIDE DEF rbp, a
<1>5. \A w \in 1 .. MaxWords : mem'[w] \in Clean
  BY <1>2, <1>3, FilledIsClean
<1>6. Len(<<a>>) = 1 /\ <<a>>[1] = a /\ 1 .. 1 = {1}
  OBVIOUS
<1>7. \A d \in 1 .. Len(frames') : frames'[d].shape.main <=> d = 1
  BY <1>3, <1>4, <1>6
<1>8. \A w \in 1 .. sp' : w \in 1 .. MaxWords
  <2>1. sp' \in Int /\ MaxWords \in Int
    BY ShapesAssumption DEF IInv
  <2> QED
    BY <1>3, <2>1
<1> QED
  BY <1>2, <1>5, <1>7, <1>8 DEF SInv

LEMMA PushOperandStale ==
  ASSUME IInv, LInv, SInv, IInv', PushOperand
  PROVE  SInv'
<1>1. /\ InLama /\ WithResult(Running, regs, mem) /\ UNCHANGED sp
      /\ frames' = [frames EXCEPT ![Len(frames)].depth = frames[Len(frames)].depth + 1]
  BY DEF PushOperand
<1>2. frames /= <<>> /\ sp = Base(Running) /\ Stacked(frames)
  BY <1>1 DEF InLama, IInv
<1>3. Running \in Activation /\ mem \in [1 .. MaxWords -> Kinds]
  BY <1>2, RunningIsSound DEF LInv
<1> DEFINE k == frames[Len(frames)].depth + 1
<1>4. k \in Nat
  <2>1. frames[Len(frames)].depth \in Nat
    BY <1>3 DEF Running, Activation
  <2> QED
    BY <2>1
<1>5. frames' = [frames EXCEPT ![Len(frames)].depth = k]
  BY <1>1
<1> HIDE DEF k
<1>6. Len(frames') = Len(frames) /\ SamePlaces(frames, frames', Len(frames))
  BY <1>2, <1>4, <1>5, DepthKeepsThePlace
<1>7. \A w \in 1 .. Base(Running) : mem[w] \in Clean => mem'[w] \in Clean
  BY <1>1, <1>2, <1>3, ResultIsClean, FrameEnd
<1> QED
  BY <1>1, <1>2, <1>6, <1>7, TopStays

LEMMA DropStale ==
  ASSUME IInv, LInv, SInv, IInv', Drop
  PROVE  SInv'
<1>1. /\ InLama /\ Running.depth > 0 /\ UNCHANGED <<mem, sp>>
      /\ frames' = [frames EXCEPT ![Len(frames)].depth = Running.depth - 1]
  BY DEF Drop, Running
<1>2. frames /= <<>> /\ sp = Base(Running) /\ Stacked(frames)
  BY <1>1 DEF InLama, IInv
<1>3. Running \in Activation
  BY <1>2, RunningIsSound
<1> DEFINE k == Running.depth - 1
<1>4. k \in Nat
  BY <1>1, <1>3 DEF Activation
<1>5. frames' = [frames EXCEPT ![Len(frames)].depth = k]
  BY <1>1
<1> HIDE DEF k
<1>6. Len(frames') = Len(frames) /\ SamePlaces(frames, frames', Len(frames))
  BY <1>2, <1>4, <1>5, DepthKeepsThePlace
<1> QED
  BY <1>1, <1>2, <1>6, TopStays

\* A local takes the value of an operand, which is not old.
LEMMA StoreLocalStale ==
  ASSUME IInv, LInv, SInv, IInv', StoreLocal
  PROVE  SInv'
<1>1. InLama /\ Running.depth > 0 /\ UNCHANGED sp
  BY DEF StoreLocal
<1>2. PICK i \in 0 .. Running.shape.nlocals - 1 :
        /\ mem' = [mem EXCEPT ![Slot(Running, i)] = ValueAt(Running, Running.depth)]
        /\ frames' = [frames EXCEPT ![Len(frames)].assigned = @ \union {i}]
  BY DEF StoreLocal
<1>3. frames /= <<>> /\ sp = Base(Running) /\ Stacked(frames)
  BY <1>1 DEF InLama, IInv
<1>4. /\ Running \in Activation /\ Fits(Running)
      /\ \A w \in LiveWords(Running) : mem[w] \in Clean
      /\ mem \in [1 .. MaxWords -> Kinds]
      /\ \A x \in LiveRegs(Running) : regs[x] \in Clean
  BY <1>1, <1>3, RunningIsSound DEF LInv
<1>5. ValueAt(Running, Running.depth) \in Clean
  <2>1. Running.depth \in 1 .. Running.depth
    BY <1>1, <1>4 DEF Activation
  <2> QED
    BY <1>4, <2>1, ValueIsClean
<1> DEFINE a == [Running EXCEPT !.assigned = @ \union {i}]
           u == Slot(Running, i)
           v == ValueAt(Running, Running.depth)
<1>6. /\ a \in Activation /\ a.shape = Running.shape /\ a.rbp = Running.rbp
      /\ a.align = Running.align /\ a.saved = Running.saved
  <2>1. i \in Int
    OBVIOUS
  <2> QED
    BY <1>4, <2>1 DEF Activation
<1>7. frames' = [frames EXCEPT ![Len(frames)] = a]
  BY <1>2 DEF Running
<1>8. mem' = [mem EXCEPT ![u] = v] /\ v \in Clean
  BY <1>2, <1>5
<1> HIDE DEF a, u, v
<1>9. Len(frames') = Len(frames) /\ SamePlaces(frames, frames', Len(frames))
  BY <1>3, <1>6, <1>7, TopKeepsItsPlace DEF Running
<1>10. \A w \in 1 .. MaxWords : mem[w] \in Clean => mem'[w] \in Clean
  BY <1>4, <1>8
<1>11. \A w \in 1 .. Base(Running) : mem[w] \in Clean => mem'[w] \in Clean
  BY <1>3, <1>10, FrameEnd
<1> QED
  BY <1>1, <1>3, <1>9, <1>11, TopStays

\* The runtime function leaves the words of the stack as they are.
LEMMA RuntimeReturnsStale ==
  ASSUME IInv, LInv, SInv, IInv', RuntimeReturns
  PROVE  SInv'
<1> DEFINE after(v)  == [w \in DOMAIN mem |-> IF w <= sp THEN mem[w] ELSE v]
           base      == sp - call.extra - Len(call.saved)
           popped(v) == Restored(call.saved, base, after(v))
<1>1. PICK v \in {"current", "old"} :
        /\ sp' = base
        /\ IF call.result
             THEN /\ WithResult(Running, popped(v), after(v))
                  /\ frames' = [frames EXCEPT ![Len(frames)].depth = @ + 1]
             ELSE regs' = popped(v) /\ mem' = after(v) /\ UNCHANGED frames
  BY DEF RuntimeReturns
<1> DEFINE m == after(v)
           r == popped(v)
<1>2. call.active
  BY DEF RuntimeReturns
<1>3. frames /= <<>> /\ sp' = Base(Running) /\ Stacked(frames)
  BY <1>1, <1>2 DEF IInv
<1>4. Running \in Activation /\ mem \in [1 .. MaxWords -> Kinds]
  BY <1>3, RunningIsSound DEF LInv
<1>5. m \in [1 .. MaxWords -> Kinds] /\ \A w \in 1 .. MaxWords : w <= sp => m[w] = mem[w]
  <2>1. v \in Kinds
    BY DEF Kinds
  <2> QED
    BY <1>4, <2>1
<1>6. \A w \in 1 .. Base(Running) : w <= sp /\ w \in 1 .. MaxWords
  <2> DEFINE b == Base(Running)
  <2>1. b \in Int /\ b <= sp /\ sp \in Int /\ \A w \in 1 .. b : w \in 1 .. MaxWords
    BY <1>3, FrameEnd
  <2> HIDE DEF b
  <2>2. \A w \in 1 .. b : w <= sp
    BY <2>1
  <2> QED
    BY <2>1, <2>2 DEF b
<1> HIDE DEF after
<1>7. CASE call.result
  <2> DEFINE k == frames[Len(frames)].depth + 1
  <2>1. WithResult(Running, r, m) /\ frames' = [frames EXCEPT ![Len(frames)].depth = k]
    BY <1>1, <1>7
  <2>2. k \in Nat
    <3>1. frames[Len(frames)].depth \in Nat
      BY <1>4 DEF Running, Activation
    <3> QED
      BY <3>1
  <2> HIDE DEF k, r, m
  <2>3. Len(frames') = Len(frames) /\ SamePlaces(frames, frames', Len(frames))
    BY <1>3, <2>1, <2>2, DepthKeepsThePlace
  <2>4. \A w \in 1 .. MaxWords : m[w] \in Clean => mem'[w] \in Clean
    BY <1>5, <2>1, ResultIsClean
  <2>5. \A w \in 1 .. Base(Running) : mem[w] \in Clean => mem'[w] \in Clean
    BY <1>5, <1>6, <2>4
  <2> QED
    BY <1>3, <2>3, <2>5, TopStays
<1>8. CASE ~call.result
  <2>1. mem' = m /\ frames' = frames
    BY <1>1, <1>8
  <2> HIDE DEF r, m
  <2>2. Len(frames') = Len(frames) /\ SamePlaces(frames, frames', Len(frames))
    BY <1>3, <2>1, FrameEnd DEF SamePlaces
  <2>3. \A w \in 1 .. Base(Running) : mem[w] \in Clean => mem'[w] \in Clean
    BY <1>5, <1>6, <2>1
  <2> QED
    BY <1>3, <2>2, <2>3, TopStays
<1> QED
  BY <1>7, <1>8

\* What a call's sequence pushes and the callee's prologue leaves: only main has
\* argument registers saved that nothing reads.
LEMMA CallStale ==
  ASSUME IInv, LInv, SInv, IInv', InLama, NEW saved, Pushes(saved),
         SamePlaces(frames, frames', Len(frames)),
         \/ Len(frames') = Len(frames) /\ call'.saved = saved
         \/ /\ Len(frames') = Len(frames) + 1
            /\ ~frames'[Len(frames) + 1].shape.main
            /\ frames'[Len(frames) + 1].saved = saved
  PROVE  SInv'
<1> DEFINE n == Len(frames)
<1>1. frames /= <<>> /\ sp = Base(frames[n]) /\ Running = frames[n]
  BY DEF InLama, IInv, Running
<1>2. n \in Nat /\ n >= 1 /\ sp \in Int /\ sp' \in Int
  BY <1>1, FrameEnd DEF IInv
<1>3. /\ \A w \in 1 .. sp : mem[w] \in Clean => mem'[w] \in Clean
      /\ \A w \in sp + 1 .. sp' :
           \/ mem'[w] \in Clean
           \/ w \in Unfilled(Running')
           \/ /\ Running.shape.main
              /\ \E i \in 1 .. Len(saved) : w = sp + i /\ saved[i] \in MainArgRegs
  BY DEF Pushes
<1>4. /\ SamePlaces(frames, frames', n)
      /\ \/ Len(frames') = n /\ call'.saved = saved
         \/ Len(frames') = n + 1 /\ ~frames'[n + 1].shape.main /\ frames'[n + 1].saved = saved
  OBVIOUS
<1>5. Running.shape.main => n = 1
  <2>1. n \in 1 .. Len(frames)
    BY <1>2
  <2> QED
    BY <1>1, <2>1 DEF SInv
<1>6. Running' = frames'[Len(frames')] /\ Len(frames') \in 1 .. Len(frames')
  <2>1. Len(frames') \in Nat /\ Len(frames') >= 1
    BY <1>2, <1>4
  <2> QED
    BY <2>1 DEF Running
<1>7. ASSUME NEW w \in sp + 1 .. sp'
      PROVE  mem'[w] \in Clean \/ MayBeStale(frames', call', w)
  <2>1. CASE w \in Unfilled(Running')
    BY <1>6, <2>1 DEF MayBeStale
  <2>2. CASE /\ Running.shape.main
             /\ \E i \in 1 .. Len(saved) : w = sp + i /\ saved[i] \in MainArgRegs
    <3>1. n = 1
      BY <1>5, <2>2
    <3>2. Base(frames'[1]) = sp
      <4>1. 1 \in 1 .. n
        BY <3>1
      <4>2. Base(frames'[1]) = Base(frames[1])
        BY <1>4, <4>1 DEF SamePlaces, Base
      <4> QED
        BY <1>1, <3>1, <4>2
    <3>3. MainSaved(frames', call') = saved
      BY <1>4, <3>1 DEF MainSaved
    <3> QED
      BY <2>2, <3>2, <3>3 DEF MayBeStale
  <2> QED
    BY <1>3, <2>1, <2>2
<1> HIDE DEF n
<1>8. \A w \in 1 .. sp' : \/ w <= Base(frames[n]) \/ mem'[w] \in Clean
                          \/ MayBeStale(frames', call', w)
  <2>1. \A w \in 1 .. sp' : w <= sp \/ w \in sp + 1 .. sp'
    BY <1>2
  <2> QED
    BY <1>1, <1>7, <2>1
<1>9. \A w \in 1 .. Base(frames[n]) : mem[w] \in Clean => mem'[w] \in Clean
  BY <1>1, <1>3
<1>10. Base(frames[n]) <= sp
  BY <1>1, <1>2
<1>11. n = Len(frames)
  BY DEF n
<1> QED
  BY <1>1, <1>4, <1>8, <1>9, <1>10, <1>11, StaleStays

LEMMA CallRuntimeStale ==
  ASSUME IInv, LInv, SInv, IInv', CallRuntime
  PROVE  SInv'
<1>1. PICK n \in 0 .. Running.depth :
        frames' = [frames EXCEPT ![Len(frames)].depth = Running.depth - n]
  BY DEF CallRuntime
<1>2. InLama /\ frames /= <<>> /\ Stacked(frames)
  BY DEF CallRuntime, InLama, IInv
<1> DEFINE k == Running.depth - n
<1>3. k \in Nat
  <2>1. Running \in Activation
    BY <1>2, RunningIsSound
  <2> QED
    BY <2>1 DEF Activation
<1>4. frames' = [frames EXCEPT ![Len(frames)].depth = k]
  BY <1>1
<1> HIDE DEF k
<1>5. Len(frames') = Len(frames) /\ SamePlaces(frames, frames', Len(frames))
  BY <1>2, <1>3, <1>4, DepthKeepsThePlace
<1>6. Pushes(call'.saved)
  BY CallRuntimeKeeps
<1> QED
  BY <1>2, <1>5, <1>6, CallStale

LEMMA CallLamaStale ==
  ASSUME IInv, LInv, SInv, IInv', CallLama
  PROVE  SInv'
<1>1. PICK shape, pops, rbp, saved, extra :
        /\ shape \in Functions /\ pops \in Nat
        /\ Running.depth >= pops
        /\ frames' = Append([frames EXCEPT ![Len(frames)].depth = Running.depth - pops],
                            NewFrame(shape, rbp, saved, extra))
  <2>1. PICK shape \in Functions, viaClosure \in BOOLEAN :
          LET n      == shape.nargs
              pops   == n + IF viaClosure THEN 1 ELSE 0
              saved  == ProtectRegisters(Running, Running.depth - n)
              pushed == PushValues(saved, StackedArguments(n))
          IN /\ Running.depth >= pops
             /\ frames' = Append([frames EXCEPT ![Len(frames)].depth = frames[Len(frames)].depth - pops],
                                 NewFrame(shape, sp + Len(pushed) + 2, saved,
                                          Dropped(Len(saved), StackArgs(n))))
    BY DEF CallLama
  <2>2. shape.nargs \in Nat
    BY ShapesAssumption DEF Functions
  <2>3. shape.nargs + (IF viaClosure THEN 1 ELSE 0) \in Nat
    BY <2>2
  <2> QED
    BY <2>1, <2>3 DEF Running
<1>2. InLama /\ frames /= <<>> /\ Stacked(frames)
  BY DEF CallLama, InLama, IInv
<1> DEFINE k   == Running.depth - pops
           gs  == [frames EXCEPT ![Len(frames)].depth = k]
           new == NewFrame(shape, rbp, saved, extra)
<1>3. k \in Nat
  <2>1. Running \in Activation
    BY <1>2, RunningIsSound
  <2> QED
    BY <1>1, <2>1 DEF Activation
<1>4. frames' = Append(gs, new) /\ new.shape = shape /\ ~shape.main
  BY <1>1 DEF NewFrame, Functions
<1> HIDE DEF k, new
<1>5. /\ Len(gs) = Len(frames) /\ SamePlaces(frames, gs, Len(frames)) /\ Stacked(gs)
  BY <1>2, <1>3, DepthKeepsThePlace, SetDepth
<1> HIDE DEF gs
<1>6. /\ Len(frames') = Len(frames) + 1 /\ frames'[Len(frames) + 1] = new
      /\ \A d \in 1 .. Len(frames) : frames'[d] = gs[d]
      /\ Len(frames) \in Nat
  <2>1. gs \in Seq(Activation) /\ frames' \in Seq(Activation)
    BY <1>5 DEF Stacked, IInv
  <2>2. Len(frames') = Len(gs) + 1 /\ frames'[Len(gs) + 1] = new
        /\ \A d \in 1 .. Len(gs) : frames'[d] = gs[d]
    BY <1>4, <2>1
  <2> QED
    BY <1>2, <1>5, <2>2, FrameEnd
<1>7. SamePlaces(frames, frames', Len(frames))
  BY <1>5, <1>6 DEF SamePlaces
<1>8. Pushes(frames'[Len(frames) + 1].saved)
  <2>1. Running' = frames'[Len(frames) + 1]
    BY <1>6 DEF Running
  <2> QED
    BY <2>1, CallLamaKeeps
<1>9. ~frames'[Len(frames) + 1].shape.main
  BY <1>4, <1>6
<1> QED
  BY <1>2, <1>6, <1>7, <1>8, <1>9, CallStale

\* A tail call makes its frame where the old one was, and the words below stay
\* what they were or become arguments.
LEMMA TailCallLamaStale ==
  ASSUME IInv, LInv, SInv, IInv', TailCallLama
  PROVE  SInv'
<1>1. PICK shape \in Functions :
        frames' = Append(Front(frames),
                         NewFrame(shape, Running.rbp, Running.saved, Running.extra))
  BY DEF TailCallLama
<1>2. InLama /\ frames /= <<>> /\ Len(frames) > 1 /\ Stacked(frames)
  BY DEF TailCallLama, InLama, IInv
<1> DEFINE n   == Len(frames) - 1
           gs  == Front(frames)
           fr  == Running
           new == NewFrame(shape, fr.rbp, fr.saved, fr.extra)
           b   == fr.rbp
<1>3. /\ n \in Nat /\ n >= 1 /\ Len(frames) = n + 1 /\ n + 1 \in Nat
      /\ fr = frames[n + 1] /\ n + 1 \in 1 .. n + 1 /\ 1 \in 1 .. n
  <2>1. Len(frames) \in Nat
    BY <1>2, FrameEnd
  <2>2. n \in Nat /\ n >= 1 /\ Len(frames) = n + 1
    BY <1>2, <2>1
  <2>3. n + 1 \in Nat /\ n + 1 \in 1 .. n + 1 /\ 1 \in 1 .. n
    BY <2>2
  <2> HIDE DEF n
  <2> QED
    BY <2>2, <2>3 DEF Running
<1>4. /\ frames' = Append(gs, new) /\ new.shape = shape /\ ~shape.main
      /\ new.saved = fr.saved /\ new.rbp = b
  BY <1>1 DEF NewFrame, Functions
<1>5. Stacked(gs) /\ Len(gs) = n /\ \A d \in 1 .. n : gs[d] = frames[d]
  BY <1>2, PopActivation
<1>6. fr \in Activation /\ b \in 2 .. sp /\ sp \in Int /\ \A w \in 1 .. sp : w \in 1 .. MaxWords
  <2>1. sp = Base(fr)
    BY <1>2 DEF IInv, InLama
  <2>2. fr \in Activation /\ Fits(fr) /\ sp \in Int /\ \A w \in 1 .. Base(fr) : w \in 1 .. MaxWords
    BY <1>2, RunningIsSound, FrameEnd
  <2>3. b \in 2 .. Base(fr)
    BY <2>2, FrameLayout
  <2> HIDE DEF b, fr
  <2> QED
    BY <2>1, <2>2, <2>3
<1> HIDE DEF new, gs
<1>7. /\ Len(frames') = n + 1 /\ frames'[n + 1] = new
      /\ \A d \in 1 .. n : frames'[d] = frames[d]
  <2>1. gs \in Seq(Activation) /\ frames' \in Seq(Activation)
    BY <1>5 DEF Stacked, IInv
  <2>2. Len(frames') = Len(gs) + 1 /\ frames'[Len(gs) + 1] = new
        /\ \A d \in 1 .. Len(gs) : frames'[d] = gs[d]
    BY <1>4, <2>1
  <2> HIDE DEF n
  <2> QED
    BY <1>5, <2>2
<1>8. /\ \A w \in 1 .. MaxWords : mem[w] \in Clean => mem'[w] \in Clean
      /\ \A w \in b + 1 .. sp' : mem'[w] \in Clean \/ w \in Unfilled(frames'[n + 1])
  <2>1. Running' = frames'[n + 1]
    BY <1>7 DEF Running
  <2> QED
    BY <2>1, TailCallLamaKeeps DEF Refills
<1> HIDE DEF n, fr, b
<1>9. \A d \in 1 .. Len(frames') : frames'[d].shape.main <=> d = 1
  <2> SUFFICES ASSUME NEW d \in 1 .. n + 1
               PROVE  frames'[d].shape.main <=> d = 1
    BY <1>7
  <2>1. CASE d \in 1 .. n
    <3>1. d \in 1 .. Len(frames)
      BY <1>3
    <3> QED
      BY <1>7, <2>1, <3>1 DEF SInv
  <2>2. CASE ~(d \in 1 .. n)
    <3>1. d = n + 1 /\ d /= 1
      BY <1>3, <2>2
    <3> QED
      BY <1>4, <1>7, <3>1
  <2> QED
    BY <2>1, <2>2
<1>10. ASSUME NEW w \in Int, w <= b, MayBeStale(frames, call, w)
       PROVE  MayBeStale(frames', call', w)
  <2>1. CASE \E d \in 1 .. Len(frames) : w \in Unfilled(frames[d])
    <3>1. PICK d \in 1 .. n + 1 : w \in Unfilled(frames[d])
      BY <1>3, <2>1
    <3>2. CASE d \in 1 .. n
      <4>1. frames'[d] = frames[d] /\ d \in 1 .. Len(frames')
        BY <1>3, <1>7, <3>2
      <4> QED
        BY <3>1, <4>1 DEF MayBeStale
    <3>3. CASE ~(d \in 1 .. n)
      <4>1. d = n + 1
        BY <1>3, <3>3
      <4>2. w >= b + 1
        <5>1. frames[d].rbp = b
          BY <1>3, <4>1 DEF b
        <5> QED
          BY <1>6, <3>1, <5>1 DEF Unfilled
      <4> QED
        BY <1>6, <1>10, <4>2
    <3> QED
      BY <3>2, <3>3
  <2>2. CASE \E i \in 1 .. Len(MainSaved(frames, call)) :
               w = Base(frames[1]) + i /\ MainSaved(frames, call)[i] \in MainArgRegs
    <3>1. Base(frames'[1]) = Base(frames[1])
      BY <1>3, <1>7
    <3>2. MainSaved(frames', call') = MainSaved(frames, call)
      <4>1. Len(frames) /= 1 /\ Len(frames') /= 1
        BY <1>3, <1>7
      <4>2. frames'[2].saved = frames[2].saved
        <5>1. CASE n = 1
          <6>1. n + 1 = 2
            BY <5>1
          <6> QED
            BY <1>3, <1>4, <1>7, <6>1
        <5>2. CASE n /= 1
          <6>1. 2 \in 1 .. n
            BY <1>3, <5>2
          <6> QED
            BY <1>7, <6>1
        <5> QED
          BY <5>1, <5>2
      <4> QED
        BY <4>1, <4>2 DEF MainSaved
    <3> QED
      BY <2>2, <3>1, <3>2 DEF MayBeStale
  <2> QED
    BY <1>10, <2>1, <2>2 DEF MayBeStale
<1>11. ASSUME NEW w \in 1 .. sp'
       PROVE  mem'[w] \in Clean \/ MayBeStale(frames', call', w)
  <2>1. sp' \in Int /\ b \in Int
    BY <1>6 DEF IInv
  <2>2. CASE w <= b
    <3>1. w \in Int /\ w \in 1 .. sp /\ w \in 1 .. MaxWords
      BY <1>6, <2>1, <2>2
    <3>2. mem[w] \in Clean \/ MayBeStale(frames, call, w)
      BY <1>2, <3>1 DEF SInv
    <3> QED
      BY <1>8, <1>10, <2>2, <3>1, <3>2
  <2>3. CASE ~(w <= b)
    <3>1. w \in b + 1 .. sp'
      BY <2>1, <2>3
    <3>2. n + 1 \in 1 .. Len(frames')
      BY <1>3, <1>7
    <3> QED
      BY <1>8, <3>1, <3>2 DEF MayBeStale
  <2> QED
    BY <2>2, <2>3
<1>12. started'
  <2>1. frames' /= <<>>
    BY TailCallLamaKeeps
  <2> QED
    BY <2>1 DEF IInv
<1> QED
  BY <1>9, <1>11, <1>12 DEF SInv

LEMMA ReturnLamaStale ==
  ASSUME IInv, LInv, SInv, IInv', ReturnLama
  PROVE  SInv'
<1> DEFINE fr   == Running
           base == Before(fr)
           r    == Restored(fr.saved, base, mem)
           gs   == Front(frames)
<1>1. InLama /\ frames /= <<>> /\ ~call.active /\ UNCHANGED <<call, started>>
  BY DEF ReturnLama, InLama
<1>2. Stacked(frames) /\ mem \in [1 .. MaxWords -> Kinds] /\ Sound(frames, mem) /\ started
      /\ sp = Base(fr)
  BY <1>1, FrameEnd DEF LInv, IInv, InLama
<1>3. CASE Len(frames) = 1
  <2>1. frames' = <<>> /\ 1 .. Len(frames') = {}
    BY <1>3 DEF ReturnLama
  <2> QED
    BY <1>1, <1>2, <2>1 DEF SInv
<1>4. CASE Len(frames) /= 1
  <2> DEFINE n == Len(frames) - 1
             k == gs[n].depth + 1
  <2>1. /\ sp' = base /\ WithResult(frames[n], r, mem)
        /\ frames' = [gs EXCEPT ![n].depth = k]
    BY <1>4 DEF ReturnLama, Before
  <2>2. n \in Nat /\ n >= 1 /\ Len(frames) = n + 1 /\ n + 1 \in 2 .. Len(frames) /\ n \in 1 .. n
        /\ n \in 1 .. Len(frames) /\ n + 1 \in 1 .. Len(frames) /\ n <= n + 1 /\ (n + 1) - 1 = n
    <3>1. Len(frames) \in Nat /\ Len(frames) >= 1
      BY <1>1, FrameEnd
    <3>2. \A l \in Nat : l >= 1 /\ l /= 1 =>
            /\ l - 1 \in Nat /\ l - 1 >= 1 /\ l = (l - 1) + 1 /\ (l - 1) + 1 \in 2 .. l
            /\ l - 1 \in 1 .. l - 1
            /\ l - 1 \in 1 .. l /\ (l - 1) + 1 \in 1 .. l /\ l - 1 <= (l - 1) + 1
            /\ ((l - 1) + 1) - 1 = l - 1
      OBVIOUS
    <3> QED
      BY <1>4, <3>1, <3>2
  <2>3. Stacked(gs) /\ Len(gs) = n /\ \A d \in 1 .. n : gs[d] = frames[d]
    BY <1>1, <1>2, PopActivation
  <2> HIDE DEF gs, n, r
  <2>4. fr = frames[n + 1]
    BY <2>2 DEF Running
  <2>5. base = Base(frames[n])
    BY <1>2, <2>2, <2>4 DEF Stacked
  <2>6. Base(frames[n]) <= sp
    BY <1>2, <2>2, <2>4 DEF Sound
  <2>7. k \in Nat /\ gs /= <<>>
    <3>1. gs[n] \in Activation
      BY <2>2, <2>3 DEF Stacked
    <3>2. gs[n].depth \in Nat
      BY <3>1 DEF Activation
    <3>3. gs /= <<>>
      BY <2>2, <2>3
    <3> QED
      BY <3>2, <3>3
  <2>8. frames' = [gs EXCEPT ![Len(gs)].depth = k]
    BY <2>1, <2>3
  <2> HIDE DEF k, base
  <2>9. Len(frames') = n /\ SamePlaces(gs, frames', n)
    BY <2>3, <2>7, <2>8, DepthKeepsThePlace
  <2>10. SamePlaces(frames, frames', n)
    BY <2>2, <2>3, <2>9 DEF SamePlaces
  <2>11. \A w \in 1 .. Base(frames[n]) : mem[w] \in Clean => mem'[w] \in Clean
    <3>1. \A w \in 1 .. MaxWords : mem[w] \in Clean => mem'[w] \in Clean
      BY <1>2, <2>1, ResultIsClean
    <3>2. \A w \in 1 .. Base(frames[n]) : w \in 1 .. MaxWords
      <4>1. frames[n] \in Activation /\ Fits(frames[n])
        BY <1>2, <2>2 DEF Stacked, Sound
      <4>2. Base(frames[n]) \in Int /\ Base(frames[n]) <= MaxWords /\ MaxWords \in Int
        BY <4>1, BaseIsAPlace, ShapesAssumption DEF Fits
      <4> QED
        BY <4>2
    <3> QED
      BY <3>1, <3>2
  <2>12. \A w \in 1 .. sp' : w <= Base(frames[n])
    <3>1. sp' = Base(frames[n]) /\ sp' \in Int
      BY <2>1, <2>5 DEF IInv
    <3> QED
      BY <3>1
  <2>13. n = Len(frames) - 1
    BY DEF n
  <2> QED
    BY <1>1, <2>6, <2>9, <2>10, <2>11, <2>12, <2>13, StaleStays
<1> QED
  BY <1>3, <1>4

LEMMA StepKeepsStale ==
  ASSUME IInv, LInv, SInv, IInv', [Next]_vars
  PROVE  SInv'
<1>1. CASE UNCHANGED vars
  BY <1>1 DEF vars, SInv, MayBeStale, MainSaved
<1>2. CASE Next
  BY <1>2, EnterMainStale, PushOperandStale, StoreLocalStale, DropStale, CallRuntimeStale,
     RuntimeReturnsStale, CallLamaStale, TailCallLamaStale, ReturnLamaStale DEF Next
<1> QED
  BY <1>1, <1>2

\* At every runtime call, the roots that are stale are slots left unfilled in
\* frames of odd size and words where main saved an argument register.
THEOREM NoOtherRootIsStale == Spec => []StaleRootsAreKnown
<1>1. Init => IInv /\ LInv /\ SInv
  BY InitIsStacked, InitIsSound, InitIsFresh
<1>2. IInv /\ LInv /\ SInv /\ [Next]_vars => IInv' /\ LInv' /\ SInv'
  BY StepKeepsStacked, StepIsSound, StepKeepsStale
<1>3. ASSUME IInv, LInv, SInv
      PROVE  StaleRootsAreKnown
  <2> SUFFICES ASSUME call.active, NEW w \in StaleRoots
               PROVE  w \in (UNION {Unfilled(frames[d]) : d \in DOMAIN frames}) \union SavedByMain
    BY DEF StaleRootsAreKnown
  <2> DEFINE saved == MainSaved(frames, call)
  <2>1. frames /= <<>> /\ frames \in Seq(Activation) /\ call.saved \in Seq(Registers)
    BY <1>3 DEF IInv, Stacked, RuntimeCall
  <2>2. w \in 1 .. sp /\ mem[w] \notin Clean
    BY DEF StaleRoots, Clean
  <2>3. MayBeStale(frames, call, w)
    BY <1>3, <2>1, <2>2 DEF SInv
  <2>4. CASE \E d \in 1 .. Len(frames) : w \in Unfilled(frames[d])
    BY <2>1, <2>4
  <2>5. CASE \E i \in 1 .. Len(saved) : w = Base(frames[1]) + i /\ saved[i] \in MainArgRegs
    <3>1. saved \in Seq(Registers)
      <4>1. CASE Len(frames) = 1
        BY <2>1, <4>1 DEF MainSaved
      <4>2. CASE Len(frames) /= 1
        <5>1. 2 \in 1 .. Len(frames)
          <6> DEFINE l == Len(frames)
          <6>1. l \in Nat /\ l >= 1 /\ l /= 1
            BY <1>3, <2>1, <4>2, FrameEnd
          <6> HIDE DEF l
          <6>2. 2 \in 1 .. l
            BY <6>1
          <6> QED
            BY <6>2 DEF l
        <5>2. frames[2] \in Activation
          BY <2>1, <5>1
        <5> QED
          BY <4>2, <5>2 DEF MainSaved, Activation
      <4> QED
        BY <4>1, <4>2
    <3>2. SavedByMain = {Base(frames[1]) + i : i \in {j \in DOMAIN saved : saved[j] \in MainArgRegs}}
      BY DEF SavedByMain, MainSaved
    <3>3. DOMAIN saved = 1 .. Len(saved)
      BY <3>1
    <3> QED
      BY <2>5, <3>2, <3>3
  <2> QED
    BY <2>3, <2>4, <2>5 DEF MayBeStale
<1> QED
  BY <1>1, <1>2, <1>3, PTL DEF Spec
=============================================================================
