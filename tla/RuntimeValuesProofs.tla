------------------------ MODULE RuntimeValuesProofs ------------------------
(***************************************************************************)
(* Theorems about comparison, hashing, pattern tests and tags              *)
(* (RuntimeValues), for words of any width, every heap of objects of any   *)
(* size, every sequence of assignments and every set of names.             *)
(*                                                                         *)
(* What the functions of the module answer is settled by induction on the  *)
(* depth of their recursion or the length of a sequence, in the form of a  *)
(* lemma about sets of numbers (Induction).                                *)
(***************************************************************************)
EXTENDS RuntimeValues, TLAPS, WellFoundedInduction, FiniteSetTheorems,
        SequenceTheorems

-----------------------------------------------------------------------------
(***************************************************************************)
(* Words.                                                                  *)
(***************************************************************************)

\* A remainder of what is smaller is the number itself.
LEMMA SmallModulus == ASSUME NEW a \in Nat, NEW b \in Nat, a < b PROVE a % b = a
  OBVIOUS

\* Half is a multiple of four and at least eight, and a word has its square.
LEMMA ModulusFacts ==
  /\ Modulus \in Nat /\ Modulus >= 64
  /\ Modulus \div 4 \in Nat /\ Modulus = 4 * (Modulus \div 4)
  /\ Modulus \div 2 = 2 * (Modulus \div 4)
  /\ Half <= Modulus \div 4 /\ Half >= 8
  /\ (Modulus \div 4) % 4 = 0
<1>1. PICK k \in Nat : Half = 4 * k /\ k >= 2
  <2>1. Half \div 4 \in Nat /\ Half = 4 * (Half \div 4)
    BY WidthsAssumption
  <2> QED
    BY <2>1, WidthsAssumption
<1>2. PICK q \in Nat : q = k * k /\ q >= 2 * k
  <2>1. k * k \in Nat /\ k * k >= 2 * k
    BY <1>1
  <2> QED
    BY <2>1
<1>3. Modulus = 16 * q
  BY <1>1, <1>2 DEF Modulus
<1> QED
  BY <1>1, <1>2, <1>3

\* What fits a word does not wrap.
LEMMA SignedOfSmall ==
  ASSUME NEW n \in Int, -(Modulus \div 2) <= n, n < Modulus \div 2
  PROVE  Signed(n) = n
<1>1. n + Modulus \div 2 \in Nat /\ n + Modulus \div 2 < Modulus /\ Modulus \div 2 \in Int
  BY ModulusFacts
<1>2. (n + Modulus \div 2) % Modulus = n + Modulus \div 2
  BY <1>1, ModulusFacts, SmallModulus
<1> QED
  BY <1>1, <1>2 DEF Signed

\* Integers of a bit less than a word are boxed as they are.
LEMMA BoxOfSmall ==
  ASSUME NEW n \in Int, -(Modulus \div 4) <= n, n < Modulus \div 4
  PROVE  BOX(n) = 2 * n + 1
<1>1. 2 * n + 1 \in Int /\ -(Modulus \div 2) <= 2 * n + 1 /\ 2 * n + 1 < Modulus \div 2
  BY ModulusFacts
<1> QED
  BY <1>1, SignedOfSmall DEF BOX

\* Such an integer is unboxed as it was.
LEMMA UnboxBox ==
  ASSUME NEW n \in Int, -(Modulus \div 4) <= n, n < Modulus \div 4
  PROVE  UNBOX(BOX(n)) = n
<1>1. (2 * n + 1) \div 2 = n
  OBVIOUS
<1> QED
  BY <1>1, BoxOfSmall DEF UNBOX

\* The boxes of the answers of compare.
LEMMA SmallBoxes ==
  /\ BOX(0) = 1 /\ BOX(1) = 3 /\ BOX(-1) = -1
<1>1. 0 \in Int /\ -(Modulus \div 4) <= 0 /\ 0 < Modulus \div 4
  BY ModulusFacts
<1>2. 1 \in Int /\ -(Modulus \div 4) <= 1 /\ 1 < Modulus \div 4
  BY ModulusFacts
<1>3. -1 \in Int /\ -(Modulus \div 4) <= -1 /\ -1 < Modulus \div 4
  BY ModulusFacts
<1> QED
  BY <1>1, <1>2, <1>3, BoxOfSmall

\* A word is odd once it is boxed.
LEMMA BoxesAreUnboxed == ASSUME NEW n \in Int PROVE UNBOXED(BOX(n)) /\ BOX(n) \in Int
<1>1. PICK q \in Nat : q >= 4 /\ Modulus = 4 * q
  BY ModulusFacts
<1>2. Modulus \div 2 = 2 * q
  BY <1>1
<1> DEFINE m == 2 * n + 1 + 2 * q
           d == m \div Modulus
<1>3. m \in Int /\ d \in Int /\ m = Modulus * d + (m % Modulus) /\ m % Modulus \in Int
  BY <1>1
<1>4. Modulus * d = 4 * (q * d) /\ q * d \in Int
  BY <1>1, <1>3
<1>5. PICK e \in Int : Modulus * d = 4 * e
  BY <1>4
<1>6. (m % Modulus) - 2 * q = 2 * (n - 2 * e) + 1
  BY <1>3, <1>5
<1>7. BOX(n) = 2 * (n - 2 * e) + 1
  BY <1>2, <1>6 DEF BOX, Signed
<1>8. n - 2 * e \in Int
  OBVIOUS
<1> QED
  BY <1>7, <1>8 DEF UNBOXED

-----------------------------------------------------------------------------
(***************************************************************************)
(* Recursion over the natural numbers, without an induction theorem: a set *)
(* of numbers that is not empty has a least one.                           *)
(***************************************************************************)

\* A set that holds zero and the successors of its members holds every number.
LEMMA Induction ==
  ASSUME NEW T, 0 \in T, \A n \in Nat : n \in T => n + 1 \in T
  PROVE  Nat \subseteq T
<1> SUFFICES ASSUME Nat \ T # {} PROVE FALSE
  OBVIOUS
<1> DEFINE Less == OpToRel(<, Nat)
<1>0. PICK n \in Nat \ T : \A m \in Nat \ T : ~(<<m, n>> \in Less)
  <2>1. IsWellFoundedOn(Less, Nat)
    BY NatLessThanWellFounded
  <2>2. Nat \ T \subseteq Nat
    OBVIOUS
  <2> HIDE DEF Less
  <2> QED
    BY <2>1, <2>2, WFMin
<1>1. \A m \in Nat \ T : n <= m
  <2>1. ASSUME NEW m \in Nat, m < n PROVE <<m, n>> \in Less
    <3>1. <<m, n>> \in Nat \X Nat /\ <<m, n>>[1] < <<m, n>>[2]
      BY <2>1
    <3> QED
      BY <3>1 DEF OpToRel
  <2> HIDE DEF Less
  <2>2. ASSUME NEW m \in Nat \ T PROVE n <= m
    <3>1. ~(<<m, n>> \in Less) /\ m \in Nat /\ n \in Nat
      BY <1>0
    <3>2. ~(m < n)
      BY <2>1, <3>1
    <3> QED
      BY <3>1, <3>2
  <2> QED
    BY <2>2
<1>2. n # 0 /\ n - 1 \in Nat /\ n - 1 \in T
  BY <1>1
<1> QED
  BY <1>1, <1>2

\* A function of the numbers up to n, from one number to the next.
Chain(S, base, step, n) ==
  {g \in [0 .. n -> S] : g[0] = base /\ \A i \in 0 .. n - 1 : g[i + 1] = step[i][g[i]]}

\* Chains of different lengths agree as far as both go.
LEMMA ChainsAgree ==
  ASSUME NEW S, NEW base \in S, NEW step \in [Nat -> [S -> S]], NEW n \in Nat, NEW m \in Nat,
         NEW g \in Chain(S, base, step, n), NEW h \in Chain(S, base, step, m)
  PROVE  \A i \in Nat : i <= n /\ i <= m => g[i] = h[i]
<1> DEFINE T == {i \in Nat : i <= n /\ i <= m => g[i] = h[i]}
<1>1. 0 \in T
  BY DEF Chain
<1>2. ASSUME NEW i \in Nat, i \in T PROVE i + 1 \in T
  BY <1>2 DEF Chain
<1> HIDE DEF T
<1>3. Nat \subseteq T
  BY <1>1, <1>2, Induction
<1> QED
  BY <1>3 DEF T

\* There are chains of every length.
LEMMA ChainsExist ==
  ASSUME NEW S, NEW base \in S, NEW step \in [Nat -> [S -> S]]
  PROVE  \A n \in Nat : Chain(S, base, step, n) # {}
<1> DEFINE T == {n \in Nat : Chain(S, base, step, n) # {}}
<1>1. 0 \in T
  <2> DEFINE g == [i \in 0 .. 0 |-> base]
  <2>1. g \in Chain(S, base, step, 0)
    BY DEF Chain
  <2> QED
    BY <2>1
<1>2. ASSUME NEW n \in Nat, n \in T PROVE n + 1 \in T
  <2>1. PICK g : g \in Chain(S, base, step, n)
    BY <1>2
  <2> DEFINE h == [i \in 0 .. n + 1 |-> IF i = n + 1 THEN step[n][g[n]] ELSE g[i]]
  <2>2. g \in [0 .. n -> S] /\ g[0] = base /\ \A i \in 0 .. n - 1 : g[i + 1] = step[i][g[i]]
    BY <2>1 DEF Chain
  <2>3. h \in [0 .. n + 1 -> S]
    BY <2>2
  <2>4. h[0] = base /\ \A i \in 0 .. (n + 1) - 1 : h[i + 1] = step[i][h[i]]
    BY <2>2
  <2>5. h \in Chain(S, base, step, n + 1)
    BY <2>3, <2>4 DEF Chain
  <2> QED
    BY <2>5
<1> HIDE DEF T
<1>3. Nat \subseteq T
  BY <1>1, <1>2, Induction
<1> QED
  BY <1>3 DEF T

\* f is defined by recursion, its values in S.
Recurses(f, S, base, step) ==
  f \in [Nat -> S] /\ f[0] = base /\ \A n \in Nat : f[n + 1] = step[n][f[n]]

\* There is a function defined by each recursion: the ends of the chains.
LEMMA RecursionExists ==
  ASSUME NEW S, NEW base \in S, NEW step \in [Nat -> [S -> S]]
  PROVE  \E f : Recurses(f, S, base, step)
<1> DEFINE chain(n) == CHOOSE g : g \in Chain(S, base, step, n)
           f == [n \in Nat |-> chain(n)[n]]
<1>1. ASSUME NEW n \in Nat PROVE chain(n) \in Chain(S, base, step, n)
  BY ChainsExist
<1>2. f \in [Nat -> S]
  <2> HIDE DEF chain
  <2>1. ASSUME NEW n \in Nat PROVE chain(n)[n] \in S
    <3>1. chain(n) \in [0 .. n -> S] /\ n \in 0 .. n
      BY <1>1 DEF Chain
    <3> QED
      BY <3>1
  <2> QED
    BY <2>1
<1>3. f[0] = base
  <2>1. chain(0)[0] = base
    BY <1>1 DEF Chain
  <2> QED
    BY <2>1
<1>4. ASSUME NEW n \in Nat PROVE f[n + 1] = step[n][f[n]]
  <2>1. chain(n) \in Chain(S, base, step, n) /\ chain(n + 1) \in Chain(S, base, step, n + 1)
    BY <1>1
  <2> HIDE DEF chain
  <2>2. chain(n + 1)[n] = chain(n)[n]
    BY <2>1, ChainsAgree
  <2>3. chain(n + 1)[n + 1] = step[n][chain(n + 1)[n]]
    BY <2>1 DEF Chain
  <2> QED
    BY <2>2, <2>3
<1>5. Recurses(f, S, base, step)
  <2> HIDE DEF f
  <2> QED
    BY <1>2, <1>3, <1>4 DEF Recurses
<1> QED
  BY <1>5

-----------------------------------------------------------------------------
(***************************************************************************)
(* Least and greatest numbers, first differences.                          *)
(***************************************************************************)

\* A set of natural numbers has a least one.
LEMMA LeastExists ==
  ASSUME NEW T, T \subseteq Nat, T # {}
  PROVE  \E n \in T : \A m \in T : n <= m
<1> DEFINE U == {n \in Nat : \A m \in T : n <= m}
<1>1. 0 \in U
  OBVIOUS
<1>2. \E n \in Nat : n \in U /\ n + 1 \notin U
  <2> SUFFICES ASSUME \A n \in Nat : n \in U => n + 1 \in U PROVE FALSE
    OBVIOUS
  <2>1. Nat \subseteq U
    <3> HIDE DEF U
    <3> QED
      BY <1>1, Induction
  <2>2. PICK m \in T : TRUE
    OBVIOUS
  <2>3. m \in Nat /\ m + 1 \in U
    BY <2>1, <2>2
  <2> QED
    BY <2>2, <2>3
<1>3. PICK n \in Nat : n \in U /\ n + 1 \notin U
  BY <1>2
<1>4. PICK m \in T : m < n + 1
  BY <1>3
<1>5. n = m
  BY <1>3, <1>4
<1> QED
  BY <1>3, <1>4, <1>5

\* Min of the community modules is a least element.
LEMMA MinIs ==
  ASSUME NEW T, T \subseteq Nat, T # {}
  PROVE  Min(T) \in T /\ \A m \in T : Min(T) <= m
  BY LeastExists DEF Min

\* The lesser of two.
LEMMA MinOfTwo ==
  ASSUME NEW a \in Int, NEW b \in Int
  PROVE  Min({a, b}) = IF a <= b THEN a ELSE b
<1> DEFINE least(x) == x \in {a, b} /\ \A y \in {a, b} : x <= y
<1>1. least(IF a <= b THEN a ELSE b)
  OBVIOUS
<1>2. ASSUME NEW x, least(x) PROVE x = IF a <= b THEN a ELSE b
  BY <1>2
<1>3. Min({a, b}) = CHOOSE x : least(x)
  BY DEF Min
<1> HIDE DEF least
<1>4. least(CHOOSE x : least(x))
  BY <1>1
<1> QED
  BY <1>2, <1>3, <1>4

\* Max of a set of small numbers is a greatest element.
LEMMA MaxIs ==
  ASSUME NEW n \in Nat, NEW T, T \subseteq 1 .. n, T # {}
  PROVE  Max(T) \in T /\ \A m \in T : m <= Max(T)
<1> DEFINE U == {n - x : x \in T}
<1>1. U \subseteq Nat /\ U # {}
  OBVIOUS
<1>2. PICK u \in U : \A m \in U : u <= m
  <2> HIDE DEF U
  <2> QED
    BY <1>1, LeastExists
<1>3. PICK x \in T : u = n - x
  BY <1>2
<1>4. ASSUME NEW m \in T PROVE m <= x
  <2>1. n - m \in U
    OBVIOUS
  <2>2. u <= n - m
    BY <1>2, <2>1
  <2> QED
    BY <1>3, <2>2
<1>5. \E y \in T : \A m \in T : y >= m
  <2>1. \A m \in T : x >= m
    BY <1>4
  <2> QED
    BY <2>1
<1>6. Max(T) \in T /\ \A m \in T : Max(T) >= m
  BY <1>5 DEF Max
<1> QED
  BY <1>6

\* v is the first of the n numbers A that is not zero, or zero.
IsFirst(A, n, v) ==
  \/ v = 0 /\ \A i \in 1 .. n : A[i] = 0
  \/ \E i \in 1 .. n : v = A[i] /\ A[i] # 0 /\ \A j \in 1 .. i - 1 : A[j] = 0

\* The answers of a comparison, both ways round.
Opposite(x, y) == (x < 0 <=> y > 0) /\ (x > 0 <=> y < 0)

\* The answers for two pairs, and for the first and the last.
Follows(x, y, z) == x <= 0 /\ y <= 0 => z <= 0 /\ (z = 0 <=> x = 0 /\ y = 0)

\* If the first that is not zero is zero, all are.
LEMMA FirstZero ==
  ASSUME NEW n \in Nat, NEW A \in [1 .. n -> Int], NEW a \in Int, IsFirst(A, n, a)
  PROVE  a = 0 <=> \A i \in 1 .. n : A[i] = 0
  BY DEF IsFirst

\* A number before which all are zero is zero or that first one.
LEMMA FirstAt ==
  ASSUME NEW n \in Nat, NEW A \in [1 .. n -> Int], NEW a \in Int, IsFirst(A, n, a),
         NEW i \in 1 .. n, \A j \in 1 .. i - 1 : A[j] = 0
  PROVE  A[i] = 0 \/ A[i] = a
<1> SUFFICES ASSUME A[i] # 0 PROVE A[i] = a
  OBVIOUS
<1>1. PICK k \in 1 .. n : a = A[k] /\ A[k] # 0 /\ \A j \in 1 .. k - 1 : A[j] = 0
  BY DEF IsFirst
<1>2. k = i
  BY <1>1
<1> QED
  BY <1>1, <1>2

\* Opposite answers have opposite first differences.
LEMMA FirstOpposite ==
  ASSUME NEW n \in Nat, NEW A \in [1 .. n -> Int], NEW B \in [1 .. n -> Int],
         NEW a \in Int, NEW b \in Int, IsFirst(A, n, a), IsFirst(B, n, b),
         \A i \in 1 .. n : Opposite(A[i], B[i])
  PROVE  Opposite(a, b)
<1>1. \A i \in 1 .. n : A[i] = 0 <=> B[i] = 0
  BY DEF Opposite
<1>2. CASE \A i \in 1 .. n : A[i] = 0
  BY <1>1, <1>2 DEF IsFirst, Opposite
<1>3. CASE ~\A i \in 1 .. n : A[i] = 0
  <2>1. PICK i \in 1 .. n : a = A[i] /\ A[i] # 0 /\ \A j \in 1 .. i - 1 : A[j] = 0
    BY <1>3 DEF IsFirst
  <2>2. PICK k \in 1 .. n : b = B[k] /\ B[k] # 0 /\ \A j \in 1 .. k - 1 : B[j] = 0
    BY <1>1, <1>3 DEF IsFirst
  <2>3. i = k
    BY <1>1, <2>1, <2>2
  <2> QED
    BY <2>1, <2>2, <2>3
<1> QED
  BY <1>2, <1>3

\* A lexicographic order is transitive.
LEMMA FirstFollows ==
  ASSUME NEW n \in Nat, NEW A \in [1 .. n -> Int], NEW B \in [1 .. n -> Int],
         NEW C \in [1 .. n -> Int], NEW a \in Int, NEW b \in Int, NEW c \in Int,
         IsFirst(A, n, a), IsFirst(B, n, b), IsFirst(C, n, c),
         \A i \in 1 .. n : Follows(A[i], B[i], C[i])
  PROVE  Follows(a, b, c)
<1> SUFFICES ASSUME a <= 0, b <= 0
             PROVE  c <= 0 /\ (c = 0 <=> a = 0 /\ b = 0)
  BY DEF Follows
<1>1. CASE a = 0 /\ b = 0
  <2>1. \A i \in 1 .. n : A[i] = 0 /\ B[i] = 0
    BY <1>1, FirstZero
  <2>2. \A i \in 1 .. n : C[i] = 0
    BY <2>1 DEF Follows
  <2>3. c = 0
    BY <2>2, FirstZero
  <2> QED
    BY <1>1, <2>3
<1>2. ASSUME NEW i \in 1 .. n, A[i] <= 0, B[i] <= 0, A[i] # 0 \/ B[i] # 0,
             \A j \in 1 .. i - 1 : A[j] = 0 /\ B[j] = 0
      PROVE  c < 0
  <2>1. C[i] < 0
    BY <1>2 DEF Follows
  <2>2. \A j \in 1 .. i - 1 : C[j] = 0
    BY <1>2 DEF Follows
  <2>3. PICK k \in 1 .. n : c = C[k] /\ C[k] # 0 /\ \A j \in 1 .. k - 1 : C[j] = 0
    BY <2>1 DEF IsFirst
  <2>4. k = i
    BY <2>1, <2>2, <2>3
  <2> QED
    BY <2>1, <2>3, <2>4
<1>3. CASE a # 0 \/ b # 0
  <2> DEFINE T == {i \in 1 .. n : A[i] # 0 \/ B[i] # 0}
  <2>1. T # {}
    BY <1>3, FirstZero
  <2>2. PICK i \in T : \A j \in T : i <= j
    <3>1. T \subseteq Nat
      OBVIOUS
    <3> HIDE DEF T
    <3> QED
      BY <2>1, <3>1, LeastExists
  <2>3. \A j \in 1 .. i - 1 : A[j] = 0 /\ B[j] = 0
    BY <2>2
  <2>4. A[i] <= 0 /\ B[i] <= 0
    <3>1. i \in 1 .. n /\ (\A j \in 1 .. i - 1 : A[j] = 0) /\ (\A j \in 1 .. i - 1 : B[j] = 0)
      BY <2>2, <2>3
    <3>2. A[i] = 0 \/ A[i] = a
      BY <3>1, FirstAt
    <3>3. B[i] = 0 \/ B[i] = b
      BY <3>1, FirstAt
    <3> QED
      BY <3>2, <3>3
  <2>6. c < 0
    BY <1>2, <2>2, <2>3, <2>4
  <2> QED
    BY <1>3, <2>6
<1> QED
  BY <1>1, <1>3

\* FirstNonZero finds the first, unboxed.
LEMMA FirstNonZeroIs ==
  ASSUME NEW n \in Nat, NEW s \in [1 .. n -> Int], \A i \in 1 .. n : UNBOXED(s[i])
  PROVE  /\ FirstNonZero(s) \in Int /\ UNBOXED(FirstNonZero(s))
         /\ IsFirst([i \in 1 .. n |-> UNBOX(s[i])], n, UNBOX(FirstNonZero(s)))
<1> DEFINE T == {i \in DOMAIN s : s[i] # BOX(0)}
<1>1. BOX(0) = 1 /\ DOMAIN s = 1 .. n /\ T \subseteq Nat
  BY SmallBoxes
<1>2. ASSUME NEW x \in Int, UNBOXED(x) PROVE UNBOX(x) \in Int /\ (UNBOX(x) = 0 <=> x = 1)
  BY <1>2 DEF UNBOXED, UNBOX
<1>3. CASE T = {}
  <2>1. FirstNonZero(s) = 1
    BY <1>1, <1>3 DEF FirstNonZero
  <2>2. \A i \in 1 .. n : s[i] = 1
    BY <1>1, <1>3
  <2> QED
    BY <2>1, <2>2 DEF IsFirst, UNBOXED, UNBOX
<1>4. CASE T # {}
  <2> DEFINE k == Min(T)
  <2>1. k \in T /\ \A m \in T : k <= m
    <3> HIDE DEF T
    <3> QED
      BY <1>1, <1>4, MinIs
  <2>2. FirstNonZero(s) = s[k]
    BY <1>4 DEF FirstNonZero
  <2>3. k \in 1 .. n /\ s[k] # 1 /\ \A j \in 1 .. k - 1 : s[j] = 1
    <3> HIDE DEF k
    <3> QED
      BY <1>1, <2>1
  <2> HIDE DEF k
  <2>4. UNBOX(s[k]) # 0 /\ \A j \in 1 .. k - 1 : UNBOX(s[j]) = 0
    BY <1>2, <2>3
  <2> QED
    BY <2>2, <2>3, <2>4 DEF IsFirst
<1> QED
  BY <1>3, <1>4

-----------------------------------------------------------------------------
(***************************************************************************)
(* The heap.                                                               *)
(***************************************************************************)

\* Numbers, values and characters are integers within bounds.
LEMMA NumberFacts ==
  /\ \A x \in Number : x \in Int /\ 0 <= x /\ x < Modulus \div 4
  /\ \A x \in Value : x \in Int /\ -(Modulus \div 4) <= x /\ x < Modulus \div 4
                      /\ (UNBOXED(x) \/ x >= 0)
  /\ \A x \in Character : x \in Int /\ -(Half \div 2) <= x /\ x < Half \div 2
<1>1. Modulus \div 4 \in Nat /\ Half \div 2 \in Nat
  BY ModulusFacts, WidthsAssumption
<1> QED
  BY <1>1 DEF Number, Value, Character

\* What an object of the heap is.
LEMMA ObjectFacts ==
  ASSUME TypeOK, NEW p \in DOMAIN heap
  PROVE  /\ p \in Number /\ p \in Int /\ ~UNBOXED(p)
         /\ heap[p].contents \in Seq(Int)
         /\ LEN(p) \in Nat /\ LEN(p) \in Number
         /\ heap[p].contents \in [1 .. LEN(p) -> Int]
         /\ TAG(p) \in {1, 3, 5, 7}
         /\ heap[p].sexp \in Number
         /\ TAG(p) # SEXP_TAG => heap[p].sexp = 0
<1>1. IsObject(heap[p]) /\ p \in Number /\ ~UNBOXED(p)
  BY DEF TypeOK, IsHeap
<1>2. heap[p].contents \in Seq(Int)
  BY <1>1 DEF IsObject
<1>3. LEN(p) \in Nat /\ heap[p].contents \in [1 .. LEN(p) -> Int]
  BY <1>2, LenProperties DEF LEN
<1> QED
  BY <1>1, <1>2, <1>3, NumberFacts
     DEF IsObject, LEN, TAG, STRING_TAG, ARRAY_TAG, SEXP_TAG, CLOSURE_TAG

\* What its elements are.
LEMMA ElementFacts ==
  ASSUME TypeOK, NEW p \in DOMAIN heap
  PROVE  /\ FirstElement(p) \in {1, 2}
         /\ TAG(p) = STRING_TAG => \A i \in 1 .. LEN(p) : heap[p].contents[i] \in Character
         /\ TAG(p) # STRING_TAG =>
              \A i \in 1 .. LEN(p) : i >= FirstElement(p) => heap[p].contents[i] \in Value
         /\ TAG(p) = CLOSURE_TAG => heap[p].contents[1] \in Number /\ LEN(p) >= 1
<1>1. IsObject(heap[p])
  BY DEF TypeOK, IsHeap
<1>2. heap[p].contents \in Seq(Int) /\ LEN(p) \in Nat
  BY ObjectFacts
<1>3. \A i \in 1 .. LEN(p) :
        heap[p].contents[i] \in CASE TAG(p) = STRING_TAG             -> Character
                                  [] TAG(p) = CLOSURE_TAG /\ i = 1 -> Number
                                  [] OTHER                        -> Value
  BY <1>1 DEF IsObject, LEN, TAG
<1>4. TAG(p) = CLOSURE_TAG => LEN(p) >= 1
  <2> SUFFICES ASSUME TAG(p) = CLOSURE_TAG PROVE LEN(p) # 0
    BY <1>2
  <2>1. heap[p].contents # <<>>
    BY <1>1 DEF IsObject, TAG
  <2> QED
    BY <1>2, <2>1, EmptySeq DEF LEN
<1>5. FirstElement(p) = IF TAG(p) = CLOSURE_TAG THEN 2 ELSE 1
  BY DEF FirstElement
<1>6. STRING_TAG = 1 /\ CLOSURE_TAG = 7
  BY DEF STRING_TAG, CLOSURE_TAG
<1>7. TAG(p) = STRING_TAG => \A i \in 1 .. LEN(p) : heap[p].contents[i] \in Character
  BY <1>3, <1>6
<1>8. TAG(p) # STRING_TAG =>
        \A i \in 1 .. LEN(p) : i >= FirstElement(p) => heap[p].contents[i] \in Value
  BY <1>3, <1>5
<1>9. TAG(p) = CLOSURE_TAG => heap[p].contents[1] \in Number
  <2> SUFFICES ASSUME TAG(p) = CLOSURE_TAG PROVE heap[p].contents[1] \in Number
    OBVIOUS
  <2>1. 1 \in 1 .. LEN(p) /\ TAG(p) # STRING_TAG
    BY <1>2, <1>4, <1>6
  <2> QED
    BY <1>3, <2>1
<1> QED
  BY <1>4, <1>5, <1>7, <1>8, <1>9

\* The conversion to char answers a character.
LEMMA CharIsCharacter == ASSUME NEW n \in Int PROVE Char(n) \in Character
<1>1. PICK k \in Nat : k >= 4 /\ Half \div 2 = k /\ Half = 2 * k
  <2>1. Half \in Nat /\ Half >= 8 /\ Half % 4 = 0
    BY ModulusFacts, WidthsAssumption
  <2> QED
    BY <2>1
<1>2. (n + k) % Half \in 0 .. Half - 1
  BY <1>1
<1> QED
  BY <1>1, <1>2 DEF Char, Character

\* The program's first heap is one.
LEMMA InitTyped == Init => TypeOK
  BY ValuesAssumption DEF Init, TypeOK

\* Bsta leaves an object what it is.
LEMMA AssignTyped == ASSUME TypeOK, [Assign]_heap PROVE TypeOK'
<1>1. CASE UNCHANGED heap
  BY <1>1 DEF TypeOK
<1>2. CASE Assign
  <2>0. PICK x \in Words \intersect DOMAIN heap, v \in Stored :
          \E i \in 1 .. LEN(x) : /\ TAG(x) = CLOSURE_TAG => i > 1
                                 /\ TAG(x) = STRING_TAG => UNBOXED(v)
                                 /\ Bsta(x, i, v)
    BY <1>2 DEF Assign
  <2>1. PICK i \in 1 .. LEN(x) : (TAG(x) = CLOSURE_TAG => i > 1) /\ Bsta(x, i, v)
    BY <2>0
  <2> DEFINE e == IF TAG(x) = STRING_TAG THEN Char(UNBOX(v)) ELSE v
             o == [heap[x] EXCEPT !.contents[i] = e]
  <2>2. heap' = [heap EXCEPT ![x] = o]
    BY <2>1 DEF Bsta
  <2>3. v \in Value /\ v \in Int
    BY ValuesAssumption, NumberFacts
  <2>4. e \in Int /\ e \in CASE TAG(x) = STRING_TAG             -> Character
                             [] TAG(x) = CLOSURE_TAG /\ i = 1 -> Number
                             [] OTHER                        -> Value
    <3>1. UNBOX(v) \in Int
      BY <2>3 DEF UNBOX
    <3>2. Char(UNBOX(v)) \in Character /\ Char(UNBOX(v)) \in Int
      BY <3>1, CharIsCharacter, NumberFacts
    <3>3. LEN(x) \in Nat /\ i \in Int
      BY ObjectFacts
    <3> QED
      BY <2>1, <2>3, <3>2, <3>3
  <2>5. IsObject(heap[x])
    BY DEF TypeOK, IsHeap
  <2>6. heap[x].contents \in Seq(Int) /\ i \in 1 .. Len(heap[x].contents)
    BY <2>5 DEF IsObject, LEN
  <2> DEFINE s == [heap[x].contents EXCEPT ![i] = e]
  <2>7. /\ s \in Seq(Int) /\ Len(s) = Len(heap[x].contents)
        /\ \A j \in 1 .. Len(s) : s[j] = IF j = i THEN e ELSE heap[x].contents[j]
    <3> HIDE DEF e
    <3> QED
      BY <2>4, <2>6, ExceptSeq
  <2> HIDE DEF s, e
  <2>8. o.tag = heap[x].tag /\ o.sexp = heap[x].sexp /\ o.contents = s
        /\ o \in [tag : {STRING_TAG, ARRAY_TAG, SEXP_TAG, CLOSURE_TAG}, sexp : Number,
                  contents : Seq(Int)]
    BY <2>5, <2>7 DEF IsObject, s
  <2> HIDE DEF o
  <2>9. IsObject(o)
    <3>1. o.tag = CLOSURE_TAG => o.contents # <<>>
      <4>1. Len(s) # 0
        BY <2>6, <2>7
      <4> QED
        BY <2>8, <4>1
    <3>2. \A j \in 1 .. Len(o.contents) :
            o.contents[j] \in CASE o.tag = STRING_TAG             -> Character
                                [] o.tag = CLOSURE_TAG /\ j = 1 -> Number
                                [] OTHER                        -> Value
      BY <2>4, <2>5, <2>7, <2>8 DEF IsObject, TAG
    <3> QED
      BY <2>5, <2>7, <2>8, <3>1, <3>2 DEF IsObject
  <2>10. DOMAIN heap' = DOMAIN heap /\ \A p \in DOMAIN heap : heap'[p] = IF p = x THEN o ELSE heap[p]
    BY <2>2
  <2> QED
    BY <2>9, <2>10 DEF TypeOK, IsHeap
<1> QED
  BY <1>1, <1>2

-----------------------------------------------------------------------------
(***************************************************************************)
(* Strings.                                                                *)
(***************************************************************************)

\* What a character is for strcmp; zero beyond the end.
Extended(s, i) == IF i <= Len(s) THEN s[i] % Half ELSE 0

\* strcmp, of two sequences of characters.
StringDifference(s, t) ==
  LET a == Append(s, 0)
      b == Append(t, 0)
      differ == {i \in 1 .. Min({Len(a), Len(b)}) : a[i] # b[i]}
  IN  IF differ = {} THEN 0 ELSE (a[Min(differ)] % Half) - (b[Min(differ)] % Half)

\* Characters other than zero.
Texts == {s \in Seq(Int) : \A i \in 1 .. Len(s) : s[i] \in Character /\ s[i] # 0}

\* What C sees of a string has no zero.
LEMMA CStringIsText ==
  ASSUME TypeOK, NEW p \in DOMAIN heap, TAG(p) = STRING_TAG
  PROVE  CString(p) \in Texts
<1> DEFINE c == heap[p].contents
           zeros == {i \in 1 .. LEN(p) : c[i] = 0}
           n == IF zeros = {} THEN LEN(p) ELSE Min(zeros) - 1
<1>1. c \in Seq(Int) /\ LEN(p) = Len(c) /\ LEN(p) \in Nat
  BY ObjectFacts DEF LEN
<1>2. zeros # {} => Min(zeros) \in zeros /\ \A m \in zeros : Min(zeros) <= m
  <2>1. zeros \subseteq Nat
    OBVIOUS
  <2> HIDE DEF zeros
  <2> QED
    BY <2>1, MinIs
<1>3. n \in 0 .. LEN(p) /\ \A i \in 1 .. n : c[i] # 0
  <2>1. CASE zeros = {}
    BY <1>1, <2>1
  <2>2. CASE zeros # {}
    <3> DEFINE m == Min(zeros)
    <3>1. n = m - 1
      BY <2>2
    <3>2. m \in 1 .. LEN(p) /\ \A j \in 1 .. LEN(p) : c[j] = 0 => m <= j
      BY <1>2, <2>2
    <3> HIDE DEF m, n, zeros
    <3> QED
      BY <1>1, <3>1, <3>2
  <2> QED
    BY <2>1, <2>2
<1>4. CString(p) = SubSeq(c, 1, n)
  BY DEF CString
<1> HIDE DEF n, zeros
<1>5. /\ SubSeq(c, 1, n) \in Seq(Int)
      /\ Len(SubSeq(c, 1, n)) = n
      /\ \A i \in 1 .. n : SubSeq(c, 1, n)[i] = c[i]
  BY <1>1, <1>3
<1>6. \A i \in 1 .. n : c[i] \in Character
  BY <1>3, <1>1, ElementFacts
<1> QED
  BY <1>3, <1>4, <1>5, <1>6 DEF Texts

\* strcmp depends on what C sees only.
LEMMA strcmpOfTexts ==
  ASSUME NEW p, NEW q
  PROVE  strcmp(p, q) = StringDifference(CString(p), CString(q))
  BY DEF strcmp, StringDifference

\* Distinct characters are distinct as unsigned ones, and zero only for zero.
LEMMA UnsignedCharacter ==
  ASSUME NEW x \in Character, NEW y \in Character
  PROVE  /\ x % Half \in 0 .. Half - 1
         /\ x % Half = y % Half <=> x = y
         /\ x % Half = 0 <=> x = 0
<1>1. PICK k \in Nat : k >= 4 /\ Half \div 2 = k /\ Half = 2 * k
  <2>1. Half \in Nat /\ Half >= 8 /\ Half % 4 = 0
    BY ModulusFacts, WidthsAssumption
  <2> QED
    BY <2>1
<1>2. ASSUME NEW z \in Character
      PROVE  z \in Int /\ -k <= z /\ z < k /\ z % Half = IF z >= 0 THEN z ELSE z + Half
  <2>1. z \in Int /\ -k <= z /\ z < k
    BY <1>1 DEF Character
  <2>2. CASE z >= 0
    BY <1>1, <2>1, <2>2, SmallModulus
  <2>3. CASE z < 0
    <3>1. z + Half \in Nat /\ z + Half < Half /\ Half \in Nat
      BY <1>1, <2>1, <2>3
    <3>2. z = Half * (-1) + (z + Half)
      BY <1>1, <2>1
    <3>3. z % Half = z + Half
      BY <3>1, <3>2
    <3> QED
      BY <2>1, <2>3, <3>3
  <2> QED
    BY <2>1, <2>2, <2>3
<1> QED
  BY <1>1, <1>2

\* Characters beyond the end count as zero.
LEMMA TextFacts ==
  ASSUME NEW s \in Texts
  PROVE  /\ s \in Seq(Int) /\ Len(s) \in Nat /\ s \in [1 .. Len(s) -> Int]
         /\ \A i \in Nat \ {0} : /\ Extended(s, i) \in 0 .. Half - 1
                                 /\ Extended(s, i) = 0 <=> i > Len(s)
<1>1. s \in Seq(Int) /\ \A i \in 1 .. Len(s) : s[i] \in Character /\ s[i] # 0
  BY DEF Texts
<1>2. Len(s) \in Nat /\ s \in [1 .. Len(s) -> Int]
  BY <1>1, LenProperties
<1>3. ASSUME NEW i \in Nat \ {0}
      PROVE  Extended(s, i) \in 0 .. Half - 1 /\ (Extended(s, i) = 0 <=> i > Len(s))
  <2>1. CASE i <= Len(s)
    <3>1. s[i] \in Character /\ s[i] # 0
      BY <1>1, <1>2, <2>1
    <3>2. s[i] % Half \in 0 .. Half - 1 /\ s[i] % Half # 0
      BY <3>1, UnsignedCharacter
    <3> QED
      BY <1>2, <2>1, <3>2 DEF Extended
  <2>2. CASE i > Len(s)
    <3>1. Extended(s, i) = 0
      BY <1>2, <2>2 DEF Extended
    <3>2. 0 \in 0 .. Half - 1
      BY WidthsAssumption
    <3> QED
      BY <2>2, <3>1, <3>2
  <2> QED
    BY <1>2, <2>1, <2>2
<1> QED
  BY <1>1, <1>2, <1>3

\* With its terminating zero a text is what it is extended to.
LEMMA Terminated ==
  ASSUME NEW s \in Texts
  PROVE  /\ Len(Append(s, 0)) = Len(s) + 1
         /\ \A i \in 1 .. Len(s) + 1 : /\ Append(s, 0)[i] \in Character
                                       /\ Append(s, 0)[i] % Half = Extended(s, i)
<1>1. s \in Seq(Int) /\ Len(s) \in Nat
  BY TextFacts
<1>2. /\ Len(Append(s, 0)) = Len(s) + 1
      /\ \A i \in 1 .. Len(s) : Append(s, 0)[i] = s[i]
      /\ Append(s, 0)[Len(s) + 1] = 0
  BY <1>1, AppendProperties
<1>3. 0 \in Character /\ 0 % Half = 0
  BY WidthsAssumption DEF Character
<1>4. \A i \in 1 .. Len(s) : s[i] \in Character
  BY DEF Texts
<1>5. ASSUME NEW i \in 1 .. Len(s) + 1
      PROVE  Append(s, 0)[i] \in Character /\ Append(s, 0)[i] % Half = Extended(s, i)
  <2>1. CASE i \in 1 .. Len(s)
    BY <1>1, <1>2, <1>4, <2>1 DEF Extended
  <2>2. CASE i = Len(s) + 1
    BY <1>1, <1>2, <1>3, <2>2 DEF Extended
  <2> QED
    BY <1>1, <2>1, <2>2
<1> QED
  BY <1>2, <1>5

\* strcmp is the first difference of the texts, extended as far as one likes.
LEMMA StringDifferenceIs ==
  ASSUME NEW s \in Texts, NEW t \in Texts, NEW n \in Nat, Len(s) <= n, Len(t) <= n
  PROVE  /\ StringDifference(s, t) \in Int
         /\ -Half < StringDifference(s, t) /\ StringDifference(s, t) < Half
         /\ IsFirst([i \in 1 .. n |-> Extended(s, i) - Extended(t, i)], n, StringDifference(s, t))
<1> DEFINE a == Append(s, 0)
           b == Append(t, 0)
           m == Min({Len(a), Len(b)})
           T == {i \in 1 .. m : a[i] # b[i]}
<1>1. Len(s) \in Nat /\ Len(t) \in Nat
  BY TextFacts
<1>2. m = IF Len(s) <= Len(t) THEN Len(s) + 1 ELSE Len(t) + 1
  <2>1. Len(a) = Len(s) + 1 /\ Len(b) = Len(t) + 1
    BY Terminated
  <2>2. m = IF Len(a) <= Len(b) THEN Len(a) ELSE Len(b)
    <3>1. Len(a) \in Int /\ Len(b) \in Int
      BY <1>1, <2>1
    <3> HIDE DEF a, b
    <3> QED
      BY <3>1, MinOfTwo
  <2> HIDE DEF m, a, b
  <2> QED
    BY <1>1, <2>1, <2>2
<1>3. StringDifference(s, t) = IF T = {} THEN 0 ELSE (a[Min(T)] % Half) - (b[Min(T)] % Half)
  BY DEF StringDifference
<1>4. ASSUME NEW i \in 1 .. m
      PROVE  /\ a[i] % Half = Extended(s, i) /\ b[i] % Half = Extended(t, i)
             /\ i \in T <=> Extended(s, i) # Extended(t, i)
  <2>1. i \in 1 .. Len(s) + 1 /\ i \in 1 .. Len(t) + 1
    <3> HIDE DEF m
    <3> QED
      BY <1>1, <1>2
  <2>2. a[i] \in Character /\ a[i] % Half = Extended(s, i)
    BY <2>1, Terminated
  <2>3. b[i] \in Character /\ b[i] % Half = Extended(t, i)
    BY <2>1, Terminated
  <2>4. i \in T <=> a[i] # b[i]
    OBVIOUS
  <2> HIDE DEF a, b, T
  <2>5. a[i] % Half = b[i] % Half <=> a[i] = b[i]
    BY <2>2, <2>3, UnsignedCharacter
  <2> QED
    BY <2>2, <2>3, <2>4, <2>5
<1>5. T \subseteq 1 .. m /\ m \in Nat
  BY <1>1, <1>2
<1> DEFINE A == [i \in 1 .. n |-> Extended(s, i) - Extended(t, i)]
<1>6. ASSUME NEW i \in 1 .. n
      PROVE  /\ Extended(s, i) \in 0 .. Half - 1 /\ Extended(t, i) \in 0 .. Half - 1
             /\ A[i] = Extended(s, i) - Extended(t, i)
             /\ A[i] = 0 <=> Extended(s, i) = Extended(t, i)
  BY TextFacts
<1>7. CASE T = {}
  <2>1. StringDifference(s, t) = 0
    BY <1>3, <1>7
  <2>2. ASSUME NEW i \in 1 .. m PROVE Extended(s, i) = Extended(t, i)
    BY <1>4, <1>7
  <2>3. Len(s) = Len(t)
    <3> HIDE DEF m, T
    <3>1. CASE Len(s) < Len(t)
      <4>1. Len(s) + 1 \in 1 .. m /\ Len(s) + 1 \in Nat \ {0} /\ Len(s) + 1 <= Len(t)
        BY <1>1, <1>2, <3>1
      <4>2. Extended(s, Len(s) + 1) = 0 /\ Extended(t, Len(s) + 1) # 0
        <5>1. Len(s) + 1 > Len(s) /\ ~(Len(s) + 1 > Len(t))
          BY <1>1, <4>1
        <5> QED
          BY <4>1, <5>1, TextFacts
      <4> QED
        BY <2>2, <4>1, <4>2
    <3>2. CASE Len(t) < Len(s)
      <4>1. Len(t) + 1 \in 1 .. m /\ Len(t) + 1 \in Nat \ {0} /\ Len(t) + 1 <= Len(s)
        BY <1>1, <1>2, <3>2
      <4>2. Extended(t, Len(t) + 1) = 0 /\ Extended(s, Len(t) + 1) # 0
        <5>1. Len(t) + 1 > Len(t) /\ ~(Len(t) + 1 > Len(s))
          BY <1>1, <4>1
        <5> QED
          BY <4>1, <5>1, TextFacts
      <4> QED
        BY <2>2, <4>1, <4>2
    <3> QED
      BY <1>1, <3>1, <3>2
  <2>4. ASSUME NEW i \in 1 .. n PROVE Extended(s, i) = Extended(t, i)
    <3>1. CASE i <= Len(s)
      <4>1. i \in 1 .. m
        <5> HIDE DEF m
        <5> QED
          BY <1>1, <1>2, <2>3, <3>1
      <4> QED
        BY <2>2, <4>1
    <3>2. CASE i > Len(s)
      BY <1>1, <2>3, <3>2 DEF Extended
    <3> QED
      BY <1>1, <3>1, <3>2
  <2>5. \A i \in 1 .. n : A[i] = 0
    BY <1>6, <2>4
  <2>6. Half > 0 /\ Half \in Nat
    BY ModulusFacts, WidthsAssumption
  <2> HIDE DEF A, T
  <2> QED
    BY <2>1, <2>5, <2>6 DEF IsFirst, A
<1>8. CASE T # {}
  <2> DEFINE k == Min(T)
  <2>1. k \in T /\ \A j \in T : k <= j
    <3>1. T \subseteq Nat
      OBVIOUS
    <3> HIDE DEF T
    <3> QED
      BY <1>8, <3>1, MinIs
  <2>2. StringDifference(s, t) = (a[k] % Half) - (b[k] % Half)
    BY <1>3, <1>8
  <2> HIDE DEF k, T, a, b, m, A
  <2>3. k \in 1 .. m /\ Extended(s, k) # Extended(t, k)
    BY <1>4, <1>5, <2>1
  <2>4. StringDifference(s, t) = Extended(s, k) - Extended(t, k)
    BY <1>4, <2>2, <2>3
  <2>5. k \in 1 .. n
    <3> SUFFICES ASSUME k > n PROVE FALSE
      BY <1>5, <2>3
    <3>1. k \in Nat \ {0} /\ k > Len(s) /\ k > Len(t)
      BY <1>1, <1>5, <2>3
    <3>2. Extended(s, k) = 0 /\ Extended(t, k) = 0
      BY <3>1, TextFacts
    <3> QED
      BY <2>3, <3>2
  <2>6. ASSUME NEW j \in 1 .. k - 1 PROVE A[j] = 0
    <3>1. j \in 1 .. m /\ j \in 1 .. n /\ j < k
      BY <1>5, <2>3, <2>5
    <3>2. j \notin T
      BY <2>1, <3>1, <2>3, <1>5
    <3> QED
      BY <1>4, <1>6, <3>1, <3>2
  <2>7. A[k] = StringDifference(s, t) /\ A[k] # 0
    BY <1>6, <2>3, <2>4, <2>5
  <2>8. IsFirst(A, n, StringDifference(s, t))
    BY <2>5, <2>6, <2>7 DEF IsFirst
  <2>9. Extended(s, k) \in 0 .. Half - 1 /\ Extended(t, k) \in 0 .. Half - 1 /\ Half \in Nat
    BY <1>6, <2>5, WidthsAssumption
  <2> QED
    BY <2>4, <2>8, <2>9 DEF A
<1> QED
  BY <1>7, <1>8

\* strcmp orders texts, and tells those apart that differ.
LEMMA StringsAreOrdered ==
  ASSUME NEW s \in Texts, NEW t \in Texts, NEW u \in Texts
  PROVE  /\ Opposite(StringDifference(s, t), StringDifference(t, s))
         /\ Follows(StringDifference(s, t), StringDifference(t, u), StringDifference(s, u))
         /\ StringDifference(s, t) = 0 <=> s = t
<1> DEFINE n == Len(s) + Len(t) + Len(u)
           A == [i \in 1 .. n |-> Extended(s, i) - Extended(t, i)]
           B == [i \in 1 .. n |-> Extended(t, i) - Extended(s, i)]
           C == [i \in 1 .. n |-> Extended(t, i) - Extended(u, i)]
           D == [i \in 1 .. n |-> Extended(s, i) - Extended(u, i)]
<1>1. /\ n \in Nat /\ Len(s) <= n /\ Len(t) <= n /\ Len(u) <= n
      /\ Len(s) \in Nat /\ Len(t) \in Nat /\ Len(u) \in Nat
  BY TextFacts
<1> HIDE DEF n
<1>2. ASSUME NEW i \in 1 .. n
      PROVE  Extended(s, i) \in Int /\ Extended(t, i) \in Int /\ Extended(u, i) \in Int
  BY <1>1, TextFacts
<1>3. A \in [1 .. n -> Int] /\ B \in [1 .. n -> Int] /\ C \in [1 .. n -> Int] /\ D \in [1 .. n -> Int]
  BY <1>2
<1>4. \A i \in 1 .. n : Opposite(A[i], B[i]) /\ Follows(A[i], C[i], D[i])
  BY <1>2 DEF Opposite, Follows
<1>5. IsFirst(A, n, StringDifference(s, t)) /\ StringDifference(s, t) \in Int
  BY <1>1, StringDifferenceIs
<1>6. IsFirst(B, n, StringDifference(t, s)) /\ StringDifference(t, s) \in Int
  BY <1>1, StringDifferenceIs
<1>7. IsFirst(C, n, StringDifference(t, u)) /\ StringDifference(t, u) \in Int
  BY <1>1, StringDifferenceIs
<1>8. IsFirst(D, n, StringDifference(s, u)) /\ StringDifference(s, u) \in Int
  BY <1>1, StringDifferenceIs
<1>9. StringDifference(s, t) = 0 <=> \A i \in 1 .. n : Extended(s, i) = Extended(t, i)
  <2>1. \A i \in 1 .. n : A[i] = 0 <=> Extended(s, i) = Extended(t, i)
    BY <1>2
  <2> HIDE DEF A
  <2> QED
    BY <1>1, <1>3, <1>5, <2>1, FirstZero
<1>10. ASSUME \A i \in 1 .. n : Extended(s, i) = Extended(t, i) PROVE s = t
  <2>1. Len(s) = Len(t)
    <3>1. CASE Len(s) < Len(t)
      <4>1. Len(s) + 1 \in 1 .. n /\ Len(s) + 1 \in Nat \ {0} /\ Len(s) + 1 > Len(s)
            /\ ~(Len(s) + 1 > Len(t))
        BY <1>1, <3>1
      <4> QED
        BY <1>10, <4>1, TextFacts
    <3>2. CASE Len(t) < Len(s)
      <4>1. Len(t) + 1 \in 1 .. n /\ Len(t) + 1 \in Nat \ {0} /\ Len(t) + 1 > Len(t)
            /\ ~(Len(t) + 1 > Len(s))
        BY <1>1, <3>2
      <4> QED
        BY <1>10, <4>1, TextFacts
    <3> QED
      BY <1>1, <3>1, <3>2
  <2>2. ASSUME NEW i \in 1 .. Len(s) PROVE s[i] = t[i]
    <3>1. i \in 1 .. n /\ i <= Len(s) /\ i <= Len(t) /\ i \in 1 .. Len(t)
      BY <1>1, <2>1
    <3>2. s[i] % Half = t[i] % Half
      BY <1>10, <3>1 DEF Extended
    <3>3. s[i] \in Character /\ t[i] \in Character
      BY <3>1 DEF Texts
    <3> QED
      BY <3>2, <3>3, UnsignedCharacter
  <2>3. s \in Seq(Int) /\ t \in Seq(Int)
    BY TextFacts
  <2> QED
    BY <2>1, <2>2, <2>3, SeqEqual
<1> HIDE DEF A, B, C, D
<1>11. Opposite(StringDifference(s, t), StringDifference(t, s))
  BY <1>1, <1>3, <1>4, <1>5, <1>6, FirstOpposite
<1>12. Follows(StringDifference(s, t), StringDifference(t, u), StringDifference(s, u))
  BY <1>1, <1>3, <1>4, <1>5, <1>7, <1>8, FirstFollows
<1> QED
  BY <1>9, <1>10, <1>11, <1>12

-----------------------------------------------------------------------------
(***************************************************************************)
(* Folds.                                                                  *)
(***************************************************************************)

\* The greatest position of a range, and the range without it.
LEMMA MaxOfRange ==
  ASSUME NEW k \in Nat \ {0}
  PROVE  Max(1 .. k) = k /\ (1 .. k) \ {k} = 1 .. k - 1 /\ 1 .. k # {}
<1>1. k \in 1 .. k /\ 1 .. k # {} /\ 1 .. k \subseteq 1 .. k /\ k \in Nat
  OBVIOUS
<1>2. Max(1 .. k) \in 1 .. k /\ \A m \in 1 .. k : m <= Max(1 .. k)
  BY <1>1, MaxIs
<1>3. Max(1 .. k) = k
  BY <1>1, <1>2
<1> QED
  BY <1>1, <1>3

\* The function that defines FoldLeft.
FoldTable(g, S, base, n, step) ==
  /\ g \in [SUBSET (1 .. n) -> S]
  /\ g = [t \in SUBSET (1 .. n) |-> IF t = {} THEN base ELSE step[Max(t)][g[t \ {Max(t)}]]]

\* There is such a function.
LEMMA FoldExists ==
  ASSUME NEW S, NEW base \in S, NEW n \in Nat, NEW step \in [1 .. n -> [S -> S]]
  PROVE  \E g : FoldTable(g, S, base, n, step)
<1> DEFINE Sub == SUBSET (1 .. n)
           Turn(g, t) == IF t = {} THEN base ELSE step[Max(t)][g[t \ {Max(t)}]]
           first == [t \in Sub |-> base]
           turn == [k \in Nat |-> [g \in [Sub -> S] |-> [t \in Sub |-> Turn(g, t)]]]
<1>1. ASSUME NEW g \in [Sub -> S], NEW t \in Sub PROVE Turn(g, t) \in S
  <2>1. CASE t = {}
    BY <2>1
  <2>2. CASE t # {}
    <3>1. Max(t) \in 1 .. n
      BY <2>2, MaxIs
    <3>2. t \ {Max(t)} \in Sub
      OBVIOUS
    <3> QED
      BY <2>2, <3>1, <3>2
  <2> QED
    BY <2>1, <2>2
<1> HIDE DEF Turn
<1> DEFINE Fs == [Sub -> S]
<1>2. first \in Fs /\ turn \in [Nat -> [Fs -> Fs]]
  BY <1>1
<1>3. PICK G \in [Nat -> Fs] :
        G[0] = first /\ \A k \in Nat : G[k + 1] = turn[k][G[k]]
  <2>1. first \in Fs
    BY <1>2
  <2>2. turn \in [Nat -> [Fs -> Fs]]
    BY <1>2
  <2> HIDE DEF first, turn, Fs, Sub
  <2>3. \E G : Recurses(G, Fs, first, turn)
    BY <2>1, <2>2, RecursionExists
  <2> QED
    BY <2>3 DEF Recurses
<1>4. ASSUME NEW k \in Nat, NEW t \in Sub PROVE G[k + 1][t] = Turn(G[k], t)
  <2>1. G[k] \in [Sub -> S]
    BY <1>3
  <2>2. G[k + 1] = [u \in Sub |-> Turn(G[k], u)]
    BY <1>3, <2>1
  <2> HIDE DEF Sub
  <2> QED
    BY <2>2
<1> DEFINE T == {k \in Nat : \A t \in Sub : t \subseteq 1 .. k => G[k + 1][t] = G[k][t]}
<1>5. 0 \in T
  <2> SUFFICES ASSUME NEW t \in Sub, t \subseteq 1 .. 0 PROVE G[0 + 1][t] = G[0][t]
    OBVIOUS
  <2>1. t = {}
    OBVIOUS
  <2>2. G[0 + 1][t] = base
    BY <1>4, <2>1 DEF Turn
  <2>3. G[0][t] = base
    BY <1>3
  <2> QED
    BY <2>2, <2>3
<1>6. ASSUME NEW k \in Nat, k \in T PROVE k + 1 \in T
  <2> SUFFICES ASSUME NEW t \in Sub, t \subseteq 1 .. k + 1
               PROVE  G[(k + 1) + 1][t] = G[k + 1][t]
    OBVIOUS
  <2>1. G[(k + 1) + 1][t] = Turn(G[k + 1], t) /\ G[k + 1][t] = Turn(G[k], t)
    BY <1>4
  <2>2. CASE t = {}
    BY <2>1, <2>2 DEF Turn
  <2>3. CASE t # {}
    <3> DEFINE u == t \ {Max(t)}
    <3>1. Max(t) \in t /\ \A m \in t : m <= Max(t)
      BY <2>3, MaxIs
    <3>2. u \in Sub
      OBVIOUS
    <3>3. u \subseteq 1 .. k
      <4>1. ASSUME NEW x \in u PROVE x \in 1 .. k
        <5>1. x \in t /\ x # Max(t) /\ x \in 1 .. k + 1 /\ Max(t) \in 1 .. k + 1
          BY <3>1
        <5>2. x <= Max(t)
          BY <3>1, <5>1
        <5> HIDE DEF u
        <5> QED
          BY <5>1, <5>2
      <4> HIDE DEF u
      <4> QED
        BY <4>1
    <3>4. G[k + 1][u] = G[k][u]
      <4> HIDE DEF u
      <4> QED
        BY <1>6, <3>2, <3>3
    <3> QED
      BY <2>1, <2>3, <3>4 DEF Turn
  <2> QED
    BY <2>2, <2>3
<1>7. n \in T
  <2> HIDE DEF T
  <2>1. Nat \subseteq T
    BY <1>5, <1>6, Induction
  <2> QED
    BY <2>1
<1>8. \A t \in Sub : G[n][t] = Turn(G[n], t)
  BY <1>4, <1>7
<1>9. G[n] \in [Sub -> S]
  BY <1>3
<1>10. G[n] = [t \in Sub |-> Turn(G[n], t)]
  <2> HIDE DEF Sub
  <2> QED
    BY <1>8, <1>9
<1> QED
  BY <1>9, <1>10 DEF Turn, FoldTable

\* v is base, carried through the n steps.
Folded(v, S, base, n, step) ==
  /\ v \in S
  /\ \A acc \in [0 .. n -> S] :
       acc[0] = base /\ (\A k \in 1 .. n : acc[k] = step[k][acc[k - 1]]) => v = acc[n]

\* g is a function over the sets of positions that folds up to the greatest one.
FoldsUp(g, S, base, n, step) ==
  /\ g[{}] = base
  /\ \A k \in 1 .. n : g[1 .. k - 1] \in S => g[1 .. k] = step[k][g[1 .. k - 1]]

\* What it has at all positions is the base carried through the steps.
LEMMA FoldAlong ==
  ASSUME NEW S, NEW base \in S, NEW n \in Nat, NEW step \in [1 .. n -> [S -> S]],
         NEW g, FoldsUp(g, S, base, n, step)
  PROVE  Folded(g[1 .. n], S, base, n, step)
<1>0. g[{}] = base /\ \A k \in 1 .. n : g[1 .. k - 1] \in S => g[1 .. k] = step[k][g[1 .. k - 1]]
  BY DEF FoldsUp
<1> DEFINE T == {k \in Nat : k <= n =>
                   /\ g[1 .. k] \in S
                   /\ \A acc \in [0 .. n -> S] :
                        acc[0] = base /\ (\A j \in 1 .. n : acc[j] = step[j][acc[j - 1]])
                          => g[1 .. k] = acc[k]}
<1>1. 0 \in T
  <2>1. 1 .. 0 = {}
    OBVIOUS
  <2> QED
    BY <1>0, <2>1
<1>2. ASSUME NEW k \in Nat, k \in T PROVE k + 1 \in T
  <2> SUFFICES ASSUME k + 1 <= n PROVE k + 1 \in T
    OBVIOUS
  <2>1. k + 1 \in 1 .. n /\ (k + 1) - 1 = k /\ k <= n
    OBVIOUS
  <2>2. g[1 .. k] \in S
    BY <1>2, <2>1
  <2>3. g[1 .. k + 1] = step[k + 1][g[1 .. k]]
    <3>1. g[1 .. (k + 1) - 1] \in S => g[1 .. k + 1] = step[k + 1][g[1 .. (k + 1) - 1]]
      BY <1>0, <2>1
    <3> QED
      BY <2>1, <2>2, <3>1
  <2>4. g[1 .. k + 1] \in S
    BY <2>1, <2>2, <2>3
  <2>5. ASSUME NEW acc \in [0 .. n -> S], acc[0] = base,
               \A j \in 1 .. n : acc[j] = step[j][acc[j - 1]]
        PROVE  g[1 .. k + 1] = acc[k + 1]
    <3>1. g[1 .. k] = acc[k]
      BY <1>2, <2>1, <2>5
    <3>2. acc[k + 1] = step[k + 1][acc[(k + 1) - 1]]
      BY <2>1, <2>5
    <3> QED
      BY <2>1, <2>3, <3>1, <3>2
  <2> QED
    BY <2>4, <2>5
<1> HIDE DEF T
<1>3. n \in T
  <2>1. Nat \subseteq T
    BY <1>1, <1>2, Induction
  <2> QED
    BY <2>1
<1> QED
  BY <1>3 DEF T, Folded

\* LtagHash carries zero through the characters.
LEMMA ShiftedFold ==
  ASSUME NEW c \in Seq(Nat), NEW n \in Nat, n = Len(c)
  PROVE  Folded(FoldLeft(Shifted, 0, c), Nat, 0, n, [k \in 1 .. n |-> [a \in Nat |-> a * Chars + c[k]]])
<1> DEFINE step == [k \in 1 .. n |-> [a \in Nat |-> a * Chars + c[k]]]
           IsFold(g) == g = [t \in SUBSET (1 .. n) |->
                               IF t = {} THEN 0 ELSE g[t \ {Max(t)}] * Chars + c[Max(t)]]
           fold == CHOOSE g : IsFold(g)
<1>1. c \in [1 .. n -> Nat] /\ DOMAIN c = 1 .. n /\ Chars \in Nat
  BY LenProperties, WidthsAssumption
<1>2. step \in [1 .. n -> [Nat -> Nat]] /\ 0 \in Nat
  <2>1. ASSUME NEW k \in 1 .. n, NEW a \in Nat PROVE a * Chars + c[k] \in Nat
    <3>1. c[k] \in Nat /\ a * Chars \in Nat
      BY <1>1
    <3> QED
      BY <3>1
  <2> QED
    BY <2>1
<1>3. FoldLeft(Shifted, 0, c) = fold[1 .. n]
  BY <1>1 DEF FoldLeft, MapThenFoldSet, Shifted
<1>4. \E g : IsFold(g)
  <2>1. PICK g : FoldTable(g, Nat, 0, n, step)
    <3> HIDE DEF step
    <3> QED
      BY <1>2, FoldExists
  <2>2. ASSUME NEW t \in SUBSET (1 .. n), t # {}
        PROVE  step[Max(t)][g[t \ {Max(t)}]] = g[t \ {Max(t)}] * Chars + c[Max(t)]
    <3>1. Max(t) \in 1 .. n
      BY <2>2, MaxIs
    <3>2. g[t \ {Max(t)}] \in Nat
      BY <2>1 DEF FoldTable
    <3> QED
      BY <3>1, <3>2
  <2>3. g = [t \in SUBSET (1 .. n) |->
               IF t = {} THEN 0 ELSE g[t \ {Max(t)}] * Chars + c[Max(t)]]
    <3> HIDE DEF step
    <3> QED
      BY <2>1, <2>2 DEF FoldTable
  <2> QED
    BY <2>3
<1>5. IsFold(fold)
  <2> HIDE DEF IsFold
  <2> QED
    BY <1>4
<1> HIDE DEF fold
<1>6. FoldsUp(fold, Nat, 0, n, step)
  <2>1. fold[{}] = 0
    BY <1>5
  <2>2. ASSUME NEW k \in 1 .. n, fold[1 .. k - 1] \in Nat
        PROVE  fold[1 .. k] = step[k][fold[1 .. k - 1]]
    <3>1. k \in Nat \ {0} /\ 1 .. k \in SUBSET (1 .. n)
      OBVIOUS
    <3>2. Max(1 .. k) = k /\ (1 .. k) \ {k} = 1 .. k - 1 /\ 1 .. k # {}
      BY <3>1, MaxOfRange
    <3>3. fold[1 .. k] = fold[1 .. k - 1] * Chars + c[k]
      BY <1>5, <3>1, <3>2
    <3> QED
      BY <2>2, <3>3
  <2> HIDE DEF step
  <2> QED
    BY <2>1, <2>2 DEF FoldsUp
<1> HIDE DEF step
<1>7. Folded(fold[1 .. n], Nat, 0, n, step)
  BY <1>2, <1>6, FoldAlong
<1> QED
  BY <1>3, <1>7 DEF step

\* A hash stays a natural number.
LEMMA HashAppendTyped ==
  ASSUME NEW acc \in Int, NEW x \in Int
  PROVE  HASH_APPEND(acc, x) \in Nat
<1> DEFINE sum == Unsigned(acc + x)
<1>1. Half \in Nat \ {0} /\ Modulus \in Nat \ {0}
  BY WidthsAssumption, ModulusFacts
<1>2. acc + x \in Int
  OBVIOUS
<1>3. sum \in Nat
  <2> DEFINE m == acc + x
  <2>1. m \in Int
    OBVIOUS
  <2>2. m % Modulus \in Nat
    <3> HIDE DEF m
    <3> QED
      BY <1>1, <2>1
  <2> QED
    BY <2>2 DEF Unsigned
<1> HIDE DEF sum
<1>4. sum % Half \in Nat /\ sum \div Half \in Nat
  BY <1>1, <1>3
<1>5. (sum % Half) * Half \in Nat
  BY <1>1, <1>4
<1>6. (sum % Half) * Half + (sum \div Half) \in Nat
  BY <1>4, <1>5
<1> QED
  BY <1>6 DEF HASH_APPEND, sum

\* Hashing characters answers a natural number.
LEMMA StringHashTyped ==
  ASSUME NEW c \in Seq(Int), NEW base \in Nat,
         NEW n \in Nat, n = Len(c)
  PROVE  FoldLeft(HASH_APPEND, base, c) \in Nat
<1> DEFINE step == [k \in 1 .. n |-> [a \in Nat |-> HASH_APPEND(a, c[k])]]
           IsFold(g) == g = [t \in SUBSET (1 .. n) |->
                               IF t = {} THEN base ELSE HASH_APPEND(g[t \ {Max(t)}], c[Max(t)])]
           fold == CHOOSE g : IsFold(g)
<1>1. c \in [1 .. n -> Int] /\ DOMAIN c = 1 .. n
  BY LenProperties
<1>2. step \in [1 .. n -> [Nat -> Nat]] /\ base \in Nat
  <2>1. ASSUME NEW k \in 1 .. n, NEW a \in Nat PROVE HASH_APPEND(a, c[k]) \in Nat
    <3>1. c[k] \in Int /\ a \in Int
      BY <1>1
    <3> QED
      BY <3>1, HashAppendTyped
  <2> QED
    BY <2>1
<1>3. FoldLeft(HASH_APPEND, base, c) = fold[1 .. n]
  BY <1>1 DEF FoldLeft, MapThenFoldSet
<1>4. \E g : IsFold(g)
  <2>1. PICK g : FoldTable(g, Nat, base, n, step)
    <3> HIDE DEF step
    <3> QED
      BY <1>2, FoldExists
  <2>2. ASSUME NEW t \in SUBSET (1 .. n), t # {}
        PROVE  step[Max(t)][g[t \ {Max(t)}]] = HASH_APPEND(g[t \ {Max(t)}], c[Max(t)])
    <3>1. Max(t) \in 1 .. n
      BY <2>2, MaxIs
    <3>2. g[t \ {Max(t)}] \in Nat
      BY <2>1 DEF FoldTable
    <3> QED
      BY <3>1, <3>2
  <2>3. g = [t \in SUBSET (1 .. n) |->
               IF t = {} THEN base ELSE HASH_APPEND(g[t \ {Max(t)}], c[Max(t)])]
    <3> HIDE DEF step
    <3> QED
      BY <2>1, <2>2 DEF FoldTable
  <2> QED
    BY <2>3
<1>5. IsFold(fold)
  <2> HIDE DEF IsFold
  <2> QED
    BY <1>4
<1> HIDE DEF fold
<1>6. FoldsUp(fold, Nat, base, n, step)
  <2>1. fold[{}] = base
    BY <1>5
  <2>2. ASSUME NEW k \in 1 .. n, fold[1 .. k - 1] \in Nat
        PROVE  fold[1 .. k] = step[k][fold[1 .. k - 1]]
    <3>1. k \in Nat \ {0} /\ 1 .. k \in SUBSET (1 .. n)
      OBVIOUS
    <3>2. Max(1 .. k) = k /\ (1 .. k) \ {k} = 1 .. k - 1 /\ 1 .. k # {}
      BY <3>1, MaxOfRange
    <3>3. fold[1 .. k] = HASH_APPEND(fold[1 .. k - 1], c[k])
      BY <1>5, <3>1, <3>2
    <3> QED
      BY <2>2, <3>3
  <2> HIDE DEF step
  <2> QED
    BY <2>1, <2>2 DEF FoldsUp
<1> HIDE DEF step
<1>7. Folded(fold[1 .. n], Nat, base, n, step)
  BY <1>2, <1>6, FoldAlong
<1> QED
  BY <1>3, <1>7 DEF Folded

\* Hashing elements carries the hash through them.
LEMMA HashElementsFold ==
  ASSUME NEW inner \in [Int -> [Nat -> Nat]], NEW c \in Seq(Int), NEW base \in Nat,
         NEW n \in Nat, n = Len(c)
  PROVE  Folded(HashElements(inner, base, c), Nat, base, n,
                [k \in 1 .. n |-> [a \in Nat |-> inner[c[k]][a]]])
<1> DEFINE step == [k \in 1 .. n |-> [a \in Nat |-> inner[c[k]][a]]]
           IsFold(g) == g = [t \in SUBSET (1 .. n) |->
                               IF t = {} THEN base ELSE inner[c[Max(t)]][g[t \ {Max(t)}]]]
           fold == CHOOSE g : IsFold(g)
<1>1. c \in [1 .. n -> Int] /\ DOMAIN c = 1 .. n
  BY LenProperties
<1>2. step \in [1 .. n -> [Nat -> Nat]] /\ base \in Nat
  <2>1. ASSUME NEW k \in 1 .. n, NEW a \in Nat PROVE inner[c[k]][a] \in Nat
    <3>1. c[k] \in Int /\ a \in Int
      BY <1>1
    <3> QED
      BY <3>1
  <2> QED
    BY <2>1
<1>3. HashElements(inner, base, c) = fold[1 .. n]
  BY <1>1 DEF FoldLeft, MapThenFoldSet, HashElements
<1>4. \E g : IsFold(g)
  <2>1. PICK g : FoldTable(g, Nat, base, n, step)
    <3> HIDE DEF step
    <3> QED
      BY <1>2, FoldExists
  <2>2. ASSUME NEW t \in SUBSET (1 .. n), t # {}
        PROVE  step[Max(t)][g[t \ {Max(t)}]] = inner[c[Max(t)]][g[t \ {Max(t)}]]
    <3>1. Max(t) \in 1 .. n
      BY <2>2, MaxIs
    <3>2. g[t \ {Max(t)}] \in Nat
      BY <2>1 DEF FoldTable
    <3> QED
      BY <3>1, <3>2
  <2>3. g = [t \in SUBSET (1 .. n) |->
               IF t = {} THEN base ELSE inner[c[Max(t)]][g[t \ {Max(t)}]]]
    <3> HIDE DEF step
    <3> QED
      BY <2>1, <2>2 DEF FoldTable
  <2> QED
    BY <2>3
<1>5. IsFold(fold)
  <2> HIDE DEF IsFold
  <2> QED
    BY <1>4
<1> HIDE DEF fold
<1>6. FoldsUp(fold, Nat, base, n, step)
  <2>1. fold[{}] = base
    BY <1>5
  <2>2. ASSUME NEW k \in 1 .. n, fold[1 .. k - 1] \in Nat
        PROVE  fold[1 .. k] = step[k][fold[1 .. k - 1]]
    <3>0. k \in Nat \ {0} /\ k <= n
      OBVIOUS
    <3>1. k \in Nat \ {0} /\ 1 .. k \in SUBSET (1 .. n)
      <4>1. \A j \in 1 .. k : j \in 1 .. n
        BY <3>0
      <4> QED
        BY <3>0, <4>1
    <3>2. Max(1 .. k) = k /\ (1 .. k) \ {k} = 1 .. k - 1 /\ 1 .. k # {}
      BY <3>1, MaxOfRange
    <3>3. fold[1 .. k] = inner[c[k]][fold[1 .. k - 1]]
      BY <1>5, <3>1, <3>2
    <3> QED
      BY <2>2, <3>3
  <2> HIDE DEF step
  <2> QED
    BY <2>1, <2>2 DEF FoldsUp
<1> HIDE DEF step
<1>7. Folded(fold[1 .. n], Nat, base, n, step)
  BY <1>2, <1>6, FoldAlong
<1> QED
  BY <1>3, <1>7 DEF step

\* The form in which recursive functions are written.
LEMMA RecursionIs ==
  ASSUME NEW S, NEW base, NEW step, NEW f, Recurses(f, S, base, step)
  PROVE  f = [n \in Nat |-> IF n = 0 THEN base ELSE step[n - 1][f[n - 1]]]
<1>1. f \in [Nat -> S] /\ f[0] = base /\ \A n \in Nat : f[n + 1] = step[n][f[n]]
  BY DEF Recurses
<1>2. ASSUME NEW n \in Nat PROVE f[n] = IF n = 0 THEN base ELSE step[n - 1][f[n - 1]]
  <2>1. CASE n = 0
    BY <1>1, <2>1
  <2>2. CASE n # 0
    <3>1. n - 1 \in Nat /\ (n - 1) + 1 = n
      BY <2>2
    <3>2. f[(n - 1) + 1] = step[n - 1][f[n - 1]]
      BY <1>1, <3>1
    <3> QED
      BY <2>2, <3>1, <3>2
  <2> QED
    BY <2>1, <2>2
<1> QED
  BY <1>1, <1>2

-----------------------------------------------------------------------------
(***************************************************************************)
(* Tags.                                                                   *)
(***************************************************************************)

\* The recursion that defines TagSpace.
LEMMA TagSpaceIs ==
  /\ TagSpace[0] = 1
  /\ \A n \in Nat : TagSpace[n] \in Nat \ {0} /\ TagSpace[n + 1] = Chars * TagSpace[n]
<1> DEFINE step == [k \in Nat |-> [a \in Nat |-> Chars * a]]
           Is(f) == f = [n \in Nat |-> IF n = 0 THEN 1 ELSE Chars * f[n - 1]]
<1>0. Chars \in Nat /\ Chars >= 2
  BY WidthsAssumption
<1>1. step \in [Nat -> [Nat -> Nat]] /\ 1 \in Nat
  BY <1>0
<1>2. \E f : Is(f)
  <2>1. PICK f : Recurses(f, Nat, 1, step)
    <3> HIDE DEF step
    <3> QED
      BY <1>1, RecursionExists
  <2>2. f \in [Nat -> Nat]
    BY <2>1 DEF Recurses
  <2>3. f = [n \in Nat |-> IF n = 0 THEN 1 ELSE step[n - 1][f[n - 1]]]
    <3> HIDE DEF step
    <3> QED
      BY <2>1, RecursionIs
  <2>4. ASSUME NEW n \in Nat, n # 0 PROVE step[n - 1][f[n - 1]] = Chars * f[n - 1]
    <3>1. n - 1 \in Nat
      BY <2>4
    <3> QED
      BY <2>2, <3>1
  <2>5. f = [n \in Nat |-> IF n = 0 THEN 1 ELSE Chars * f[n - 1]]
    <3> HIDE DEF step
    <3> QED
      BY <2>3, <2>4
  <2> QED
    BY <2>5
<1>3. TagSpace = CHOOSE f : Is(f)
  BY DEF TagSpace
<1>4. Is(TagSpace)
  <2> HIDE DEF Is
  <2> QED
    BY <1>2, <1>3
<1>5. TagSpace[0] = 1 /\ \A n \in Nat : TagSpace[n + 1] = Chars * TagSpace[n]
  <2>1. ASSUME NEW n \in Nat PROVE TagSpace[n + 1] = Chars * TagSpace[n]
    <3>1. n + 1 \in Nat /\ n + 1 # 0 /\ (n + 1) - 1 = n
      OBVIOUS
    <3>2. TagSpace[n + 1] = Chars * TagSpace[(n + 1) - 1]
      BY <1>4, <3>1
    <3> QED
      BY <3>1, <3>2
  <2> QED
    BY <1>4, <2>1
<1> DEFINE T == {n \in Nat : TagSpace[n] \in Nat \ {0}}
<1>6. 0 \in T
  BY <1>5
<1>7. ASSUME NEW n \in Nat, n \in T PROVE n + 1 \in T
  <2>1. ASSUME NEW a \in Nat \ {0} PROVE Chars * a \in Nat \ {0}
    <3>1. Chars * a \in Nat /\ Chars * a = a + (Chars - 1) * a /\ (Chars - 1) * a \in Nat
      BY <1>0
    <3> QED
      BY <3>1
  <2>2. TagSpace[n + 1] \in Nat \ {0}
    BY <1>5, <1>7, <2>1
  <2> QED
    BY <2>2
<1> HIDE DEF T
<1>8. Nat \subseteq T
  BY <1>6, <1>7, Induction
<1> QED
  BY <1>5, <1>8 DEF T

\* There are not fewer tags of more characters.
LEMMA TagSpaceGrows ==
  ASSUME NEW m \in Nat
  PROVE  \A n \in Nat : TagSpace[m] <= TagSpace[m + n]
<1> DEFINE T == {n \in Nat : TagSpace[m] <= TagSpace[m + n]}
<1>0. Chars \in Nat /\ Chars >= 2
  BY WidthsAssumption
<1>1. 0 \in T
  <2>1. TagSpace[m] \in Nat /\ m + 0 = m
    BY TagSpaceIs
  <2> QED
    BY <2>1
<1>2. ASSUME NEW n \in Nat, n \in T PROVE n + 1 \in T
  <2>1. m + n \in Nat /\ m + (n + 1) = (m + n) + 1
    OBVIOUS
  <2>2. TagSpace[m + (n + 1)] = Chars * TagSpace[m + n] /\ TagSpace[m + n] \in Nat /\ TagSpace[m] \in Nat
    BY <2>1, TagSpaceIs
  <2>3. ASSUME NEW a \in Nat PROVE a <= Chars * a
    <3>1. Chars * a \in Nat /\ Chars * a = a + (Chars - 1) * a /\ (Chars - 1) * a \in Nat
      BY <1>0
    <3> QED
      BY <3>1
  <2>4. TagSpace[m + n] <= Chars * TagSpace[m + n] /\ Chars * TagSpace[m + n] \in Nat
    BY <1>0, <2>2, <2>3
  <2>5. TagSpace[m] <= TagSpace[m + n]
    BY <1>2
  <2> QED
    BY <2>2, <2>4, <2>5
<1> HIDE DEF T
<1>3. Nat \subseteq T
  BY <1>1, <1>2, Induction
<1> QED
  BY <1>3 DEF T

\* The characters of a name that count, and the tags of its beginnings.
Known(s) == SubSeq(s, 1, Min({Len(s), MAX_SEXP_TAGLEN}))

TagsOf(acc, s, m) ==
  /\ acc \in [0 .. m -> Nat] /\ acc[0] = 0
  /\ \A k \in 1 .. m : acc[k] = acc[k - 1] * Chars + s[k]

\* How many characters of a name count.
LEMMA NameFacts ==
  ASSUME NEW s \in Names
  PROVE  /\ s \in Seq(Nat) /\ Len(s) \in Nat \ {0}
         /\ \A k \in 1 .. Len(s) : s[k] \in 0 .. Chars - 1
         /\ s[1] > 0
         /\ Min({Len(s), MAX_SEXP_TAGLEN}) \in 1 .. Len(s)
         /\ Min({Len(s), MAX_SEXP_TAGLEN}) <= MAX_SEXP_TAGLEN
         /\ Min({Len(s) - 1, MAX_SEXP_TAGLEN - 1}) + 1 = Min({Len(s), MAX_SEXP_TAGLEN})
<1>1. s \in Seq(0 .. Chars - 1) /\ s # <<>> /\ s[1] # 0
  BY TagsAssumption
<1>2. Len(s) \in Nat \ {0}
  BY <1>1, EmptySeq, LenProperties
<1>3. s \in [1 .. Len(s) -> 0 .. Chars - 1] /\ s \in Seq(Nat)
  <2>1. s \in [1 .. Len(s) -> 0 .. Chars - 1]
    BY <1>1, LenProperties
  <2>2. \A k \in 1 .. Len(s) : s[k] \in Nat
    <3>1. \A k \in 1 .. Len(s) : s[k] \in 0 .. Chars - 1
      BY <2>1
    <3>2. \A c \in 0 .. Chars - 1 : c \in Nat
      OBVIOUS
    <3> QED
      BY <3>1, <3>2
  <2>3. s \in [1 .. Len(s) -> Nat]
    BY <2>1, <2>2
  <2> QED
    BY <1>2, <2>1, <2>3, SeqDef
<1>4. MAX_SEXP_TAGLEN \in Nat \ {0}
  BY WidthsAssumption
<1>5. /\ Min({Len(s), MAX_SEXP_TAGLEN})
           = IF Len(s) <= MAX_SEXP_TAGLEN THEN Len(s) ELSE MAX_SEXP_TAGLEN
      /\ Min({Len(s) - 1, MAX_SEXP_TAGLEN - 1})
           = IF Len(s) - 1 <= MAX_SEXP_TAGLEN - 1 THEN Len(s) - 1 ELSE MAX_SEXP_TAGLEN - 1
  <2>1. Len(s) \in Int /\ MAX_SEXP_TAGLEN \in Int /\ Len(s) - 1 \in Int /\ MAX_SEXP_TAGLEN - 1 \in Int
    BY <1>2, <1>4
  <2> QED
    BY <2>1, MinOfTwo
<1>6. s[1] \in 0 .. Chars - 1
  BY <1>2, <1>3
<1>7. s[1] > 0
  BY <1>1, <1>6
<1>8. /\ Min({Len(s), MAX_SEXP_TAGLEN}) \in 1 .. Len(s)
      /\ Min({Len(s), MAX_SEXP_TAGLEN}) <= MAX_SEXP_TAGLEN
      /\ Min({Len(s) - 1, MAX_SEXP_TAGLEN - 1}) + 1 = Min({Len(s), MAX_SEXP_TAGLEN})
  BY <1>2, <1>4, <1>5
<1> QED
  BY <1>2, <1>3, <1>7, <1>8

\* Every beginning of a name has a tag.
LEMMA TagsExist ==
  ASSUME NEW s \in Seq(Nat), NEW m \in Nat, m <= Len(s)
  PROVE  \E acc : TagsOf(acc, s, m)
<1> DEFINE step == [k \in Nat |-> [a \in Nat |-> IF k < m THEN a * Chars + s[k + 1] ELSE 0]]
<1>0. Chars \in Nat /\ Len(s) \in Nat /\ s \in [1 .. Len(s) -> Nat]
  BY WidthsAssumption, LenProperties
<1>1. step \in [Nat -> [Nat -> Nat]] /\ 0 \in Nat
  <2>1. ASSUME NEW k \in Nat, NEW a \in Nat, k < m PROVE a * Chars + s[k + 1] \in Nat
    <3>1. k + 1 \in 1 .. Len(s) /\ a * Chars \in Nat
      BY <1>0, <2>1
    <3>2. s[k + 1] \in Nat
      BY <1>0, <3>1
    <3> QED
      BY <3>1, <3>2
  <2> QED
    BY <2>1
<1>2. PICK f : Recurses(f, Nat, 0, step)
  <2> HIDE DEF step
  <2> QED
    BY <1>1, RecursionExists
<1>3. f \in [Nat -> Nat] /\ f[0] = 0 /\ \A n \in Nat : f[n + 1] = step[n][f[n]]
  BY <1>2 DEF Recurses
<1> DEFINE acc == [k \in 0 .. m |-> f[k]]
<1>4. acc \in [0 .. m -> Nat] /\ acc[0] = 0
  BY <1>3
<1>5. ASSUME NEW k \in 1 .. m PROVE acc[k] = acc[k - 1] * Chars + s[k]
  <2>1. k - 1 \in Nat /\ (k - 1) + 1 = k /\ k - 1 < m /\ k \in 0 .. m /\ k - 1 \in 0 .. m
    OBVIOUS
  <2>2. f[(k - 1) + 1] = step[k - 1][f[k - 1]]
    BY <1>3, <2>1
  <2>3. step[k - 1][f[k - 1]] = f[k - 1] * Chars + s[(k - 1) + 1]
    BY <1>3, <2>1
  <2> QED
    BY <2>1, <2>2, <2>3
<1>6. TagsOf(acc, s, m)
  BY <1>4, <1>5 DEF TagsOf
<1> QED
  BY <1>6

\* The tag of the runtime is that of the last beginning that counts,
LEMMA LtagHashIs ==
  ASSUME NEW s \in Names, NEW m, m = Min({Len(s), MAX_SEXP_TAGLEN}), NEW acc, TagsOf(acc, s, m)
  PROVE  LtagHash(s) = acc[m]
<1>0. Chars \in Nat /\ m \in 1 .. Len(s) /\ s \in Seq(Nat) /\ Len(s) \in Nat
  BY WidthsAssumption, NameFacts
<1> DEFINE c == SubSeq(s, 1, m)
<1>1. c \in Seq(Nat) /\ Len(c) = m /\ \A k \in 1 .. m : c[k] = s[k]
  <2>1. m \in Int /\ 1 \in Int /\ 1 <= m /\ m <= Len(s)
    BY <1>0
  <2>2. \A k \in 1 .. m : s[k] \in Nat
    <3>1. \A k \in 1 .. m : k \in 1 .. Len(s)
      BY <1>0, <2>1
    <3> QED
      BY <1>0, <3>1, ElementOfSeq
  <2>3. SubSeq(s, 1, m) \in Seq(Nat)
    BY <2>1, <2>2, SubSeqProperties
  <2>4. Len(SubSeq(s, 1, m)) = m
    BY <1>0, <2>1
  <2>5. \A k \in 1 .. m : SubSeq(s, 1, m)[k] = s[k]
    BY <1>0, <2>1
  <2> QED
    BY <2>3, <2>4, <2>5
<1>2. LtagHash(s) = FoldLeft(Shifted, 0, c)
  BY DEF LtagHash
<1> HIDE DEF c
<1> DEFINE step == [k \in 1 .. m |-> [a \in Nat |-> a * Chars + c[k]]]
<1>3. Folded(FoldLeft(Shifted, 0, c), Nat, 0, m, step)
  <2>1. m \in Nat
    BY <1>0
  <2> QED
    BY <1>1, <2>1, ShiftedFold
<1>4. acc \in [0 .. m -> Nat] /\ acc[0] = 0 /\ \A k \in 1 .. m : acc[k] = step[k][acc[k - 1]]
  <2>1. acc \in [0 .. m -> Nat] /\ acc[0] = 0
    BY DEF TagsOf
  <2>2. ASSUME NEW k \in 1 .. m PROVE acc[k] = step[k][acc[k - 1]]
    <3>1. k - 1 \in 0 .. m
      BY <1>0
    <3>2. acc[k - 1] \in Nat
      BY <2>1, <3>1
    <3>3. acc[k] = acc[k - 1] * Chars + s[k]
      BY DEF TagsOf
    <3>4. step[k][acc[k - 1]] = acc[k - 1] * Chars + c[k]
      BY <3>2
    <3> QED
      BY <1>1, <3>3, <3>4
  <2> QED
    BY <2>1, <2>2
<1> HIDE DEF step
<1> QED
  BY <1>2, <1>3, <1>4 DEF Folded

\* and so is the compiler's.
LEMMA hashIs ==
  ASSUME NEW s \in Names, NEW m, m = Min({Len(s), MAX_SEXP_TAGLEN}), NEW acc, TagsOf(acc, s, m)
  PROVE  hash(s) = acc[m]
<1>0. Chars \in Nat /\ m \in 1 .. Len(s) /\ s \in Seq(Nat) /\ Len(s) \in Nat
  BY WidthsAssumption, NameFacts
<1> DEFINE last == Min({Len(s) - 1, MAX_SEXP_TAGLEN - 1})
           Is(h) == h = [i \in 0 .. last + 1 |-> IF i = 0 THEN 0 ELSE Shifted(h[i - 1], s[i])]
           h == CHOOSE g : Is(g)
<1>1. last + 1 = m
  BY NameFacts
<1>2. hash(s) = h[last + 1]
  BY DEF hash
<1> HIDE DEF last
<1>3. Is(acc)
  <2>1. ASSUME NEW i \in 0 .. m PROVE acc[i] = IF i = 0 THEN 0 ELSE Shifted(acc[i - 1], s[i])
    <3>1. CASE i = 0
      BY <3>1 DEF TagsOf
    <3>2. CASE i # 0
      <4>1. i \in 1 .. m
        BY <1>0, <3>2
      <4> QED
        BY <3>2, <4>1 DEF TagsOf, Shifted
    <3> QED
      BY <3>1, <3>2
  <2>2. acc \in [0 .. m -> Nat]
    BY DEF TagsOf
  <2> QED
    BY <1>1, <2>1, <2>2
<1>4. Is(h)
  <2>1. \E g : Is(g)
    BY <1>3
  <2> HIDE DEF Is
  <2> QED
    BY <2>1
<1>5. \A i \in 0 .. m : h[i] = IF i = 0 THEN 0 ELSE Shifted(h[i - 1], s[i])
  BY <1>1, <1>4
<1> HIDE DEF h
<1> DEFINE T == {i \in Nat : i <= m => h[i] = acc[i]}
<1>6. 0 \in T
  <2>1. 0 \in 0 .. m
    BY <1>0
  <2>2. h[0] = 0 /\ acc[0] = 0
    BY <1>5, <2>1 DEF TagsOf
  <2> QED
    BY <2>2
<1>7. ASSUME NEW i \in Nat, i \in T PROVE i + 1 \in T
  <2> SUFFICES ASSUME i + 1 <= m PROVE h[i + 1] = acc[i + 1]
    OBVIOUS
  <2>1. i + 1 \in 1 .. m /\ i + 1 \in 0 .. m /\ (i + 1) - 1 = i /\ i <= m /\ i + 1 # 0
    BY <1>0
  <2>2. h[i + 1] = Shifted(h[(i + 1) - 1], s[i + 1])
    BY <1>5, <2>1
  <2>3. acc[i + 1] = acc[(i + 1) - 1] * Chars + s[i + 1]
    BY <2>1 DEF TagsOf
  <2>4. h[i] = acc[i]
    BY <1>7, <2>1
  <2> QED
    BY <2>1, <2>2, <2>3, <2>4 DEF Shifted
<1> HIDE DEF T
<1>8. m \in T
  <2>1. Nat \subseteq T
    BY <1>6, <1>7, Induction
  <2> QED
    BY <1>0, <2>1
<1>9. h[m] = acc[m]
  BY <1>0, <1>8 DEF T
<1> QED
  BY <1>1, <1>2, <1>9

\* The tag of a beginning is positive, and below the tags of its length.
LEMMA TagBounds ==
  ASSUME NEW s \in Names, NEW m \in 1 .. Len(s), NEW acc, TagsOf(acc, s, m)
  PROVE  \A k \in 1 .. m : /\ 0 < acc[k] /\ acc[k] < TagSpace[k]
                           /\ acc[k] \div Chars = acc[k - 1] /\ acc[k] % Chars = s[k]
<1>0. /\ Chars \in Nat /\ Chars >= 2 /\ Len(s) \in Nat /\ m \in Nat
      /\ \A k \in 1 .. m : s[k] \in 0 .. Chars - 1
  <2>1. Chars \in Nat /\ Chars >= 2
    BY WidthsAssumption
  <2>2. Len(s) \in Nat /\ \A k \in 1 .. Len(s) : s[k] \in 0 .. Chars - 1
    BY NameFacts
  <2>3. m \in Nat /\ \A k \in 1 .. m : k \in 1 .. Len(s)
    BY <2>2
  <2> QED
    BY <2>1, <2>2, <2>3
<1>1. acc \in [0 .. m -> Nat] /\ acc[0] = 0 /\ \A k \in 1 .. m : acc[k] = acc[k - 1] * Chars + s[k]
  BY DEF TagsOf
<1>2. ASSUME NEW a \in Nat, NEW c \in 0 .. Chars - 1
      PROVE  (a * Chars + c) \div Chars = a /\ (a * Chars + c) % Chars = c
  BY <1>0
<1>3. ASSUME NEW a \in Nat, NEW b \in Nat \ {0}, NEW c \in 0 .. Chars - 1, a < b
      PROVE  a * Chars + c < Chars * b
  <2>1. PICK d \in Nat : b = a + 1 + d
    BY <1>3
  <2>2. Chars * b = a * Chars + Chars + Chars * d /\ Chars * d \in Nat /\ a * Chars \in Nat
    BY <1>0, <2>1
  <2> QED
    BY <1>0, <2>2
<1>4. ASSUME NEW a \in Nat, NEW c \in 0 .. Chars - 1, a > 0 PROVE a * Chars + c > 0
  <2>1. a * Chars >= a /\ a * Chars \in Nat
    BY <1>0
  <2> QED
    BY <1>4, <2>1
<1> DEFINE T == {k \in Nat : k <= m => /\ acc[k] < TagSpace[k]
                                       /\ k > 0 => acc[k] > 0}
<1>5. 0 \in T
  <2>1. acc[0] = 0 /\ TagSpace[0] = 1
    BY <1>1, TagSpaceIs
  <2> QED
    BY <2>1
<1>6. ASSUME NEW k \in Nat, k \in T PROVE k + 1 \in T
  <2> SUFFICES ASSUME k + 1 <= m PROVE acc[k + 1] < TagSpace[k + 1] /\ acc[k + 1] > 0
    OBVIOUS
  <2>1. k + 1 \in 1 .. m /\ k \in 0 .. m /\ (k + 1) - 1 = k
    BY <1>0
  <2>2. acc[k + 1] = acc[k] * Chars + s[k + 1] /\ acc[k] \in Nat /\ s[k + 1] \in 0 .. Chars - 1
    <3>1. acc[k + 1] = acc[(k + 1) - 1] * Chars + s[k + 1]
      BY <1>1, <2>1
    <3> QED
      BY <1>0, <1>1, <2>1, <3>1
  <2>3. TagSpace[k + 1] = Chars * TagSpace[k] /\ TagSpace[k] \in Nat \ {0}
    BY TagSpaceIs
  <2>4. acc[k] < TagSpace[k] /\ (k > 0 => acc[k] > 0)
    BY <1>6
  <2>5. acc[k + 1] < TagSpace[k + 1]
    BY <1>3, <2>2, <2>3, <2>4
  <2>6. CASE k = 0
    <3>1. s[1] > 0 /\ acc[k] = 0
      BY <1>1, <2>6, NameFacts
    <3> QED
      BY <1>0, <2>2, <2>5, <2>6, <3>1
  <2>7. CASE k > 0
    BY <1>4, <2>2, <2>4, <2>5, <2>7
  <2> QED
    BY <2>6, <2>7
<1> HIDE DEF T
<1>7. Nat \subseteq T
  BY <1>5, <1>6, Induction
<1>8. ASSUME NEW k \in 1 .. m
      PROVE  /\ 0 < acc[k] /\ acc[k] < TagSpace[k]
             /\ acc[k] \div Chars = acc[k - 1] /\ acc[k] % Chars = s[k]
  <2>1. k \in Nat /\ k \in T /\ k <= m /\ k > 0 /\ k - 1 \in 0 .. m
    BY <1>0, <1>7
  <2>2. 0 < acc[k] /\ acc[k] < TagSpace[k]
    BY <2>1 DEF T
  <2>3. acc[k - 1] \in Nat /\ s[k] \in 0 .. Chars - 1 /\ acc[k] = acc[k - 1] * Chars + s[k]
    BY <1>0, <1>1, <2>1
  <2> QED
    BY <1>2, <2>2, <2>3
<1> QED
  BY <1>8

\* The characters that count, one by one.
LEMMA KnownIs ==
  ASSUME NEW s \in Names, NEW m, m = Min({Len(s), MAX_SEXP_TAGLEN})
  PROVE  Known(s) \in Seq(Nat) /\ Len(Known(s)) = m /\ \A k \in 1 .. m : Known(s)[k] = s[k]
<1>0. m \in 1 .. Len(s) /\ s \in Seq(Nat) /\ Len(s) \in Nat
  BY NameFacts
<1>1. m \in Int /\ 1 \in Int /\ 1 <= m /\ m <= Len(s)
  BY <1>0
<1>2. \A k \in 1 .. m : s[k] \in Nat
  <2>1. \A k \in 1 .. m : k \in 1 .. Len(s)
    BY <1>0, <1>1
  <2> QED
    BY <1>0, <2>1, ElementOfSeq
<1>3. SubSeq(s, 1, m) \in Seq(Nat)
  BY <1>1, <1>2, SubSeqProperties
<1>4. Len(SubSeq(s, 1, m)) = m
  BY <1>0, <1>1
<1>5. \A k \in 1 .. m : SubSeq(s, 1, m)[k] = s[k]
  BY <1>0, <1>1
<1>6. Known(s) = SubSeq(s, 1, m)
  BY DEF Known
<1> QED
  BY <1>3, <1>4, <1>5, <1>6

\* The loop of de_hash reads a tag's characters back.
LEMMA de_hashIs ==
  ASSUME NEW s \in Names, NEW m, m = Min({Len(s), MAX_SEXP_TAGLEN}), NEW acc, TagsOf(acc, s, m)
  PROVE  de_hash(acc[m]) = Known(s)
<1>0. /\ Chars \in Nat /\ Chars >= 2 /\ m \in 1 .. Len(s) /\ m \in Nat \ {0} /\ Len(s) \in Nat
      /\ MAX_SEXP_TAGLEN \in Nat /\ m <= MAX_SEXP_TAGLEN
  <2>1. m \in 1 .. Len(s) /\ Len(s) \in Nat /\ m <= MAX_SEXP_TAGLEN
    BY NameFacts
  <2>2. m \in Nat \ {0}
    BY <2>1
  <2> QED
    BY <2>1, <2>2, WidthsAssumption
<1>1. acc \in [0 .. m -> Nat] /\ acc[0] = 0
  BY DEF TagsOf
<1>2. \A k \in 1 .. m : 0 < acc[k] /\ acc[k] \div Chars = acc[k - 1] /\ acc[k] % Chars = s[k]
  BY <1>0, TagBounds
<1> DEFINE n == acc[m]
           step == [k \in Nat |-> [a \in Nat |-> a \div Chars]]
           Is(f) == f = [i \in Nat |-> IF i = 0 THEN n ELSE f[i - 1] \div Chars]
           rest == CHOOSE f : Is(f)
           T == {i \in 0 .. MAX_SEXP_TAGLEN + 1 : rest[i] = 0}
           count == Min(T)
<1>3. de_hash(n) = [k \in 1 .. count |-> rest[count - k] % Chars]
  BY DEF de_hash
<1>4. n \in Nat
  BY <1>0, <1>1
<1> HIDE DEF n
<1>5. step \in [Nat -> [Nat -> Nat]]
  BY <1>0
<1>6. Is(rest)
  <2>1. PICK f : Recurses(f, Nat, n, step)
    <3> HIDE DEF step
    <3> QED
      BY <1>4, <1>5, RecursionExists
  <2>2. f \in [Nat -> Nat]
    BY <2>1 DEF Recurses
  <2>3. f = [i \in Nat |-> IF i = 0 THEN n ELSE step[i - 1][f[i - 1]]]
    <3> HIDE DEF step
    <3> QED
      BY <2>1, RecursionIs
  <2>4. ASSUME NEW i \in Nat, i # 0 PROVE step[i - 1][f[i - 1]] = f[i - 1] \div Chars
    <3>1. i - 1 \in Nat
      BY <2>4
    <3> QED
      BY <2>2, <3>1
  <2>5. Is(f)
    <3> HIDE DEF step
    <3> QED
      BY <2>3, <2>4
  <2> HIDE DEF Is
  <2> QED
    BY <2>5
<1>7. rest[0] = n /\ \A i \in Nat : rest[i + 1] = rest[i] \div Chars
  <2>1. ASSUME NEW i \in Nat PROVE rest[i + 1] = rest[i] \div Chars
    <3>1. i + 1 \in Nat /\ i + 1 # 0 /\ (i + 1) - 1 = i
      OBVIOUS
    <3>2. rest[i + 1] = rest[(i + 1) - 1] \div Chars
      BY <1>6, <3>1
    <3> QED
      BY <3>1, <3>2
  <2> QED
    BY <1>6, <2>1
<1> HIDE DEF rest
<1> DEFINE U == {i \in Nat : i <= m => rest[i] = acc[m - i]}
<1>8. 0 \in U
  <2>1. m - 0 = m /\ rest[0] = acc[m]
    BY <1>0, <1>7 DEF n
  <2> QED
    BY <2>1
<1>9. ASSUME NEW i \in Nat, i \in U PROVE i + 1 \in U
  <2> SUFFICES ASSUME i + 1 <= m PROVE rest[i + 1] = acc[m - (i + 1)]
    OBVIOUS
  <2>1. m - i \in 1 .. m /\ (m - i) - 1 = m - (i + 1) /\ i <= m
    BY <1>0
  <2>2. rest[i] = acc[m - i]
    BY <1>9, <2>1
  <2>3. acc[m - i] \div Chars = acc[(m - i) - 1]
    BY <1>2, <2>1
  <2> QED
    BY <1>7, <2>1, <2>2, <2>3
<1> HIDE DEF U
<1>10. \A i \in 0 .. m : rest[i] = acc[m - i]
  <2>1. Nat \subseteq U
    BY <1>8, <1>9, Induction
  <2>2. ASSUME NEW i \in 0 .. m PROVE rest[i] = acc[m - i]
    <3>1. i \in Nat /\ i <= m
      BY <1>0
    <3>2. i \in U
      BY <2>1, <3>1
    <3> QED
      BY <3>1, <3>2 DEF U
  <2> QED
    BY <2>2
<1>11. count = m
  <2>1. m \in T
    <3>1. m \in 0 .. MAX_SEXP_TAGLEN + 1 /\ m \in 0 .. m /\ m - m = 0
      BY <1>0
    <3>2. rest[m] = 0
      BY <1>1, <1>10, <3>1
    <3> QED
      BY <3>1, <3>2
  <2>2. ASSUME NEW i \in T PROVE i >= m
    <3> SUFFICES ASSUME i < m PROVE FALSE
      BY <1>0
    <3>1. i \in 0 .. m /\ m - i \in 1 .. m
      BY <1>0
    <3>2. rest[i] = acc[m - i] /\ acc[m - i] > 0
      BY <1>2, <1>10, <3>1
    <3> QED
      BY <3>2
  <2>3. T \subseteq Nat
    OBVIOUS
  <2> HIDE DEF T
  <2>4. count \in T /\ \A i \in T : count <= i
    BY <2>1, <2>3, MinIs
  <2> HIDE DEF count
  <2>5. count >= m /\ count <= m /\ count \in Nat
    BY <2>1, <2>2, <2>3, <2>4
  <2> QED
    BY <1>0, <2>5
<1> HIDE DEF T, count
<1>12. ASSUME NEW k \in 1 .. m PROVE rest[m - k] % Chars = s[k]
  <2>1. m - k \in 0 .. m /\ m - (m - k) = k
    BY <1>0
  <2> QED
    BY <1>2, <1>10, <2>1
<1>13. de_hash(n) = [k \in 1 .. m |-> s[k]]
  BY <1>3, <1>11, <1>12
<1>14. Known(s) = [k \in 1 .. m |-> Known(s)[k]] /\ \A k \in 1 .. m : Known(s)[k] = s[k]
  <2>1. Known(s) \in Seq(Nat) /\ Len(Known(s)) = m /\ \A k \in 1 .. m : Known(s)[k] = s[k]
    BY KnownIs
  <2>2. Known(s) \in [1 .. m -> Nat]
    BY <2>1, LenProperties
  <2> QED
    BY <2>1, <2>2
<1> QED
  BY <1>13, <1>14 DEF n

\* What the compiler and the runtime make of a name, and its size.
LEMMA NamesHaveTags ==
  ASSUME NEW s \in Names
  PROVE  /\ hash(s) = LtagHash(s) /\ de_hash(LtagHash(s)) = Known(s)
         /\ LtagHash(s) \in Nat /\ LtagHash(s) < Modulus \div 4
<1> DEFINE m == Min({Len(s), MAX_SEXP_TAGLEN})
<1>0. m \in 1 .. Len(s) /\ s \in Seq(Nat) /\ m <= MAX_SEXP_TAGLEN /\ Len(s) \in Nat
      /\ MAX_SEXP_TAGLEN \in Nat
  BY NameFacts, WidthsAssumption
<1>1. m = Min({Len(s), MAX_SEXP_TAGLEN})
  OBVIOUS
<1> HIDE DEF m
<1>2. m \in Nat /\ m <= Len(s) /\ m \in 1 .. m
  BY <1>0
<1>3. PICK acc : TagsOf(acc, s, m)
  BY <1>0, <1>2, TagsExist
<1>4. LtagHash(s) = acc[m] /\ hash(s) = acc[m] /\ de_hash(acc[m]) = Known(s)
  BY <1>1, <1>3, LtagHashIs, hashIs, de_hashIs
<1>5. acc[m] \in Nat /\ acc[m] < TagSpace[m]
  <2>1. acc[m] < TagSpace[m]
    BY <1>0, <1>2, <1>3, TagBounds
  <2>2. acc \in [0 .. m -> Nat] /\ m \in 0 .. m
    BY <1>2, <1>3 DEF TagsOf
  <2> QED
    BY <2>1, <2>2
<1>6. TagSpace[m] <= TagSpace[MAX_SEXP_TAGLEN]
  <2>1. MAX_SEXP_TAGLEN - m \in Nat /\ m + (MAX_SEXP_TAGLEN - m) = MAX_SEXP_TAGLEN
    BY <1>0, <1>2
  <2>2. TagSpace[m] <= TagSpace[m + (MAX_SEXP_TAGLEN - m)]
    BY <1>2, <2>1, TagSpaceGrows
  <2> QED
    BY <2>1, <2>2
<1>7. TagSpace[MAX_SEXP_TAGLEN] <= Modulus \div 4 /\ TagSpace[MAX_SEXP_TAGLEN] \in Nat
      /\ TagSpace[m] \in Nat /\ Modulus \div 4 \in Nat
  BY <1>0, <1>2, TagsAssumption, TagSpaceIs, ModulusFacts
<1> QED
  BY <1>4, <1>5, <1>6, <1>7

\* Tests that agree have one answer.
LEMMA BoolAgree ==
  ASSUME NEW a \in BOOLEAN, NEW b \in BOOLEAN, a <=> b
  PROVE  Bool(a) = Bool(b)
  BY DEF Bool

\* The tests for constructors, from what a tag says of its name.
LEMMA TypedTags == TypeOK => TagsAreFaithful
<1> SUFFICES ASSUME TypeOK,
                    NEW p \in {x \in DOMAIN heap : TAG(x) = SEXP_TAG},
                    NEW s \in {n \in Names : LtagHash(n) = heap[p].sexp}
             PROVE  /\ de_hash(heap[p].sexp) = Known(s)
                    /\ \A t \in Names :
                         Btag(p, BOX(hash(t)), BOX(LEN(p))) = Bool(Known(s) = Known(t))
  BY DEF TagsAreFaithful, Known
<1>1. p \in DOMAIN heap /\ ~UNBOXED(p) /\ LEN(p) \in Number
  BY ObjectFacts
<1>2. s \in Names /\ heap[p].sexp = LtagHash(s)
  OBVIOUS
<1>3. de_hash(heap[p].sexp) = Known(s)
  BY <1>2, NamesHaveTags
<1>4. ASSUME NEW t \in Names
      PROVE  Btag(p, BOX(hash(t)), BOX(LEN(p))) = Bool(Known(s) = Known(t))
  <2>1. UNBOX(BOX(LEN(p))) = LEN(p)
    <3>1. LEN(p) \in Int /\ 0 <= LEN(p) /\ LEN(p) < Modulus \div 4
      BY <1>1, NumberFacts
    <3>2. -(Modulus \div 4) <= LEN(p)
      BY <3>1, ModulusFacts
    <3> QED
      BY <3>1, <3>2, UnboxBox
  <2>2. UNBOX(BOX(hash(t))) = LtagHash(t)
    <3>1. hash(t) = LtagHash(t) /\ LtagHash(t) \in Nat /\ LtagHash(t) < Modulus \div 4
      BY NamesHaveTags
    <3>2. LtagHash(t) \in Int /\ -(Modulus \div 4) <= LtagHash(t)
      BY <3>1, ModulusFacts
    <3>3. UNBOX(BOX(LtagHash(t))) = LtagHash(t)
      BY <3>1, <3>2, UnboxBox
    <3> QED
      BY <3>1, <3>3
  <2>3. LtagHash(s) = LtagHash(t) <=> Known(s) = Known(t)
    <3>1. de_hash(LtagHash(s)) = Known(s) /\ de_hash(LtagHash(t)) = Known(t)
      BY <1>2, NamesHaveTags
    <3>2. \A n \in Names : LtagHash(n) = FoldLeft(Shifted, 0, Known(n))
      BY DEF LtagHash, Known
    <3>3. LtagHash(s) = LtagHash(t) => Known(s) = Known(t)
      BY <3>1
    <3>4. Known(s) = Known(t) => LtagHash(s) = LtagHash(t)
      BY DEF LtagHash, Known
    <3> QED
      BY <3>3, <3>4
  <2>4. Btag(p, BOX(hash(t)), BOX(LEN(p))) = Bool(LtagHash(s) = LtagHash(t))
    BY <1>1, <1>2, <2>1, <2>2 DEF Btag, TAG, Bool
  <2> QED
    BY <2>3, <2>4
<1> QED
  BY <1>3, <1>4

-----------------------------------------------------------------------------
(***************************************************************************)
(* Comparison: types.                                                      *)
(***************************************************************************)

\* Answers are boxed.
Answer == {x \in Int : UNBOXED(x)}
Table  == [Int -> [Int -> Answer]]

\* An answer is zero if its integer is.
LEMMA AnswerFacts ==
  ASSUME NEW x \in Answer
  PROVE  x \in Int /\ UNBOXED(x) /\ UNBOX(x) \in Int /\ (x = BOX(0) <=> UNBOX(x) = 0)
<1>1. x \in Int /\ x % 2 = 1 /\ BOX(0) = 1
  BY SmallBoxes DEF Answer, UNBOXED
<1> QED
  BY <1>1 DEF UNBOX, UNBOXED

\* Boxes are answers, whatever is boxed,
LEMMA BoxAnswers == ASSUME NEW n \in Int PROVE BOX(n) \in Answer
  BY BoxesAreUnboxed DEF Answer

\* for what wraps is an integer,
LEMMA SignedTyped == ASSUME NEW n \in Int PROVE Signed(n) \in Int
<1> DEFINE m == n + Modulus \div 2
<1>1. m \in Int /\ Modulus \in Nat \ {0} /\ Modulus \div 2 \in Int
  BY ModulusFacts
<1> HIDE DEF m
<1>2. m % Modulus \in Int
  BY <1>1
<1> QED
  BY <1>1, <1>2 DEF Signed, m

\* and so are differences.
LEMMA DifferenceAnswers == ASSUME NEW n \in Int, NEW m \in Int PROVE Difference(n, m) \in Answer
<1>1. n - m \in Int
  OBVIOUS
<1>2. Signed(n - m) \in Int
  BY <1>1, SignedTyped
<1> QED
  BY <1>2, BoxAnswers DEF Difference

\* Where a difference is an integer, it is the answer.
LEMMA DifferenceIs ==
  ASSUME NEW n \in Int, NEW m \in Int, -(Modulus \div 4) <= n - m, n - m < Modulus \div 4
  PROVE  UNBOX(Difference(n, m)) = n - m
<1>1. n - m \in Int /\ -(Modulus \div 2) <= n - m /\ n - m < Modulus \div 2
  BY ModulusFacts
<1>2. Signed(n - m) = n - m
  BY <1>1, SignedOfSmall
<1> QED
  BY <1>1, <1>2, UnboxBox DEF Difference

\* Numbers are such.
LEMMA NumbersDiffer ==
  ASSUME NEW x \in Number, NEW y \in Number
  PROVE  UNBOX(Difference(x, y)) = x - y /\ Difference(x, y) \in Answer
<1>1. x \in Int /\ y \in Int /\ -(Modulus \div 4) <= x - y /\ x - y < Modulus \div 4
  BY NumberFacts, ModulusFacts
<1> QED
  BY <1>1, DifferenceIs, DifferenceAnswers

\* The number an object is compared by before its length.
Key(p) == IF TAG(p) = CLOSURE_TAG THEN heap[p].contents[1] ELSE heap[p].sexp

\* It is a number.
LEMMA KeyFacts == ASSUME TypeOK, NEW p \in DOMAIN heap PROVE Key(p) \in Number
  BY ObjectFacts, ElementFacts DEF Key

\* The first that is not zero.
Lex(a, b) == IF a # 0 THEN a ELSE b

\* What is compared before the elements: the key, then the length.
LEMMA LeadingIs ==
  ASSUME TypeOK, NEW p \in DOMAIN heap, NEW q \in DOMAIN heap, TAG(p) = TAG(q)
  PROVE  LET a == Leading(p)
             b == Leading(q)
             leading == FirstNonZero([i \in DOMAIN a |-> Difference(a[i], b[i])])
         IN  leading \in Answer /\ UNBOX(leading) = Lex(Key(p) - Key(q), LEN(p) - LEN(q))
<1>1. /\ Key(p) \in Number /\ Key(q) \in Number /\ LEN(p) \in Number /\ LEN(q) \in Number
      /\ Key(p) \in Int /\ Key(q) \in Int /\ LEN(p) \in Int /\ LEN(q) \in Int
  BY KeyFacts, ObjectFacts, NumberFacts
<1> DEFINE a == Leading(p)
           b == Leading(q)
           s == [i \in DOMAIN a |-> Difference(a[i], b[i])]
           leading == FirstNonZero(s)
<1>2. CASE TAG(p) = ARRAY_TAG
  <2>0. TAG(p) = 3 /\ TAG(q) = 3 /\ CLOSURE_TAG = 7 /\ SEXP_TAG = 5
    BY <1>2 DEF ARRAY_TAG, CLOSURE_TAG, SEXP_TAG
  <2>1. Key(p) = 0 /\ Key(q) = 0
    <3>1. heap[p].sexp = 0 /\ heap[q].sexp = 0
      BY <2>0, ObjectFacts
    <3> QED
      BY <2>0, <3>1 DEF Key
  <2>2. a = <<LEN(p)>> /\ b = <<LEN(q)>>
    BY <1>2 DEF Leading, ARRAY_TAG, CLOSURE_TAG
  <2>3. s = [i \in 1 .. 1 |-> Difference(LEN(p), LEN(q))]
    BY <2>2
  <2> HIDE DEF s
  <2>4. Difference(LEN(p), LEN(q)) \in Answer /\ UNBOX(Difference(LEN(p), LEN(q))) = LEN(p) - LEN(q)
    BY <1>1, NumbersDiffer
  <2>5. s \in [1 .. 1 -> Int] /\ \A i \in 1 .. 1 : UNBOXED(s[i]) /\ UNBOX(s[i]) = LEN(p) - LEN(q)
    BY <2>3, <2>4, AnswerFacts
  <2>6. /\ leading \in Int /\ UNBOXED(leading)
        /\ IsFirst([i \in 1 .. 1 |-> UNBOX(s[i])], 1, UNBOX(leading))
    BY <2>5, FirstNonZeroIs
  <2> HIDE DEF leading
  <2>7. UNBOX(leading) = LEN(p) - LEN(q)
    BY <2>5, <2>6 DEF IsFirst
  <2>8. Lex(Key(p) - Key(q), LEN(p) - LEN(q)) = LEN(p) - LEN(q)
    BY <2>1 DEF Lex
  <2> QED
    BY <2>6, <2>7, <2>8 DEF Answer, leading, s
<1>3. CASE TAG(p) # ARRAY_TAG
  <2>2. a = <<Key(p), LEN(p)>> /\ b = <<Key(q), LEN(q)>>
    BY <1>3 DEF Leading, Key
  <2>3. /\ DOMAIN s = 1 .. 2 /\ s[1] = Difference(Key(p), Key(q)) /\ s[2] = Difference(LEN(p), LEN(q))
    BY <2>2
  <2>4. s = [i \in 1 .. 2 |-> s[i]]
    BY <2>3
  <2> HIDE DEF s
  <2>5. /\ s[1] \in Answer /\ UNBOX(s[1]) = Key(p) - Key(q)
        /\ s[2] \in Answer /\ UNBOX(s[2]) = LEN(p) - LEN(q)
    BY <1>1, <2>3, NumbersDiffer
  <2>6. \A i \in 1 .. 2 : i = 1 \/ i = 2
    OBVIOUS
  <2>7. s \in [1 .. 2 -> Int] /\ \A i \in 1 .. 2 : UNBOXED(s[i])
    BY <2>4, <2>5, <2>6, AnswerFacts
  <2>8. /\ leading \in Int /\ UNBOXED(leading)
        /\ IsFirst([i \in 1 .. 2 |-> UNBOX(s[i])], 2, UNBOX(leading))
    BY <2>7, FirstNonZeroIs
  <2> HIDE DEF leading
  <2>9. UNBOX(leading) = Lex(Key(p) - Key(q), LEN(p) - LEN(q))
    <3> DEFINE A == [i \in 1 .. 2 |-> UNBOX(s[i])]
    <3>1. 1 \in 1 .. 2 /\ 2 \in 1 .. 2 /\ A[1] = Key(p) - Key(q) /\ A[2] = LEN(p) - LEN(q)
      BY <2>5
    <3>2. \/ UNBOX(leading) = 0 /\ \A i \in 1 .. 2 : A[i] = 0
          \/ \E i \in 1 .. 2 : UNBOX(leading) = A[i] /\ A[i] # 0 /\ \A j \in 1 .. i - 1 : A[j] = 0
      BY <2>8 DEF IsFirst
    <3> HIDE DEF A
    <3>3. CASE UNBOX(leading) = 0 /\ \A i \in 1 .. 2 : A[i] = 0
      BY <3>1, <3>3 DEF Lex
    <3>4. CASE \E i \in 1 .. 2 : UNBOX(leading) = A[i] /\ A[i] # 0 /\ \A j \in 1 .. i - 1 : A[j] = 0
      <4>1. PICK i \in 1 .. 2 : UNBOX(leading) = A[i] /\ A[i] # 0 /\ \A j \in 1 .. i - 1 : A[j] = 0
        BY <3>4
      <4>2. CASE i = 1
        BY <3>1, <4>1, <4>2 DEF Lex
      <4>3. CASE i = 2
        <5>1. 1 \in 1 .. i - 1
          BY <4>3
        <5> QED
          BY <3>1, <4>1, <4>3, <5>1 DEF Lex
      <4> QED
        BY <2>6, <4>2, <4>3
    <3> QED
      BY <3>2, <3>3, <3>4
  <2> QED
    BY <2>8, <2>9 DEF Answer, leading, s
<1> QED
  BY <1>2, <1>3

\* The answers for the elements, unboxed.
ElementAnswers(cmp, p, q) ==
  [i \in 1 .. Min({LEN(p), LEN(q)}) |->
    IF i < FirstElement(p) THEN 0
    ELSE UNBOX(cmp[heap[p].contents[i]][heap[q].contents[i]])]

\* The answer for elements is the first of theirs that is not zero.
LEMMA CompareElementsIs ==
  ASSUME TypeOK, NEW cmp \in Table, NEW p \in DOMAIN heap, NEW q \in DOMAIN heap,
         NEW n, n = Min({LEN(p), LEN(q)})
  PROVE  /\ n \in Nat /\ n = IF LEN(p) <= LEN(q) THEN LEN(p) ELSE LEN(q)
         /\ ElementAnswers(cmp, p, q) \in [1 .. n -> Int]
         /\ CompareElements(cmp, p, q) \in Answer
         /\ IsFirst(ElementAnswers(cmp, p, q), n, UNBOX(CompareElements(cmp, p, q)))
<1>1. LEN(p) \in Nat /\ LEN(q) \in Nat
  BY ObjectFacts
<1>2. n \in Nat /\ n = IF LEN(p) <= LEN(q) THEN LEN(p) ELSE LEN(q)
  BY <1>1, MinOfTwo
<1> DEFINE s == [i \in 1 .. n |-> IF i < FirstElement(p) THEN BOX(0)
                                ELSE cmp[heap[p].contents[i]][heap[q].contents[i]]]
<1>3. ASSUME NEW i \in 1 .. n
      PROVE  cmp[heap[p].contents[i]][heap[q].contents[i]] \in Answer
  <2>1. i \in 1 .. LEN(p) /\ i \in 1 .. LEN(q)
    BY <1>1, <1>2
  <2>2. heap[p].contents[i] \in Int /\ heap[q].contents[i] \in Int
    BY <2>1, ObjectFacts
  <2> QED
    BY <2>2 DEF Table
<1>4. BOX(0) \in Answer /\ UNBOX(BOX(0)) = 0
  BY BoxAnswers, AnswerFacts
<1>5. ASSUME NEW i \in 1 .. n PROVE s[i] \in Answer
  BY <1>3, <1>4
<1>6. CompareElements(cmp, p, q) = FirstNonZero(s)
  BY DEF CompareElements
<1>7. ElementAnswers(cmp, p, q) = [i \in 1 .. n |-> UNBOX(s[i])]
  BY <1>4 DEF ElementAnswers
<1>8. DOMAIN s = 1 .. n /\ s = [i \in 1 .. n |-> s[i]]
  OBVIOUS
<1> HIDE DEF s
<1>9. s \in [1 .. n -> Int] /\ \A i \in 1 .. n : UNBOXED(s[i]) /\ UNBOX(s[i]) \in Int
  BY <1>5, <1>8, AnswerFacts
<1>10. /\ FirstNonZero(s) \in Int /\ UNBOXED(FirstNonZero(s))
       /\ IsFirst([i \in 1 .. n |-> UNBOX(s[i])], n, UNBOX(FirstNonZero(s)))
  BY <1>2, <1>9, FirstNonZeroIs
<1>11. [i \in 1 .. n |-> UNBOX(s[i])] \in [1 .. n -> Int]
  BY <1>9
<1> QED
  BY <1>2, <1>6, <1>7, <1>10, <1>11 DEF Answer

\* The answer for two objects, unboxed.
ObjectAnswer(cmp, p, q) ==
  Lex(TAG(p) - TAG(q),
      IF TAG(p) = STRING_TAG THEN StringDifference(CString(p), CString(q))
      ELSE Lex(Lex(Key(p) - Key(q), LEN(p) - LEN(q)), UNBOX(CompareElements(cmp, p, q))))

\* CompareObjects answers what ObjectAnswer says.
LEMMA CompareObjectsIs ==
  ASSUME TypeOK, NEW cmp \in Table, NEW p \in DOMAIN heap, NEW q \in DOMAIN heap
  PROVE  /\ CompareObjects(cmp, p, q) \in Answer
         /\ UNBOX(CompareObjects(cmp, p, q)) = ObjectAnswer(cmp, p, q)
<1>0. TAG(p) \in {1, 3, 5, 7} /\ TAG(q) \in {1, 3, 5, 7} /\ Modulus \div 4 >= 8 /\ Modulus \div 4 \in Nat
  BY ObjectFacts, ModulusFacts
<1>1. CASE TAG(p) # TAG(q)
  <2>1. /\ TAG(p) \in Int /\ TAG(q) \in Int
        /\ -(Modulus \div 4) <= TAG(p) - TAG(q) /\ TAG(p) - TAG(q) < Modulus \div 4
    BY <1>0
  <2>2. CompareObjects(cmp, p, q) = Difference(TAG(p), TAG(q))
    BY <1>1 DEF CompareObjects
  <2>3. UNBOX(Difference(TAG(p), TAG(q))) = TAG(p) - TAG(q) /\ Difference(TAG(p), TAG(q)) \in Answer
    BY <2>1, DifferenceIs, DifferenceAnswers
  <2>4. ObjectAnswer(cmp, p, q) = TAG(p) - TAG(q)
    BY <1>0, <1>1 DEF ObjectAnswer, Lex
  <2> QED
    BY <2>2, <2>3, <2>4
<1>2. CASE TAG(p) = TAG(q) /\ TAG(p) = STRING_TAG
  <2> DEFINE s == CString(p)
             t == CString(q)
  <2>1. s \in Texts /\ t \in Texts
    BY <1>2, CStringIsText
  <2>2. CompareObjects(cmp, p, q) = BOX(StringDifference(s, t))
    BY <1>2, strcmpOfTexts DEF CompareObjects
  <2>3. Len(s) \in Nat /\ Len(t) \in Nat
    BY <2>1, TextFacts
  <2> HIDE DEF s, t
  <2>4. PICK n \in Nat : Len(s) <= n /\ Len(t) <= n
    <3>1. Len(s) + Len(t) \in Nat /\ Len(s) <= Len(s) + Len(t) /\ Len(t) <= Len(s) + Len(t)
      BY <2>3
    <3> QED
      BY <3>1
  <2>5. /\ StringDifference(s, t) \in Int
        /\ -Half < StringDifference(s, t) /\ StringDifference(s, t) < Half
    BY <2>1, <2>4, StringDifferenceIs
  <2>6. -(Modulus \div 4) <= StringDifference(s, t) /\ StringDifference(s, t) < Modulus \div 4
    <3>1. Half \in Nat /\ Half <= Modulus \div 4
      BY WidthsAssumption, ModulusFacts
    <3> QED
      BY <1>0, <2>5, <3>1
  <2>7. UNBOX(BOX(StringDifference(s, t))) = StringDifference(s, t) /\ BOX(StringDifference(s, t)) \in Answer
    BY <2>5, <2>6, UnboxBox, BoxAnswers
  <2>8. ObjectAnswer(cmp, p, q) = StringDifference(s, t)
    BY <1>0, <1>2 DEF ObjectAnswer, Lex, s, t
  <2> QED
    BY <2>2, <2>7, <2>8
<1>3. CASE TAG(p) = TAG(q) /\ TAG(p) # STRING_TAG
  <2> DEFINE a == Leading(p)
             b == Leading(q)
             leading == FirstNonZero([i \in DOMAIN a |-> Difference(a[i], b[i])])
  <2>1. leading \in Answer /\ UNBOX(leading) = Lex(Key(p) - Key(q), LEN(p) - LEN(q))
    BY <1>3, LeadingIs
  <2>2. CompareObjects(cmp, p, q)
          = IF leading # BOX(0) THEN leading ELSE CompareElements(cmp, p, q)
    BY <1>3 DEF CompareObjects
  <2> HIDE DEF leading
  <2>3. leading = BOX(0) <=> UNBOX(leading) = 0
    BY <2>1, AnswerFacts
  <2>4. CompareElements(cmp, p, q) \in Answer
    BY CompareElementsIs
  <2>5. ObjectAnswer(cmp, p, q)
          = Lex(Lex(Key(p) - Key(q), LEN(p) - LEN(q)), UNBOX(CompareElements(cmp, p, q)))
    BY <1>0, <1>3 DEF ObjectAnswer, Lex
  <2>6. CompareObjects(cmp, p, q) \in Answer
    BY <2>1, <2>2, <2>4
  <2>7. UNBOX(CompareObjects(cmp, p, q)) = Lex(UNBOX(leading), UNBOX(CompareElements(cmp, p, q)))
    BY <2>2, <2>3 DEF Lex
  <2> QED
    BY <2>1, <2>5, <2>6, <2>7
<1> QED
  BY <1>1, <1>2, <1>3

\* Compare answers by an answer.
LEMMA CompareTyped ==
  ASSUME TypeOK, NEW cmp \in Table, NEW p \in Int, NEW q \in Int
  PROVE  Compare(cmp, p, q) \in Answer
<1>1. UNBOX(p) \in Int /\ UNBOX(q) \in Int /\ 0 \in Int /\ 1 \in Int /\ -1 \in Int
  BY DEF UNBOX
<1>2. /\ Difference(UNBOX(p), UNBOX(q)) \in Answer /\ Difference(p, q) \in Answer
      /\ BOX(0) \in Answer /\ BOX(1) \in Answer /\ BOX(-1) \in Answer
  BY <1>1, DifferenceAnswers, BoxAnswers
<1>3. p \in DOMAIN heap /\ q \in DOMAIN heap => CompareObjects(cmp, p, q) \in Answer
  BY CompareObjectsIs
<1>4. UNBOXED(p) \in BOOLEAN /\ UNBOXED(q) \in BOOLEAN
  BY DEF UNBOXED
<1> QED
  BY <1>2, <1>3, <1>4 DEF Compare, is_valid_heap_pointer

\* The recursion that defines compare.
LEMMA compareIs ==
  ASSUME TypeOK, NEW d \in Nat
  PROVE  /\ compare[d] \in Table
         /\ \A p, q \in Int : compare[0][p][q] = BOX(0)
         /\ \A p, q \in Int : compare[d + 1][p][q] = Compare(compare[d], p, q)
<1> DEFINE first == [p \in Int |-> [q \in Int |-> BOX(0)]]
           turn(c) == [p \in Int |-> [q \in Int |-> Compare(c, p, q)]]
           step == [k \in Nat |-> [c \in Table |-> turn(c)]]
           Is(f) == f = [n \in Nat |-> [p \in Int |-> [q \in Int |->
                           IF n = 0 THEN BOX(0) ELSE Compare(f[n - 1], p, q)]]]
<1>1. first \in Table /\ step \in [Nat -> [Table -> Table]]
  <2>1. BOX(0) \in Answer
    BY BoxAnswers
  <2>2. ASSUME NEW c \in Table PROVE turn(c) \in Table
    BY CompareTyped DEF Table
  <2>3. first \in Table
    BY <2>1 DEF Table
  <2> HIDE DEF turn
  <2> QED
    BY <2>2, <2>3
<1>2. \E f : Is(f)
  <2>1. PICK f : Recurses(f, Table, first, step)
    <3> HIDE DEF first, step
    <3> QED
      BY <1>1, RecursionExists
  <2>2. f \in [Nat -> Table]
    BY <2>1 DEF Recurses
  <2>3. f = [n \in Nat |-> IF n = 0 THEN first ELSE step[n - 1][f[n - 1]]]
    <3> HIDE DEF first, step
    <3> QED
      BY <2>1, RecursionIs
  <2>4. ASSUME NEW n \in Nat
        PROVE  f[n] = [p \in Int |-> [q \in Int |->
                         IF n = 0 THEN BOX(0) ELSE Compare(f[n - 1], p, q)]]
    <3>1. CASE n = 0
      <4>1. f[n] = first
        <5> HIDE DEF first, step
        <5> QED
          BY <2>3, <3>1
      <4> QED
        BY <3>1, <4>1
    <3>2. CASE n # 0
      <4>1. n - 1 \in Nat
        BY <3>2
      <4>2. f[n] = step[n - 1][f[n - 1]]
        <5> HIDE DEF first, step
        <5> QED
          BY <2>3, <3>2
      <4>3. step[n - 1][f[n - 1]] = turn(f[n - 1])
        <5>1. f[n - 1] \in Table
          BY <2>2, <4>1
        <5> HIDE DEF turn
        <5> QED
          BY <4>1, <5>1
      <4> HIDE DEF step
      <4> QED
        BY <3>2, <4>2, <4>3
    <3> QED
      BY <3>1, <3>2
  <2>5. Is(f)
    <3>1. f = [n \in Nat |-> f[n]]
      BY <2>2
    <3> HIDE DEF step, first, turn
    <3> QED
      BY <2>4, <3>1
  <2> HIDE DEF Is
  <2> QED
    BY <2>5
<1>3. compare = CHOOSE f : Is(f)
  BY DEF compare
<1>4. Is(compare)
  <2> HIDE DEF Is
  <2> QED
    BY <1>2, <1>3
<1>5. \A n \in Nat : compare[n] = [p \in Int |-> [q \in Int |->
                        IF n = 0 THEN BOX(0) ELSE Compare(compare[n - 1], p, q)]]
  BY <1>4
<1>6. compare[0] = first
  <2>1. compare[0] = [p \in Int |-> [q \in Int |->
                        IF 0 = 0 THEN BOX(0) ELSE Compare(compare[0 - 1], p, q)]]
    BY <1>5
  <2> QED
    BY <2>1, Zenon
<1>7. ASSUME NEW n \in Nat PROVE compare[n + 1] = turn(compare[n])
  <2>1. n + 1 \in Nat /\ n + 1 # 0 /\ (n + 1) - 1 = n
    OBVIOUS
  <2>2. compare[n + 1] = [p \in Int |-> [q \in Int |->
                            IF n + 1 = 0 THEN BOX(0) ELSE Compare(compare[(n + 1) - 1], p, q)]]
    BY <1>5, <2>1
  <2> QED
    BY <2>1, <2>2
<1> DEFINE T == {n \in Nat : compare[n] \in Table}
<1>8. 0 \in T
  <2> HIDE DEF first
  <2> QED
    BY <1>1, <1>6
<1>9. ASSUME NEW n \in Nat, n \in T PROVE n + 1 \in T
  <2>1. compare[n] \in Table
    BY <1>9
  <2>2. turn(compare[n]) \in Table
    BY <2>1, CompareTyped DEF Table
  <2>3. compare[n + 1] \in Table
    <3> HIDE DEF turn
    <3> QED
      BY <1>7, <2>2
  <2> QED
    BY <2>3
<1> HIDE DEF T
<1>10. Nat \subseteq T
  BY <1>8, <1>9, Induction
<1>11. compare[d] \in Table
  BY <1>10 DEF T
<1>12. \A p, q \in Int : compare[0][p][q] = BOX(0)
  BY <1>6
<1>13. \A p, q \in Int : compare[d + 1][p][q] = Compare(compare[d], p, q)
  <2>1. compare[d + 1] = turn(compare[d])
    BY <1>7
  <2> QED
    BY <2>1
<1> QED
  BY <1>11, <1>12, <1>13

-----------------------------------------------------------------------------
(***************************************************************************)
(* Comparison: order.                                                      *)
(***************************************************************************)

\* Lexicographic orders of two parts are antisymmetric
LEMMA LexOpposite ==
  ASSUME NEW a \in Int, NEW b, NEW c \in Int, NEW d, Opposite(a, c), a = 0 => Opposite(b, d)
  PROVE  Opposite(Lex(a, b), Lex(c, d))
<1>1. a = 0 <=> c = 0
  BY DEF Opposite
<1>2. CASE a = 0
  BY <1>1, <1>2 DEF Lex
<1>3. CASE a # 0
  BY <1>1, <1>3 DEF Lex
<1> QED
  BY <1>2, <1>3

\* and transitive if the parts are.
LEMMA LexFollows ==
  ASSUME NEW a1 \in Int, NEW a2 \in Int, NEW a3 \in Int,
         NEW b1 \in Int, NEW b2 \in Int, NEW b3 \in Int, Follows(a1, a2, a3),
         a1 = 0 /\ a2 = 0 => Follows(b1, b2, b3)
  PROVE  Follows(Lex(a1, b1), Lex(a2, b2), Lex(a3, b3))
<1>1. CASE a1 = 0 /\ a2 = 0
  <2>1. a3 = 0
    BY <1>1 DEF Follows
  <2> QED
    BY <1>1, <2>1 DEF Lex
<1>2. CASE ~(a1 = 0 /\ a2 = 0)
  <2> SUFFICES ASSUME Lex(a1, b1) <= 0, Lex(a2, b2) <= 0
               PROVE  Lex(a3, b3) < 0 /\ ~(Lex(a1, b1) = 0 /\ Lex(a2, b2) = 0)
    <3>1. Lex(a1, b1) \in Int /\ Lex(a2, b2) \in Int /\ Lex(a3, b3) \in Int
      BY DEF Lex
    <3> HIDE DEF Lex
    <3> QED
      BY <3>1 DEF Follows
  <2>1. a1 <= 0 /\ a2 <= 0
    BY DEF Lex
  <2>2. a3 < 0
    BY <1>2, <2>1 DEF Follows
  <2> QED
    BY <1>2, <2>1, <2>2 DEF Lex
<1> QED
  BY <1>1, <1>2

\* c says of a value that it equals itself.
Reflects(c) == \A x \in Int : UNBOX(c[x][x]) = 0

\* c answers for the values of D as an order does.
Orders(c, D) ==
  /\ \A p, q \in D : Opposite(UNBOX(c[p][q]), UNBOX(c[q][p]))
  /\ \A p, q, r \in D : Follows(UNBOX(c[p][q]), UNBOX(c[q][r]), UNBOX(c[p][r]))

\* The elements of p, if it has any, are in D.
Inside(p, D) ==
  p \in DOMAIN heap /\ TAG(p) # STRING_TAG =>
    \A i \in 1 .. LEN(p) : i >= FirstElement(p) => heap[p].contents[i] \in D

\* If c orders the elements, it orders sequences of them.
LEMMA ElementsOrdered ==
  ASSUME TypeOK, NEW c \in Table, NEW D, Orders(c, D),
         NEW p \in DOMAIN heap, NEW q \in DOMAIN heap, NEW r \in DOMAIN heap,
         TAG(p) # STRING_TAG, TAG(q) = TAG(p), TAG(r) = TAG(p), LEN(q) = LEN(p), LEN(r) = LEN(p),
         Inside(p, D), Inside(q, D), Inside(r, D)
  PROVE  /\ Opposite(UNBOX(CompareElements(c, p, q)), UNBOX(CompareElements(c, q, p)))
         /\ Follows(UNBOX(CompareElements(c, p, q)), UNBOX(CompareElements(c, q, r)),
                    UNBOX(CompareElements(c, p, r)))
<1> DEFINE n == LEN(p)
           E(x, y) == ElementAnswers(c, x, y)
           V(x, y) == UNBOX(CompareElements(c, x, y))
           Os == {p, q, r}
<1>1. n \in Nat
  BY ObjectFacts
<1>2. ASSUME NEW x \in Os, NEW y \in Os
      PROVE  /\ Min({LEN(x), LEN(y)}) = n /\ FirstElement(x) = FirstElement(p)
             /\ E(x, y) \in [1 .. n -> Int] /\ V(x, y) \in Int /\ IsFirst(E(x, y), n, V(x, y))
  <2>1. x \in DOMAIN heap /\ y \in DOMAIN heap /\ LEN(x) = n /\ LEN(y) = n /\ TAG(x) = TAG(p)
    OBVIOUS
  <2> DEFINE m == Min({LEN(x), LEN(y)})
  <2>2. m = n
    BY <1>1, <2>1, MinOfTwo
  <2>3. /\ E(x, y) \in [1 .. m -> Int] /\ CompareElements(c, x, y) \in Answer
        /\ IsFirst(E(x, y), m, V(x, y))
    <3> HIDE DEF Os
    <3> QED
      BY <2>1, CompareElementsIs
  <2>4. V(x, y) \in Int
    BY <2>3, AnswerFacts
  <2>5. FirstElement(x) = FirstElement(p)
    BY <2>1 DEF FirstElement
  <2> HIDE DEF m, n, E, V
  <2> QED
    BY <2>2, <2>3, <2>4, <2>5 DEF m
<1>3. ASSUME NEW x \in Os, NEW y \in Os, NEW i \in 1 .. n
      PROVE  E(x, y)[i] = IF i < FirstElement(p) THEN 0
                          ELSE UNBOX(c[heap[x].contents[i]][heap[y].contents[i]])
  <2>1. Min({LEN(x), LEN(y)}) = n /\ FirstElement(x) = FirstElement(p)
    BY <1>2
  <2> HIDE DEF Os, n
  <2> QED
    BY <2>1 DEF ElementAnswers
<1>4. FirstElement(p) \in Int
  BY ElementFacts
<1>5. ASSUME NEW x \in Os, NEW i \in 1 .. n, ~(i < FirstElement(p)) PROVE heap[x].contents[i] \in D
  <2>1. x \in DOMAIN heap /\ TAG(x) # STRING_TAG /\ LEN(x) = n /\ Inside(x, D)
    OBVIOUS
  <2>2. FirstElement(x) = FirstElement(p)
    BY <1>2
  <2>3. i >= FirstElement(x)
    BY <1>1, <1>4, <1>5, <2>2
  <2> QED
    BY <2>1, <2>3 DEF Inside
<1>6. p \in Os /\ q \in Os /\ r \in Os
  OBVIOUS
<1> HIDE DEF n, Os, E, V
<1>7. \A i \in 1 .. n : Opposite(E(p, q)[i], E(q, p)[i]) /\ Follows(E(p, q)[i], E(q, r)[i], E(p, r)[i])
  <2> SUFFICES ASSUME NEW i \in 1 .. n
               PROVE  Opposite(E(p, q)[i], E(q, p)[i]) /\ Follows(E(p, q)[i], E(q, r)[i], E(p, r)[i])
    OBVIOUS
  <2>1. CASE i < FirstElement(p)
    <3>1. E(p, q)[i] = 0 /\ E(q, p)[i] = 0 /\ E(q, r)[i] = 0 /\ E(p, r)[i] = 0
      BY <1>3, <1>6, <2>1
    <3> QED
      BY <3>1 DEF Opposite, Follows
  <2>2. CASE ~(i < FirstElement(p))
    <3> DEFINE x == heap[p].contents[i]
               y == heap[q].contents[i]
               z == heap[r].contents[i]
    <3>1. x \in D /\ y \in D /\ z \in D
      BY <1>5, <1>6, <2>2
    <3>2. /\ E(p, q)[i] = UNBOX(c[x][y]) /\ E(q, p)[i] = UNBOX(c[y][x])
          /\ E(q, r)[i] = UNBOX(c[y][z]) /\ E(p, r)[i] = UNBOX(c[x][z])
      BY <1>3, <1>6, <2>2
    <3> HIDE DEF x, y, z
    <3> QED
      BY <3>1, <3>2 DEF Orders
  <2> QED
    BY <2>1, <2>2
<1>8. /\ E(p, q) \in [1 .. n -> Int] /\ V(p, q) \in Int /\ IsFirst(E(p, q), n, V(p, q))
      /\ E(q, p) \in [1 .. n -> Int] /\ V(q, p) \in Int /\ IsFirst(E(q, p), n, V(q, p))
      /\ E(q, r) \in [1 .. n -> Int] /\ V(q, r) \in Int /\ IsFirst(E(q, r), n, V(q, r))
      /\ E(p, r) \in [1 .. n -> Int] /\ V(p, r) \in Int /\ IsFirst(E(p, r), n, V(p, r))
  BY <1>2, <1>6
<1>9. Opposite(V(p, q), V(q, p))
  BY <1>1, <1>7, <1>8, FirstOpposite
<1>10. Follows(V(p, q), V(q, r), V(p, r))
  BY <1>1, <1>7, <1>8, FirstFollows
<1> QED
  BY <1>9, <1>10 DEF V

\* An object's elements are equal to themselves.
LEMMA ElementsReflect ==
  ASSUME TypeOK, NEW c \in Table, Reflects(c), NEW p \in DOMAIN heap
  PROVE  UNBOX(CompareElements(c, p, p)) = 0
<1> DEFINE n == Min({LEN(p), LEN(p)})
           E == ElementAnswers(c, p, p)
           v == UNBOX(CompareElements(c, p, p))
<1>1. n \in Nat /\ E \in [1 .. n -> Int] /\ CompareElements(c, p, p) \in Answer /\ IsFirst(E, n, v)
      /\ n = LEN(p)
  <2>1. LEN(p) \in Nat
    BY ObjectFacts
  <2> HIDE DEF E, v
  <2>2. n \in Nat /\ E \in [1 .. n -> Int] /\ CompareElements(c, p, p) \in Answer /\ IsFirst(E, n, v)
        /\ n = IF LEN(p) <= LEN(p) THEN LEN(p) ELSE LEN(p)
    BY CompareElementsIs DEF E, v
  <2> HIDE DEF n
  <2> QED
    BY <2>1, <2>2
<1>2. v \in Int
  BY <1>1, AnswerFacts
<1>3. ASSUME NEW i \in 1 .. n PROVE E[i] = 0
  <2>1. heap[p].contents[i] \in Int
    <3>1. i \in 1 .. LEN(p)
      BY <1>1
    <3> QED
      BY <3>1, ObjectFacts
  <2>2. UNBOX(c[heap[p].contents[i]][heap[p].contents[i]]) = 0
    BY <2>1 DEF Reflects
  <2> HIDE DEF n
  <2> QED
    BY <2>2 DEF ElementAnswers, n
<1> HIDE DEF E, n, v
<1> QED
  BY <1>1, <1>2, <1>3, FirstZero DEF v

\* Differences of integers order them.
LEMMA IntsAreOrdered ==
  ASSUME NEW x \in Int, NEW y \in Int, NEW z \in Int
  PROVE  Opposite(x - y, y - x) /\ Follows(x - y, y - z, x - z)
  BY DEF Opposite, Follows

\* If c orders the elements, objects are ordered: by kind, as strings, or by key,
\* length and elements.
LEMMA ObjectsOrdered ==
  ASSUME TypeOK, NEW c \in Table, NEW D, Orders(c, D),
         NEW p \in DOMAIN heap, NEW q \in DOMAIN heap, NEW r \in DOMAIN heap,
         Inside(p, D), Inside(q, D), Inside(r, D)
  PROVE  /\ Opposite(ObjectAnswer(c, p, q), ObjectAnswer(c, q, p))
         /\ Follows(ObjectAnswer(c, p, q), ObjectAnswer(c, q, r), ObjectAnswer(c, p, r))
<1> DEFINE Os == {p, q, r}
           T(x, y) == TAG(x) - TAG(y)
           S(x, y) == StringDifference(CString(x), CString(y))
           K(x, y) == Key(x) - Key(y)
           L(x, y) == LEN(x) - LEN(y)
           M(x, y) == Lex(K(x, y), L(x, y))
           V(x, y) == UNBOX(CompareElements(c, x, y))
           N(x, y) == Lex(M(x, y), V(x, y))
           B(x, y) == IF TAG(x) = STRING_TAG THEN S(x, y) ELSE N(x, y)
<1>1. ASSUME NEW x \in Os, NEW y \in Os
      PROVE  ObjectAnswer(c, x, y) = Lex(T(x, y), B(x, y))
  BY DEF ObjectAnswer
<1>2. ASSUME NEW x \in Os
      PROVE  /\ x \in DOMAIN heap /\ TAG(x) \in Int /\ Key(x) \in Int /\ LEN(x) \in Int
             /\ TAG(x) = STRING_TAG => CString(x) \in Texts
  <2>1. x \in DOMAIN heap
    OBVIOUS
  <2>2. TAG(x) \in Int /\ LEN(x) \in Int
    BY <2>1, ObjectFacts
  <2>3. Key(x) \in Int
    BY <2>1, KeyFacts, NumberFacts
  <2> QED
    BY <2>1, <2>2, <2>3, CStringIsText
<1>3. ASSUME NEW x \in Os, NEW y \in Os
      PROVE  T(x, y) \in Int /\ K(x, y) \in Int /\ L(x, y) \in Int /\ M(x, y) \in Int
             /\ V(x, y) \in Int /\ N(x, y) \in Int
  <2>1. T(x, y) \in Int /\ K(x, y) \in Int /\ L(x, y) \in Int
    BY <1>2
  <2>2. V(x, y) \in Int
    <3>1. x \in DOMAIN heap /\ y \in DOMAIN heap
      OBVIOUS
    <3>2. CompareElements(c, x, y) \in Answer
      BY <3>1, CompareElementsIs
    <3> QED
      BY <3>2, AnswerFacts
  <2> QED
    BY <2>1, <2>2 DEF Lex
<1>4. ASSUME NEW x \in Os, NEW y \in Os, TAG(x) = STRING_TAG, TAG(y) = STRING_TAG PROVE S(x, y) \in Int
  <2> DEFINE s == CString(x)
             t == CString(y)
  <2>1. s \in Texts /\ t \in Texts
    BY <1>2, <1>4
  <2> HIDE DEF s, t
  <2>2. Len(s) + Len(t) \in Nat /\ Len(s) <= Len(s) + Len(t) /\ Len(t) <= Len(s) + Len(t)
    BY <2>1, TextFacts
  <2>3. StringDifference(s, t) \in Int
    BY <2>1, <2>2, StringDifferenceIs
  <2> QED
    BY <2>3 DEF s, t
<1>5. ASSUME NEW x \in Os, NEW y \in Os, T(x, y) = 0 PROVE TAG(x) = TAG(y) /\ B(x, y) \in Int
  <2>1. TAG(x) = TAG(y)
    BY <1>2, <1>5
  <2> QED
    BY <1>3, <1>4, <2>1
<1>6. p \in Os /\ q \in Os /\ r \in Os
  OBVIOUS
<1>7. Opposite(ObjectAnswer(c, p, q), ObjectAnswer(c, q, p))
  <2>1. Opposite(T(p, q), T(q, p))
    BY <1>2, <1>6, IntsAreOrdered
  <2>2. ASSUME T(p, q) = 0 PROVE Opposite(B(p, q), B(q, p))
    <3>1. TAG(p) = TAG(q)
      BY <1>5, <1>6, <2>2
    <3>2. CASE TAG(p) = STRING_TAG
      <4>1. Opposite(S(p, q), S(q, p))
        BY <1>2, <1>6, <3>1, <3>2, StringsAreOrdered
      <4> QED
        BY <3>1, <3>2, <4>1
    <3>3. CASE TAG(p) # STRING_TAG
      <4>1. Opposite(K(p, q), K(q, p)) /\ Opposite(L(p, q), L(q, p))
        BY <1>2, <1>6, IntsAreOrdered
      <4>2. Opposite(M(p, q), M(q, p))
        <5> HIDE DEF K, L
        <5> QED
          BY <1>3, <1>6, <4>1, LexOpposite
      <4>3. ASSUME M(p, q) = 0 PROVE Opposite(V(p, q), V(q, p))
        <5>0. LEN(p) \in Int /\ LEN(q) \in Int /\ L(p, q) = 0
          <6>1. L(p, q) = 0
            <7> HIDE DEF K, L
            <7> QED
              BY <4>3 DEF Lex
          <6> HIDE DEF Os, L
          <6> QED
            BY <1>2, <1>6, <6>1
        <5>1. LEN(p) = LEN(q)
          BY <5>0
        <5> QED
          BY <3>1, <3>3, <5>1, ElementsOrdered
      <4>4. Opposite(N(p, q), N(q, p))
        <5> HIDE DEF M, V
        <5> QED
          BY <1>3, <1>6, <4>2, <4>3, LexOpposite
      <4> QED
        BY <3>1, <3>3, <4>4
    <3> QED
      BY <3>2, <3>3
  <2>3. Opposite(Lex(T(p, q), B(p, q)), Lex(T(q, p), B(q, p)))
    <3> HIDE DEF T, B
    <3> QED
      BY <1>3, <1>6, <2>1, <2>2, LexOpposite
  <2> HIDE DEF T, B
  <2> QED
    BY <1>1, <1>6, <2>3
<1>8. Follows(ObjectAnswer(c, p, q), ObjectAnswer(c, q, r), ObjectAnswer(c, p, r))
  <2>1. Follows(T(p, q), T(q, r), T(p, r))
    BY <1>2, <1>6, IntsAreOrdered
  <2>2. ASSUME T(p, q) = 0, T(q, r) = 0 PROVE Follows(B(p, q), B(q, r), B(p, r))
    <3>1. TAG(p) = TAG(q) /\ TAG(q) = TAG(r)
      BY <1>5, <1>6, <2>2
    <3>2. CASE TAG(p) = STRING_TAG
      <4>1. Follows(S(p, q), S(q, r), S(p, r))
        BY <1>2, <1>6, <3>1, <3>2, StringsAreOrdered
      <4> QED
        BY <3>1, <3>2, <4>1
    <3>3. CASE TAG(p) # STRING_TAG
      <4>1. Follows(K(p, q), K(q, r), K(p, r)) /\ Follows(L(p, q), L(q, r), L(p, r))
        BY <1>2, <1>6, IntsAreOrdered
      <4>2. Follows(M(p, q), M(q, r), M(p, r))
        <5> HIDE DEF K, L
        <5> QED
          BY <1>3, <1>6, <4>1, LexFollows
      <4>3. ASSUME M(p, q) = 0, M(q, r) = 0 PROVE Follows(V(p, q), V(q, r), V(p, r))
        <5>0. LEN(p) \in Int /\ LEN(q) \in Int /\ LEN(r) \in Int /\ L(p, q) = 0 /\ L(q, r) = 0
          <6>1. L(p, q) = 0 /\ L(q, r) = 0
            <7> HIDE DEF K, L
            <7> QED
              BY <4>3 DEF Lex
          <6> HIDE DEF Os, L
          <6> QED
            BY <1>2, <1>6, <6>1
        <5>1. LEN(p) = LEN(q) /\ LEN(q) = LEN(r)
          BY <5>0
        <5> QED
          BY <3>1, <3>3, <5>1, ElementsOrdered
      <4>4. Follows(N(p, q), N(q, r), N(p, r))
        <5> HIDE DEF M, V
        <5> QED
          BY <1>3, <1>6, <4>2, <4>3, LexFollows
      <4> QED
        BY <3>1, <3>3, <4>4
    <3> QED
      BY <3>2, <3>3
  <2>3. CASE T(p, q) = 0 /\ T(q, r) = 0
    <3>1. T(p, r) = 0
      BY <1>2, <1>6, <2>3
    <3> HIDE DEF T, B
    <3>2. ObjectAnswer(c, p, q) = B(p, q) /\ ObjectAnswer(c, q, r) = B(q, r) /\ ObjectAnswer(c, p, r) = B(p, r)
      BY <1>1, <1>6, <2>3, <3>1 DEF Lex
    <3> QED
      BY <2>2, <2>3, <3>2
  <2>4. CASE ~(T(p, q) = 0 /\ T(q, r) = 0)
    <3> SUFFICES ASSUME ObjectAnswer(c, p, q) <= 0, ObjectAnswer(c, q, r) <= 0
                 PROVE  /\ ObjectAnswer(c, p, r) <= 0
                        /\ ObjectAnswer(c, p, r) = 0
                             <=> ObjectAnswer(c, p, q) = 0 /\ ObjectAnswer(c, q, r) = 0
      BY DEF Follows
    <3> HIDE DEF T, B
    <3>1. T(p, q) \in Int /\ T(q, r) \in Int /\ T(p, r) \in Int
      BY <1>3, <1>6
    <3>2. T(p, q) <= 0 /\ T(q, r) <= 0
      BY <1>1, <1>6, <3>1 DEF Lex
    <3>3. T(p, r) < 0
      BY <2>1, <2>4, <3>1, <3>2 DEF Follows
    <3>4. ObjectAnswer(c, p, r) < 0
      BY <1>1, <1>6, <3>3 DEF Lex
    <3>5. ~(ObjectAnswer(c, p, q) = 0 /\ ObjectAnswer(c, q, r) = 0)
      BY <1>1, <1>6, <2>4, <3>1 DEF Lex
    <3>6. ObjectAnswer(c, p, r) \in Int
      BY <1>1, <1>6, <3>1, <3>3 DEF Lex
    <3> QED
      BY <3>4, <3>5, <3>6
  <2> QED
    BY <2>3, <2>4
<1> QED
  BY <1>7, <1>8

\* An object equals itself.
LEMMA ObjectsReflect ==
  ASSUME TypeOK, NEW c \in Table, Reflects(c), NEW p \in DOMAIN heap
  PROVE  ObjectAnswer(c, p, p) = 0
<1>1. TAG(p) \in Int /\ LEN(p) \in Int /\ Key(p) \in Int
  BY ObjectFacts, KeyFacts, NumberFacts
<1>2. TAG(p) - TAG(p) = 0 /\ LEN(p) - LEN(p) = 0 /\ Key(p) - Key(p) = 0
  BY <1>1
<1>3. TAG(p) = STRING_TAG => StringDifference(CString(p), CString(p)) = 0
  BY CStringIsText, StringsAreOrdered
<1>4. UNBOX(CompareElements(c, p, p)) = 0
  BY ElementsReflect
<1> QED
  BY <1>2, <1>3, <1>4 DEF ObjectAnswer, Lex

\* Integers, then objects, then other addresses.
Rank(p) == IF UNBOXED(p) THEN 0 ELSE IF p \in DOMAIN heap THEN 1 ELSE 2

RankSign(p, q) == IF Rank(p) < Rank(q) THEN -1 ELSE IF Rank(p) > Rank(q) THEN 1 ELSE 0

\* The answer for values of one rank.
SameRank(c, p, q) ==
  IF Rank(p) = 0 THEN UNBOX(p) - UNBOX(q)
  ELSE IF Rank(p) = 1 THEN ObjectAnswer(c, p, q)
  ELSE p - q

\* Differences of values do not wrap.
LEMMA ValuesDiffer ==
  ASSUME NEW p \in Value, NEW q \in Value
  PROVE  /\ UNBOXED(p) /\ UNBOXED(q) => /\ UNBOX(Difference(UNBOX(p), UNBOX(q))) = UNBOX(p) - UNBOX(q)
                                        /\ UNBOX(p) - UNBOX(q) = 0 <=> p = q
         /\ ~UNBOXED(p) /\ ~UNBOXED(q) => UNBOX(Difference(p, q)) = p - q
<1>1. PICK k \in Nat : k = Modulus \div 4 /\ k % 4 = 0 /\ k >= 8
  BY ModulusFacts
<1>2. /\ p \in Int /\ -k <= p /\ p < k /\ (UNBOXED(p) \/ p >= 0)
      /\ q \in Int /\ -k <= q /\ q < k /\ (UNBOXED(q) \/ q >= 0)
  BY <1>1, NumberFacts
<1>3. ASSUME UNBOXED(p), UNBOXED(q)
      PROVE  /\ UNBOX(Difference(UNBOX(p), UNBOX(q))) = UNBOX(p) - UNBOX(q)
             /\ UNBOX(p) - UNBOX(q) = 0 <=> p = q
  <2>1. p % 2 = 1 /\ q % 2 = 1
    BY <1>3 DEF UNBOXED
  <2>2. /\ UNBOX(p) \in Int /\ p = 2 * UNBOX(p) + 1
        /\ UNBOX(q) \in Int /\ q = 2 * UNBOX(q) + 1
    BY <1>2, <2>1 DEF UNBOX
  <2>3. -k <= UNBOX(p) - UNBOX(q) /\ UNBOX(p) - UNBOX(q) < k
    BY <1>1, <1>2, <2>2
  <2>4. UNBOX(Difference(UNBOX(p), UNBOX(q))) = UNBOX(p) - UNBOX(q)
    BY <1>1, <2>2, <2>3, DifferenceIs
  <2> QED
    BY <2>2, <2>4
<1>4. ASSUME ~UNBOXED(p), ~UNBOXED(q) PROVE UNBOX(Difference(p, q)) = p - q
  <2>1. -k <= p - q /\ p - q < k
    BY <1>1, <1>2, <1>4
  <2> QED
    BY <1>1, <1>2, <2>1, DifferenceIs
<1> QED
  BY <1>3, <1>4

\* A value equals itself.
LEMMA CompareReflects == ASSUME NEW c, NEW p \in Int PROVE Compare(c, p, p) = BOX(0)
<1>1. UNBOX(p) \in Int
  BY DEF UNBOX
<1>2. UNBOX(p) - UNBOX(p) = 0 /\ Signed(0) = 0
  <2>1. 0 \in Int /\ -(Modulus \div 2) <= 0 /\ 0 < Modulus \div 2
    BY ModulusFacts
  <2> QED
    BY <1>1, <2>1, SignedOfSmall
<1>3. Difference(UNBOX(p), UNBOX(p)) = BOX(0)
  BY <1>2 DEF Difference
<1> QED
  BY <1>3 DEF Compare

\* What the ranks say.
LEMMA RankFacts ==
  ASSUME TypeOK, NEW p
  PROVE  /\ Rank(p) \in {0, 1, 2} /\ UNBOXED(p) \in BOOLEAN
         /\ Rank(p) = 0 <=> UNBOXED(p)
         /\ Rank(p) = 1 <=> p \in DOMAIN heap
         /\ Rank(p) = 2 <=> ~UNBOXED(p) /\ p \notin DOMAIN heap
<1>1. p \in DOMAIN heap => ~UNBOXED(p)
  BY ObjectFacts
<1>2. UNBOXED(p) \in BOOLEAN
  BY DEF UNBOXED
<1> QED
  BY <1>1, <1>2 DEF Rank

\* compare goes by rank, and by value among values of one rank.
LEMMA CompareIs ==
  ASSUME TypeOK, NEW c \in Table, Reflects(c), NEW p \in Value, NEW q \in Value
  PROVE  UNBOX(Compare(c, p, q)) = Lex(RankSign(p, q), SameRank(c, p, q))
<1>0. UNBOX(BOX(0)) = 0 /\ UNBOX(BOX(1)) = 1 /\ UNBOX(BOX(-1)) = -1
  BY SmallBoxes DEF UNBOX
<1>1. p \in Int /\ q \in Int
  BY NumberFacts
<1>2. CASE p = q
  <2>1. RankSign(p, q) = 0
    BY <1>2, RankFacts DEF RankSign
  <2>2. UNBOX(p) \in Int
    BY <1>1 DEF UNBOX
  <2>3. SameRank(c, p, q) = 0
    <3>1. Rank(p) = 1 => p \in DOMAIN heap
      BY RankFacts
    <3>2. p \in DOMAIN heap => ObjectAnswer(c, p, p) = 0
      BY ObjectsReflect
    <3>3. UNBOX(p) - UNBOX(p) = 0 /\ p - p = 0
      BY <1>1, <2>2
    <3> QED
      BY <1>2, <3>1, <3>2, <3>3 DEF SameRank
  <2> QED
    <3>1. Compare(c, p, q) = BOX(0)
      BY <1>1, <1>2, CompareReflects
    <3> QED
      BY <1>0, <2>1, <2>3, <3>1 DEF Lex
<1>3. CASE p # q
  <2>1. /\ Rank(p) \in {0, 1, 2} /\ Rank(q) \in {0, 1, 2}
        /\ UNBOXED(p) \in BOOLEAN /\ UNBOXED(q) \in BOOLEAN
        /\ Rank(p) = 0 <=> UNBOXED(p)
        /\ Rank(p) = 1 <=> p \in DOMAIN heap
        /\ Rank(p) = 2 <=> ~UNBOXED(p) /\ p \notin DOMAIN heap
        /\ Rank(q) = 0 <=> UNBOXED(q)
        /\ Rank(q) = 1 <=> q \in DOMAIN heap
        /\ Rank(q) = 2 <=> ~UNBOXED(q) /\ q \notin DOMAIN heap
    BY RankFacts
  <2>2. CASE Rank(p) < Rank(q)
    <3>1. Compare(c, p, q) = BOX(-1)
      BY <1>3, <2>1, <2>2 DEF Compare, is_valid_heap_pointer
    <3>2. RankSign(p, q) = -1
      BY <2>2 DEF RankSign
    <3> QED
      BY <1>0, <3>1, <3>2 DEF Lex
  <2>3. CASE Rank(p) > Rank(q)
    <3>1. Compare(c, p, q) = BOX(1)
      BY <1>3, <2>1, <2>3 DEF Compare, is_valid_heap_pointer
    <3>2. RankSign(p, q) = 1
      BY <2>1, <2>3 DEF RankSign
    <3> QED
      BY <1>0, <3>1, <3>2 DEF Lex
  <2>4. CASE Rank(p) = Rank(q)
    <3>1. RankSign(p, q) = 0
      BY <2>1, <2>4 DEF RankSign
    <3>2. Lex(RankSign(p, q), SameRank(c, p, q)) = SameRank(c, p, q)
      BY <3>1 DEF Lex
    <3>3. CASE Rank(p) = 0
      <4>1. Compare(c, p, q) = Difference(UNBOX(p), UNBOX(q))
        BY <1>3, <2>1, <2>4, <3>3 DEF Compare
      <4>2. UNBOX(Difference(UNBOX(p), UNBOX(q))) = UNBOX(p) - UNBOX(q)
        BY <2>1, <2>4, <3>3, ValuesDiffer
      <4> QED
        BY <3>2, <3>3, <4>1, <4>2 DEF SameRank
    <3>4. CASE Rank(p) = 1
      <4>1. Compare(c, p, q) = CompareObjects(c, p, q)
        BY <1>3, <2>1, <2>4, <3>4 DEF Compare, is_valid_heap_pointer
      <4>2. UNBOX(CompareObjects(c, p, q)) = ObjectAnswer(c, p, q)
        BY <2>1, <2>4, <3>4, CompareObjectsIs
      <4> QED
        BY <3>2, <3>4, <4>1, <4>2 DEF SameRank
    <3>5. CASE Rank(p) = 2
      <4>1. Compare(c, p, q) = Difference(p, q)
        BY <1>3, <2>1, <2>4, <3>5 DEF Compare, is_valid_heap_pointer
      <4>2. UNBOX(Difference(p, q)) = p - q
        BY <2>1, <2>4, <3>5, ValuesDiffer
      <4> QED
        BY <3>2, <3>5, <4>1, <4>2 DEF SameRank
    <3> QED
      BY <2>1, <3>3, <3>4, <3>5
  <2> QED
    BY <2>1, <2>2, <2>3, <2>4
<1> QED
  BY <1>2, <1>3

\* One level of compare: the elements in order, the objects are.
LEMMA CompareStep ==
  ASSUME TypeOK, NEW c \in Table, Reflects(c), NEW D, Orders(c, D),
         NEW E \in SUBSET Value, \A p \in E : Inside(p, D),
         NEW b \in Table, \A p, q \in Int : b[p][q] = Compare(c, p, q)
  PROVE  Reflects(b) /\ Orders(b, E)
<1>1. Reflects(b)
  <2>1. UNBOX(BOX(0)) = 0
    BY SmallBoxes DEF UNBOX
  <2> QED
    BY <2>1, CompareReflects DEF Reflects
<1> DEFINE A(p, q) == UNBOX(b[p][q])
           S(p, q) == SameRank(c, p, q)
<1>2. ASSUME NEW p \in E
      PROVE  /\ p \in Value /\ p \in Int /\ UNBOX(p) \in Int
             /\ Rank(p) \in {0, 1, 2} /\ (Rank(p) = 1 => p \in DOMAIN heap)
  <2>1. p \in Value /\ p \in Int
    BY NumberFacts
  <2> QED
    BY <2>1, RankFacts DEF UNBOX
<1>3. ASSUME NEW p \in E, NEW q \in E PROVE A(p, q) = Lex(RankSign(p, q), S(p, q))
  <2>1. b[p][q] = Compare(c, p, q)
    BY <1>2
  <2> QED
    BY <1>2, <2>1, CompareIs
<1>4. ASSUME NEW p \in E, NEW q \in E, Rank(p) = Rank(q)
      PROVE  Opposite(S(p, q), S(q, p))
  <2>1. Opposite(UNBOX(p) - UNBOX(q), UNBOX(q) - UNBOX(p)) /\ Opposite(p - q, q - p)
    BY <1>2, IntsAreOrdered
  <2>2. Rank(p) = 1 => Opposite(ObjectAnswer(c, p, q), ObjectAnswer(c, q, p))
    BY <1>2, <1>4, ObjectsOrdered
  <2> QED
    BY <1>2, <1>4, <2>1, <2>2 DEF SameRank
<1>5. ASSUME NEW p \in E, NEW q \in E, NEW r \in E, Rank(p) = Rank(q), Rank(q) = Rank(r)
      PROVE  Follows(S(p, q), S(q, r), S(p, r))
  <2>1. /\ Follows(UNBOX(p) - UNBOX(q), UNBOX(q) - UNBOX(r), UNBOX(p) - UNBOX(r))
        /\ Follows(p - q, q - r, p - r)
    BY <1>2, IntsAreOrdered
  <2>2. Rank(p) = 1 =>
          Follows(ObjectAnswer(c, p, q), ObjectAnswer(c, q, r), ObjectAnswer(c, p, r))
    BY <1>2, <1>5, ObjectsOrdered
  <2> QED
    BY <1>2, <1>5, <2>1, <2>2 DEF SameRank
<1>6. ASSUME NEW p \in E, NEW q \in E
      PROVE  /\ RankSign(p, q) \in Int /\ Opposite(RankSign(p, q), RankSign(q, p))
             /\ RankSign(p, q) = 0 <=> Rank(p) = Rank(q)
  <2>1. Rank(p) \in Int /\ Rank(q) \in Int
    BY <1>2
  <2> QED
    BY <2>1 DEF RankSign, Opposite
<1>7. ASSUME NEW p \in E, NEW q \in E, NEW r \in E
      PROVE  Follows(RankSign(p, q), RankSign(q, r), RankSign(p, r))
  <2>1. Rank(p) \in Int /\ Rank(q) \in Int /\ Rank(r) \in Int
    BY <1>2
  <2> QED
    BY <2>1 DEF RankSign, Follows
<1> HIDE DEF S
<1>8. ASSUME NEW p \in E, NEW q \in E PROVE Opposite(A(p, q), A(q, p))
  <2>1. Opposite(Lex(RankSign(p, q), S(p, q)), Lex(RankSign(q, p), S(q, p)))
    <3>1. RankSign(p, q) = 0 => Opposite(S(p, q), S(q, p))
      BY <1>4, <1>6
    <3> QED
      BY <1>6, <3>1, LexOpposite
  <2> HIDE DEF A
  <2> QED
    BY <1>3, <2>1
<1>9. ASSUME NEW p \in E, NEW q \in E, NEW r \in E PROVE Follows(A(p, q), A(q, r), A(p, r))
  <2>0. A(p, q) \in Int /\ A(q, r) \in Int /\ A(p, r) \in Int
    <3>1. b[p][q] \in Answer /\ b[q][r] \in Answer /\ b[p][r] \in Answer
      BY <1>2 DEF Table
    <3> QED
      BY <3>1, AnswerFacts
  <2> HIDE DEF A
  <2>1. CASE RankSign(p, q) = 0 /\ RankSign(q, r) = 0
    <3>1. Rank(p) = Rank(q) /\ Rank(q) = Rank(r)
      BY <1>6, <2>1
    <3>2. RankSign(p, r) = 0 /\ Follows(S(p, q), S(q, r), S(p, r))
      BY <1>5, <1>6, <3>1
    <3> QED
      BY <1>3, <2>1, <3>2 DEF Lex
  <2>2. CASE ~(RankSign(p, q) = 0 /\ RankSign(q, r) = 0)
    <3> SUFFICES ASSUME A(p, q) <= 0, A(q, r) <= 0
                 PROVE  A(p, r) < 0 /\ ~(A(p, q) = 0 /\ A(q, r) = 0)
      BY <2>0 DEF Follows
    <3>0. RankSign(p, q) \in Int /\ RankSign(q, r) \in Int /\ RankSign(p, r) \in Int
      BY <1>6
    <3>1. RankSign(p, q) <= 0 /\ RankSign(q, r) <= 0
      BY <1>3, <3>0 DEF Lex
    <3>2. RankSign(p, r) < 0
      BY <1>7, <2>2, <3>0, <3>1 DEF Follows
    <3> QED
      BY <1>3, <2>2, <3>0, <3>2 DEF Lex
  <2> QED
    BY <2>1, <2>2
<1> QED
  BY <1>1, <1>8, <1>9 DEF Orders

\* The recursion that defines Deep.
LEMMA DeepIs ==
  ASSUME NEW n \in Nat
  PROVE  /\ Deep[0] = DOMAIN heap /\ Deep[n] \subseteq DOMAIN heap
         /\ Deep[n + 1] = {p \in DOMAIN heap : Pointees(p) \intersect Deep[n] # {}}
<1> DEFINE Sets == SUBSET DOMAIN heap
           turn(d) == {p \in DOMAIN heap : Pointees(p) \intersect d # {}}
           step == [k \in Nat |-> [d \in Sets |-> turn(d)]]
           Is(f) == f = [k \in Nat |-> IF k = 0 THEN DOMAIN heap ELSE turn(f[k - 1])]
<1>1. DOMAIN heap \in Sets /\ step \in [Nat -> [Sets -> Sets]]
  OBVIOUS
<1>2. \E f : Is(f)
  <2>1. PICK f : Recurses(f, Sets, DOMAIN heap, step)
    <3> HIDE DEF Sets, step
    <3> QED
      BY <1>1, RecursionExists
  <2>2. f \in [Nat -> Sets]
    BY <2>1 DEF Recurses
  <2>3. f = [k \in Nat |-> IF k = 0 THEN DOMAIN heap ELSE step[k - 1][f[k - 1]]]
    <3> HIDE DEF step, Sets
    <3> QED
      BY <2>1, RecursionIs
  <2>4. ASSUME NEW k \in Nat, k # 0 PROVE step[k - 1][f[k - 1]] = turn(f[k - 1])
    <3>1. k - 1 \in Nat
      BY <2>4
    <3>2. f[k - 1] \in Sets
      BY <2>2, <3>1
    <3> HIDE DEF Sets, turn
    <3> QED
      BY <3>1, <3>2
  <2>5. Is(f)
    <3> HIDE DEF step, Sets, turn
    <3> QED
      BY <2>3, <2>4
  <2> HIDE DEF Is
  <2> QED
    BY <2>5
<1>3. Deep = CHOOSE f : Is(f)
  BY DEF Deep
<1>4. Is(Deep)
  <2> HIDE DEF Is
  <2> QED
    BY <1>2, <1>3
<1>5. \A k \in Nat : Deep[k] = IF k = 0 THEN DOMAIN heap ELSE turn(Deep[k - 1])
  <2> HIDE DEF turn
  <2> QED
    BY <1>4
<1>6. Deep[0] = DOMAIN heap
  <2> HIDE DEF turn
  <2> QED
    BY <1>5
<1>7. Deep[n + 1] = turn(Deep[n])
  <2>1. n + 1 \in Nat /\ n + 1 # 0 /\ (n + 1) - 1 = n
    OBVIOUS
  <2>2. Deep[n + 1] = turn(Deep[(n + 1) - 1])
    <3> HIDE DEF turn
    <3> QED
      BY <1>5, <2>1
  <2> HIDE DEF turn
  <2> QED
    BY <2>1, <2>2
<1>8. Deep[n] \subseteq DOMAIN heap
  <2>1. CASE n = 0
    BY <1>6, <2>1
  <2>2. CASE n # 0
    <3>1. Deep[n] = turn(Deep[n - 1])
      <4> HIDE DEF turn
      <4> QED
        BY <1>5, <2>2
    <3> QED
      BY <3>1
  <2> QED
    BY <2>1, <2>2
<1> QED
  BY <1>6, <1>7, <1>8

\* The values from which no path of n pointers leads on.
Shallow(n) == Value \ Deep[n]

\* The elements of a shallow value are shallower.
LEMMA ShallowInside ==
  ASSUME TypeOK, NEW n \in Nat
  PROVE  /\ \A p \in Shallow(0) : Inside(p, {})
         /\ \A p \in Shallow(n + 1) : Inside(p, Shallow(n))
<1>1. ASSUME NEW p \in Shallow(0) PROVE Inside(p, {})
  BY <1>1, DeepIs DEF Shallow, Inside
<1>2. ASSUME NEW p \in Shallow(n + 1) PROVE Inside(p, Shallow(n))
  <2> SUFFICES ASSUME p \in DOMAIN heap, TAG(p) # STRING_TAG,
                      NEW i \in 1 .. LEN(p), i >= FirstElement(p)
               PROVE  heap[p].contents[i] \in Value \ Deep[n]
    BY DEF Inside, Shallow
  <2> DEFINE x == heap[p].contents[i]
  <2>1. x \in Value
    BY ElementFacts
  <2>2. x \in Range(heap[p].contents)
    <3>1. DOMAIN heap[p].contents = 1 .. LEN(p)
      BY ObjectFacts
    <3> QED
      BY <3>1 DEF Range
  <2>3. ASSUME x \in Deep[n] PROVE FALSE
    <3>1. x \in DOMAIN heap
      BY <2>3, DeepIs
    <3>2. x \in Pointees(p)
      BY <2>2, <3>1 DEF Pointees
    <3>3. Pointees(p) \intersect Deep[n] # {}
      BY <2>3, <3>2
    <3>4. p \in Deep[n + 1]
      BY <3>3, DeepIs
    <3> QED
      BY <3>4 DEF Shallow
  <2> QED
    BY <2>1, <2>3
<1> QED
  BY <1>1, <1>2

\* However deep, compare is an order of the values that are less deep.
LEMMA CompareOrders ==
  ASSUME TypeOK
  PROVE  \A n \in Nat : Reflects(compare[n]) /\ Orders(compare[n + 1], Shallow(n))
<1> DEFINE T == {n \in Nat : Reflects(compare[n]) /\ Reflects(compare[n + 1])
                             /\ Orders(compare[n + 1], Shallow(n))}
<1>1. ASSUME NEW n \in Nat
      PROVE  /\ compare[n] \in Table /\ compare[n + 1] \in Table
             /\ \A p, q \in Int : compare[n + 1][p][q] = Compare(compare[n], p, q)
             /\ Shallow(n) \in SUBSET Value
  BY compareIs DEF Shallow
<1>2. 0 \in T
  <2>1. Reflects(compare[0])
    <3>1. UNBOX(BOX(0)) = 0
      BY SmallBoxes DEF UNBOX
    <3> QED
      BY <3>1, compareIs DEF Reflects
  <2>2. Orders(compare[0], {})
    BY DEF Orders
  <2>3. Reflects(compare[0 + 1]) /\ Orders(compare[0 + 1], Shallow(0))
    <3>1. \A p \in Shallow(0) : Inside(p, {})
      BY ShallowInside
    <3> QED
      BY <1>1, <2>1, <2>2, <3>1, CompareStep
  <2> QED
    BY <2>1, <2>3
<1>3. ASSUME NEW n \in Nat, n \in T PROVE n + 1 \in T
  <2>1. Reflects(compare[n + 1]) /\ Orders(compare[n + 1], Shallow(n))
    BY <1>3
  <2>2. n + 1 \in Nat /\ \A p \in Shallow(n + 1) : Inside(p, Shallow(n))
    BY ShallowInside
  <2>3. Reflects(compare[(n + 1) + 1]) /\ Orders(compare[(n + 1) + 1], Shallow(n + 1))
    <3>1. /\ compare[n + 1] \in Table /\ compare[(n + 1) + 1] \in Table
          /\ \A p, q \in Int : compare[(n + 1) + 1][p][q] = Compare(compare[n + 1], p, q)
          /\ Shallow(n + 1) \in SUBSET Value
      BY <1>1, <2>2
    <3> QED
      BY <2>1, <2>2, <3>1, CompareStep
  <2> QED
    BY <2>1, <2>2, <2>3
<1> HIDE DEF T
<1>4. Nat \subseteq T
  BY <1>2, <1>3, Induction
<1> QED
  BY <1>4 DEF T

-----------------------------------------------------------------------------
(***************************************************************************)
(* Comparison: equality.                                                   *)
(***************************************************************************)

\* Relations of words, as functions.
Relation2 == [Int -> [Int -> BOOLEAN]]

\* The recursion that defines alike.
LEMMA alikeIs ==
  ASSUME NEW d \in Nat
  PROVE  /\ \A p, q \in Int : alike[0][p][q] = FALSE
         /\ \A p, q \in Int : alike[d][p][q] \in BOOLEAN
         /\ \A p, q \in Int : alike[d + 1][p][q] = Alike(alike[d], p, q)
<1> DEFINE first == [p \in Int |-> [q \in Int |-> FALSE]]
           turn(c) == [p \in Int |-> [q \in Int |-> Alike(c, p, q)]]
           step == [k \in Nat |-> [c \in Relation2 |-> turn(c)]]
           Is(f) == f = [n \in Nat |-> [p \in Int |-> [q \in Int |->
                           IF n = 0 THEN FALSE ELSE Alike(f[n - 1], p, q)]]]
<1>0. \A c, p, q : Alike(c, p, q) \in BOOLEAN
  BY DEF Alike
<1>1. first \in Relation2 /\ step \in [Nat -> [Relation2 -> Relation2]]
  <2>1. ASSUME NEW c \in Relation2 PROVE turn(c) \in Relation2
    BY <1>0 DEF Relation2
  <2>2. first \in Relation2
    BY DEF Relation2
  <2> HIDE DEF turn
  <2> QED
    BY <2>1, <2>2
<1>2. \E f : Is(f)
  <2>1. PICK f : Recurses(f, Relation2, first, step)
    <3> HIDE DEF first, step
    <3> QED
      BY <1>1, RecursionExists
  <2>2. f \in [Nat -> Relation2]
    BY <2>1 DEF Recurses
  <2>3. f = [n \in Nat |-> IF n = 0 THEN first ELSE step[n - 1][f[n - 1]]]
    <3> HIDE DEF first, step
    <3> QED
      BY <2>1, RecursionIs
  <2>4. ASSUME NEW n \in Nat
        PROVE  f[n] = [p \in Int |-> [q \in Int |->
                         IF n = 0 THEN FALSE ELSE Alike(f[n - 1], p, q)]]
    <3>1. CASE n = 0
      <4>1. f[n] = first
        <5> HIDE DEF first, step
        <5> QED
          BY <2>3, <3>1
      <4> QED
        BY <3>1, <4>1
    <3>2. CASE n # 0
      <4>1. n - 1 \in Nat
        BY <3>2
      <4>2. f[n] = step[n - 1][f[n - 1]]
        <5> HIDE DEF first, step
        <5> QED
          BY <2>3, <3>2
      <4>3. step[n - 1][f[n - 1]] = turn(f[n - 1])
        <5>1. f[n - 1] \in Relation2
          BY <2>2, <4>1
        <5> HIDE DEF turn
        <5> QED
          BY <4>1, <5>1
      <4> HIDE DEF step
      <4> QED
        BY <3>2, <4>2, <4>3
    <3> QED
      BY <3>1, <3>2
  <2>5. Is(f)
    <3>1. f = [n \in Nat |-> f[n]]
      BY <2>2
    <3> HIDE DEF step, first, turn
    <3> QED
      BY <2>4, <3>1
  <2> HIDE DEF Is
  <2> QED
    BY <2>5
<1>3. alike = CHOOSE f : Is(f)
  BY DEF alike
<1>4. Is(alike)
  <2> HIDE DEF Is
  <2> QED
    BY <1>2, <1>3
<1>5. \A n \in Nat : alike[n] = [p \in Int |-> [q \in Int |->
                        IF n = 0 THEN FALSE ELSE Alike(alike[n - 1], p, q)]]
  BY <1>4
<1>6. \A p, q \in Int : alike[0][p][q] = FALSE
  <2>1. alike[0] = [p \in Int |-> [q \in Int |->
                      IF 0 = 0 THEN FALSE ELSE Alike(alike[0 - 1], p, q)]]
    BY <1>5
  <2>2. alike[0] = first
    BY <2>1, Zenon
  <2> QED
    BY <2>2
<1>7. \A p, q \in Int : alike[d + 1][p][q] = Alike(alike[d], p, q)
  <2>1. d + 1 \in Nat /\ d + 1 # 0 /\ (d + 1) - 1 = d
    OBVIOUS
  <2>2. alike[d + 1] = [p \in Int |-> [q \in Int |->
                          IF d + 1 = 0 THEN FALSE ELSE Alike(alike[(d + 1) - 1], p, q)]]
    BY <1>5, <2>1
  <2> QED
    BY <2>1, <2>2
<1>8. \A p, q \in Int : alike[d][p][q] \in BOOLEAN
  <2>1. alike[d] = [p \in Int |-> [q \in Int |->
                      IF d = 0 THEN FALSE ELSE Alike(alike[d - 1], p, q)]]
    BY <1>5
  <2> SUFFICES ASSUME NEW p \in Int, NEW q \in Int PROVE alike[d][p][q] \in BOOLEAN
    OBVIOUS
  <2>2. alike[d][p][q] = IF d = 0 THEN FALSE ELSE Alike(alike[d - 1], p, q)
    BY <2>1
  <2> QED
    BY <1>0, <2>2
<1> QED
  BY <1>6, <1>7, <1>8

\* Zero is the answer for what is alike.
Tells(c, a, D) == \A p, q \in D : UNBOX(c[p][q]) = 0 <=> a[p][q] = TRUE

\* If zero is the answer for elements that are alike, it is for objects that are.
LEMMA ObjectsTold ==
  ASSUME TypeOK, NEW c \in Table, NEW a, NEW D, Tells(c, a, D),
         NEW p \in DOMAIN heap, NEW q \in DOMAIN heap, p # q, Inside(p, D), Inside(q, D),
         \A x, y \in Int : a[x][y] \in BOOLEAN
  PROVE  ObjectAnswer(c, p, q) = 0 <=> Alike(a, p, q)
<1>1. /\ TAG(p) \in Int /\ LEN(p) \in Nat /\ Key(p) \in Int
      /\ TAG(q) \in Int /\ LEN(q) \in Nat /\ Key(q) \in Int
  <2>1. TAG(p) \in Int /\ LEN(p) \in Nat /\ TAG(q) \in Int /\ LEN(q) \in Nat
    BY ObjectFacts
  <2>2. Key(p) \in Int /\ Key(q) \in Int
    BY KeyFacts, NumberFacts
  <2> QED
    BY <2>1, <2>2
<1>2. CASE TAG(p) # TAG(q)
  <2>1. TAG(p) - TAG(q) # 0
    BY <1>1, <1>2
  <2> QED
    BY <1>2, <2>1 DEF ObjectAnswer, Lex, Alike
<1>3. CASE TAG(p) = TAG(q) /\ TAG(p) = STRING_TAG
  <2>1. TAG(p) - TAG(q) = 0
    BY <1>1, <1>3
  <2>2. StringDifference(CString(p), CString(q)) = 0 <=> CString(p) = CString(q)
    BY <1>3, CStringIsText, StringsAreOrdered
  <2>3. heap[p].sexp = heap[q].sexp
    <3>1. TAG(p) = 1 /\ TAG(q) = 1 /\ SEXP_TAG = 5
      BY <1>3 DEF STRING_TAG, SEXP_TAG
    <3>2. heap[p].sexp = 0 /\ heap[q].sexp = 0
      BY <3>1, ObjectFacts
    <3> QED
      BY <3>2
  <2> QED
    BY <1>3, <2>1, <2>2, <2>3 DEF ObjectAnswer, Lex, Alike
<1>4. CASE TAG(p) = TAG(q) /\ TAG(p) # STRING_TAG
  <2> DEFINE v == UNBOX(CompareElements(c, p, q))
             n == LEN(p)
             E == ElementAnswers(c, p, q)
             Same == \A i \in 1 .. LEN(p) :
                       IF i < FirstElement(p) THEN heap[p].contents[i] = heap[q].contents[i]
                       ELSE a[heap[p].contents[i]][heap[q].contents[i]]
  <2>1. ObjectAnswer(c, p, q) = 0 <=> Key(p) = Key(q) /\ LEN(p) = LEN(q) /\ v = 0
    <3>1. TAG(p) - TAG(q) = 0
      BY <1>1, <1>4
    <3> HIDE DEF v
    <3>2. ObjectAnswer(c, p, q) = Lex(Lex(Key(p) - Key(q), LEN(p) - LEN(q)), v)
      BY <1>4, <3>1 DEF ObjectAnswer, Lex, v
    <3> QED
      BY <1>1, <3>2 DEF Lex
  <2>2. Alike(a, p, q) <=> heap[p].sexp = heap[q].sexp /\ LEN(p) = LEN(q) /\ Same
    BY <1>4 DEF Alike
  <2>3. ASSUME LEN(p) = LEN(q)
        PROVE  v = 0 <=> \A i \in 1 .. n : E[i] = 0
    <3> DEFINE m == Min({LEN(p), LEN(q)})
    <3>1. m = n
      BY <1>1, <2>3, MinOfTwo
    <3> HIDE DEF E
    <3>2. E \in [1 .. m -> Int] /\ CompareElements(c, p, q) \in Answer /\ IsFirst(E, m, v) /\ m \in Nat
      BY CompareElementsIs DEF E
    <3>3. v \in Int
      BY <3>2, AnswerFacts
    <3> HIDE DEF m, n, v
    <3> QED
      BY <3>1, <3>2, <3>3, FirstZero
  <2>4. ASSUME LEN(p) = LEN(q), NEW i \in 1 .. n
        PROVE  /\ E[i] = IF i < FirstElement(p) THEN 0
                         ELSE UNBOX(c[heap[p].contents[i]][heap[q].contents[i]])
               /\ ~(i < FirstElement(p)) =>
                    (E[i] = 0 <=> a[heap[p].contents[i]][heap[q].contents[i]])
    <3> DEFINE m == Min({LEN(p), LEN(q)})
    <3>1. m = n
      <4> HIDE DEF E
      <4>1. LEN(p) \in Int /\ LEN(q) \in Int /\ LEN(p) = LEN(q)
        BY <1>1, <2>4
      <4> QED
        BY <4>1, MinOfTwo
    <3>2. E[i] = IF i < FirstElement(p) THEN 0
                 ELSE UNBOX(c[heap[p].contents[i]][heap[q].contents[i]])
      <4>1. i \in 1 .. m
        BY <3>1
      <4> HIDE DEF m, n
      <4> QED
        BY <4>1 DEF ElementAnswers, m
    <3>3. ASSUME ~(i < FirstElement(p))
          PROVE  E[i] = 0 <=> a[heap[p].contents[i]][heap[q].contents[i]]
      <4> DEFINE x == heap[p].contents[i]
                 y == heap[q].contents[i]
      <4>1. FirstElement(p) = FirstElement(q) /\ FirstElement(p) \in Int
        BY <1>4, ElementFacts DEF FirstElement
      <4>2. i >= FirstElement(p) /\ i >= FirstElement(q) /\ i \in 1 .. LEN(q)
        BY <1>1, <2>4, <3>3, <4>1
      <4>3. x \in D /\ y \in D
        BY <1>4, <4>2 DEF Inside
      <4>4. UNBOX(c[x][y]) = 0 <=> a[x][y] = TRUE
        BY <4>3 DEF Tells
      <4>5. x \in Int /\ y \in Int
        BY <4>2, ObjectFacts
      <4>6. a[x][y] \in BOOLEAN
        BY <4>5
      <4> HIDE DEF x, y, E
      <4>7. E[i] = UNBOX(c[x][y])
        BY <3>2, <3>3 DEF x, y
      <4>8. E[i] = 0 <=> a[x][y]
        BY <4>4, <4>6, <4>7
      <4> QED
        BY <4>8 DEF x, y
    <3> HIDE DEF E
    <3> QED
      BY <3>2, <3>3
  <2>5. ASSUME LEN(p) = LEN(q)
        PROVE  Key(p) = Key(q) /\ (\A i \in 1 .. n : E[i] = 0) <=> heap[p].sexp = heap[q].sexp /\ Same
    <3>1. CASE TAG(p) = CLOSURE_TAG
      <4>1. /\ heap[p].sexp = heap[q].sexp
            /\ Key(p) = heap[p].contents[1] /\ Key(q) = heap[q].contents[1]
            /\ 1 \in 1 .. n /\ FirstElement(p) = 2
        <5>1. TAG(p) = 7 /\ SEXP_TAG = 5 /\ TAG(q) = TAG(p)
          BY <1>4, <3>1 DEF CLOSURE_TAG, SEXP_TAG
        <5>2. heap[p].sexp = heap[q].sexp
          BY <5>1, ObjectFacts
        <5>3. LEN(p) >= 1
          BY <3>1, ElementFacts
        <5> QED
          BY <1>1, <1>4, <3>1, <5>2, <5>3 DEF Key, FirstElement
      <4>2. \A i \in 1 .. n : i < 2 <=> i = 1
        OBVIOUS
      <4> HIDE DEF E, n
      <4> QED
        BY <2>4, <2>5, <4>1, <4>2 DEF n
    <3>2. CASE TAG(p) # CLOSURE_TAG
      <4>1. Key(p) = heap[p].sexp /\ Key(q) = heap[q].sexp /\ FirstElement(p) = 1
        BY <1>4, <3>2 DEF Key, FirstElement
      <4>2. \A i \in 1 .. n : ~(i < 1)
        OBVIOUS
      <4> HIDE DEF E, n
      <4> QED
        BY <2>4, <2>5, <4>1, <4>2 DEF n
    <3> QED
      BY <3>1, <3>2
  <2> HIDE DEF v, E, Same, n
  <2> QED
    BY <2>1, <2>2, <2>3, <2>5
<1> QED
  BY <1>2, <1>3, <1>4

\* One level of compare and of alike.
LEMMA TellsStep ==
  ASSUME TypeOK, NEW c \in Table, Reflects(c), NEW a, NEW D, Tells(c, a, D),
         \A x, y \in Int : a[x][y] \in BOOLEAN,
         NEW E \in SUBSET Value, \A p \in E : Inside(p, D), NEW p \in E, NEW q \in E
  PROVE  UNBOX(Compare(c, p, q)) = 0 <=> Alike(a, p, q)
<1>1. p \in Value /\ q \in Value /\ p \in Int /\ q \in Int
  BY NumberFacts
<1>2. CASE p = q
  <2>1. UNBOX(BOX(0)) = 0
    BY SmallBoxes DEF UNBOX
  <2>2. Compare(c, p, q) = BOX(0)
    BY <1>1, <1>2, CompareReflects
  <2>3. Alike(a, p, q)
    BY <1>2 DEF Alike
  <2> QED
    BY <2>1, <2>2, <2>3
<1>3. CASE p # q
  <2>0. UNBOX(Compare(c, p, q)) = Lex(RankSign(p, q), SameRank(c, p, q))
    BY <1>1, CompareIs
  <2>1. /\ Rank(p) \in {0, 1, 2} /\ Rank(q) \in {0, 1, 2}
        /\ Rank(p) = 0 <=> UNBOXED(p)
        /\ Rank(p) = 1 <=> p \in DOMAIN heap
        /\ Rank(q) = 0 <=> UNBOXED(q)
        /\ Rank(q) = 1 <=> q \in DOMAIN heap
        /\ UNBOXED(p) \in BOOLEAN /\ UNBOXED(q) \in BOOLEAN
    BY RankFacts
  <2>2. CASE Rank(p) # Rank(q)
    <3>1. RankSign(p, q) # 0
      BY <2>1, <2>2 DEF RankSign
    <3>2. ~Alike(a, p, q)
      BY <1>3, <2>1, <2>2 DEF Alike
    <3> QED
      BY <2>0, <3>1, <3>2 DEF Lex
  <2>3. CASE Rank(p) = Rank(q)
    <3>1. UNBOX(Compare(c, p, q)) = SameRank(c, p, q)
      <4>1. RankSign(p, q) = 0
        BY <2>1, <2>3 DEF RankSign
      <4> QED
        BY <2>0, <4>1 DEF Lex
    <3>2. CASE Rank(p) = 1
      <4>1. ObjectAnswer(c, p, q) = 0 <=> Alike(a, p, q)
        BY <1>3, <2>1, <2>3, <3>2, ObjectsTold
      <4> QED
        BY <3>1, <3>2, <4>1 DEF SameRank
    <3>3. CASE Rank(p) # 1
      <4>1. ~Alike(a, p, q)
        BY <1>3, <2>1, <3>3 DEF Alike
      <4>2. SameRank(c, p, q) # 0
        <5>1. UNBOXED(p) /\ UNBOXED(q) => UNBOX(p) - UNBOX(q) # 0
          BY <1>1, <1>3, ValuesDiffer
        <5>2. p - q # 0
          BY <1>1, <1>3
        <5> QED
          BY <2>1, <2>3, <3>3, <5>1, <5>2 DEF SameRank
      <4> QED
        BY <3>1, <4>1, <4>2
    <3> QED
      BY <3>2, <3>3
  <2> QED
    BY <2>2, <2>3
<1> QED
  BY <1>2, <1>3

\* However deep, zero is the answer for what is alike, of values less deep.
LEMMA CompareTells ==
  ASSUME TypeOK
  PROVE  \A n \in Nat : Tells(compare[n + 1], alike[n + 1], Shallow(n))
<1> DEFINE T == {n \in Nat : Tells(compare[n + 1], alike[n + 1], Shallow(n))}
<1>1. ASSUME NEW n \in Nat, NEW D, Tells(compare[n], alike[n], D),
             \A p \in Shallow(n) : Inside(p, D)
      PROVE  Tells(compare[n + 1], alike[n + 1], Shallow(n))
  <2>1. compare[n] \in Table /\ Reflects(compare[n]) /\ Shallow(n) \in SUBSET Value
    BY compareIs, CompareOrders DEF Shallow
  <2>2. \A x, y \in Int : alike[n][x][y] \in BOOLEAN
    BY alikeIs
  <2>3. ASSUME NEW p \in Shallow(n), NEW q \in Shallow(n)
        PROVE  UNBOX(compare[n + 1][p][q]) = 0 <=> alike[n + 1][p][q] = TRUE
    <3>1. p \in Int /\ q \in Int
      BY NumberFacts DEF Shallow
    <3>2. compare[n + 1][p][q] = Compare(compare[n], p, q)
      BY <3>1, compareIs
    <3>3. alike[n + 1][p][q] = Alike(alike[n], p, q)
      BY <3>1, alikeIs
    <3>4. UNBOX(Compare(compare[n], p, q)) = 0 <=> Alike(alike[n], p, q)
      BY <1>1, <2>1, <2>2, TellsStep
    <3>5. Alike(alike[n], p, q) \in BOOLEAN
      BY DEF Alike
    <3> QED
      BY <3>2, <3>3, <3>4, <3>5
  <2> QED
    BY <2>3 DEF Tells
<1>2. 0 \in T
  <2>1. Tells(compare[0], alike[0], {})
    BY DEF Tells
  <2>2. \A p \in Shallow(0) : Inside(p, {})
    BY ShallowInside
  <2> QED
    BY <1>1, <2>1, <2>2
<1>3. ASSUME NEW n \in Nat, n \in T PROVE n + 1 \in T
  <2>1. n + 1 \in Nat /\ \A p \in Shallow(n + 1) : Inside(p, Shallow(n))
    BY ShallowInside
  <2> QED
    BY <1>1, <1>3, <2>1
<1> HIDE DEF T
<1>4. Nat \subseteq T
  BY <1>2, <1>3, Induction
<1> QED
  BY <1>4 DEF T

\* The heap has a number of objects.
LEMMA CountTyped == ASSUME TypeOK PROVE Cardinality(DOMAIN heap) \in Nat
  BY FS_CardinalityType DEF TypeOK, IsHeap

\* A value that is not cyclic is less deep than the heap has objects, so that the
\* answers of Lcompare are those of an order.
LEMMA TypedOrder == TypeOK => CompareIsLinear
<1> SUFFICES ASSUME TypeOK PROVE CompareIsLinear
  OBVIOUS
<1> DEFINE N == Cardinality(DOMAIN heap)
           A(p, q) == UNBOX(Lcompare(p, q))
<1>1. N \in Nat
  BY CountTyped
<1>2. \A p, q : Lcompare(p, q) = compare[N + 1][p][q] /\ SameStructure(p, q) = alike[N + 1][p][q]
  BY DEF Lcompare, SameStructure
<1>3. \A p \in Comparable : p \in Shallow(N) /\ p \in Int
  <2>1. ASSUME NEW p \in Comparable PROVE p \in Shallow(N) /\ p \in Int
    <3>1. p \in Value /\ p \notin Deep[N]
      BY ValuesAssumption DEF Comparable, Cyclic
    <3> QED
      BY <3>1, NumberFacts DEF Shallow
  <2> QED
    BY <2>1
<1> HIDE DEF N
<1>4. /\ compare[N + 1] \in Table
      /\ Orders(compare[N + 1], Shallow(N)) /\ Tells(compare[N + 1], alike[N + 1], Shallow(N))
      /\ \A p, q \in Int : alike[N + 1][p][q] \in BOOLEAN
  <2>1. N + 1 \in Nat
    BY <1>1
  <2>2. compare[N + 1] \in Table /\ \A p, q \in Int : alike[N + 1][p][q] \in BOOLEAN
    BY <2>1, compareIs, alikeIs
  <2>3. Orders(compare[N + 1], Shallow(N)) /\ Tells(compare[N + 1], alike[N + 1], Shallow(N))
    BY <1>1, CompareOrders, CompareTells
  <2> QED
    BY <2>2, <2>3
<1>5. ASSUME NEW p \in Comparable, NEW q \in Comparable
      PROVE  /\ Lcompare(p, q) \in Answer /\ A(p, q) \in Int
             /\ Lcompare(p, q) = BOX(0) <=> A(p, q) = 0
             /\ Lcompare(p, q) = BOX(0) <=> SameStructure(p, q)
             /\ Opposite(A(p, q), A(q, p))
  <2>1. p \in Shallow(N) /\ p \in Int /\ q \in Shallow(N) /\ q \in Int
    BY <1>3
  <2>2. Lcompare(p, q) \in Answer
    BY <1>2, <1>4, <2>1 DEF Table
  <2>3. A(p, q) \in Int /\ (Lcompare(p, q) = BOX(0) <=> A(p, q) = 0)
    BY <2>2, AnswerFacts
  <2>4. A(p, q) = 0 <=> alike[N + 1][p][q] = TRUE
    BY <1>2, <1>4, <2>1 DEF Tells
  <2>5. alike[N + 1][p][q] \in BOOLEAN
    BY <1>4, <2>1
  <2>6. Opposite(A(p, q), A(q, p))
    BY <1>2, <1>4, <2>1 DEF Orders
  <2>7. Lcompare(p, q) = BOX(0) <=> SameStructure(p, q)
    <3>1. SameStructure(p, q) = alike[N + 1][p][q]
      BY <1>2
    <3> HIDE DEF A
    <3>2. SameStructure(p, q) <=> alike[N + 1][p][q] = TRUE
      BY <2>5, <3>1
    <3> QED
      BY <2>3, <2>4, <3>2
  <2> QED
    BY <2>2, <2>3, <2>6, <2>7
<1>6. ASSUME NEW p \in Comparable, NEW q \in Comparable, NEW r \in Comparable
      PROVE  Follows(A(p, q), A(q, r), A(p, r))
  BY <1>2, <1>3, <1>4 DEF Orders
<1>7. ASSUME NEW p \in Comparable, NEW q \in Comparable
      PROVE  Negative(Lcompare(p, q)) <=> Positive(Lcompare(q, p))
  <2>1. Opposite(A(p, q), A(q, p))
    BY <1>5
  <2> QED
    BY <2>1 DEF Opposite, Negative, Positive
<1>8. ASSUME NEW p \in Comparable, NEW q \in Comparable, NEW r \in Comparable,
             ~Positive(Lcompare(p, q)), ~Positive(Lcompare(q, r))
      PROVE  ~Positive(Lcompare(p, r))
  <2>1. A(p, q) \in Int /\ A(q, r) \in Int /\ A(p, r) \in Int
    BY <1>5
  <2>2. ~(A(p, q) > 0) /\ ~(A(q, r) > 0)
    BY <1>8 DEF Positive
  <2>3. Follows(A(p, q), A(q, r), A(p, r))
    BY <1>6
  <2>4. Positive(Lcompare(p, r)) <=> A(p, r) > 0
    BY DEF Positive
  <2> HIDE DEF A
  <2>5. A(p, r) <= 0
    BY <2>1, <2>2, <2>3 DEF Follows
  <2> QED
    BY <2>1, <2>4, <2>5
<1> QED
  BY <1>5, <1>7, <1>8 DEF CompareIsLinear

\* The addresses of objects are values.
LEMMA AddressesAreValues == ASSUME TypeOK, NEW p \in DOMAIN heap PROVE p \in Value
<1>1. p \in Int /\ 0 <= p /\ p < Modulus \div 4 /\ Modulus \div 4 \in Nat
  BY ObjectFacts, NumberFacts, ModulusFacts
<1> QED
  BY <1>1 DEF Value

\* What compare says of two objects.
LEMMA LcompareOfObjects ==
  ASSUME TypeOK, NEW x \in DOMAIN heap, NEW y \in DOMAIN heap
  PROVE  \E c \in Table : Lcompare(x, y) = BOX(0) <=> ObjectAnswer(c, x, y) = 0
<1> DEFINE N == Cardinality(DOMAIN heap)
<1>1. N \in Nat
  BY CountTyped
<1>2. Lcompare(x, y) = compare[N + 1][x][y]
  BY DEF Lcompare
<1> HIDE DEF N
<1>3. compare[N] \in Table /\ Reflects(compare[N])
  BY <1>1, compareIs, CompareOrders
<1>4. x \in Value /\ y \in Value /\ x \in Int /\ y \in Int
  BY AddressesAreValues, NumberFacts
<1>5. Lcompare(x, y) = Compare(compare[N], x, y)
  BY <1>1, <1>2, <1>4, compareIs
<1>6. UNBOX(Compare(compare[N], x, y)) = ObjectAnswer(compare[N], x, y)
  <2>1. Rank(x) = 1 /\ Rank(y) = 1
    BY RankFacts
  <2>2. UNBOX(Compare(compare[N], x, y)) = Lex(RankSign(x, y), SameRank(compare[N], x, y))
    BY <1>3, <1>4, CompareIs
  <2> QED
    BY <2>1, <2>2 DEF Lex, RankSign, SameRank
<1>7. Compare(compare[N], x, y) = BOX(0) <=> UNBOX(Compare(compare[N], x, y)) = 0
  BY <1>3, <1>4, CompareTyped, AnswerFacts
<1> QED
  BY <1>3, <1>5, <1>6, <1>7

\* The tests against compare, kind by kind.
LEMMA TypedPatterns == TypeOK => PatternsFollowCompare
<1> SUFFICES ASSUME TypeOK PROVE PatternsFollowCompare
  OBVIOUS
<1>1. ASSUME NEW x \in DOMAIN heap \union {w \in Words : UNBOXED(w)}
      PROVE  LET tests == <<Bunboxed_patt(x), Bstring_tag_patt(x), Barray_tag_patt(x),
                            Bsexp_tag_patt(x), Bclosure_tag_patt(x)>>
                 kinds == <<UNBOXED_TAG, STRING_TAG, ARRAY_TAG, SEXP_TAG, CLOSURE_TAG>>
             IN /\ \A i \in 1 .. 5 : tests[i] = Bool(LkindOf(x) = kinds[i])
                /\ Bboxed_patt(x) # Bunboxed_patt(x)
  <2>1. UNBOXED(x) \in BOOLEAN /\ (~UNBOXED(x) => TAG(x) \in {1, 3, 5, 7})
    <3>1. UNBOXED(x) \in BOOLEAN
      BY DEF UNBOXED
    <3>2. ~UNBOXED(x) => x \in DOMAIN heap
      OBVIOUS
    <3> QED
      BY <3>1, <3>2, ObjectFacts
  <2>2. STRING_TAG = 1 /\ ARRAY_TAG = 3 /\ SEXP_TAG = 5 /\ CLOSURE_TAG = 7 /\ UNBOXED_TAG = 9
    BY DEF STRING_TAG, ARRAY_TAG, SEXP_TAG, CLOSURE_TAG, UNBOXED_TAG
  <2>3. /\ Bunboxed_patt(x) = Bool(LkindOf(x) = UNBOXED_TAG)
        /\ Bboxed_patt(x) # Bunboxed_patt(x)
    <3>1. LkindOf(x) = UNBOXED_TAG <=> UNBOXED(x)
      BY <2>1, <2>2 DEF LkindOf
    <3>2. Bool(LkindOf(x) = UNBOXED_TAG) = Bool(UNBOXED(x))
      BY <2>1, <3>1, BoolAgree
    <3>3. Bool(UNBOXED(x)) # Bool(~UNBOXED(x))
      <4>1. CASE UNBOXED(x)
        <5>1. Bool(UNBOXED(x)) = 3 /\ Bool(~UNBOXED(x)) = 1
          BY <4>1, SmallBoxes DEF Bool
        <5> QED
          BY <5>1
      <4>2. CASE ~UNBOXED(x)
        <5>1. Bool(UNBOXED(x)) = 1 /\ Bool(~UNBOXED(x)) = 3
          BY <4>2, SmallBoxes DEF Bool
        <5> QED
          BY <5>1
      <4> QED
        BY <4>1, <4>2
    <3> QED
      BY <3>2, <3>3 DEF Bunboxed_patt, Bboxed_patt
  <2>4. ASSUME NEW t \in {1, 3, 5, 7} PROVE HasTag(x, t) = Bool(LkindOf(x) = t)
    <3>1. LkindOf(x) = t <=> ~UNBOXED(x) /\ TAG(x) = t
      BY <2>1, <2>2 DEF LkindOf
    <3> QED
      BY <3>1 DEF HasTag, Bool
  <2>5. /\ Bstring_tag_patt(x) = Bool(LkindOf(x) = STRING_TAG)
        /\ Barray_tag_patt(x) = Bool(LkindOf(x) = ARRAY_TAG)
        /\ Bsexp_tag_patt(x) = Bool(LkindOf(x) = SEXP_TAG)
        /\ Bclosure_tag_patt(x) = Bool(LkindOf(x) = CLOSURE_TAG)
    BY <2>2, <2>4 DEF Bstring_tag_patt, Barray_tag_patt, Bsexp_tag_patt, Bclosure_tag_patt
  <2>6. \A i \in 1 .. 5 : i = 1 \/ i = 2 \/ i = 3 \/ i = 4 \/ i = 5
    OBVIOUS
  <2> QED
    BY <2>3, <2>5, <2>6
<1>2. ASSUME NEW x \in DOMAIN heap, NEW y \in DOMAIN heap, TAG(y) = STRING_TAG
      PROVE  Bstring_patt(x, y) = Bool(Lcompare(x, y) = BOX(0))
  <2>1. PICK c \in Table : Lcompare(x, y) = BOX(0) <=> ObjectAnswer(c, x, y) = 0
    BY LcompareOfObjects
  <2>2. TAG(x) \in Int /\ TAG(y) \in Int /\ ~UNBOXED(x)
    BY ObjectFacts
  <2>3. strcmp(x, y) = StringDifference(CString(x), CString(y))
    BY strcmpOfTexts
  <2>4. ObjectAnswer(c, x, y) = 0 <=> TAG(x) = STRING_TAG /\ strcmp(x, y) = 0
    <3>1. CASE TAG(x) = TAG(y)
      <4>1. TAG(x) - TAG(y) = 0
        BY <2>2, <3>1
      <4> QED
        BY <1>2, <2>3, <3>1, <4>1 DEF ObjectAnswer, Lex
    <3>2. CASE TAG(x) # TAG(y)
      <4>1. TAG(x) - TAG(y) # 0
        BY <2>2, <3>2
      <4> QED
        BY <1>2, <3>2, <4>1 DEF ObjectAnswer, Lex
    <3> QED
      BY <3>1, <3>2
  <2> QED
    BY <2>1, <2>2, <2>4 DEF Bstring_patt, Bool
<1>3. ASSUME NEW x \in DOMAIN heap, NEW y \in DOMAIN heap, TAG(x) = SEXP_TAG, TAG(y) = SEXP_TAG
      PROVE  LcompareTags(x, y) = BOX(0) <=>
               \E n \in 0 .. LEN(x) : Btag(x, BOX(heap[y].sexp), BOX(n)) = Bool(TRUE)
  <2>1. /\ heap[x].sexp \in Number /\ heap[y].sexp \in Number /\ heap[x].sexp \in Int
        /\ heap[y].sexp \in Int /\ LEN(x) \in Nat /\ LEN(x) \in Number /\ ~UNBOXED(x)
    BY ObjectFacts, NumberFacts
  <2>2. LcompareTags(x, y) = BOX(0) <=> heap[x].sexp = heap[y].sexp
    <3>1. /\ UNBOX(Difference(heap[x].sexp, heap[y].sexp)) = heap[x].sexp - heap[y].sexp
          /\ Difference(heap[x].sexp, heap[y].sexp) \in Answer
      BY <2>1, NumbersDiffer
    <3>2. Difference(heap[x].sexp, heap[y].sexp) = BOX(0) <=> heap[x].sexp - heap[y].sexp = 0
      BY <3>1, AnswerFacts
    <3> QED
      BY <2>1, <3>2 DEF LcompareTags
  <2>3. \A n \in Number : UNBOX(BOX(n)) = n
    <3>1. ASSUME NEW n \in Number PROVE UNBOX(BOX(n)) = n
      <4>1. n \in Int /\ -(Modulus \div 4) <= n /\ n < Modulus \div 4
        BY NumberFacts, ModulusFacts
      <4> QED
        BY <4>1, UnboxBox
    <3> QED
      BY <3>1
  <2>4. ASSUME heap[x].sexp = heap[y].sexp
        PROVE  \E n \in 0 .. LEN(x) : Btag(x, BOX(heap[y].sexp), BOX(n)) = Bool(TRUE)
    <3>1. LEN(x) \in 0 .. LEN(x)
      BY <2>1
    <3>2. UNBOX(BOX(LEN(x))) = LEN(x) /\ UNBOX(BOX(heap[y].sexp)) = heap[y].sexp
      BY <2>1, <2>3
    <3>3. Btag(x, BOX(heap[y].sexp), BOX(LEN(x))) = Bool(TRUE)
      BY <1>3, <2>1, <2>4, <3>2 DEF Btag, Bool
    <3> QED
      BY <3>1, <3>3
  <2>5. ASSUME NEW n \in 0 .. LEN(x), Btag(x, BOX(heap[y].sexp), BOX(n)) = Bool(TRUE)
        PROVE  heap[x].sexp = heap[y].sexp
    <3> SUFFICES ASSUME heap[x].sexp # heap[y].sexp PROVE FALSE
      OBVIOUS
    <3>1. UNBOX(BOX(heap[y].sexp)) = heap[y].sexp
      BY <2>1, <2>3
    <3>2. Btag(x, BOX(heap[y].sexp), BOX(n)) = 1
      BY <3>1, SmallBoxes DEF Btag, Bool
    <3>3. Btag(x, BOX(heap[y].sexp), BOX(n)) = BOX(1)
      BY <2>5 DEF Bool
    <3> QED
      BY <3>2, <3>3, SmallBoxes
  <2> QED
    BY <2>2, <2>4, <2>5
<1>4. ASSUME NEW x \in DOMAIN heap, NEW y \in DOMAIN heap,
             TAG(y) = ARRAY_TAG, LEN(y) = 0, Barray_patt(x, BOX(0)) = Bool(TRUE)
      PROVE  Lcompare(x, y) = BOX(0)
  <2>1. PICK c \in Table : Lcompare(x, y) = BOX(0) <=> ObjectAnswer(c, x, y) = 0
    BY LcompareOfObjects
  <2>2. /\ TAG(x) \in Int /\ TAG(y) \in Int /\ LEN(x) \in Nat /\ LEN(y) \in Nat
        /\ UNBOX(BOX(0)) = 0
    <3>1. TAG(x) \in Int /\ TAG(y) \in Int /\ LEN(x) \in Nat /\ LEN(y) \in Nat
      BY ObjectFacts
    <3>2. UNBOX(BOX(0)) = 0
      BY SmallBoxes DEF UNBOX
    <3> QED
      BY <3>1, <3>2
  <2>3. TAG(x) = ARRAY_TAG /\ LEN(x) = 0
    <3> SUFFICES ASSUME ~(TAG(x) = ARRAY_TAG /\ LEN(x) = 0) PROVE FALSE
      OBVIOUS
    <3>1. Barray_patt(x, BOX(0)) = 1
      BY <2>2, SmallBoxes DEF Barray_patt, Bool
    <3>2. Barray_patt(x, BOX(0)) = BOX(1)
      BY <1>4 DEF Bool
    <3> QED
      BY <3>1, <3>2, SmallBoxes
  <2>4. UNBOX(CompareElements(c, x, y)) = 0
    <3> DEFINE n == Min({LEN(x), LEN(y)})
               E == ElementAnswers(c, x, y)
               v == UNBOX(CompareElements(c, x, y))
    <3>0. n = 0
      <4>1. LEN(x) \in Int /\ LEN(y) \in Int /\ LEN(x) = 0 /\ LEN(y) = 0
        BY <1>4, <2>2, <2>3
      <4> QED
        BY <4>1, MinOfTwo
    <3> HIDE DEF E, v
    <3>1. IsFirst(E, n, v)
      BY CompareElementsIs DEF E, v
    <3> HIDE DEF n
    <3>2. v = 0
      BY <3>0, <3>1 DEF IsFirst
    <3> QED
      BY <3>2 DEF v
  <2>5. Key(x) = 0 /\ Key(y) = 0
    <3>1. TAG(x) = 3 /\ TAG(y) = 3 /\ SEXP_TAG = 5 /\ CLOSURE_TAG = 7
      BY <1>4, <2>3 DEF ARRAY_TAG, SEXP_TAG, CLOSURE_TAG
    <3>2. heap[x].sexp = 0 /\ heap[y].sexp = 0
      BY <3>1, ObjectFacts
    <3> QED
      BY <3>1, <3>2 DEF Key
  <2>6. TAG(x) # STRING_TAG /\ TAG(x) - TAG(y) = 0 /\ Key(x) - Key(y) = 0 /\ LEN(x) - LEN(y) = 0
    BY <1>4, <2>2, <2>3, <2>5 DEF STRING_TAG, ARRAY_TAG
  <2>7. ObjectAnswer(c, x, y) = 0
    BY <2>4, <2>6 DEF ObjectAnswer, Lex
  <2> QED
    BY <2>1, <2>7
<1> QED
  BY <1>1, <1>2, <1>3, <1>4 DEF PatternsFollowCompare

-----------------------------------------------------------------------------
(***************************************************************************)
(* Hashing.                                                                *)
(***************************************************************************)

\* Hash functions, by value and what is hashed already.
HashTable == [Int -> [Nat -> Nat]]

\* Equal steps carry a base to equal ends.
LEMMA FoldedUnique ==
  ASSUME NEW S, NEW base \in S, NEW n \in Nat, NEW step \in [1 .. n -> [S -> S]],
         NEW v, NEW w, Folded(v, S, base, n, step), Folded(w, S, base, n, step)
  PROVE  v = w
<1> DEFINE next == [k \in Nat |-> IF k < n THEN step[k + 1] ELSE [a \in S |-> a]]
<1>1. next \in [Nat -> [S -> S]]
  <2>1. ASSUME NEW k \in Nat, k < n PROVE step[k + 1] \in [S -> S]
    <3>1. k + 1 \in 1 .. n
      BY <2>1
    <3> QED
      BY <3>1
  <2> QED
    BY <2>1
<1>2. PICK f : Recurses(f, S, base, next)
  <2> HIDE DEF next
  <2> QED
    BY <1>1, RecursionExists
<1>3. f \in [Nat -> S] /\ f[0] = base /\ \A k \in Nat : f[k + 1] = next[k][f[k]]
  BY <1>2 DEF Recurses
<1> DEFINE acc == [k \in 0 .. n |-> f[k]]
<1>4. acc \in [0 .. n -> S] /\ acc[0] = base
  BY <1>3
<1>5. ASSUME NEW k \in 1 .. n PROVE acc[k] = step[k][acc[k - 1]]
  <2>1. k - 1 \in Nat /\ (k - 1) + 1 = k /\ k - 1 < n /\ k \in 0 .. n /\ k - 1 \in 0 .. n
    OBVIOUS
  <2>2. f[(k - 1) + 1] = next[k - 1][f[k - 1]]
    BY <1>3, <2>1
  <2>3. next[k - 1] = step[(k - 1) + 1]
    BY <2>1
  <2> QED
    BY <2>1, <2>2, <2>3
<1> HIDE DEF acc
<1>6. v = acc[n] /\ w = acc[n]
  BY <1>4, <1>5 DEF Folded
<1> QED
  BY <1>6

\* Elements that hash alike, one by one, do as a sequence.
LEMMA ElementsHashAlike ==
  ASSUME NEW inner \in HashTable, NEW c \in Seq(Int), NEW e \in Seq(Int), NEW base \in Nat,
         Len(c) = Len(e), \A k \in 1 .. Len(c) : inner[c[k]] = inner[e[k]]
  PROVE  /\ HashElements(inner, base, c) \in Nat
         /\ HashElements(inner, base, c) = HashElements(inner, base, e)
<1> DEFINE n == Len(c)
           step == [k \in 1 .. n |-> [a \in Nat |-> inner[c[k]][a]]]
           also == [k \in 1 .. n |-> [a \in Nat |-> inner[e[k]][a]]]
<1>1. n \in Nat /\ n = Len(c) /\ n = Len(e) /\ inner \in [Int -> [Nat -> Nat]]
  BY LenProperties DEF HashTable
<1>2. step = also
  OBVIOUS
<1>3. step \in [1 .. n -> [Nat -> Nat]]
  <2>1. ASSUME NEW k \in 1 .. n, NEW a \in Nat PROVE inner[c[k]][a] \in Nat
    <3>1. c[k] \in Int
      BY ElementOfSeq
    <3> QED
      BY <1>1, <3>1
  <2> HIDE DEF n
  <2> QED
    BY <2>1
<1>4. Folded(HashElements(inner, base, c), Nat, base, n, step)
  <2> HIDE DEF n
  <2> QED
    BY <1>1, HashElementsFold
<1>5. Folded(HashElements(inner, base, e), Nat, base, n, also)
  <2> HIDE DEF n
  <2> QED
    BY <1>1, HashElementsFold
<1> HIDE DEF step, also, n
<1>6. HashElements(inner, base, c) = HashElements(inner, base, e)
  BY <1>1, <1>2, <1>3, <1>4, <1>5, FoldedUnique
<1> QED
  BY <1>4, <1>6 DEF Folded

\* The elements of an object that are hashed as values.
Elements(p) == IF TAG(p) = CLOSURE_TAG THEN Tail(heap[p].contents) ELSE heap[p].contents

\* They are the elements that compare looks at.
LEMMA ElementsAre ==
  ASSUME TypeOK, NEW p \in DOMAIN heap
  PROVE  /\ Elements(p) \in Seq(Int) /\ Len(Elements(p)) \in Nat
         /\ Len(Elements(p)) = LEN(p) + 1 - FirstElement(p)
         /\ \A k \in 1 .. Len(Elements(p)) :
              Elements(p)[k] = heap[p].contents[k + FirstElement(p) - 1]
<1>1. heap[p].contents \in Seq(Int) /\ LEN(p) = Len(heap[p].contents) /\ LEN(p) \in Nat
  BY ObjectFacts DEF LEN
<1> DEFINE c == heap[p].contents
<1>2. CASE TAG(p) = CLOSURE_TAG
  <2>1. FirstElement(p) = 2 /\ Elements(p) = Tail(c) /\ LEN(p) >= 1
    BY <1>2, ElementFacts DEF FirstElement, Elements
  <2>2. c # <<>>
    <3> SUFFICES ASSUME c = <<>> PROVE FALSE
      OBVIOUS
    <3>1. Len(c) = 0
      BY EmptySeq
    <3> QED
      BY <1>1, <2>1, <3>1
  <2> HIDE DEF c
  <2>3. /\ Tail(c) \in Seq(Int) /\ Len(Tail(c)) = Len(c) - 1
        /\ \A i \in 1 .. Len(Tail(c)) : Tail(c)[i] = c[i + 1]
    BY <1>1, <2>2, HeadTailProperties DEF c
  <2>4. \A i \in 1 .. Len(Tail(c)) : i + 2 - 1 = i + 1
    OBVIOUS
  <2>5. Len(c) = LEN(p)
    BY <1>1 DEF c
  <2>6. Len(Elements(p)) = LEN(p) + 1 - FirstElement(p) /\ Len(Elements(p)) \in Nat
    BY <1>1, <2>1, <2>3, <2>5
  <2> QED
    BY <2>1, <2>3, <2>4, <2>6 DEF c
<1>3. CASE TAG(p) # CLOSURE_TAG
  <2>1. FirstElement(p) = 1 /\ Elements(p) = c
    BY <1>3 DEF FirstElement, Elements
  <2>2. \A i \in 1 .. Len(c) : i + 1 - 1 = i
    OBVIOUS
  <2> HIDE DEF c
  <2>3. c \in Seq(Int) /\ Len(c) = LEN(p)
    BY <1>1 DEF c
  <2> QED
    BY <1>1, <2>1, <2>2, <2>3 DEF c
<1> QED
  BY <1>2, <1>3

\* What of an object is hashed before its elements.
Prefix(acc, p) ==
  LET start == HASH_APPEND(HASH_APPEND(acc, TAG(p)), LEN(p)) IN
  IF TAG(p) \in {ARRAY_TAG, STRING_TAG} THEN start ELSE HASH_APPEND(start, Key(p))

\* An object's hash: the prefix, then its characters or elements.
LEMMA HashObjectIs ==
  ASSUME TypeOK, NEW inner \in HashTable, NEW acc \in Nat, NEW p \in DOMAIN heap
  PROVE  /\ Prefix(acc, p) \in Nat
         /\ HashObject(inner, acc, p)
              = IF TAG(p) = STRING_TAG THEN FoldLeft(HASH_APPEND, Prefix(acc, p), CString(p))
                ELSE HashElements(inner, Prefix(acc, p), Elements(p))
         /\ HashObject(inner, acc, p) \in Nat
<1>1. TAG(p) \in {1, 3, 5, 7} /\ TAG(p) \in Int /\ LEN(p) \in Int /\ Key(p) \in Int
  <2>1. TAG(p) \in {1, 3, 5, 7} /\ LEN(p) \in Nat
    BY ObjectFacts
  <2>2. Key(p) \in Int
    BY KeyFacts, NumberFacts
  <2> QED
    BY <2>1, <2>2
<1>2. STRING_TAG = 1 /\ ARRAY_TAG = 3 /\ SEXP_TAG = 5 /\ CLOSURE_TAG = 7
  BY DEF STRING_TAG, ARRAY_TAG, SEXP_TAG, CLOSURE_TAG
<1>3. Prefix(acc, p) \in Nat
  <2> DEFINE a == HASH_APPEND(acc, TAG(p))
             b == HASH_APPEND(a, LEN(p))
  <2>0. acc \in Int
    OBVIOUS
  <2>1. a \in Nat
    BY <1>1, <2>0, HashAppendTyped
  <2> HIDE DEF a
  <2>2. b \in Nat
    <3>1. a \in Int
      BY <2>1
    <3> QED
      BY <1>1, <3>1, HashAppendTyped
  <2> HIDE DEF b
  <2>3. HASH_APPEND(b, Key(p)) \in Nat
    <3>1. b \in Int
      BY <2>2
    <3> QED
      BY <1>1, <3>1, HashAppendTyped
  <2> QED
    BY <2>2, <2>3 DEF Prefix, a, b
<1>4. HashObject(inner, acc, p)
        = IF TAG(p) = STRING_TAG THEN FoldLeft(HASH_APPEND, Prefix(acc, p), CString(p))
          ELSE HashElements(inner, Prefix(acc, p), Elements(p))
  <2>1. CASE TAG(p) = 1
    BY <1>2, <2>1 DEF HashObject, Prefix
  <2>2. CASE TAG(p) = 3
    BY <1>2, <2>2 DEF HashObject, Prefix, Elements
  <2>3. CASE TAG(p) = 5
    BY <1>2, <2>3 DEF HashObject, Prefix, Elements, Key
  <2>4. CASE TAG(p) = 7
    BY <1>2, <2>4 DEF HashObject, Prefix, Elements, Key
  <2> QED
    BY <1>1, <2>1, <2>2, <2>3, <2>4
<1>5. TAG(p) = STRING_TAG => FoldLeft(HASH_APPEND, Prefix(acc, p), CString(p)) \in Nat
  <2> SUFFICES ASSUME TAG(p) = STRING_TAG
               PROVE  FoldLeft(HASH_APPEND, Prefix(acc, p), CString(p)) \in Nat
    OBVIOUS
  <2>1. CString(p) \in Seq(Int) /\ Len(CString(p)) \in Nat
    BY CStringIsText, TextFacts
  <2> QED
    BY <1>3, <2>1, StringHashTyped
<1>6. HashElements(inner, Prefix(acc, p), Elements(p)) \in Nat
  <2>1. Elements(p) \in Seq(Int)
    BY ElementsAre
  <2> QED
    BY <1>3, <2>1, ElementsHashAlike
<1> QED
  BY <1>3, <1>4, <1>5, <1>6

\* Hash answers a natural number.
LEMMA HashTyped ==
  ASSUME TypeOK, NEW inner \in HashTable, NEW acc \in Nat, NEW p \in Int
  PROVE  Hash(inner, acc, p) \in Nat
<1>1. UNBOX(p) \in Int /\ acc \in Int
  BY DEF UNBOX
<1>2. HASH_APPEND(acc, UNBOX(p)) \in Nat /\ HASH_APPEND(acc, p) \in Nat
  BY <1>1, HashAppendTyped
<1>3. p \in DOMAIN heap => HashObject(inner, acc, p) \in Nat
  BY HashObjectIs
<1> QED
  BY <1>2, <1>3 DEF Hash, is_valid_heap_pointer

\* The recursion that defines inner_hash.
LEMMA inner_hashIs ==
  ASSUME TypeOK, NEW d \in Nat
  PROVE  /\ inner_hash[d] \in HashTable
         /\ \A p \in Int, acc \in Nat : inner_hash[0][p][acc] = acc
         /\ \A p \in Int, acc \in Nat : inner_hash[d + 1][p][acc] = Hash(inner_hash[d], acc, p)
<1> DEFINE first == [p \in Int |-> [acc \in Nat |-> acc]]
           turn(c) == [p \in Int |-> [acc \in Nat |-> Hash(c, acc, p)]]
           step == [k \in Nat |-> [c \in HashTable |-> turn(c)]]
           Is(f) == f = [n \in Nat |-> [p \in Int |-> [acc \in Nat |->
                           IF n = 0 THEN acc ELSE Hash(f[n - 1], acc, p)]]]
<1>0. ASSUME NEW c \in HashTable PROVE turn(c) \in HashTable
  BY HashTyped DEF HashTable
<1>1. first \in HashTable /\ step \in [Nat -> [HashTable -> HashTable]]
  <2>1. first \in HashTable
    BY DEF HashTable
  <2> HIDE DEF turn
  <2> QED
    BY <1>0, <2>1
<1>2. \E f : Is(f)
  <2>1. PICK f : Recurses(f, HashTable, first, step)
    <3> HIDE DEF first, step
    <3> QED
      BY <1>1, RecursionExists
  <2>2. f \in [Nat -> HashTable]
    BY <2>1 DEF Recurses
  <2>3. f = [n \in Nat |-> IF n = 0 THEN first ELSE step[n - 1][f[n - 1]]]
    <3> HIDE DEF first, step
    <3> QED
      BY <2>1, RecursionIs
  <2>4. ASSUME NEW n \in Nat
        PROVE  f[n] = [p \in Int |-> [acc \in Nat |->
                         IF n = 0 THEN acc ELSE Hash(f[n - 1], acc, p)]]
    <3>1. CASE n = 0
      <4>1. f[n] = first
        <5> HIDE DEF first, step
        <5> QED
          BY <2>3, <3>1
      <4> QED
        BY <3>1, <4>1
    <3>2. CASE n # 0
      <4>1. n - 1 \in Nat
        BY <3>2
      <4>2. f[n] = step[n - 1][f[n - 1]]
        <5> HIDE DEF first, step
        <5> QED
          BY <2>3, <3>2
      <4>3. step[n - 1][f[n - 1]] = turn(f[n - 1])
        <5>1. f[n - 1] \in HashTable
          BY <2>2, <4>1
        <5> HIDE DEF turn
        <5> QED
          BY <4>1, <5>1
      <4> HIDE DEF step
      <4> QED
        BY <3>2, <4>2, <4>3
    <3> QED
      BY <3>1, <3>2
  <2>5. Is(f)
    <3>1. f = [n \in Nat |-> f[n]]
      BY <2>2
    <3> HIDE DEF step, first, turn
    <3> QED
      BY <2>4, <3>1
  <2> HIDE DEF Is
  <2> QED
    BY <2>5
<1>3. inner_hash = CHOOSE f : Is(f)
  BY DEF inner_hash
<1>4. Is(inner_hash)
  <2> HIDE DEF Is
  <2> QED
    BY <1>2, <1>3
<1>5. \A n \in Nat : inner_hash[n] = [p \in Int |-> [acc \in Nat |->
                        IF n = 0 THEN acc ELSE Hash(inner_hash[n - 1], acc, p)]]
  BY <1>4
<1>6. inner_hash[0] = first
  <2>1. inner_hash[0] = [p \in Int |-> [acc \in Nat |->
                           IF 0 = 0 THEN acc ELSE Hash(inner_hash[0 - 1], acc, p)]]
    BY <1>5
  <2> QED
    BY <2>1, Zenon
<1>7. ASSUME NEW n \in Nat PROVE inner_hash[n + 1] = turn(inner_hash[n])
  <2>1. n + 1 \in Nat /\ n + 1 # 0 /\ (n + 1) - 1 = n
    OBVIOUS
  <2>2. inner_hash[n + 1] = [p \in Int |-> [acc \in Nat |->
                               IF n + 1 = 0 THEN acc ELSE Hash(inner_hash[(n + 1) - 1], acc, p)]]
    BY <1>5, <2>1
  <2> QED
    BY <2>1, <2>2
<1> DEFINE T == {n \in Nat : inner_hash[n] \in HashTable}
<1>8. 0 \in T
  <2> HIDE DEF first
  <2> QED
    BY <1>1, <1>6
<1>9. ASSUME NEW n \in Nat, n \in T PROVE n + 1 \in T
  <2>1. inner_hash[n] \in HashTable
    BY <1>9
  <2>2. inner_hash[n + 1] \in HashTable
    <3> HIDE DEF turn
    <3> QED
      BY <1>0, <1>7, <2>1
  <2> QED
    BY <2>2
<1> HIDE DEF T
<1>10. Nat \subseteq T
  BY <1>8, <1>9, Induction
<1>11. inner_hash[d] \in HashTable
  BY <1>10 DEF T
<1>12. \A p \in Int, acc \in Nat : inner_hash[0][p][acc] = acc
  BY <1>6
<1>13. \A p \in Int, acc \in Nat : inner_hash[d + 1][p][acc] = Hash(inner_hash[d], acc, p)
  <2>1. inner_hash[d + 1] = turn(inner_hash[d])
    BY <1>7
  <2> QED
    BY <2>1
<1> QED
  BY <1>11, <1>12, <1>13

\* Without a zero a string is all that C sees of it.
LEMMA WholeString ==
  ASSUME TypeOK, TextHasNoZero, NEW p \in DOMAIN heap, TAG(p) = STRING_TAG
  PROVE  Len(CString(p)) = LEN(p)
<1> DEFINE c == heap[p].contents
           zeros == {i \in 1 .. LEN(p) : c[i] = 0}
<1>1. c \in Seq(Int) /\ LEN(p) = Len(c) /\ LEN(p) \in Nat /\ DOMAIN c = 1 .. LEN(p)
  BY ObjectFacts DEF LEN
<1>2. zeros = {}
  <2>1. 0 \notin Range(c)
    BY DEF TextHasNoZero
  <2> QED
    BY <1>1, <2>1 DEF Range
<1>3. CString(p) = SubSeq(c, 1, LEN(p))
  BY <1>2 DEF CString
<1> HIDE DEF c
<1>4. Len(SubSeq(c, 1, LEN(p))) = LEN(p)
  BY <1>1
<1> QED
  BY <1>3, <1>4

\* Alike objects hash alike if elements that are alike do.
LEMMA ObjectsHashAlike ==
  ASSUME TypeOK, TextHasNoZero, NEW inner \in HashTable, NEW a, NEW acc \in Nat,
         NEW p \in DOMAIN heap, NEW q \in DOMAIN heap, p # q, Alike(a, p, q),
         \A x, y \in Int : a[x][y] => inner[x] = inner[y]
  PROVE  HashObject(inner, acc, p) = HashObject(inner, acc, q)
<1>1. /\ TAG(p) = TAG(q) /\ heap[p].sexp = heap[q].sexp
      /\ TAG(p) = STRING_TAG => CString(p) = CString(q)
      /\ TAG(p) # STRING_TAG =>
           /\ LEN(p) = LEN(q)
           /\ \A i \in 1 .. LEN(p) :
                IF i < FirstElement(p) THEN heap[p].contents[i] = heap[q].contents[i]
                ELSE a[heap[p].contents[i]][heap[q].contents[i]]
  BY DEF Alike
<1>2. LEN(p) = LEN(q)
  <2>1. CASE TAG(p) = STRING_TAG
    BY <1>1, <2>1, WholeString
  <2>2. CASE TAG(p) # STRING_TAG
    BY <1>1, <2>2
  <2> QED
    BY <2>1, <2>2
<1>3. CASE TAG(p) = STRING_TAG
  <2>1. Prefix(acc, p) = Prefix(acc, q)
    BY <1>1, <1>2, <1>3 DEF Prefix
  <2>2. HashObject(inner, acc, p) = FoldLeft(HASH_APPEND, Prefix(acc, p), CString(p))
    BY <1>3, HashObjectIs
  <2>3. HashObject(inner, acc, q) = FoldLeft(HASH_APPEND, Prefix(acc, q), CString(q))
    <3>1. TAG(q) = STRING_TAG
      BY <1>1, <1>3
    <3> QED
      BY <3>1, HashObjectIs
  <2>4. CString(p) = CString(q)
    BY <1>1, <1>3
  <2> QED
    BY <2>1, <2>2, <2>3, <2>4
<1>4. CASE TAG(p) # STRING_TAG
  <2>0. LEN(p) \in Nat /\ FirstElement(p) = FirstElement(q) /\ FirstElement(p) \in {1, 2}
    BY <1>1, ObjectFacts, ElementFacts DEF FirstElement
  <2>1. Key(p) = Key(q)
    <3>1. CASE TAG(p) = CLOSURE_TAG
      <4>1. 1 \in 1 .. LEN(p) /\ FirstElement(p) = 2
        <5>1. LEN(p) >= 1
          BY <3>1, ElementFacts
        <5> QED
          BY <2>0, <3>1, <5>1 DEF FirstElement
      <4>2. heap[p].contents[1] = heap[q].contents[1]
        <5>1. 1 < FirstElement(p)
          BY <4>1
        <5> QED
          BY <1>1, <1>4, <4>1, <5>1
      <4> QED
        BY <1>1, <3>1, <4>2 DEF Key
    <3>2. CASE TAG(p) # CLOSURE_TAG
      BY <1>1, <3>2 DEF Key
    <3> QED
      BY <3>1, <3>2
  <2>2. Prefix(acc, p) = Prefix(acc, q)
    BY <1>1, <1>2, <2>1 DEF Prefix
  <2> DEFINE c == Elements(p)
             e == Elements(q)
  <2>3. /\ c \in Seq(Int) /\ Len(c) \in Nat /\ Len(c) = LEN(p) + 1 - FirstElement(p)
        /\ \A k \in 1 .. Len(c) : c[k] = heap[p].contents[k + FirstElement(p) - 1]
        /\ e \in Seq(Int) /\ Len(e) = LEN(q) + 1 - FirstElement(q)
        /\ \A k \in 1 .. Len(e) : e[k] = heap[q].contents[k + FirstElement(q) - 1]
    BY ElementsAre
  <2> HIDE DEF c, e
  <2>4. Len(c) = Len(e)
    BY <1>2, <2>0, <2>3
  <2>5. ASSUME NEW k \in 1 .. Len(c) PROVE inner[c[k]] = inner[e[k]]
    <3> DEFINE i == k + FirstElement(p) - 1
    <3>1. i \in 1 .. LEN(p) /\ ~(i < FirstElement(p)) /\ i \in 1 .. LEN(q)
      BY <1>2, <2>0, <2>3
    <3>2. c[k] = heap[p].contents[i] /\ e[k] = heap[q].contents[i]
      BY <2>0, <2>3, <2>4
    <3> HIDE DEF i
    <3>3. a[heap[p].contents[i]][heap[q].contents[i]]
      BY <1>1, <1>4, <3>1
    <3>4. heap[p].contents[i] \in Int /\ heap[q].contents[i] \in Int
      BY <3>1, ObjectFacts
    <3> QED
      BY <3>2, <3>3, <3>4
  <2>6. HashElements(inner, Prefix(acc, p), c) = HashElements(inner, Prefix(acc, p), e)
    <3>1. Prefix(acc, p) \in Nat
      BY HashObjectIs
    <3> QED
      BY <2>3, <2>4, <2>5, <3>1, ElementsHashAlike
  <2>7. HashObject(inner, acc, p) = HashElements(inner, Prefix(acc, p), c)
    BY <1>4, HashObjectIs DEF c
  <2>8. HashObject(inner, acc, q) = HashElements(inner, Prefix(acc, q), e)
    BY <1>1, <1>4, HashObjectIs DEF e
  <2> QED
    BY <2>2, <2>6, <2>7, <2>8
<1> QED
  BY <1>3, <1>4

\* Alike, however deep, hash alike, however deep.
LEMMA AlikeHashAlike ==
  ASSUME TypeOK, TextHasNoZero
  PROVE  \A d \in Nat : \A n \in Nat : \A p, q \in Int :
           alike[n][p][q] => inner_hash[d][p] = inner_hash[d][q]
<1> DEFINE T == {d \in Nat : \A n \in Nat : \A p, q \in Int :
                   alike[n][p][q] => inner_hash[d][p] = inner_hash[d][q]}
<1>0. ASSUME NEW d \in Nat, NEW p \in Int, NEW q \in Int,
             \A acc \in Nat : inner_hash[d][p][acc] = inner_hash[d][q][acc]
      PROVE  inner_hash[d][p] = inner_hash[d][q]
  <2>1. inner_hash[d][p] \in [Nat -> Nat] /\ inner_hash[d][q] \in [Nat -> Nat]
    BY inner_hashIs DEF HashTable
  <2> QED
    BY <1>0, <2>1
<1>1. 0 \in T
  <2>1. ASSUME NEW p \in Int, NEW q \in Int PROVE inner_hash[0][p] = inner_hash[0][q]
    <3>1. \A acc \in Nat : inner_hash[0][p][acc] = acc /\ inner_hash[0][q][acc] = acc
      BY inner_hashIs
    <3>2. 0 \in Nat
      OBVIOUS
    <3>3. \A acc \in Nat : inner_hash[0][p][acc] = inner_hash[0][q][acc]
      BY <3>1
    <3> QED
      BY <1>0, <3>2, <3>3
  <2> QED
    BY <2>1
<1>2. ASSUME NEW d \in Nat, d \in T PROVE d + 1 \in T
  <2> SUFFICES ASSUME NEW n \in Nat, NEW p \in Int, NEW q \in Int, alike[n][p][q]
               PROVE  inner_hash[d + 1][p] = inner_hash[d + 1][q]
    OBVIOUS
  <2>1. PICK m \in Nat : n = m + 1
    <3>1. CASE n = 0
      <4>1. alike[0][p][q] = FALSE
        BY alikeIs
      <4> QED
        BY <3>1, <4>1
    <3>2. CASE n # 0
      <4>1. n - 1 \in Nat /\ n = (n - 1) + 1
        BY <3>2
      <4> QED
        BY <4>1
    <3> QED
      BY <3>1, <3>2
  <2>2. Alike(alike[m], p, q)
    <3>0. \A x, y \in Int : alike[m + 1][x][y] = Alike(alike[m], x, y)
      BY alikeIs
    <3>1. alike[m + 1][p][q] = Alike(alike[m], p, q)
      BY <3>0, Zenon
    <3> QED
      BY <2>1, <3>1
  <2>3. \A x, y \in Int : alike[m][x][y] => inner_hash[d][x] = inner_hash[d][y]
    BY <1>2, <2>1
  <2>4. inner_hash[d] \in HashTable
    BY inner_hashIs
  <2>5. ASSUME NEW acc \in Nat PROVE inner_hash[d + 1][p][acc] = inner_hash[d + 1][q][acc]
    <3>1. /\ inner_hash[d + 1][p][acc] = Hash(inner_hash[d], acc, p)
          /\ inner_hash[d + 1][q][acc] = Hash(inner_hash[d], acc, q)
      BY inner_hashIs
    <3>2. CASE p = q
      BY <3>2
    <3>3. CASE p # q
      <4>1. p \in DOMAIN heap /\ q \in DOMAIN heap
        BY <2>2, <3>3 DEF Alike
      <4>2. HashObject(inner_hash[d], acc, p) = HashObject(inner_hash[d], acc, q)
        BY <2>2, <2>3, <2>4, <3>3, <4>1, ObjectsHashAlike
      <4>3. ~UNBOXED(p) /\ ~UNBOXED(q)
        BY <4>1, ObjectFacts
      <4> QED
        BY <3>1, <4>1, <4>2, <4>3 DEF Hash, is_valid_heap_pointer
    <3> QED
      BY <3>2, <3>3
  <2>6. d + 1 \in Nat
    OBVIOUS
  <2> QED
    BY <1>0, <2>5, <2>6
<1> HIDE DEF T
<1>3. Nat \subseteq T
  BY <1>1, <1>2, Induction
<1> QED
  BY <1>3 DEF T

\* What compares as equal is alike, and hashes alike.
LEMMA TypedHash == TypeOK => HashFollowsCompare
<1> SUFFICES ASSUME TypeOK PROVE HashFollowsCompare
  OBVIOUS
<1>1. HASH_DEPTH + 1 \in Nat
  BY DEF HASH_DEPTH
<1>2. ASSUME NEW p \in Words PROVE UNBOXED(Lhash(p))
  <2>1. p \in Int
    BY ValuesAssumption, NumberFacts
  <2>2. inner_hash[HASH_DEPTH + 1][p][0] \in Nat
    <3>1. inner_hash[HASH_DEPTH + 1] \in HashTable
      BY <1>1, inner_hashIs
    <3>2. inner_hash[HASH_DEPTH + 1][p] \in [Nat -> Nat]
      BY <2>1, <3>1 DEF HashTable
    <3>3. 0 \in Nat
      OBVIOUS
    <3> QED
      BY <3>2, <3>3
  <2>3. inner_hash[HASH_DEPTH + 1][p][0] % Half \in Int
    BY <2>2, WidthsAssumption
  <2> QED
    BY <2>3, BoxesAreUnboxed DEF Lhash
<1>3. ASSUME TextHasNoZero, NEW p \in Comparable, NEW q \in Comparable, Lcompare(p, q) = BOX(0)
      PROVE  Lhash(p) = Lhash(q)
  <2>1. SameStructure(p, q)
    BY <1>3, TypedOrder DEF CompareIsLinear
  <2>2. p \in Int /\ q \in Int
    BY ValuesAssumption, NumberFacts DEF Comparable
  <2>3. PICK n \in Nat : alike[n][p][q]
    <3> DEFINE n == Cardinality(DOMAIN heap) + 1
    <3>1. n \in Nat
      BY CountTyped
    <3>2. alike[n][p][q]
      BY <2>1 DEF SameStructure
    <3> HIDE DEF n
    <3> QED
      BY <3>1, <3>2
  <2>4. inner_hash[HASH_DEPTH + 1][p] = inner_hash[HASH_DEPTH + 1][q]
    BY <1>1, <1>3, <2>2, <2>3, AlikeHashAlike
  <2> QED
    BY <2>4 DEF Lhash
<1> QED
  BY <1>2, <1>3 DEF HashFollowsCompare

-----------------------------------------------------------------------------
\* The program's assignments keep every object of its kind, a string's elements
\* characters and the others' elements values: what a word in the heap may be is
\* what the other functions take it to be.
THEOREM Typed == Spec => []TypeOK
<1>1. Init => TypeOK
  BY InitTyped
<1>2. TypeOK /\ [Assign]_heap => TypeOK'
  BY AssignTyped
<1> QED
  BY <1>1, <1>2, PTL DEF Spec

\* In every heap the program can build, compare is antisymmetric and transitive,
\* and zero exactly for the values of equal structure, however deep they are,
\* cyclic values apart: a sorted list stays sorted.
THEOREM Linear == Spec => []CompareIsLinear
  BY Typed, TypedOrder, PTL

\* In every heap the program can build, the hash is an integer and, if no string
\* contains a zero, values that compare as equal hash alike: a hash table finds
\* the keys that were put into it.
THEOREM HashAgrees == Spec => []HashFollowsCompare
  BY Typed, TypedHash, PTL

\* In every heap the program can build, a value passes exactly the test of its
\* kind, and the tests against strings, lengths and constructors are those of
\* compare: the branch of a case expression that is taken is the one written.
THEOREM PatternsAgree == Spec => []PatternsFollowCompare
  BY Typed, TypedPatterns, PTL

\* In every heap the program can build, the runtime's hash of a constructor and
\* the compiler's are one number, from which the first characters of the name
\* are read back: the constructor tested for is the one built.
THEOREM TagsAgree == Spec => []TagsAreFaithful
  BY Typed, TypedTags, PTL
=============================================================================
