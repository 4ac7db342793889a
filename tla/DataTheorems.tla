---------------------------- MODULE DataTheorems ----------------------------
(***************************************************************************)
(* What the proofs about the components share: induction and loops, the    *)
(* modular arithmetic of sequence numbers, strings of consecutive bytes,   *)
(* a ByteStream as a value, and a StreamReassembler as a value.            *)
(*                                                                         *)
(* Induction is stated with a set in place of a predicate.  A loop is      *)
(* modelled by a recursive function whose value at k is the state after    *)
(* k rounds.                                                               *)
(***************************************************************************)
EXTENDS StreamReassemblerOps, WrappingIntegers, SequenceTheorems, FiniteSetTheorems,
        WellFoundedInduction, TLAPS

-----------------------------------------------------------------------------
(* Induction and loops. *)

\* Every set of natural numbers that is not empty has a least element.
LEMMA LeastNatural ==
  ASSUME NEW S, S \subseteq Nat, S # {}
  PROVE  \E x \in S : \A y \in S : x <= y
<1> DEFINE R == OpToRel(<, Nat)
<1>1. IsWellFoundedOn(R, Nat)
  BY NatLessThanWellFounded
<1> HIDE DEF R
<1>2. PICK x \in S : \A y \in S : ~ (<<y, x>> \in R)
  BY <1>1, WFMin
<1>3. ASSUME NEW y \in S PROVE x <= y
  <2>1. <<y, x>> \notin {ss \in Nat \X Nat : ss[1] < ss[2]}
    BY <1>2 DEF R, OpToRel
  <2> QED
    BY <2>1
<1> QED
  BY <1>3

\* Induction: a set that holds 0, and n + 1 with every n, holds all numbers.
LEMMA SetInduction ==
  ASSUME NEW T, 0 \in T, \A n \in Nat : n \in T => n + 1 \in T
  PROVE  \A n \in Nat : n \in T
<1> DEFINE U == {n \in Nat : n \notin T}
<1>1. SUFFICES ASSUME U # {} PROVE FALSE
  OBVIOUS
<1>2. U \subseteq Nat
  OBVIOUS
<1> HIDE DEF U
<1>3. PICK x \in U : \A y \in U : x <= y
  BY <1>1, <1>2, LeastNatural
<1>4. x \in Nat /\ x # 0 /\ x \notin T
  BY DEF U
<1>5. x - 1 \in U
  BY <1>4 DEF U
<1>6. x <= x - 1
  BY <1>3, <1>5
<1> QED
  BY <1>4, <1>6

\* h is a run of n rounds from x0.
IsRun(h, n, X, x0, step) ==
  /\ h \in [0 .. n -> X]
  /\ h[0] = x0
  /\ \A k \in 0 .. n - 1 : h[k + 1] = step[k][h[k]]

\* A loop whose rounds map X to X can be run for any number of rounds, and never
\* leaves X.
LEMMA RunExists ==
  ASSUME NEW X, NEW x0 \in X, NEW step \in [Nat -> [X -> X]]
  PROVE  \A n \in Nat : \E h : IsRun(h, n, X, x0, step)
<1> DEFINE T == {n \in Nat : \E h : IsRun(h, n, X, x0, step)}
<1>1. 0 \in T
  <2> DEFINE h == [k \in 0 .. 0 |-> x0]
  <2>1. IsRun(h, 0, X, x0, step)
    BY DEF IsRun
  <2> QED
    BY <2>1
<1>2. ASSUME NEW n \in Nat, n \in T PROVE n + 1 \in T
  <2>1. PICK h : IsRun(h, n, X, x0, step)
    BY <1>2
  <2> DEFINE g == [k \in 0 .. n + 1 |-> IF k = n + 1 THEN step[n][h[n]] ELSE h[k]]
  <2>2. h[n] \in X
    BY <2>1 DEF IsRun
  <2>3. step[n][h[n]] \in X
    BY <2>2
  <2>4. g \in [0 .. n + 1 -> X]
    BY <2>1, <2>3 DEF IsRun
  <2>5. g[0] = x0
    BY <2>1 DEF IsRun
  <2>6. ASSUME NEW k \in 0 .. (n + 1) - 1 PROVE g[k + 1] = step[k][g[k]]
    BY <2>1 DEF IsRun
  <2>7. IsRun(g, n + 1, X, x0, step)
    <3> HIDE DEF g
    <3> QED
      BY <2>4, <2>5, <2>6 DEF IsRun
  <2> QED
    BY <2>7
<1> HIDE DEF T
<1>3. \A n \in Nat : n \in T
  BY <1>1, <1>2, SetInduction
<1> QED
  BY <1>3 DEF T

\* g is the recursive function that the modules write for a loop of n rounds.
IsLoop(g, n, X, x0, step) ==
  /\ g \in [0 .. n -> X]
  /\ g = [k \in 0 .. n |-> IF k = 0 THEN x0 ELSE step[k - 1][g[k - 1]]]

\* There is such a function.
LEMMA LoopExists ==
  ASSUME NEW X, NEW x0 \in X, NEW step \in [Nat -> [X -> X]], NEW n \in Nat
  PROVE  \E g : IsLoop(g, n, X, x0, step)
<1>1. PICK h : IsRun(h, n, X, x0, step)
  BY RunExists
<1>2. h \in [0 .. n -> X]
  BY <1>1 DEF IsRun
<1>3. ASSUME NEW k \in 0 .. n
      PROVE  h[k] = IF k = 0 THEN x0 ELSE step[k - 1][h[k - 1]]
  <2>1. CASE k = 0
    BY <1>1, <2>1 DEF IsRun
  <2>2. CASE k # 0
    <3>1. k - 1 \in 0 .. n - 1 /\ (k - 1) + 1 = k
      BY <2>2
    <3>2. h[(k - 1) + 1] = step[k - 1][h[k - 1]]
      BY <1>1, <3>1 DEF IsRun
    <3> QED
      BY <2>2, <3>1, <3>2
  <2> QED
    BY <2>1, <2>2
<1>4. h = [k \in 0 .. n |-> IF k = 0 THEN x0 ELSE step[k - 1][h[k - 1]]]
  BY <1>2, <1>3
<1> QED
  BY <1>2, <1>4 DEF IsLoop

\* A loop stays in every set that its rounds map into itself.
LEMMA LoopKeeps ==
  ASSUME NEW X, NEW n \in Nat, NEW g, g[0] \in X,
         \A k \in 1 .. n : g[k - 1] \in X => g[k] \in X
  PROVE  \A k \in 0 .. n : g[k] \in X
<1> DEFINE T == {k \in Nat : k <= n => g[k] \in X}
<1>1. 0 \in T
  OBVIOUS
<1>2. ASSUME NEW k \in Nat, k \in T PROVE k + 1 \in T
  <2>1. CASE k + 1 <= n
    <3>1. k + 1 \in 1 .. n /\ (k + 1) - 1 = k /\ g[k] \in X
      BY <1>2, <2>1
    <3> QED
      BY <3>1
  <2>2. CASE ~(k + 1 <= n)
    BY <2>2
  <2> QED
    BY <2>1, <2>2
<1> HIDE DEF T
<1>3. \A k \in Nat : k \in T
  BY <1>1, <1>2, SetInduction
<1> QED
  BY <1>3 DEF T

\* A loop whose rounds lead from each set of the family Y to the next.
LEMMA LoopAdvances ==
  ASSUME NEW n \in Nat, NEW Y, NEW g, g[0] \in Y[0],
         \A k \in 1 .. n : g[k - 1] \in Y[k - 1] => g[k] \in Y[k]
  PROVE  \A k \in 0 .. n : g[k] \in Y[k]
<1> DEFINE T == {k \in Nat : k <= n => g[k] \in Y[k]}
<1>1. 0 \in T
  OBVIOUS
<1>2. ASSUME NEW k \in Nat, k \in T PROVE k + 1 \in T
  <2>1. CASE k + 1 <= n
    <3>1. k + 1 \in 1 .. n /\ (k + 1) - 1 = k /\ g[k] \in Y[k]
      BY <1>2, <2>1
    <3> QED
      BY <3>1
  <2>2. CASE ~(k + 1 <= n)
    BY <2>2
  <2> QED
    BY <2>1, <2>2
<1> HIDE DEF T
<1>3. \A k \in Nat : k \in T
  BY <1>1, <1>2, SetInduction
<1> QED
  BY <1>3 DEF T

\* g is the recursive function for such a loop of n rounds.
IsStaged(g, n, Y, x0, step) ==
  /\ g = [k \in 0 .. n |-> IF k = 0 THEN x0 ELSE step[k - 1][g[k - 1]]]
  /\ \A k \in 0 .. n : g[k] \in Y[k]

\* There is such a function.
LEMMA StagedLoop ==
  ASSUME NEW n \in Nat, NEW Y, NEW x0 \in Y[0], NEW step,
         \A k \in 0 .. n - 1 : \A x \in Y[k] : step[k][x] \in Y[k + 1]
  PROVE  \E g : IsStaged(g, n, Y, x0, step)
<1> DEFINE X == UNION {Y[k] : k \in 0 .. n}
           inside(k, x) == k < n /\ x \in Y[k]
           whole == [k \in Nat |-> [x \in X |-> IF inside(k, x) THEN step[k][x] ELSE x]]
<1>1. x0 \in X
  OBVIOUS
<1>2. ASSUME NEW k \in Nat, NEW x \in X PROVE (IF inside(k, x) THEN step[k][x] ELSE x) \in X
  <2>1. CASE inside(k, x)
    <3>1. step[k][x] \in Y[k + 1] /\ k + 1 \in 0 .. n
      BY <2>1
    <3> QED
      BY <2>1, <3>1
  <2> QED
    BY <2>1
<1>3. whole \in [Nat -> [X -> X]]
  BY <1>2
<1>4. \A k \in Nat, x \in X : inside(k, x) => whole[k][x] = step[k][x]
  OBVIOUS
<1>5. \A k \in 0 .. n : Y[k] \subseteq X
  OBVIOUS
<1> HIDE DEF X, whole
<1>6. PICK g : IsLoop(g, n, X, x0, whole)
  BY <1>1, <1>3, LoopExists
<1>7. g[0] \in Y[0]
  BY <1>6 DEF IsLoop
<1>8. ASSUME NEW k \in 1 .. n, g[k - 1] \in Y[k - 1]
      PROVE  g[k] = step[k - 1][g[k - 1]] /\ g[k] \in Y[k]
  <2>1. k - 1 \in 0 .. n - 1 /\ k - 1 \in Nat /\ (k - 1) + 1 = k /\ k \in 0 .. n /\ k # 0
    OBVIOUS
  <2>2. g[k] = whole[k - 1][g[k - 1]]
    BY <1>6, <2>1 DEF IsLoop
  <2>3. inside(k - 1, g[k - 1]) /\ g[k - 1] \in X
    BY <1>5, <1>8, <2>1
  <2>4. g[k] = step[k - 1][g[k - 1]]
    BY <1>4, <2>1, <2>2, <2>3
  <2>5. step[k - 1][g[k - 1]] \in Y[(k - 1) + 1]
    BY <1>8, <2>1
  <2> QED
    BY <2>1, <2>4, <2>5
<1>9. \A k \in 0 .. n : g[k] \in Y[k]
  BY <1>7, <1>8, LoopAdvances
<1>10. ASSUME NEW k \in 0 .. n PROVE g[k] = IF k = 0 THEN x0 ELSE step[k - 1][g[k - 1]]
  <2>1. CASE k = 0
    BY <1>6, <2>1 DEF IsLoop
  <2>2. CASE k # 0
    <3>1. k \in 1 .. n /\ k - 1 \in 0 .. n
      BY <2>2
    <3> QED
      BY <1>8, <1>9, <2>2, <3>1
  <2> QED
    BY <2>1, <2>2
<1>11. g = [k \in 0 .. n |-> IF k = 0 THEN x0 ELSE step[k - 1][g[k - 1]]]
  BY <1>6, <1>10 DEF IsLoop
<1> QED
  BY <1>9, <1>11 DEF IsStaged

\* A bounded set of natural numbers has a largest element, and Max is it.
LEMMA MaxFacts ==
  ASSUME NEW S, S \subseteq Nat, S # {}, NEW n \in Nat, \A x \in S : x <= n
  PROVE  Max(S) \in S /\ \A y \in S : y <= Max(S)
<1> DEFINE U == {u \in Nat : \A x \in S : x <= u}
<1>1. U \subseteq Nat /\ U # {}
  OBVIOUS
<1> HIDE DEF U
<1>2. PICK m \in U : \A u \in U : m <= u
  BY <1>1, LeastNatural
<1>3. m \in Nat /\ \A x \in S : x <= m
  BY DEF U
<1>4. m \in S
  <2>1. SUFFICES ASSUME m \notin S PROVE FALSE
    OBVIOUS
  <2>2. PICK x \in S : TRUE
    OBVIOUS
  <2>3. m - 1 \in U
    BY <1>3, <2>1, <2>2 DEF U
  <2> QED
    BY <1>2, <1>3, <2>3
<1>5. \E x \in S : \A y \in S : x >= y
  BY <1>3, <1>4
<1>6. Max(S) \in S /\ \A y \in S : Max(S) >= y
  BY <1>5 DEF Max
<1> QED
  BY <1>6

\* Min is the smallest element.
LEMMA MinFacts ==
  ASSUME NEW S, S \subseteq Nat, S # {}
  PROVE  Min(S) \in S /\ \A y \in S : Min(S) <= y
<1>1. \E x \in S : \A y \in S : x <= y
  BY LeastNatural
<1> QED
  BY <1>1 DEF Min

\* The round after the largest key.
LoopEnd(keys) == IF keys = {} THEN 0 ELSE Max(keys) + 1

\* A loop over the keys in increasing order ends behind the last one.
LEMMA LoopEndFacts ==
  ASSUME NEW keys, keys \subseteq Nat, NEW n \in Nat, \A k \in keys : k <= n
  PROVE  LoopEnd(keys) \in Nat /\ \A k \in keys : k < LoopEnd(keys)
<1>1. CASE keys = {}
  BY <1>1 DEF LoopEnd
<1>2. CASE keys # {}
  <2>1. Max(keys) \in keys /\ \A k \in keys : k <= Max(keys)
    BY <1>2, MaxFacts
  <2> DEFINE m == Max(keys)
  <2>2. LoopEnd(keys) = m + 1
    BY <1>2 DEF LoopEnd
  <2>3. m \in Nat
    BY <2>1
  <2> HIDE DEF m
  <2>4. \A k \in keys : k \in Nat /\ k <= m
    BY <2>1 DEF m
  <2>5. \A k \in keys : k < m + 1
    BY <2>3, <2>4
  <2> QED
    BY <2>2, <2>3, <2>5
<1> QED
  BY <1>1, <1>2

-----------------------------------------------------------------------------
(* Sequence numbers. *)

\* Modular arithmetic, from quotient and remainder: a number is a multiple of
\* the modulus plus its residue, the residue is in range, and it is unique.
LEMMA ModSplit ==
  ASSUME NEW a \in Int, NEW m \in Nat \ {0}
  PROVE  \E q \in Int : a = m * q + (a % m)
<1>1. a = m * (a \div m) + (a % m)
  OBVIOUS
<1>2. a \div m \in Int
  OBVIOUS
<1> QED
  BY <1>1, <1>2

\* The residue is one of 0 .. m-1.
LEMMA ModRange ==
  ASSUME NEW a \in Int, NEW m \in Nat \ {0}
  PROVE  a % m \in 0 .. m - 1
  OBVIOUS

\* Only one number in 0 .. m-1 can be the residue.
LEMMA ModUnique ==
  ASSUME NEW a \in Int, NEW m \in Nat \ {0}, NEW q \in Int, NEW r \in 0 .. m - 1,
         a = m * q + r
  PROVE  a % m = r
  OBVIOUS

\* Numbers that differ by a multiple of the modulus have the same residue.
LEMMA ModShift ==
  ASSUME NEW a \in Int, NEW m \in Nat \ {0}, NEW k \in Int
  PROVE  (a + m * k) % m = a % m
<1>1. PICK q \in Int : a = m * q + (a % m)
  BY ModSplit
<1>2. a % m \in 0 .. m - 1
  BY ModRange
<1>3. a + m * k = m * (q + k) + (a % m)
  BY <1>1, <1>2
<1>4. q + k \in Int /\ a + m * k \in Int
  OBVIOUS
<1> QED
  BY <1>2, <1>3, <1>4, ModUnique

\* Multiplication distributes over subtraction, in the two forms used below.
LEMMA Distribute ==
  ASSUME NEW m \in Int, NEW j \in Int, NEW k \in Int
  PROVE  /\ m * (j - k) = m * j - m * k
         /\ m * (0 - j - k) = 0 - m * j - m * k
         /\ m * j \in Int
  OBVIOUS

\* The modulus 2^32 and its half, 1u<<31 in unwrap, are positive.
LEMMA ModulusType == Modulus \in Nat \ {0} /\ HalfRange \in Nat \ {0}
  BY HalfRangeAssumption DEF Modulus

\* A wrapped number is a 32-bit value, and it differs from the position plus the
\* isn by a multiple of the modulus.
LEMMA WrapFacts ==
  ASSUME NEW a \in Int, NEW i \in Int
  PROVE  /\ wrap(a, i) \in WrappingInt32
         /\ \E k \in Int : wrap(a, i) = a + i + Modulus * k
<1> DEFINE b == (a % Modulus) + i
<1>1. a % Modulus \in 0 .. Modulus - 1
  BY ModRange, ModulusType
<1>2. b \in Int
  BY <1>1, ModulusType
<1>3. wrap(a, i) = b % Modulus
  BY DEF wrap
<1>4. wrap(a, i) \in 0 .. Modulus - 1
  BY <1>2, <1>3, ModRange, ModulusType
<1>5. PICK q1 \in Int : a = Modulus * q1 + (a % Modulus)
  BY ModSplit, ModulusType
<1>6. PICK q2 \in Int : b = Modulus * q2 + (b % Modulus)
  BY <1>2, ModSplit, ModulusType
<1>7. wrap(a, i) = a + i + Modulus * (0 - q1 - q2)
  <2>1. Modulus * (0 - q1 - q2) = 0 - Modulus * q1 - Modulus * q2
        /\ Modulus * q1 \in Int /\ Modulus * q2 \in Int
    BY Distribute, ModulusType
  <2>2. b = Modulus * q2 + wrap(a, i)
    BY <1>3, <1>6
  <2>3. wrap(a, i) \in Int /\ a % Modulus \in Int
    BY <1>1, <1>4, ModulusType
  <2> QED
    BY <1>5, <2>1, <2>2, <2>3
<1>8. 0 - q1 - q2 \in Int
  OBVIOUS
<1> QED
  BY <1>4, <1>7, <1>8 DEF WrappingInt32

\* unwrap undoes wrap (wrapping_integers.cc:30-43) for every position less than
\* half the sequence space above the checkpoint or at most half of it below.
THEOREM UnwrapOfWrap ==
  ASSUME NEW p \in Nat, NEW c \in Nat, NEW i \in Int,
         c - HalfRange <= p, p < c + HalfRange
  PROVE  unwrap(wrap(p, i), i, c) = p
<1> DEFINE n == wrap(p, i)
           offset == (n - wrap(c, i)) % Modulus
<1>1. PICK k1 \in Int : n = p + i + Modulus * k1
  BY WrapFacts
<1>2. PICK k2 \in Int : wrap(c, i) = c + i + Modulus * k2
  BY WrapFacts
<1>3. n \in Int /\ wrap(c, i) \in Int
  BY <1>1, <1>2, ModulusType
<1>4. n - wrap(c, i) = (p - c) + Modulus * (k1 - k2)
  <2>1. Modulus * (k1 - k2) = Modulus * k1 - Modulus * k2
        /\ Modulus * k1 \in Int /\ Modulus * k2 \in Int
    BY Distribute, ModulusType
  <2> QED
    BY <1>1, <1>2, <2>1
<1>5. offset = (p - c) % Modulus
  <2>1. p - c \in Int /\ k1 - k2 \in Int
    OBVIOUS
  <2>2. ((p - c) + Modulus * (k1 - k2)) % Modulus = (p - c) % Modulus
    BY <2>1, ModShift, ModulusType
  <2> QED
    BY <1>4, <2>2
<1>6. unwrap(n, i, c) = IF offset < HalfRange \/ c < Modulus - offset
                        THEN c + offset ELSE c - Modulus + offset
  BY DEF unwrap
<1>7. Modulus = 2 * HalfRange
  BY DEF Modulus
<1>8. CASE p >= c
  <2>1. offset = p - c
    BY <1>5, <1>7, <1>8, ModUnique, ModulusType
  <2> QED
    BY <1>6, <2>1, <1>8, ModulusType
<1>9. CASE p < c
  <2>1. p - c = Modulus * (0 - 1) + (p - c + Modulus)
    BY <1>7, ModulusType
  <2>2. p - c + Modulus \in 0 .. Modulus - 1 /\ p - c \in Int
    BY <1>7, <1>9, ModulusType
  <2>3. offset = p - c + Modulus
    BY <1>5, <2>1, <2>2, ModUnique, ModulusType
  <2>4. ~(offset < HalfRange) /\ ~(c < Modulus - offset)
    BY <1>7, <2>3, ModulusType
  <2> QED
    BY <1>6, <2>3, <2>4, ModulusType
<1> QED
  BY <1>8, <1>9

\* unwrap returns a position, also next to zero, where the nearest number below
\* the checkpoint would be negative.
LEMMA UnwrapType ==
  ASSUME NEW n \in Int, NEW i \in Int, NEW c \in Nat
  PROVE  unwrap(n, i, c) \in Nat
<1> DEFINE offset == (n - wrap(c, i)) % Modulus
<1>1. wrap(c, i) \in Int
  BY WrapFacts, ModulusType DEF WrappingInt32
<1>2. n - wrap(c, i) \in Int
  BY <1>1
<1>3. offset \in 0 .. Modulus - 1
  BY <1>2, ModRange, ModulusType
<1>4. unwrap(n, i, c) = IF offset < HalfRange \/ c < Modulus - offset
                        THEN c + offset ELSE c - Modulus + offset
  BY DEF unwrap
<1> HIDE DEF offset
<1> QED
  BY <1>3, <1>4, ModulusType

-----------------------------------------------------------------------------
(* Strings of consecutive bytes. *)

\* Bytes(i, n) is a string of n bytes.
LEMMA BytesFacts ==
  ASSUME NEW i \in Nat, NEW n \in Nat
  PROVE  /\ Bytes(i, n) \in Seq(Nat)
         /\ Len(Bytes(i, n)) = n
         /\ \A k \in 1 .. n : Bytes(i, n)[k] = i + k - 1
  BY DEF Bytes

\* Two strings are equal when they have the same length and the same bytes.
LEMMA SameString ==
  ASSUME NEW S, NEW s \in Seq(S), NEW t \in Seq(S), Len(s) = Len(t),
         \A k \in 1 .. Len(s) : s[k] = t[k]
  PROVE  s = t
  BY SeqEqual

\* Consecutive strings make one string.
LEMMA BytesConcat ==
  ASSUME NEW i \in Nat, NEW n \in Nat, NEW m \in Nat
  PROVE  Bytes(i, n) \o Bytes(i + n, m) = Bytes(i, n + m)
<1> DEFINE s == Bytes(i, n)
           t == Bytes(i + n, m)
           u == Bytes(i, n + m)
<1>1. s \in Seq(Nat) /\ Len(s) = n /\ \A k \in 1 .. n : s[k] = i + k - 1
  BY BytesFacts
<1>2. t \in Seq(Nat) /\ Len(t) = m /\ \A k \in 1 .. m : t[k] = (i + n) + k - 1
  <2>1. i + n \in Nat
    OBVIOUS
  <2> QED
    BY <2>1, BytesFacts
<1>3. u \in Seq(Nat) /\ Len(u) = n + m /\ \A k \in 1 .. n + m : u[k] = i + k - 1
  BY BytesFacts
<1> HIDE DEF s, t, u
<1>4. s \o t \in Seq(Nat) /\ Len(s \o t) = n + m
  BY <1>1, <1>2, ConcatProperties
<1>5. ASSUME NEW k \in 1 .. n + m PROVE (s \o t)[k] = u[k]
  <2>1. (s \o t)[k] = IF k <= n THEN s[k] ELSE t[k - n]
    BY <1>1, <1>2, ConcatProperties
  <2>2. CASE k <= n
    BY <1>1, <1>3, <2>1, <2>2
  <2>3. CASE ~(k <= n)
    <3>1. k - n \in 1 .. m
      BY <2>3
    <3> QED
      BY <1>2, <1>3, <2>1, <2>3, <3>1
  <2> QED
    BY <2>2, <2>3
<1>6. s \o t = u
  BY <1>3, <1>4, <1>5, SameString
<1> QED
  BY <1>6 DEF s, t, u

\* A part of consecutive bytes is a string of consecutive bytes.
LEMMA BytesPart ==
  ASSUME NEW i \in Nat, NEW n \in Nat, NEW a \in 1 .. n + 1, NEW b \in a - 1 .. n
  PROVE  SubSeq(Bytes(i, n), a, b) = Bytes(i + a - 1, b - a + 1)
<1> DEFINE s == Bytes(i, n)
           t == SubSeq(s, a, b)
           u == Bytes(i + a - 1, b - a + 1)
<1>1. s \in Seq(Nat) /\ Len(s) = n /\ \A k \in 1 .. n : s[k] = i + k - 1
  BY BytesFacts
<1>2. /\ u \in Seq(Nat) /\ Len(u) = b - a + 1
      /\ \A k \in 1 .. b - a + 1 : u[k] = (i + a - 1) + k - 1
  <2>1. i + a - 1 \in Nat /\ b - a + 1 \in Nat
    OBVIOUS
  <2> QED
    BY <2>1, BytesFacts
<1> HIDE DEF s, u
<1>3. \A k \in a .. b : s[k] \in Nat
  BY <1>1
<1>4. /\ t \in Seq(Nat) /\ Len(t) = b - a + 1
      /\ \A k \in 1 .. b - a + 1 : t[k] = s[a + k - 1]
  <2>1. CASE a <= b
    BY <1>1, <1>3, <2>1, SubSeqProperties
  <2>2. CASE a > b
    <3>1. t = <<>>
      BY <1>1, <2>2, SubSeqEmpty
    <3> QED
      BY <2>2, <3>1, EmptySeq
  <2> QED
    BY <2>1, <2>2
<1> HIDE DEF t
<1>5. ASSUME NEW k \in 1 .. Len(t) PROVE t[k] = u[k]
  BY <1>1, <1>2, <1>4
<1>6. t = u
  BY <1>2, <1>4, <1>5, SameString
<1> QED
  BY <1>6 DEF s, t, u

-----------------------------------------------------------------------------
(* A ByteStream that is written with the bytes 0, 1, 2, ... *)

\* What a reader relies on: the buffer holds the bytes from read_count on, up to
\* write_count, and fits the capacity.
StreamOK(s, capacity) ==
  /\ s \in ByteStreamType(Nat)
  /\ s.b_size = capacity /\ Len(s.bts) <= capacity
  /\ s.read_count <= s.write_count
  /\ s.bts = Bytes(s.read_count, s.write_count - s.read_count)

\* The types of a stream's fields, and the size of its buffer.
LEMMA StreamFacts ==
  ASSUME NEW capacity, NEW s, StreamOK(s, capacity)
  PROVE  /\ s.read_count \in Nat /\ s.write_count \in Nat
         /\ s.write_count - s.read_count \in Nat
         /\ Len(s.bts) = s.write_count - s.read_count
         /\ s.end_flag \in BOOLEAN /\ s.error \in BOOLEAN
         /\ buffer_size(s) = s.write_count - s.read_count
         /\ buffer_empty(s) <=> s.write_count = s.read_count
<1>1. s.read_count \in Nat /\ s.write_count \in Nat /\ s.end_flag \in BOOLEAN
      /\ s.error \in BOOLEAN
  BY DEF StreamOK, ByteStreamType
<1>2. s.write_count - s.read_count \in Nat
  BY <1>1 DEF StreamOK
<1>3. Len(s.bts) = s.write_count - s.read_count /\ s.bts \in Seq(Nat)
  <2> DEFINE d == s.write_count - s.read_count
  <2>1. s.bts = Bytes(s.read_count, d) /\ d \in Nat
    BY <1>2 DEF StreamOK
  <2> HIDE DEF d
  <2>2. Len(s.bts) = d /\ s.bts \in Seq(Nat)
    BY <1>1, <2>1, BytesFacts
  <2> QED
    BY <2>2 DEF d
<1>4. s.bts = <<>> <=> Len(s.bts) = 0
  BY <1>3, EmptySeq
<1> QED
  BY <1>1, <1>2, <1>3, <1>4 DEF buffer_size, buffer_empty

\* A new stream is empty.
LEMMA NewStreamOK ==
  ASSUME NEW capacity \in Nat
  PROVE  StreamOK(NewByteStream(capacity), capacity)
<1>1. Bytes(0, 0) = <<>>
  BY BytesFacts, EmptySeq
<1> QED
  BY <1>1, EmptySeq DEF StreamOK, NewByteStream, ByteStreamType

\* write() with the next bytes: as many as fit are taken.
LEMMA WriteKeepsStream ==
  ASSUME NEW capacity \in Nat, NEW s, StreamOK(s, capacity), NEW n \in Nat,
         NEW t, t = write(s, Bytes(s.write_count, n))
  PROVE  /\ StreamOK(t, capacity)
         /\ t.read_count = s.read_count
         /\ t.write_count
              = s.write_count + Min2(n, capacity - (s.write_count - s.read_count))
         /\ t.write_count >= s.write_count
         /\ t.end_flag = s.end_flag /\ t.error = s.error
<1> DEFINE m == Min2(n, capacity - (s.write_count - s.read_count))
           w == s.write_count
           r == s.read_count
<1>1. /\ r \in Nat /\ w \in Nat /\ w - r \in Nat /\ Len(s.bts) = w - r
      /\ s.end_flag \in BOOLEAN /\ s.error \in BOOLEAN
      /\ s.b_size = capacity /\ w - r <= capacity /\ r <= w
      /\ s.bts = Bytes(r, w - r)
  BY StreamFacts DEF StreamOK
<1>2. Bytes(w, n) \in Seq(Nat) /\ Len(Bytes(w, n)) = n
  BY <1>1, BytesFacts
<1>3. t = [s EXCEPT !.bts = s.bts \o SubSeq(Bytes(w, n), 1, m), !.write_count = w + m]
  BY <1>1, <1>2 DEF write, remaining_capacity
<1>4. m \in 0 .. n /\ m <= capacity - (w - r)
  BY <1>1 DEF Min2
<1> HIDE DEF m
<1>5. SubSeq(Bytes(w, n), 1, m) = Bytes(w, m)
  <2>1. 1 \in 1 .. n + 1 /\ m \in 1 - 1 .. n /\ m - 1 + 1 = m /\ w + 1 - 1 = w
    BY <1>1, <1>4
  <2>2. SubSeq(Bytes(w, n), 1, m) = Bytes(w + 1 - 1, m - 1 + 1)
    BY <1>1, <2>1, BytesPart
  <2> QED
    BY <2>1, <2>2
<1>6. s.bts \o Bytes(w, m) = Bytes(r, (w + m) - r)
  <2> DEFINE d == w - r
  <2>1. d \in Nat /\ m \in Nat /\ r + d = w /\ d + m = (w + m) - r
    BY <1>1, <1>4
  <2>0. r \in Nat
    BY <1>1
  <2> HIDE DEF d, r, w
  <2>2. Bytes(r, d) \o Bytes(r + d, m) = Bytes(r, d + m)
    BY <2>0, <2>1, BytesConcat
  <2>3. s.bts = Bytes(r, d)
    BY <1>1 DEF d
  <2> QED
    BY <2>1, <2>2, <2>3
<1>7. Bytes(r, (w + m) - r) \in Seq(Nat) /\ Len(Bytes(r, (w + m) - r)) = (w + m) - r
  <2>1. (w + m) - r \in Nat
    BY <1>1, <1>4
  <2> QED
    BY <1>1, <2>1, BytesFacts
<1>8. t = [s EXCEPT !.bts = Bytes(r, (w + m) - r), !.write_count = w + m]
  BY <1>3, <1>5, <1>6
<1>9. s \in ByteStreamType(Nat) /\ w + m \in Nat
  BY <1>1, <1>4 DEF StreamOK
<1>10. t \in ByteStreamType(Nat)
  BY <1>7, <1>8, <1>9 DEF ByteStreamType
<1>11. /\ t.bts = Bytes(r, (w + m) - r) /\ t.write_count = w + m /\ t.read_count = r
       /\ t.b_size = capacity /\ t.end_flag = s.end_flag /\ t.error = s.error
  BY <1>1, <1>8, <1>9 DEF ByteStreamType
<1>12. StreamOK(t, capacity)
  BY <1>1, <1>4, <1>7, <1>10, <1>11 DEF StreamOK
<1> QED
  BY <1>1, <1>4, <1>11, <1>12 DEF m

\* What a read of n bytes leaves of the stream s.
ReadLeaves(s, n, t, capacity) ==
  /\ StreamOK(t, capacity)
  /\ t.read_count = s.read_count + n
  /\ t.write_count = s.write_count
  /\ t.end_flag = s.end_flag /\ t.error = s.error

\* read(len): the next bytes come out, as many as there are.
LEMMA ReadKeepsStream ==
  ASSUME NEW capacity \in Nat, NEW s, StreamOK(s, capacity), NEW len \in Nat,
         NEW k, k = Min2(len, s.write_count - s.read_count),
         NEW t, t = after_read(s, len)
  PROVE  /\ k \in 0 .. s.write_count - s.read_count /\ k <= len
         /\ read_output(s, len) = Bytes(s.read_count, k)
         /\ ReadLeaves(s, k, t, capacity)
<1> DEFINE w == s.write_count
           r == s.read_count
<1>1. /\ r \in Nat /\ w \in Nat /\ w - r \in Nat /\ Len(s.bts) = w - r
      /\ s.end_flag \in BOOLEAN /\ s.error \in BOOLEAN
      /\ s.b_size = capacity /\ w - r <= capacity /\ r <= w
      /\ s.bts = Bytes(r, w - r) /\ s \in ByteStreamType(Nat)
  BY StreamFacts DEF StreamOK
<1>2. k \in 0 .. w - r /\ k <= len
  BY <1>1 DEF Min2
<1>3. read_output(s, len) = SubSeq(Bytes(r, w - r), 1, k)
  BY <1>1 DEF read_output, peek_output, buffer_size
<1>4. t = [s EXCEPT !.bts = SubSeq(Bytes(r, w - r), k + 1, w - r), !.read_count = r + k]
  BY <1>1 DEF after_read, pop_output, buffer_size
<1>5. SubSeq(Bytes(r, w - r), 1, k) = Bytes(r, k)
  <2>1. 1 \in 1 .. (w - r) + 1 /\ k \in 1 - 1 .. w - r /\ k - 1 + 1 = k /\ r + 1 - 1 = r
    BY <1>1, <1>2
  <2>2. SubSeq(Bytes(r, w - r), 1, k) = Bytes(r + 1 - 1, k - 1 + 1)
    BY <1>1, <2>1, BytesPart
  <2> QED
    BY <2>1, <2>2
<1>6. SubSeq(Bytes(r, w - r), k + 1, w - r) = Bytes(r + k, w - (r + k))
  <2>1. /\ k + 1 \in 1 .. (w - r) + 1 /\ w - r \in (k + 1) - 1 .. w - r
        /\ r + (k + 1) - 1 = r + k /\ (w - r) - (k + 1) + 1 = w - (r + k)
    BY <1>1, <1>2
  <2>2. SubSeq(Bytes(r, w - r), k + 1, w - r)
          = Bytes(r + (k + 1) - 1, (w - r) - (k + 1) + 1)
    BY <1>1, <2>1, BytesPart
  <2> QED
    BY <2>1, <2>2
<1>7. /\ r + k \in Nat /\ w - (r + k) \in Nat
      /\ Bytes(r + k, w - (r + k)) \in Seq(Nat)
      /\ Len(Bytes(r + k, w - (r + k))) = w - (r + k)
  <2>1. r + k \in Nat /\ w - (r + k) \in Nat
    BY <1>1, <1>2
  <2> QED
    BY <2>1, BytesFacts
<1>8. t = [s EXCEPT !.bts = Bytes(r + k, w - (r + k)), !.read_count = r + k]
  BY <1>4, <1>6
<1>9. t \in ByteStreamType(Nat)
  BY <1>1, <1>7, <1>8 DEF ByteStreamType
<1>10. /\ t.bts = Bytes(r + k, w - (r + k)) /\ t.write_count = w
       /\ t.read_count = r + k
       /\ t.b_size = capacity /\ t.end_flag = s.end_flag /\ t.error = s.error
  BY <1>1, <1>8 DEF ByteStreamType
<1>11. StreamOK(t, capacity)
  BY <1>1, <1>2, <1>7, <1>9, <1>10 DEF StreamOK
<1> QED
  BY <1>2, <1>3, <1>5, <1>10, <1>11 DEF ReadLeaves

\* A read of no more bytes than there are.
LEMMA ReadExactly ==
  ASSUME NEW capacity \in Nat, NEW s, StreamOK(s, capacity),
         NEW n \in Nat, n <= s.write_count - s.read_count,
         NEW t, t = after_read(s, n)
  PROVE  /\ StreamOK(t, capacity)
         /\ t.read_count = s.read_count + n
         /\ t.write_count = s.write_count
         /\ t.end_flag = s.end_flag /\ t.error = s.error
<1> DEFINE k == Min2(n, s.write_count - s.read_count)
<1>1. k = Min2(n, s.write_count - s.read_count)
  OBVIOUS
<1>2. k = n
  BY StreamFacts DEF Min2
<1> HIDE DEF k
<1>3. ReadLeaves(s, k, t, capacity)
  BY <1>1, ReadKeepsStream
<1> QED
  BY <1>2, <1>3 DEF ReadLeaves

\* end_input() only sets the flag.
LEMMA EndKeepsStream ==
  ASSUME NEW capacity \in Nat, NEW s, StreamOK(s, capacity),
         NEW t, t = end_input(s)
  PROVE  /\ StreamOK(t, capacity)
         /\ t.read_count = s.read_count /\ t.write_count = s.write_count
         /\ t.end_flag = TRUE /\ t.error = s.error
<1>1. s \in ByteStreamType(Nat)
  BY DEF StreamOK
<1>2. t \in ByteStreamType(Nat)
  BY <1>1 DEF end_input, ByteStreamType
<1>3. /\ t.bts = s.bts /\ t.write_count = s.write_count /\ t.b_size = s.b_size
      /\ t.read_count = s.read_count /\ t.end_flag = TRUE /\ t.error = s.error
  BY <1>1 DEF end_input, ByteStreamType
<1> QED
  BY <1>2, <1>3 DEF StreamOK

-----------------------------------------------------------------------------
(* The reassembler's map of strings. *)

\* A map from indices to strings.
StringMap == UNION {[D -> Seq(Nat)] : D \in SUBSET Nat}

\* The indices of the bytes held in the map.
Stored(m) == UNION {k .. End(m, k) - 1 : k \in DOMAIN m}

\* No two strings overlap.
Apart(m) == \A j, k \in DOMAIN m : j < k => End(m, j) <= k

\* Every string is a piece of the stream.
Right(m) == \A k \in DOMAIN m : m[k] = Bytes(k, Len(m[k]))

\* No string reaches beyond n.
UpTo(m, n) == \A k \in DOMAIN m : End(m, k) <= n

\* The types of a map's parts.
LEMMA MapFacts ==
  ASSUME NEW m \in StringMap
  PROVE  /\ DOMAIN m \subseteq Nat
         /\ m = [k \in DOMAIN m |-> m[k]]
         /\ \A k \in DOMAIN m : /\ m[k] \in Seq(Nat) /\ Len(m[k]) \in Nat
                                /\ k \in Nat /\ End(m, k) \in Nat /\ k <= End(m, k)
<1>1. PICK D \in SUBSET Nat : m \in [D -> Seq(Nat)]
  BY DEF StringMap
<1>2. DOMAIN m = D /\ \A k \in D : m[k] \in Seq(Nat) /\ Len(m[k]) \in Nat
  BY <1>1, LenProperties
<1> QED
  BY <1>1, <1>2 DEF End

\* A function that is built string by string is a map.
LEMMA IsMap ==
  ASSUME NEW D, D \subseteq Nat, NEW m \in [D -> Seq(Nat)]
  PROVE  m \in StringMap /\ DOMAIN m = D
  BY DEF StringMap

\* A byte is stored when a string covers it.
LEMMA InStored ==
  ASSUME NEW m \in StringMap, NEW b
  PROVE  b \in Stored(m) <=> b \in Nat /\ \E k \in DOMAIN m : k <= b /\ b < End(m, k)
<1>1. b \in Stored(m) <=> \E k \in DOMAIN m : b \in k .. End(m, k) - 1
  BY DEF Stored
<1>2. \A k \in DOMAIN m : k \in Nat /\ End(m, k) \in Nat
  BY MapFacts
<1>3. \A k \in DOMAIN m : b \in k .. End(m, k) - 1 <=> b \in Nat /\ k <= b /\ b < End(m, k)
  BY <1>2
<1> QED
  BY <1>1, <1>3

\* What Erase leaves.
LEMMA EraseFacts ==
  ASSUME NEW m \in StringMap, NEW k \in DOMAIN m
  PROVE  /\ Erase(m, k) \in StringMap
         /\ DOMAIN Erase(m, k) = DOMAIN m \ {k}
         /\ \A j \in DOMAIN m \ {k} : /\ Erase(m, k)[j] = m[j]
                                      /\ End(Erase(m, k), j) = End(m, j)
<1> DEFINE n == Erase(m, k)
<1>1. n = [j \in DOMAIN m \ {k} |-> m[j]]
  BY DEF Erase, Restrict
<1>2. DOMAIN n = DOMAIN m \ {k} /\ \A j \in DOMAIN m \ {k} : n[j] = m[j]
  BY <1>1
<1>3. n \in StringMap
  <2>1. DOMAIN m \ {k} \subseteq Nat /\ \A j \in DOMAIN m \ {k} : n[j] \in Seq(Nat)
    BY <1>2, MapFacts
  <2> DEFINE D == DOMAIN m \ {k}
  <2>2. n \in [D -> Seq(Nat)] /\ D \subseteq Nat
    BY <1>1, <1>2, <2>1
  <2> HIDE DEF n, D
  <2> QED
    BY <2>2, IsMap
<1> QED
  BY <1>2, <1>3 DEF End

\* substr(n) of any string, and of a piece of the stream.
LEMMA SuffixFacts ==
  ASSUME NEW s \in Seq(Nat), NEW n \in Nat
  PROVE  /\ Suffix(s, n) \in Seq(Nat)
         /\ Len(Suffix(s, n)) = IF n <= Len(s) THEN Len(s) - n ELSE 0
<1>0. Len(s) \in Nat
  BY LenProperties
<1>1. CASE n < Len(s)
  <2>1. n + 1 \in Int /\ Len(s) \in Int /\ \A i \in n + 1 .. Len(s) : s[i] \in Nat
    BY <1>0
  <2> QED
    BY <1>0, <1>1, <2>1, SubSeqProperties DEF Suffix
<1>2. CASE ~(n < Len(s))
  <2>1. Suffix(s, n) = <<>>
    BY <1>0, <1>2, SubSeqEmpty DEF Suffix
  <2> QED
    BY <1>0, <1>2, <2>1, EmptySeq
<1> QED
  BY <1>1, <1>2

\* The rest of a piece of the stream is a piece of the stream.
LEMMA SuffixOfBytes ==
  ASSUME NEW i \in Nat, NEW len \in Nat, NEW n \in 0 .. len
  PROVE  Suffix(Bytes(i, len), n) = Bytes(i + n, len - n)
<1>1. Len(Bytes(i, len)) = len
  BY BytesFacts
<1>2. SubSeq(Bytes(i, len), n + 1, len) = Bytes(i + (n + 1) - 1, len - (n + 1) + 1)
  <2>1. n + 1 \in 1 .. len + 1 /\ len \in (n + 1) - 1 .. len
    OBVIOUS
  <2> QED
    BY <2>1, BytesPart
<1>3. i + (n + 1) - 1 = i + n /\ len - (n + 1) + 1 = len - n
  OBVIOUS
<1> QED
  BY <1>1, <1>2, <1>3 DEF Suffix

\* The values of the members of a StreamReassembler.
ReassemblerType ==
  [output : ByteStreamType(Nat), capacity : Nat, write_ptr : Nat, eof_index : Nat,
   eof_f : BOOLEAN, stream : StringMap]

\* The bytes of the stream that are written or stored.
Have(r) == (0 .. r.write_ptr - 1) \cup Stored(r.stream)

\* What holds between any two statements of push_substring, for a stream of which
\* `top` bytes may have been pushed.
Loaded(r, capacity, top) ==
  /\ r \in ReassemblerType
  /\ StreamOK(r.output, capacity) /\ r.capacity = capacity
  /\ r.write_ptr = r.output.write_count /\ r.write_ptr <= top
  /\ Right(r.stream) /\ UpTo(r.stream, top) /\ UpTo(r.stream, Limit(r))

\* The types of the members.
LEMMA ReassemblerFields ==
  ASSUME NEW r \in ReassemblerType
  PROVE  /\ r.output \in ByteStreamType(Nat) /\ r.capacity \in Nat
         /\ r.write_ptr \in Nat /\ r.eof_index \in Nat /\ r.eof_f \in BOOLEAN
         /\ r.stream \in StringMap
  BY DEF ReassemblerType

\* What a round of the first loop does with a string that begins at or below
\* write_ptr and ends above it: the bytes from write_ptr on are written.
LEMMA WriteString ==
  ASSUME NEW capacity \in Nat, NEW top \in Nat, NEW x, Loaded(x, capacity, top),
         NEW k \in DOMAIN x.stream, k <= x.write_ptr, End(x.stream, k) > x.write_ptr,
         NEW out, out = write(x.output, Suffix(x.stream[k], x.write_ptr - k))
  PROVE  /\ StreamOK(out, capacity)
         /\ out.write_count = End(x.stream, k)
         /\ out.read_count = x.output.read_count
         /\ out.end_flag = x.output.end_flag /\ out.error = x.output.error
<1> DEFINE w == x.write_ptr
           len == Len(x.stream[k])
           o == x.output
           s == x.stream[k]
           e == End(x.stream, k)
<1>1. /\ w \in Nat /\ k \in Nat /\ len \in Nat /\ k <= w /\ k + len > w
      /\ s = Bytes(k, len) /\ e = k + len
      /\ e <= o.read_count + capacity
  BY ReassemblerFields, MapFacts DEF Loaded, Right, UpTo, Limit, End
<1>2. StreamOK(o, capacity) /\ o.write_count = w
  BY DEF Loaded
<1>3. o.read_count \in Nat /\ o.read_count <= w
  BY <1>2, StreamFacts DEF StreamOK
<1>4. out = write(o, Suffix(s, w - k))
  OBVIOUS
<1> HIDE DEF w, len, o, s, e
<1>5. Suffix(s, w - k) = Bytes(w, (k + len) - w)
  <2>1. w - k \in 0 .. len /\ k + (w - k) = w /\ len - (w - k) = (k + len) - w
    BY <1>1
  <2>2. Suffix(Bytes(k, len), w - k) = Bytes(k + (w - k), len - (w - k))
    BY <1>1, <2>1, SuffixOfBytes
  <2> QED
    BY <1>1, <2>1, <2>2
<1> DEFINE n == (k + len) - w
<1>6. n \in Nat /\ out = write(o, Bytes(o.write_count, n))
  BY <1>1, <1>2, <1>4, <1>5
<1>7. Min2(n, capacity - (w - o.read_count)) = n
  BY <1>1, <1>3 DEF Min2
<1>8. w + n = e
  BY <1>1
<1> HIDE DEF n
<1>9. /\ StreamOK(out, capacity)
      /\ out.read_count = o.read_count
      /\ out.write_count = w + n
      /\ out.end_flag = o.end_flag /\ out.error = o.error
  <2>1. /\ StreamOK(out, capacity)
        /\ out.read_count = o.read_count
        /\ out.write_count
             = o.write_count + Min2(n, capacity - (o.write_count - o.read_count))
        /\ out.end_flag = o.end_flag /\ out.error = o.error
    BY <1>2, <1>6, WriteKeepsStream
  <2> QED
    BY <1>2, <1>7, <2>1
<1> QED
  BY <1>8, <1>9 DEF o, e

\* From r the first loop has come to x, with the keys below i behind it.
Assembled(r, x, i, capacity, top) ==
  /\ Loaded(x, capacity, top)
  /\ x.eof_index = r.eof_index /\ x.eof_f = r.eof_f
  /\ x.output.read_count = r.output.read_count
  /\ x.output.end_flag = r.output.end_flag /\ x.output.error = r.output.error
  /\ x.write_ptr >= r.write_ptr
  /\ DOMAIN x.stream \subseteq DOMAIN r.stream
  /\ \A k \in DOMAIN r.stream : k >= i => k \in DOMAIN x.stream
  /\ Have(x) = Have(r)
  /\ \A k \in DOMAIN x.stream :
       k < i => k > x.write_ptr \/ End(x.stream, k) <= x.write_ptr

\* Have, byte by byte.
LEMMA InHave ==
  ASSUME NEW r \in ReassemblerType, NEW b
  PROVE  b \in Have(r) <=>
           b \in Nat /\ (b < r.write_ptr
                         \/ \E k \in DOMAIN r.stream : k <= b /\ b < End(r.stream, k))
<1>1. r.write_ptr \in Nat /\ r.stream \in StringMap
  BY ReassemblerFields
<1>2. b \in 0 .. r.write_ptr - 1 <=> b \in Nat /\ b < r.write_ptr
  BY <1>1
<1> QED
  BY <1>1, <1>2, InStored DEF Have

\* Writing a string and erasing it keeps all bytes.
LEMMA TakeString ==
  ASSUME NEW capacity \in Nat, NEW top \in Nat, NEW x, Loaded(x, capacity, top),
         NEW i \in DOMAIN x.stream, i <= x.write_ptr, End(x.stream, i) > x.write_ptr,
         NEW y, y = AssembleStep(x, i)
  PROVE  /\ Loaded(y, capacity, top)
         /\ y.eof_index = x.eof_index /\ y.eof_f = x.eof_f
         /\ y.output.read_count = x.output.read_count
         /\ y.output.end_flag = x.output.end_flag /\ y.output.error = x.output.error
         /\ y.write_ptr = End(x.stream, i)
         /\ y.stream = Erase(x.stream, i)
         /\ Have(y) = Have(x)
<1> DEFINE out == write(x.output, Suffix(x.stream[i], x.write_ptr - i))
           e == End(x.stream, i)
           m == Erase(x.stream, i)
<1>0. x \in ReassemblerType /\ x.stream \in StringMap /\ x.write_ptr \in Nat
  BY ReassemblerFields DEF Loaded
<1>1. y = [x EXCEPT !.write_ptr = e, !.output = out, !.stream = m]
  BY DEF AssembleStep
<1>2. /\ StreamOK(out, capacity)
      /\ out.write_count = e
      /\ out.read_count = x.output.read_count
      /\ out.end_flag = x.output.end_flag /\ out.error = x.output.error
  BY WriteString
<1>3. /\ m \in StringMap
      /\ DOMAIN m = DOMAIN x.stream \ {i}
      /\ \A j \in DOMAIN x.stream \ {i} : m[j] = x.stream[j] /\ End(m, j) = End(x.stream, j)
  BY <1>0, EraseFacts
<1>4. e \in Nat /\ i \in Nat /\ i <= e
  BY <1>0, MapFacts
<1>5. out \in ByteStreamType(Nat)
  BY <1>2 DEF StreamOK
<1> HIDE DEF out, m
<1>6. y \in ReassemblerType
  BY <1>0, <1>1, <1>3, <1>4, <1>5 DEF ReassemblerType
<1>7. /\ y.write_ptr = e /\ y.output = out /\ y.stream = m /\ y.capacity = x.capacity
      /\ y.eof_index = x.eof_index /\ y.eof_f = x.eof_f
  BY <1>0, <1>1 DEF ReassemblerType
<1>8. Right(m) /\ UpTo(m, top) /\ UpTo(m, Limit(y)) /\ e <= top
  <2>1. Limit(y) = Limit(x)
    BY <1>2, <1>7 DEF Limit
  <2> QED
    BY <1>3, <2>1 DEF Loaded, Right, UpTo
<1>9. Loaded(y, capacity, top)
  BY <1>2, <1>6, <1>7, <1>8 DEF Loaded
<1>10. Have(y) = Have(x)
  <2>1. ASSUME NEW b \in Nat
        PROVE  (b < e \/ \E k \in DOMAIN m : k <= b /\ b < End(m, k)) <=>
               (b < x.write_ptr \/ \E k \in DOMAIN x.stream : k <= b /\ b < End(x.stream, k))
    <3> DEFINE w == x.write_ptr
    <3>1. w \in Nat /\ i <= w /\ w < e
      BY <1>0
    <3> HIDE DEF w, e
    <3>2. (\E k \in DOMAIN m : k <= b /\ b < End(m, k)) <=>
             \E k \in DOMAIN x.stream : k # i /\ k <= b /\ b < End(x.stream, k)
      BY <1>3
    <3>3. (b < e) <=> (b < w \/ (i <= b /\ b < e))
      BY <1>4, <3>1
    <3>4. (i <= b /\ b < e) <=> \E k \in DOMAIN x.stream : k = i /\ k <= b /\ b < End(x.stream, k)
      BY DEF e
    <3> QED
      BY <3>2, <3>3, <3>4 DEF w
  <2>2. ASSUME NEW b PROVE b \in Have(y) <=> b \in Have(x)
    <3>1. b \in Have(y) <=> b \in Nat /\ (b < e \/ \E k \in DOMAIN m : k <= b /\ b < End(m, k))
      BY <1>6, <1>7, InHave
    <3>2. b \in Have(x) <=>
            b \in Nat /\ (b < x.write_ptr
                          \/ \E k \in DOMAIN x.stream : k <= b /\ b < End(x.stream, k))
      BY <1>0, InHave
    <3> QED
      BY <2>1, <3>1, <3>2
  <2> QED
    BY <2>2
<1> QED
  BY <1>2, <1>7, <1>9, <1>10 DEF m

\* A round of the first loop.
LEMMA AssembleRound ==
  ASSUME NEW capacity \in Nat, NEW top \in Nat, NEW i \in Nat, NEW r,
         r.stream \in StringMap, r.write_ptr \in Nat,
         NEW x, Assembled(r, x, i, capacity, top),
         NEW y, y = IF i \in DOMAIN r.stream THEN AssembleStep(x, i) ELSE x
  PROVE  Assembled(r, y, i + 1, capacity, top)
<1>0. /\ Loaded(x, capacity, top) /\ x \in ReassemblerType
      /\ x.stream \in StringMap /\ x.write_ptr \in Nat
  BY ReassemblerFields DEF Assembled, Loaded
<1>1. \A k \in DOMAIN r.stream : k \in Nat /\ (k < i + 1 <=> k < i \/ k = i)
                                /\ (k >= i <=> k >= i + 1 \/ k = i)
  BY MapFacts
<1>2. \A k \in DOMAIN x.stream : k \in DOMAIN r.stream /\ k \in Nat /\ End(x.stream, k) \in Nat
  BY <1>0, MapFacts DEF Assembled
<1>3. CASE i \in DOMAIN r.stream /\ i <= x.write_ptr /\ End(x.stream, i) > x.write_ptr
  <2>1. i \in DOMAIN x.stream
    BY <1>3 DEF Assembled
  <2>2. /\ Loaded(y, capacity, top)
        /\ y.eof_index = x.eof_index /\ y.eof_f = x.eof_f
        /\ y.output.read_count = x.output.read_count
        /\ y.output.end_flag = x.output.end_flag /\ y.output.error = x.output.error
        /\ y.write_ptr = End(x.stream, i)
        /\ y.stream = Erase(x.stream, i)
        /\ Have(y) = Have(x)
    BY <1>0, <1>3, <2>1, TakeString
  <2>3. /\ DOMAIN y.stream = DOMAIN x.stream \ {i}
        /\ \A k \in DOMAIN y.stream : End(y.stream, k) = End(x.stream, k)
    <3> DEFINE m == Erase(x.stream, i)
    <3>1. /\ DOMAIN m = DOMAIN x.stream \ {i}
          /\ \A k \in DOMAIN x.stream \ {i} : End(m, k) = End(x.stream, k)
      BY <1>0, <2>1, EraseFacts
    <3>2. y.stream = m
      BY <2>2
    <3> HIDE DEF m
    <3> QED
      BY <3>1, <3>2
  <2>4. \A k \in DOMAIN y.stream : k < i + 1 => End(y.stream, k) <= y.write_ptr
    <3>1. SUFFICES ASSUME NEW k \in DOMAIN y.stream, k < i + 1
                   PROVE  End(x.stream, k) <= End(x.stream, i)
      BY <2>2, <2>3
    <3>2. k \in DOMAIN x.stream /\ k < i
      BY <1>1, <1>2, <2>3, <3>1
    <3>3. k > x.write_ptr \/ End(x.stream, k) <= x.write_ptr
      BY <3>2 DEF Assembled
    <3> QED
      BY <1>0, <1>2, <1>3, <2>1, <3>2, <3>3
  <2>5. y.write_ptr >= r.write_ptr
    <3>1. x.write_ptr >= r.write_ptr
      BY DEF Assembled
    <3> QED
      BY <1>0, <1>2, <1>3, <2>1, <2>2, <3>1
  <2>6. \A k \in DOMAIN r.stream : k >= i + 1 => k \in DOMAIN y.stream
    BY <1>1, <2>3 DEF Assembled
  <2> QED
    BY <2>2, <2>3, <2>4, <2>5, <2>6 DEF Assembled
<1>4. CASE ~(i \in DOMAIN r.stream /\ i <= x.write_ptr /\ End(x.stream, i) > x.write_ptr)
  <2>1. y = x
    BY <1>4 DEF AssembleStep
  <2>2. \A k \in DOMAIN x.stream :
          k < i + 1 => k > x.write_ptr \/ End(x.stream, k) <= x.write_ptr
    <3>1. SUFFICES ASSUME NEW k \in DOMAIN x.stream, k < i + 1
                   PROVE  k > x.write_ptr \/ End(x.stream, k) <= x.write_ptr
      OBVIOUS
    <3>2. CASE k < i
      BY <3>2 DEF Assembled
    <3>3. CASE k = i
      BY <1>0, <1>2, <1>4, <3>3
    <3> QED
      BY <1>1, <1>2, <3>1, <3>2, <3>3
  <2>3. \A k \in DOMAIN r.stream : k >= i + 1 => k \in DOMAIN x.stream
    BY <1>1 DEF Assembled
  <2> QED
    BY <2>1, <2>2, <2>3 DEF Assembled
<1> QED
  BY <1>3, <1>4

\* f is the recursive function of the first loop.
AssembleLoop(f, r, keys, end) ==
  f = [i \in 0 .. end |->
        IF i = 0 THEN r
        ELSE IF (i - 1) \in keys THEN AssembleStep(f[i - 1], i - 1) ELSE f[i - 1]]

\* If there is such a function, Assemble is the last value of one.
LEMMA AssembleIsLoop ==
  ASSUME NEW r, NEW keys, keys = DOMAIN r.stream, NEW end, end = LoopEnd(keys),
         NEW g, AssembleLoop(g, r, keys, end)
  PROVE  \E f : AssembleLoop(f, r, keys, end) /\ Assemble(r) = f[end]
<1> DEFINE R(x, i) == IF (i - 1) \in keys THEN AssembleStep(x, i - 1) ELSE x
           P(f) == f = [i \in 0 .. end |->
                         IF i = 0 THEN r
                         ELSE CHOOSE y \in {R(x, i) : x \in {f[i - 1]}} : TRUE]
<1>1. Assemble(r) = (CHOOSE f : P(f))[end]
  BY DEF Assemble, InKeyOrder, Then, LoopEnd
<1> HIDE DEF R
<1>2. ASSUME NEW f
      PROVE  P(f) <=> f = [i \in 0 .. end |-> IF i = 0 THEN r ELSE R(f[i - 1], i)]
  <2>1. ASSUME NEW e, NEW i
        PROVE  (CHOOSE y \in {R(x, i) : x \in {e}} : TRUE) = R(e, i)
    <3>1. {R(x, i) : x \in {e}} = {R(e, i)}
      OBVIOUS
    <3> QED
      BY <3>1
  <2> QED
    BY <2>1
<1>3. P(g)
  <2>1. g = [i \in 0 .. end |-> IF i = 0 THEN r ELSE R(g[i - 1], i)]
    BY DEF R, AssembleLoop
  <2> QED
    BY <1>2, <2>1
<1>4. P(CHOOSE f : P(f))
  <2> HIDE DEF P
  <2> QED
    BY <1>3
<1> DEFINE f == CHOOSE f : P(f)
<1>5. f = [i \in 0 .. end |-> IF i = 0 THEN r ELSE R(f[i - 1], i)]
  BY <1>2, <1>4
<1>6. Assemble(r) = f[end]
  BY <1>1
<1> HIDE DEF f, P
<1> QED
  BY <1>5, <1>6 DEF R, AssembleLoop

\* After the first loop every byte is kept, and the next one to write is missing.
LEMMA AssembleKeeps ==
  ASSUME NEW capacity \in Nat, NEW top \in Nat, NEW r, Loaded(r, capacity, top),
         NEW y, y = Assemble(r)
  PROVE  /\ Assembled(r, y, LoopEnd(DOMAIN r.stream), capacity, top)
         /\ y.write_ptr \notin Stored(y.stream)
<1> DEFINE keys == DOMAIN r.stream
           end == LoopEnd(keys)
           Y == [i \in 0 .. end |-> {x \in ReassemblerType : Assembled(r, x, i, capacity, top)}]
           step == [i \in 0 .. end |->
                     [x \in Y[i] |-> IF i \in keys THEN AssembleStep(x, i) ELSE x]]
<1>0. r \in ReassemblerType /\ r.stream \in StringMap /\ r.write_ptr \in Nat
  BY ReassemblerFields DEF Loaded
<1>1. keys \subseteq Nat /\ \A k \in keys : k <= top
  BY <1>0, MapFacts DEF Loaded, UpTo
<1>2. end \in Nat /\ \A k \in keys : k < end
  <2> HIDE DEF keys
  <2> QED
    BY <1>1, LoopEndFacts
<1>3. r \in Y[0]
  <2>1. Assembled(r, r, 0, capacity, top)
    BY <1>0, <1>1 DEF Assembled
  <2> QED
    BY <1>0, <1>2, <2>1
<1>4. ASSUME NEW i \in 0 .. end - 1, NEW x \in Y[i]
      PROVE  /\ step[i][x] = IF i \in keys THEN AssembleStep(x, i) ELSE x
             /\ (IF i \in keys THEN AssembleStep(x, i) ELSE x) \in Y[i + 1]
  <2>1. i \in 0 .. end /\ i + 1 \in 0 .. end /\ i \in Nat
    BY <1>2
  <2>2. Assembled(r, x, i, capacity, top)
    BY <2>1
  <2> DEFINE y1 == IF i \in keys THEN AssembleStep(x, i) ELSE x
  <2>3. Assembled(r, y1, i + 1, capacity, top)
    BY <1>0, <2>1, <2>2, AssembleRound
  <2>4. y1 \in ReassemblerType
    BY <2>3 DEF Assembled, Loaded
  <2>5. step[i][x] = y1
    BY <2>1
  <2> HIDE DEF y1
  <2>6. y1 \in Y[i + 1]
    BY <2>1, <2>3, <2>4
  <2> QED
    BY <2>5, <2>6 DEF y1
<1>5. \A x \in Y[end] : Assembled(r, x, end, capacity, top)
  BY <1>2
<1> HIDE DEF Y, step, end, keys
<1>6. PICK g : IsStaged(g, end, Y, r, step)
  <2>1. \A i \in 0 .. end - 1 : \A x \in Y[i] : step[i][x] \in Y[i + 1]
    BY <1>4
  <2> QED
    BY <1>2, <1>3, <2>1, StagedLoop
<1>7. AssembleLoop(g, r, keys, end)
  <2>1. ASSUME NEW i \in 0 .. end, i # 0
        PROVE  step[i - 1][g[i - 1]]
                 = IF (i - 1) \in keys THEN AssembleStep(g[i - 1], i - 1) ELSE g[i - 1]
    <3>1. i - 1 \in 0 .. end - 1 /\ i - 1 \in 0 .. end
      BY <1>2, <2>1
    <3> QED
      BY <1>4, <1>6, <3>1 DEF IsStaged
  <2> QED
    BY <1>6, <2>1 DEF IsStaged, AssembleLoop
<1>8. PICK f : AssembleLoop(f, r, keys, end) /\ Assemble(r) = f[end]
  <2>1. keys = DOMAIN r.stream /\ end = LoopEnd(keys)
    BY DEF keys, end
  <2> QED
    BY <1>7, <2>1, AssembleIsLoop
<1>9. \A i \in 0 .. end : f[i] \in Y[i]
  <2>1. f[0] \in Y[0]
    BY <1>2, <1>3, <1>8 DEF AssembleLoop
  <2>2. ASSUME NEW i \in 1 .. end, f[i - 1] \in Y[i - 1] PROVE f[i] \in Y[i]
    <3>1. i - 1 \in 0 .. end - 1 /\ (i - 1) + 1 = i /\ i \in 0 .. end /\ i # 0
      BY <1>2
    <3>2. f[i] = IF (i - 1) \in keys THEN AssembleStep(f[i - 1], i - 1) ELSE f[i - 1]
      BY <1>8, <3>1 DEF AssembleLoop
    <3>3. (IF (i - 1) \in keys THEN AssembleStep(f[i - 1], i - 1) ELSE f[i - 1]) \in Y[(i - 1) + 1]
      BY <1>4, <2>2, <3>1
    <3> QED
      BY <3>1, <3>2, <3>3
  <2> QED
    BY <1>2, <2>1, <2>2, LoopAdvances
<1>10. Assembled(r, y, end, capacity, top)
  BY <1>2, <1>5, <1>8, <1>9
<1>11. y.write_ptr \notin Stored(y.stream)
  <2>1. y.stream \in StringMap /\ y.write_ptr \in Nat
    BY <1>10, ReassemblerFields DEF Assembled, Loaded
  <2>2. ASSUME NEW k \in DOMAIN y.stream PROVE ~(k <= y.write_ptr /\ y.write_ptr < End(y.stream, k))
    <3>1. k \in Nat /\ End(y.stream, k) \in Nat
      BY <2>1, MapFacts
    <3>2. k < end
      BY <1>2, <1>10 DEF Assembled, keys
    <3>3. k > y.write_ptr \/ End(y.stream, k) <= y.write_ptr
      BY <1>10, <3>2 DEF Assembled
    <3> QED
      BY <2>1, <3>1, <3>3
  <2> QED
    BY <2>1, <2>2, InStored
<1> QED
  BY <1>10, <1>11 DEF end, keys

\* n is the map m after the string at i was merged into the one at old: that one
\* ends where the later of the two ended.
IsMerge(m, old, i, n) ==
  /\ n \in StringMap /\ DOMAIN n = DOMAIN m \ {i}
  /\ \A j \in DOMAIN m \ {old, i} : n[j] = m[j] /\ End(n, j) = End(m, j)
  /\ End(n, old) = IF End(m, i) > End(m, old) THEN End(m, i) ELSE End(m, old)
  /\ Right(m) => n[old] = Bytes(old, Len(n[old]))

\* Merge does that to two strings that overlap (stream_reassembler.cc:64-73).
LEMMA MergeFacts ==
  ASSUME NEW m \in StringMap, NEW old \in DOMAIN m, NEW i \in DOMAIN m,
         old < i, i < End(m, old), NEW n, n = Merge(m, old, i)
  PROVE  IsMerge(m, old, i, n)
<1> DEFINE d == End(m, old) - i
           s == m[old] \o Suffix(m[i], d)
           p == [m EXCEPT ![old] = s]
           la == Len(m[old])
           lb == Len(m[i])
<1>1. /\ m[old] \in Seq(Nat) /\ m[i] \in Seq(Nat) /\ la \in Nat /\ lb \in Nat
      /\ old \in Nat /\ i \in Nat
  BY MapFacts
<1>2. End(m, old) = old + la /\ End(m, i) = i + lb
  BY DEF End
<1>3. d = old + la - i /\ d \in Nat
  BY <1>1, <1>2
<1> HIDE DEF la, lb, d
<1>4. /\ Suffix(m[i], d) \in Seq(Nat)
      /\ Len(Suffix(m[i], d)) = IF d <= lb THEN lb - d ELSE 0
  BY <1>1, <1>3, SuffixFacts DEF lb
<1>5. s \in Seq(Nat) /\ Len(s) = la + IF d <= lb THEN lb - d ELSE 0
  <2> DEFINE u == m[old]
             v == Suffix(m[i], d)
  <2>1. u \in Seq(Nat) /\ v \in Seq(Nat) /\ s = u \o v
    BY <1>1, <1>4
  <2> HIDE DEF u, v, s
  <2>2. s \in Seq(Nat) /\ Len(s) = Len(u) + Len(v)
    BY <2>1, ConcatProperties
  <2> QED
    BY <1>4, <2>2 DEF u, v, la
<1>6. Right(m) => s = Bytes(old, Len(s))
  <2>1. SUFFICES ASSUME Right(m) PROVE s = Bytes(old, Len(s))
    OBVIOUS
  <2>2. m[old] = Bytes(old, la) /\ m[i] = Bytes(i, lb)
    BY <2>1 DEF Right, la, lb
  <2>3. CASE d <= lb
    <3>1. Suffix(m[i], d) = Bytes(i + d, lb - d)
      <4>1. d \in 0 .. lb
        BY <1>1, <1>3, <2>3
      <4>2. Suffix(Bytes(i, lb), d) = Bytes(i + d, lb - d)
        BY <1>1, <4>1, SuffixOfBytes
      <4> QED
        BY <2>2, <4>2
    <3>2. i + d = old + la /\ lb - d \in Nat
      BY <1>1, <1>3, <2>3
    <3>3. Bytes(old, la) \o Bytes(old + la, lb - d) = Bytes(old, la + (lb - d))
      BY <1>1, <3>2, BytesConcat
    <3>4. Len(s) = la + (lb - d)
      BY <1>5, <2>3
    <3> QED
      BY <2>2, <3>1, <3>2, <3>3, <3>4
  <2>4. CASE ~(d <= lb)
    <3>1. Suffix(m[i], d) = <<>>
      BY <1>4, <2>4, EmptySeq
    <3>2. s = m[old] /\ Len(s) = la
      BY <1>1, <1>5, <2>4, <3>1, ConcatEmptySeq
    <3> QED
      BY <2>2, <3>2
  <2> QED
    BY <2>3, <2>4
<1> HIDE DEF s
<1>7. p \in StringMap /\ DOMAIN p = DOMAIN m /\ p[old] = s
      /\ \A j \in DOMAIN m \ {old} : p[j] = m[j]
  <2>1. DOMAIN p = DOMAIN m /\ p[old] = s /\ \A j \in DOMAIN m \ {old} : p[j] = m[j]
    OBVIOUS
  <2>2. DOMAIN m \subseteq Nat /\ \A j \in DOMAIN m : p[j] \in Seq(Nat)
    BY <1>5, <2>1, MapFacts
  <2> DEFINE D == DOMAIN m
  <2>3. p \in [D -> Seq(Nat)] /\ D \subseteq Nat
    BY <2>2
  <2> HIDE DEF p, D
  <2> QED
    BY <2>1, <2>3, IsMap
<1>8. n = Erase(p, i)
  BY DEF Merge, s, d
<1> HIDE DEF p
<1>9. /\ n \in StringMap /\ DOMAIN n = DOMAIN m \ {i}
      /\ \A j \in DOMAIN m \ {i} : n[j] = p[j]
  <2>1. i \in DOMAIN p
    BY <1>7
  <2>2. /\ Erase(p, i) \in StringMap /\ DOMAIN Erase(p, i) = DOMAIN p \ {i}
        /\ \A j \in DOMAIN p \ {i} : Erase(p, i)[j] = p[j]
    BY <1>7, <2>1, EraseFacts
  <2> QED
    BY <1>7, <1>8, <2>2
<1>10. old # i
  BY <1>1
<1>11. n[old] = s
  BY <1>7, <1>9, <1>10
<1>12. End(n, old) = IF i + lb > old + la THEN i + lb ELSE old + la
  <2>1. End(n, old) = old + Len(s)
    BY <1>11 DEF End
  <2> QED
    <3> DEFINE ls == Len(s)
    <3>1. ls = la + IF d <= lb THEN lb - d ELSE 0
      BY <1>5
    <3>2. End(n, old) = old + ls
      BY <2>1
    <3> HIDE DEF ls
    <3>3. CASE d <= lb
      <4>1. ls = la + (lb - d)
        BY <3>1, <3>3
      <4>2. old + ls = i + lb /\ i + lb >= old + la
        BY <1>1, <1>3, <3>3, <4>1
      <4>3. CASE i + lb > old + la
        BY <3>2, <4>2, <4>3
      <4>4. CASE ~(i + lb > old + la)
        <5> DEFINE a == i + lb
                   b == old + la
        <5>2. a \in Nat /\ b \in Nat /\ a >= b /\ ~(a > b)
          BY <1>1, <4>2, <4>4
        <5>3. (a \in Nat /\ b \in Nat /\ a >= b /\ ~(a > b)) => a = b
          <6> HIDE DEF a, b
          <6> QED
            OBVIOUS
        <5>1. i + lb = old + la
          BY <5>2, <5>3
        <5> QED
          BY <3>2, <4>2, <4>4, <5>1
      <4> QED
        BY <4>3, <4>4
    <3>4. CASE ~(d <= lb)
      <4>1. ls = la + 0
        BY <3>1, <3>4
      <4> QED
        BY <1>1, <1>3, <3>2, <3>4, <4>1
    <3> QED
      BY <3>3, <3>4
<1>13. \A j \in DOMAIN m \ {old, i} : n[j] = m[j] /\ End(n, j) = End(m, j)
  BY <1>7, <1>9 DEF End
<1> QED
  BY <1>2, <1>6, <1>9, <1>11, <1>12, <1>13 DEF IsMerge

\* From the map m the second loop has come to x, with the keys below i behind it.
Merged(m, x, i) ==
  /\ x \in [m : StringMap, old : Nat]
  /\ x.old \in DOMAIN x.m
  /\ DOMAIN x.m \subseteq DOMAIN m
  /\ \A k \in DOMAIN m : k >= i => k \in DOMAIN x.m
  /\ \A k \in DOMAIN x.m : (k >= i => x.old <= k) /\ (k < i => k <= x.old)
  /\ \A j, k \in DOMAIN x.m : j < k /\ (k < i \/ k = x.old) => End(x.m, j) <= k
  /\ \A b \in Nat : (\E k \in DOMAIN x.m : k <= b /\ b < End(x.m, k))
                    <=> \E k \in DOMAIN m : k <= b /\ b < End(m, k)
  /\ \A n \in Nat : UpTo(m, n) => UpTo(x.m, n)
  /\ Right(m) => Right(x.m)

\* A round that merges.
LEMMA MergeRound ==
  ASSUME NEW i \in Nat, NEW m \in StringMap, NEW x, Merged(m, x, i),
         i \in DOMAIN x.m, i # x.old, i < End(x.m, x.old),
         NEW y, y = [x EXCEPT !.m = Merge(x.m, x.old, i)]
  PROVE  Merged(m, y, i + 1)
<1> DEFINE xm == x.m
           o == x.old
           n == Merge(xm, o, i)
<1>1. /\ xm \in StringMap /\ o \in Nat /\ o \in DOMAIN xm /\ i \in DOMAIN xm
      /\ x \in [m : StringMap, old : Nat]
  BY DEF Merged
<1>2. o < i
  <2>1. o <= i /\ o # i
    BY <1>1 DEF Merged
  <2> QED
    BY <1>1, <2>1
<1>3. \A k \in DOMAIN xm : k \in Nat /\ End(xm, k) \in Nat
  BY <1>1, MapFacts
<1>4. /\ n \in StringMap /\ DOMAIN n = DOMAIN xm \ {i}
      /\ \A j \in DOMAIN xm \ {o, i} : n[j] = xm[j] /\ End(n, j) = End(xm, j)
      /\ End(n, o) = IF End(xm, i) > End(xm, o) THEN End(xm, i) ELSE End(xm, o)
      /\ Right(xm) => n[o] = Bytes(o, Len(n[o]))
  <2>1. i < End(xm, o)
    OBVIOUS
  <2>2. n = Merge(xm, o, i)
    OBVIOUS
  <2> HIDE DEF xm, o, n
  <2>3. IsMerge(xm, o, i, n)
    BY <1>1, <1>2, <2>1, <2>2, MergeFacts
  <2> QED
    BY <2>3 DEF IsMerge
<1>5. /\ DOMAIN xm \subseteq DOMAIN m
      /\ \A k \in DOMAIN m : k >= i => k \in DOMAIN xm
      /\ \A k \in DOMAIN xm : (k >= i => o <= k) /\ (k < i => k <= o)
      /\ \A j, k \in DOMAIN xm : j < k /\ (k < i \/ k = o) => End(xm, j) <= k
      /\ \A b \in Nat : (\E k \in DOMAIN xm : k <= b /\ b < End(xm, k))
                        <=> \E k \in DOMAIN m : k <= b /\ b < End(m, k)
      /\ \A t \in Nat : UpTo(m, t) => UpTo(xm, t)
      /\ Right(m) => Right(xm)
  BY DEF Merged
<1>6. y = [x EXCEPT !.m = n]
  OBVIOUS
<1> HIDE DEF n, xm, o
<1>7. y \in [m : StringMap, old : Nat] /\ y.m = n /\ y.old = o
  BY <1>1, <1>4, <1>6 DEF o
<1>8. o \in DOMAIN n /\ DOMAIN n \subseteq DOMAIN m
  BY <1>1, <1>2, <1>4, <1>5
<1>9. \A k \in DOMAIN m : k >= i + 1 => k \in DOMAIN n
  <2>1. \A k \in DOMAIN m : k \in Nat
    BY MapFacts
  <2>2. \A k \in DOMAIN m : k >= i + 1 => k >= i /\ k # i
    BY <2>1
  <2> QED
    BY <1>4, <1>5, <2>2
<1>10. \A k \in DOMAIN n : (k >= i + 1 => o <= k) /\ (k < i + 1 => k <= o)
  <2>1. ASSUME NEW k \in DOMAIN n PROVE (k >= i + 1 => o <= k) /\ (k < i + 1 => k <= o)
    <3>1. k \in DOMAIN xm /\ k # i /\ k \in Nat
      BY <1>3, <1>4
    <3>2. (k >= i => o <= k) /\ (k < i => k <= o)
      BY <1>5, <3>1
    <3> QED
      BY <3>1, <3>2
  <2> QED
    BY <2>1
<1>11. ASSUME NEW j \in DOMAIN n, NEW k \in DOMAIN n, j < k, k < i + 1 \/ k = o
       PROVE  End(n, j) <= k
  <2>1. j \in DOMAIN xm /\ k \in DOMAIN xm /\ j # i /\ k # i /\ j \in Nat /\ k \in Nat
    BY <1>3, <1>4
  <2>2. k < i \/ k = o
    BY <1>11, <2>1
  <2>3. k <= o
    BY <1>1, <1>5, <2>1, <2>2
  <2>4. j # o
    BY <1>1, <1>11, <2>1, <2>3
  <2>5. End(n, j) = End(xm, j)
    BY <1>4, <2>1, <2>4
  <2>6. End(xm, j) <= k
    BY <1>5, <1>11, <2>1, <2>2
  <2> QED
    BY <2>5, <2>6
<1>12. ASSUME NEW b \in Nat
       PROVE  (\E k \in DOMAIN n : k <= b /\ b < End(n, k))
                <=> \E k \in DOMAIN xm : k <= b /\ b < End(xm, k)
  <2>1. ASSUME NEW k \in DOMAIN n, k <= b, b < End(n, k)
        PROVE  \E l \in DOMAIN xm : l <= b /\ b < End(xm, l)
    <3>1. CASE k = o
      <4>1. CASE b < End(xm, o)
        BY <1>1, <2>1, <3>1, <4>1
      <4>2. CASE ~(b < End(xm, o))
        <5>1. i <= b
          <6>1. i < End(xm, o)
            BY DEF xm, o
          <6> QED
            BY <1>1, <1>3, <4>2, <6>1
        <5>2. b < End(xm, i)
          BY <1>1, <1>3, <1>4, <2>1, <3>1, <4>2
        <5> QED
          BY <1>1, <5>1, <5>2
      <4> QED
        BY <4>1, <4>2
    <3>2. CASE k # o
      BY <1>4, <2>1, <3>2
    <3> QED
      BY <3>1, <3>2
  <2>2. ASSUME NEW k \in DOMAIN xm, k <= b, b < End(xm, k)
        PROVE  \E l \in DOMAIN n : l <= b /\ b < End(n, l)
    <3>1. CASE k = o \/ k = i
      <4>1. o <= b
        BY <1>1, <1>2, <1>3, <2>2, <3>1
      <4>2. b < End(n, o)
        BY <1>1, <1>3, <1>4, <2>2, <3>1
      <4> QED
        BY <1>8, <4>1, <4>2
    <3>2. CASE ~(k = o \/ k = i)
      BY <1>4, <2>2, <3>2
    <3> QED
      BY <3>1, <3>2
  <2> QED
    BY <2>1, <2>2
<1>13. ASSUME NEW t \in Nat, UpTo(m, t) PROVE UpTo(n, t)
  <2>1. \A k \in DOMAIN xm : End(xm, k) <= t
    BY <1>5, <1>13 DEF UpTo
  <2>2. ASSUME NEW k \in DOMAIN n PROVE End(n, k) <= t
    BY <1>1, <1>4, <2>1
  <2> QED
    BY <2>2 DEF UpTo
<1>14. ASSUME Right(m) PROVE Right(n)
  <2>1. Right(xm)
    BY <1>5, <1>14
  <2>2. ASSUME NEW k \in DOMAIN n PROVE n[k] = Bytes(k, Len(n[k]))
    BY <1>4, <2>1 DEF Right
  <2> QED
    BY <2>2 DEF Right
<1>15. \A b \in Nat : (\E k \in DOMAIN n : k <= b /\ b < End(n, k))
                     <=> \E k \in DOMAIN m : k <= b /\ b < End(m, k)
  BY <1>5, <1>12
<1> QED
  BY <1>7, <1>8, <1>9, <1>10, <1>11, <1>13, <1>14, <1>15 DEF Merged

\* A round of the second loop.
LEMMA CoalesceRound ==
  ASSUME NEW i \in Nat, NEW m \in StringMap, NEW x, Merged(m, x, i),
         NEW y, y = IF i \in DOMAIN m THEN CoalesceStep(x, i) ELSE x
  PROVE  Merged(m, y, i + 1)
<1> DEFINE xm == x.m
           o == x.old
<1>1. /\ xm \in StringMap /\ o \in Nat /\ o \in DOMAIN xm
      /\ x \in [m : StringMap, old : Nat]
  BY DEF Merged
<1>2. \A k \in DOMAIN xm : k \in Nat /\ End(xm, k) \in Nat
  BY <1>1, MapFacts
<1>3. \A k \in DOMAIN m : k \in Nat
  BY MapFacts
<1>4. /\ DOMAIN xm \subseteq DOMAIN m
      /\ \A k \in DOMAIN m : k >= i => k \in DOMAIN xm
      /\ \A k \in DOMAIN xm : (k >= i => o <= k) /\ (k < i => k <= o)
      /\ \A j, k \in DOMAIN xm : j < k /\ (k < i \/ k = o) => End(xm, j) <= k
  BY DEF Merged
<1>5. CASE i \in DOMAIN m /\ i # o /\ i < End(xm, o)
  <2>1. i \in DOMAIN xm
    BY <1>4, <1>5
  <2>2. y = [x EXCEPT !.m = Merge(x.m, x.old, i)]
    <3>1. CoalesceStep(x, i) = IF i = x.old THEN x
                               ELSE IF i < End(x.m, x.old)
                                 THEN [x EXCEPT !.m = Merge(x.m, x.old, i)]
                                 ELSE [x EXCEPT !.old = i]
      BY DEF CoalesceStep
    <3>2. y = CoalesceStep(x, i)
      BY <1>5
    <3> QED
      BY <1>5, <3>1, <3>2
  <2> QED
    BY <1>5, <2>1, <2>2, MergeRound
<1>6. CASE i \in DOMAIN m /\ i # o /\ ~(i < End(xm, o))
  <2>1. i \in DOMAIN xm
    BY <1>4, <1>6
  <2>2. y = [x EXCEPT !.old = i]
    BY <1>6 DEF CoalesceStep
  <2>3. y \in [m : StringMap, old : Nat] /\ y.m = xm /\ y.old = i
    BY <1>1, <2>2
  <2>4. o < i
    BY <1>1, <1>4, <1>6, <2>1
  <2>5. \A k \in DOMAIN xm : (k >= i + 1 => i <= k) /\ (k < i + 1 => k <= i)
    BY <1>2
  <2>6. ASSUME NEW j \in DOMAIN xm, NEW k \in DOMAIN xm, j < k, k < i + 1 \/ k = i
        PROVE  End(xm, j) <= k
    <3>1. j \in Nat /\ k \in Nat /\ End(xm, j) \in Nat /\ End(xm, o) \in Nat
      BY <1>1, <1>2
    <3>2. CASE k < i
      BY <1>4, <2>6, <3>2
    <3>3. CASE k = i
      <4>1. End(xm, o) <= i
        BY <1>6, <3>1
      <4>2. j <= o
        BY <1>4, <2>6, <3>3
      <4>3. CASE j = o
        BY <3>3, <4>1, <4>3
      <4>4. CASE j < o
        <5>1. End(xm, j) <= o
          BY <1>1, <1>4, <4>4
        <5> QED
          BY <1>1, <2>4, <3>1, <3>3, <5>1
      <4> QED
        BY <1>1, <3>1, <4>2, <4>3, <4>4
    <3> QED
      BY <2>6, <3>1, <3>2, <3>3
  <2>7. \A k \in DOMAIN m : k >= i + 1 => k \in DOMAIN xm
    BY <1>3, <1>4
  <2> HIDE DEF xm, o
  <2>8. /\ \A b \in Nat : (\E k \in DOMAIN xm : k <= b /\ b < End(xm, k))
                         <=> \E k \in DOMAIN m : k <= b /\ b < End(m, k)
        /\ \A t \in Nat : UpTo(m, t) => UpTo(xm, t)
        /\ Right(m) => Right(xm)
    BY DEF Merged, xm
  <2> QED
    BY <1>4, <2>1, <2>3, <2>5, <2>6, <2>7, <2>8 DEF Merged
<1>7. CASE ~(i \in DOMAIN m /\ i # o)
  <2>1. y = x
    BY <1>7 DEF CoalesceStep
  <2>2. \A k \in DOMAIN xm : (k >= i + 1 => o <= k) /\ (k < i + 1 => k <= o)
    <3>1. ASSUME NEW k \in DOMAIN xm PROVE (k >= i + 1 => o <= k) /\ (k < i + 1 => k <= o)
      <4>1. k \in Nat /\ (k = i => k = o)
        BY <1>2, <1>4, <1>7
      <4>2. (k >= i => o <= k) /\ (k < i => k <= o)
        BY <1>4
      <4> QED
        BY <1>1, <4>1, <4>2
    <3> QED
      BY <3>1
  <2>3. ASSUME NEW j \in DOMAIN xm, NEW k \in DOMAIN xm, j < k, k < i + 1 \/ k = o
        PROVE  End(xm, j) <= k
    <3>1. k \in Nat /\ (k = i => k = o)
      BY <1>2, <1>4, <1>7
    <3>2. k < i \/ k = o
      BY <2>3, <3>1
    <3> QED
      BY <1>4, <2>3, <3>2
  <2>4. \A k \in DOMAIN m : k >= i + 1 => k \in DOMAIN xm
    BY <1>3, <1>4
  <2> HIDE DEF xm, o
  <2>5. x.m = xm /\ x.old = o
    BY DEF xm, o
  <2>6. /\ \A b \in Nat : (\E k \in DOMAIN xm : k <= b /\ b < End(xm, k))
                         <=> \E k \in DOMAIN m : k <= b /\ b < End(m, k)
        /\ \A t \in Nat : UpTo(m, t) => UpTo(xm, t)
        /\ Right(m) => Right(xm)
    BY <2>5 DEF Merged
  <2> QED
    BY <1>1, <1>4, <2>1, <2>2, <2>3, <2>4, <2>5, <2>6 DEF Merged
<1> QED
  BY <1>5, <1>6, <1>7

\* f is the recursive function of the second loop.
CoalesceLoop(f, m, keys, end) ==
  f = [i \in 0 .. end |->
        IF i = 0 THEN [m |-> m, old |-> Min(keys)]
        ELSE IF (i - 1) \in keys THEN CoalesceStep(f[i - 1], i - 1) ELSE f[i - 1]]

\* If there is such a function, the loop leaves the map of the last value of one.
LEMMA CoalesceIsLoop ==
  ASSUME NEW m, NEW keys, keys = DOMAIN m, NEW end, end = LoopEnd(keys),
         NEW g, CoalesceLoop(g, m, keys, end)
  PROVE  \E f : CoalesceLoop(f, m, keys, end) /\ CoalesceStrings(m) = f[end].m
<1> DEFINE init == [m |-> m, old |-> Min(keys)]
           R(x, i) == IF (i - 1) \in keys THEN CoalesceStep(x, i - 1) ELSE x
           P(f) == f = [i \in 0 .. end |->
                         IF i = 0 THEN init
                         ELSE CHOOSE y \in {R(x, i) : x \in {f[i - 1]}} : TRUE]
<1>1. CoalesceStrings(m) = (CHOOSE f : P(f))[end].m
  BY DEF CoalesceStrings, InKeyOrder, Then, LoopEnd
<1> HIDE DEF R, init
<1>2. ASSUME NEW f
      PROVE  P(f) <=> f = [i \in 0 .. end |-> IF i = 0 THEN init ELSE R(f[i - 1], i)]
  <2>1. ASSUME NEW e, NEW i
        PROVE  (CHOOSE y \in {R(x, i) : x \in {e}} : TRUE) = R(e, i)
    <3>1. {R(x, i) : x \in {e}} = {R(e, i)}
      OBVIOUS
    <3> QED
      BY <3>1
  <2> QED
    BY <2>1
<1>3. P(g)
  <2>1. g = [i \in 0 .. end |-> IF i = 0 THEN init ELSE R(g[i - 1], i)]
    BY DEF R, init, CoalesceLoop
  <2> QED
    BY <1>2, <2>1
<1>4. P(CHOOSE f : P(f))
  <2> HIDE DEF P
  <2> QED
    BY <1>3
<1> DEFINE f == CHOOSE f : P(f)
<1>5. f = [i \in 0 .. end |-> IF i = 0 THEN init ELSE R(f[i - 1], i)]
  BY <1>2, <1>4
<1>6. CoalesceStrings(m) = f[end].m
  BY <1>1
<1> HIDE DEF f, P
<1>7. CoalesceLoop(f, m, keys, end)
  BY <1>5 DEF R, init, CoalesceLoop
<1> QED
  BY <1>6, <1>7

\* After the second loop the same bytes are stored, in strings that are apart.
Coalesced(m, n) ==
  /\ n \in StringMap
  /\ Stored(n) = Stored(m)
  /\ Apart(n)
  /\ \A t \in Nat : UpTo(m, t) => UpTo(n, t)
  /\ Right(m) => Right(n)

\* Once all keys are behind it, the second loop has done that.
LEMMA MergedAll ==
  ASSUME NEW m \in StringMap, NEW end \in Nat, \A k \in DOMAIN m : k < end,
         NEW x, Merged(m, x, end)
  PROVE  Coalesced(m, x.m)
<1> DEFINE n == x.m
<1>1. /\ n \in StringMap /\ DOMAIN n \subseteq DOMAIN m
      /\ \A j, k \in DOMAIN n : j < k /\ (k < end \/ k = x.old) => End(n, j) <= k
      /\ \A b \in Nat : (\E k \in DOMAIN n : k <= b /\ b < End(n, k))
                        <=> \E k \in DOMAIN m : k <= b /\ b < End(m, k)
      /\ \A t \in Nat : UpTo(m, t) => UpTo(n, t)
      /\ Right(m) => Right(n)
  BY DEF Merged
<1> HIDE DEF n
<1>2. Apart(n)
  BY <1>1 DEF Apart
<1>3. ASSUME NEW b PROVE b \in Stored(n) <=> b \in Stored(m)
  BY <1>1, InStored
<1>4. Stored(n) = Stored(m)
  BY <1>3
<1>5. Coalesced(m, n)
  BY <1>1, <1>2, <1>4 DEF Coalesced
<1> QED
  BY <1>5 DEF n

\* The second loop of push_substring does that.
LEMMA CoalesceKeeps ==
  ASSUME NEW r \in ReassemblerType, NEW t \in Nat, UpTo(r.stream, t)
  PROVE  \E n : Coalesced(r.stream, n) /\ Coalesce(r) = [r EXCEPT !.stream = n]
<1> DEFINE m == r.stream
           keys == DOMAIN m
           end == LoopEnd(keys)
           init == [m |-> m, old |-> Min(keys)]
           T == [m : StringMap, old : Nat]
           Y == [i \in 0 .. end |-> {x \in T : Merged(m, x, i)}]
           step == [i \in 0 .. end |->
                     [x \in Y[i] |-> IF i \in keys THEN CoalesceStep(x, i) ELSE x]]
<1>0. m \in StringMap
  BY ReassemblerFields
<1>1. keys \subseteq Nat /\ \A k \in keys : k <= t
  <2>1. \A k \in keys : k \in Nat /\ End(m, k) \in Nat /\ k <= End(m, k) /\ End(m, k) <= t
    BY <1>0, MapFacts DEF UpTo
  <2> QED
    BY <2>1
<1>2. end \in Nat /\ \A k \in keys : k < end
  <2> HIDE DEF keys
  <2> QED
    BY <1>1, LoopEndFacts
<1>3. CASE keys = {}
  <2>1. Coalesce(r) = r
    BY <1>3 DEF Coalesce
  <2>2. Coalesced(m, m)
    BY <1>0, <1>3 DEF Coalesced, Apart
  <2>3. r = [r EXCEPT !.stream = m]
    BY DEF ReassemblerType
  <2> HIDE DEF m
  <2> QED
    BY <2>1, <2>2, <2>3 DEF m
<1>4. CASE keys # {}
  <2>1. Min(keys) \in keys /\ \A k \in keys : Min(keys) <= k
    <3> HIDE DEF keys
    <3> QED
      BY <1>1, <1>4, MinFacts
  <2>2. Merged(m, init, 0)
    <3>1. init \in T /\ init.m = m /\ init.old = Min(keys) /\ Min(keys) \in Nat
      BY <1>0, <1>1, <2>1
    <3>2. \A k \in DOMAIN m : ~(k < 0) /\ ~(k < Min(keys))
      BY <1>1, <2>1, <3>1
    <3> HIDE DEF m, init
    <3> QED
      BY <1>0, <2>1, <3>1, <3>2 DEF Merged
  <2>3. init \in Y[0]
    <3>1. init \in T
      BY <2>2 DEF Merged
    <3> QED
      BY <1>2, <2>2, <3>1
  <2>4. ASSUME NEW i \in 0 .. end - 1, NEW x \in Y[i]
        PROVE  /\ step[i][x] = IF i \in keys THEN CoalesceStep(x, i) ELSE x
               /\ (IF i \in keys THEN CoalesceStep(x, i) ELSE x) \in Y[i + 1]
    <3>1. i \in 0 .. end /\ i + 1 \in 0 .. end /\ i \in Nat
      BY <1>2
    <3>2. Merged(m, x, i)
      BY <3>1
    <3> DEFINE y1 == IF i \in keys THEN CoalesceStep(x, i) ELSE x
    <3>3. Merged(m, y1, i + 1)
      BY <1>0, <3>1, <3>2, CoalesceRound
    <3>4. y1 \in T
      BY <3>3 DEF Merged
    <3>5. step[i][x] = y1
      BY <3>1
    <3> HIDE DEF y1
    <3>6. y1 \in Y[i + 1]
      BY <3>1, <3>3, <3>4
    <3> QED
      BY <3>5, <3>6 DEF y1
  <2>5. \A x \in Y[end] : Merged(m, x, end)
    BY <1>2
  <2> HIDE DEF Y, step, end, keys, init, m
  <2>6. PICK g : IsStaged(g, end, Y, init, step)
    <3>1. \A i \in 0 .. end - 1 : \A x \in Y[i] : step[i][x] \in Y[i + 1]
      BY <2>4
    <3> QED
      BY <1>2, <2>3, <3>1, StagedLoop
  <2>7. CoalesceLoop(g, m, keys, end)
    <3>1. ASSUME NEW i \in 0 .. end, i # 0
          PROVE  step[i - 1][g[i - 1]]
                   = IF (i - 1) \in keys THEN CoalesceStep(g[i - 1], i - 1) ELSE g[i - 1]
      <4>1. i - 1 \in 0 .. end - 1 /\ i - 1 \in 0 .. end
        BY <1>2, <3>1
      <4> QED
        BY <2>4, <2>6, <4>1 DEF IsStaged
    <3> QED
      BY <2>6, <3>1 DEF IsStaged, CoalesceLoop, init
  <2>8. PICK f : CoalesceLoop(f, m, keys, end) /\ CoalesceStrings(m) = f[end].m
    <3>1. keys = DOMAIN m /\ end = LoopEnd(keys)
      BY DEF keys, end
    <3> QED
      BY <2>7, <3>1, CoalesceIsLoop
  <2>9. \A i \in 0 .. end : f[i] \in Y[i]
    <3>1. f[0] \in Y[0]
      BY <1>2, <2>3, <2>8 DEF CoalesceLoop, init
    <3>2. ASSUME NEW i \in 1 .. end, f[i - 1] \in Y[i - 1] PROVE f[i] \in Y[i]
      <4>1. i - 1 \in 0 .. end - 1 /\ (i - 1) + 1 = i /\ i \in 0 .. end /\ i # 0
        BY <1>2
      <4>2. f[i] = IF (i - 1) \in keys THEN CoalesceStep(f[i - 1], i - 1) ELSE f[i - 1]
        BY <2>8, <4>1 DEF CoalesceLoop
      <4>3. (IF (i - 1) \in keys THEN CoalesceStep(f[i - 1], i - 1) ELSE f[i - 1])
              \in Y[(i - 1) + 1]
        BY <2>4, <3>2, <4>1
      <4> QED
        BY <4>1, <4>2, <4>3
    <3> QED
      BY <1>2, <3>1, <3>2, LoopAdvances
  <2>10. Merged(m, f[end], end)
    BY <1>2, <2>5, <2>9
  <2>11. Coalesced(m, f[end].m)
    BY <1>0, <1>2, <2>10, MergedAll DEF keys
  <2>12. Coalesce(r) = [r EXCEPT !.stream = CoalesceStrings(m)]
    BY <1>4 DEF Coalesce, keys, m
  <2> QED
    BY <2>8, <2>11, <2>12 DEF m
<1> QED
  BY <1>3, <1>4

\* What is stored is the longer of two strings with the same index.
LEMMA StoreFacts ==
  ASSUME NEW m \in StringMap, NEW index \in Nat, NEW c \in Nat, NEW n,
         n = Store(m, index, Bytes(index, c))
  PROVE  /\ n \in StringMap
         /\ Stored(n) = Stored(m) \cup (index .. index + c - 1)
         /\ Right(m) => Right(n)
         /\ \A t \in Nat : UpTo(m, t) /\ index + c <= t => UpTo(n, t)
<1> DEFINE data == Bytes(index, c)
<1>1. data \in Seq(Nat) /\ Len(data) = c
  BY BytesFacts
<1>2. \A k \in DOMAIN m : k \in Nat /\ m[k] \in Seq(Nat) /\ Len(m[k]) \in Nat
  BY MapFacts
<1>3. CASE index \in DOMAIN m /\ Len(data) <= Len(m[index])
  <2>1. n = m
    BY <1>3 DEF Store
  <2>2. ASSUME NEW b \in index .. index + c - 1 PROVE b \in Stored(m)
    <3>1. b \in Nat /\ index <= b /\ b < index + Len(m[index])
      BY <1>1, <1>2, <1>3
    <3> QED
      BY <1>3, <3>1, InStored DEF End
  <2> QED
    BY <2>1, <2>2
<1>4. CASE ~(index \in DOMAIN m /\ Len(data) <= Len(m[index]))
  <2> DEFINE D == DOMAIN m \cup {index}
  <2>1. n = [k \in D |-> IF k = index THEN data ELSE m[k]]
    BY <1>4 DEF Store
  <2> HIDE DEF data
  <2>2. /\ DOMAIN n = D /\ n[index] = data
        /\ \A k \in DOMAIN m \ {index} : n[k] = m[k]
    BY <2>1
  <2>3. n \in StringMap
    <3>1. D \subseteq Nat
      BY <1>2
    <3>2. \A k \in D : n[k] \in Seq(Nat)
      BY <1>1, <1>2, <2>2
    <3>3. n \in [D -> Seq(Nat)]
      BY <2>1, <3>2
    <3> HIDE DEF D
    <3> QED
      BY <3>1, <3>3, IsMap
  <2>4. /\ End(n, index) = index + c
        /\ \A k \in DOMAIN m \ {index} : End(n, k) = End(m, k)
    BY <1>1, <2>2 DEF End
  <2>5. index \in DOMAIN m => End(m, index) \in Nat /\ End(m, index) <= index + c
    BY <1>1, <1>2, <1>4 DEF End
  <2>6. ASSUME NEW b \in Nat
        PROVE  (\E k \in DOMAIN n : k <= b /\ b < End(n, k)) <=>
               \/ \E k \in DOMAIN m : k <= b /\ b < End(m, k)
               \/ index <= b /\ b < index + c
    <3>1. ASSUME NEW k \in DOMAIN n, k <= b, b < End(n, k)
          PROVE  \/ \E l \in DOMAIN m : l <= b /\ b < End(m, l)
                 \/ index <= b /\ b < index + c
      BY <2>2, <2>4, <3>1
    <3>2. ASSUME index <= b, b < index + c
          PROVE  \E k \in DOMAIN n : k <= b /\ b < End(n, k)
      BY <2>2, <2>4, <3>2
    <3>3. ASSUME NEW k \in DOMAIN m, k <= b, b < End(m, k)
          PROVE  \E l \in DOMAIN n : l <= b /\ b < End(n, l)
      <4>1. CASE k = index
        <5>1. b < index + c
          BY <2>5, <3>3, <4>1
        <5> QED
          BY <3>2, <3>3, <4>1, <5>1
      <4>2. CASE k # index
        BY <2>2, <2>4, <3>3, <4>2
      <4> QED
        BY <4>1, <4>2
    <3> QED
      BY <3>1, <3>2, <3>3
  <2>7. ASSUME NEW b
        PROVE  b \in Stored(n) <=> b \in Stored(m) \cup (index .. index + c - 1)
    <3>1. b \in index .. index + c - 1 <=> b \in Nat /\ index <= b /\ b < index + c
      OBVIOUS
    <3>2. b \in Stored(n) <=> b \in Nat /\ \E k \in DOMAIN n : k <= b /\ b < End(n, k)
      BY <2>3, InStored
    <3>3. b \in Stored(m) <=> b \in Nat /\ \E k \in DOMAIN m : k <= b /\ b < End(m, k)
      BY InStored
    <3> QED
      BY <2>6, <3>1, <3>2, <3>3
  <2>8. Stored(n) = Stored(m) \cup (index .. index + c - 1)
    BY <2>7
  <2>9. ASSUME Right(m) PROVE Right(n)
    <3>1. ASSUME NEW k \in DOMAIN n PROVE n[k] = Bytes(k, Len(n[k]))
      <4>1. CASE k = index
        BY <1>1, <2>2, <4>1 DEF data
      <4>2. CASE k # index
        BY <2>2, <2>9, <4>2 DEF Right
      <4> QED
        BY <4>1, <4>2
    <3> QED
      BY <3>1 DEF Right
  <2>10. \A t \in Nat : UpTo(m, t) /\ index + c <= t => UpTo(n, t)
    BY <2>2, <2>4 DEF UpTo
  <2> QED
    BY <2>3, <2>8, <2>9, <2>10
<1> QED
  BY <1>3, <1>4

\* c bytes of the string index .. index + len - 1 are left below the limit.
IsClip(r, index, len, c) ==
  /\ Clip(r, Bytes(index, len), index) = Bytes(index, c)
  /\ index + c <= Limit(r)
  /\ index .. index + c - 1 = {b \in index .. index + len - 1 : b < Limit(r)}

\* Clip keeps that many bytes, and notes the end when it cuts nothing off.
LEMMA ClipFacts ==
  ASSUME NEW r, Limit(r) \in Nat, NEW index \in Nat, NEW len \in Nat, index <= Limit(r)
  PROVE  \E c \in 0 .. len : IsClip(r, index, len, c)
<1> DEFINE l == Limit(r)
           data == Bytes(index, len)
<1>1. Len(data) = len
  BY BytesFacts
<1>2. CASE index + len > l
  <2> DEFINE c == l - index
  <2>1. c \in 0 .. len /\ index + c = l /\ ~(index + len <= l)
    BY <1>2
  <2>2. Clip(r, data, index) = SubSeq(data, 1, c)
    BY <1>1, <1>2 DEF Clip
  <2>3. index .. index + c - 1 = {b \in index .. index + len - 1 : b < l}
    BY <2>1
  <2> HIDE DEF c
  <2>4. SubSeq(data, 1, c) = Bytes(index, c)
    <3>1. 1 \in 1 .. len + 1 /\ c \in 1 - 1 .. len /\ index + 1 - 1 = index /\ c - 1 + 1 = c
      BY <2>1
    <3>2. SubSeq(Bytes(index, len), 1, c) = Bytes(index + 1 - 1, c - 1 + 1)
      BY <3>1, BytesPart
    <3> QED
      BY <3>1, <3>2
  <2> QED
    BY <2>1, <2>2, <2>3, <2>4 DEF IsClip
<1>3. CASE ~(index + len > l)
  <2>1. Clip(r, data, index) = data
    BY <1>1, <1>3 DEF Clip
  <2>2. index .. index + len - 1 = {b \in index .. index + len - 1 : b < l}
    BY <1>3
  <2>3. IsClip(r, index, len, len)
    BY <1>3, <2>1, <2>2 DEF IsClip
  <2> QED
    BY <2>3
<1> QED
  BY <1>2, <1>3

-----------------------------------------------------------------------------
\* The invariant of a reassembler between calls: besides what Loaded says, the
\* byte to be written next is missing, no two strings overlap, and the end is
\* signalled when it is known and everything before it was written.
ReassemblerOK(r, capacity, top) ==
  /\ Loaded(r, capacity, top)
  /\ r.write_ptr \notin Stored(r.stream)
  /\ Apart(r.stream)
  /\ r.eof_f => r.eof_index = top
  /\ r.output.end_flag <=> r.eof_f /\ r.write_ptr = top

\* The bytes index .. index + len - 1 were pushed into r, which became y.
Pushed(r, y, index, len, last, capacity, top) ==
  /\ ReassemblerOK(y, capacity, top)
  /\ y.output.read_count = r.output.read_count
  /\ y.output.error = r.output.error
  /\ y.write_ptr >= r.write_ptr
  /\ y.eof_f <=> r.eof_f \/ (last /\ index + len <= Limit(r))
  /\ Have(y) = Have(r) \cup {b \in index .. index + len - 1 : b < Limit(r)}

\* push_substring up to its first loop.
StoredString(r, data, index, eofFlag) ==
  [NoteEof(r, data, index, eofFlag) EXCEPT !.stream = Store(@, index, Clip(r, data, index))]

\* push_substring stores, then runs its first loop and then its second.
LEMMA PushIsThreeParts ==
  ASSUME NEW r, NEW data, NEW index, NEW eofFlag
  PROVE  push_substring(r, data, index, eofFlag)
           = EndWhenComplete(Coalesce(Assemble(StoredString(r, data, index, eofFlag))))
<1> DEFINE s == StoredString(r, data, index, eofFlag)
<1>1. push_substring(r, data, index, eofFlag)
        = Then(Then(Then(s, Assemble), Coalesce), EndWhenComplete)
  BY DEF push_substring, StoredString
<1> HIDE DEF s
<1>2. Then(s, Assemble) = Assemble(s)
  BY DEF Then
<1>3. Then(Assemble(s), Coalesce) = Coalesce(Assemble(s))
  BY DEF Then
<1>4. Then(Coalesce(Assemble(s)), EndWhenComplete) = EndWhenComplete(Coalesce(Assemble(s)))
  BY DEF Then
<1> QED
  BY <1>1, <1>2, <1>3, <1>4 DEF s

\* Storing keeps what holds between the statements.
LEMMA StoreKeeps ==
  ASSUME NEW capacity \in Nat, NEW top \in Nat, NEW r, Loaded(r, capacity, top),
         NEW index \in Nat, NEW len \in Nat, index + len <= top, index <= Limit(r),
         NEW last \in BOOLEAN,
         NEW s, s = StoredString(r, Bytes(index, len), index, last)
  PROVE  /\ Loaded(s, capacity, top)
         /\ s.output = r.output /\ s.write_ptr = r.write_ptr
         /\ s.eof_f <=> r.eof_f \/ (last /\ index + len <= Limit(r))
         /\ s.eof_index = IF last /\ index + len <= Limit(r) THEN index + len
                          ELSE r.eof_index
         /\ Have(s) = Have(r) \cup {b \in index .. index + len - 1 : b < Limit(r)}
<1> DEFINE data == Bytes(index, len)
           e == NoteEof(r, data, index, last)
           noted == last /\ index + len <= Limit(r)
<1>1. r \in ReassemblerType /\ r.stream \in StringMap /\ r.output \in ByteStreamType(Nat)
      /\ r.write_ptr \in Nat
  BY ReassemblerFields DEF Loaded
<1>2. Limit(r) \in Nat
  <2>1. r.output.read_count \in Nat /\ r.capacity \in Nat
    BY <1>1, ReassemblerFields DEF ByteStreamType
  <2> QED
    BY <2>1 DEF Limit
<1>3. Len(data) = len
  BY BytesFacts
<1>4. /\ e \in ReassemblerType /\ e.output = r.output /\ e.write_ptr = r.write_ptr
      /\ e.capacity = r.capacity /\ e.stream = r.stream
      /\ e.eof_f = (r.eof_f \/ noted)
      /\ e.eof_index = IF noted THEN index + len ELSE r.eof_index
  <2>1. CASE noted
    <3>1. e = [r EXCEPT !.eof_index = index + len, !.eof_f = TRUE]
      BY <1>3, <2>1 DEF NoteEof
    <3>2. index + len \in Nat
      OBVIOUS
    <3> HIDE DEF e, noted
    <3>3. e \in ReassemblerType
      BY <1>1, <3>1, <3>2 DEF ReassemblerType
    <3>4. /\ e.output = r.output /\ e.write_ptr = r.write_ptr
          /\ e.capacity = r.capacity /\ e.stream = r.stream
          /\ e.eof_f = TRUE /\ e.eof_index = index + len
      BY <1>1, <3>1 DEF ReassemblerType
    <3> QED
      BY <2>1, <3>3, <3>4
  <2>2. CASE ~noted
    <3>1. e = r
      BY <1>3, <2>2 DEF NoteEof
    <3>2. r.eof_f \in BOOLEAN
      BY <1>1, ReassemblerFields
    <3> HIDE DEF e, noted
    <3> QED
      BY <1>1, <2>2, <3>1, <3>2
  <2> QED
    BY <2>1, <2>2
<1>5. PICK c \in 0 .. len : IsClip(r, index, len, c)
  BY <1>2, ClipFacts
<1> DEFINE n == Store(r.stream, index, Bytes(index, c))
<1>6. s = [e EXCEPT !.stream = n]
  BY <1>4, <1>5 DEF StoredString, IsClip
<1>7. /\ n \in StringMap
      /\ Stored(n) = Stored(r.stream) \cup (index .. index + c - 1)
      /\ Right(r.stream) => Right(n)
      /\ \A t \in Nat : UpTo(r.stream, t) /\ index + c <= t => UpTo(n, t)
  <2> DEFINE m == r.stream
  <2>1. m \in StringMap /\ c \in Nat /\ n = Store(m, index, Bytes(index, c))
    BY <1>1
  <2> HIDE DEF m, n
  <2>2. /\ n \in StringMap
        /\ Stored(n) = Stored(m) \cup (index .. index + c - 1)
        /\ Right(m) => Right(n)
        /\ \A t \in Nat : UpTo(m, t) /\ index + c <= t => UpTo(n, t)
    BY <2>1, StoreFacts
  <2> QED
    BY <2>2 DEF m
<1> HIDE DEF n, e, noted
<1>8. s \in ReassemblerType
  BY <1>4, <1>6, <1>7 DEF ReassemblerType
<1>9. /\ s.output = r.output /\ s.write_ptr = r.write_ptr
      /\ s.capacity = r.capacity /\ s.stream = n
      /\ s.eof_f = e.eof_f /\ s.eof_index = e.eof_index
  BY <1>4, <1>6 DEF ReassemblerType
<1>10. Right(n) /\ UpTo(n, top) /\ UpTo(n, Limit(s))
  <2>1. Limit(s) = Limit(r)
    BY <1>9 DEF Limit
  <2>2. index + c <= top
    OBVIOUS
  <2> QED
    BY <1>2, <1>5, <1>7, <2>1, <2>2 DEF Loaded, IsClip
<1>11. Loaded(s, capacity, top)
  BY <1>8, <1>9, <1>10 DEF Loaded
<1>12. Have(s) = Have(r) \cup {b \in index .. index + len - 1 : b < Limit(r)}
  <2>1. Have(s) = (0 .. r.write_ptr - 1) \cup (Stored(r.stream) \cup (index .. index + c - 1))
    BY <1>7, <1>9 DEF Have
  <2> QED
    BY <1>5, <2>1 DEF Have, IsClip
<1> QED
  BY <1>4, <1>9, <1>11, <1>12 DEF noted

\* push_substring keeps the invariant, keeps every byte that fits in the window,
\* and no other.
LEMMA PushKeeps ==
  ASSUME NEW capacity \in Nat, NEW top \in Nat, NEW r, ReassemblerOK(r, capacity, top),
         NEW index \in Nat, NEW len \in Nat, index + len <= top, index <= Limit(r),
         NEW last \in BOOLEAN, last => index + len = top,
         NEW y, y = push_substring(r, Bytes(index, len), index, last)
  PROVE  Pushed(r, y, index, len, last, capacity, top)
<1> DEFINE s == StoredString(r, Bytes(index, len), index, last)
           a == Assemble(s)
           noted == last /\ index + len <= Limit(r)
<1>1. y = EndWhenComplete(Coalesce(a))
  BY PushIsThreeParts
<1>2. Loaded(r, capacity, top)
  BY DEF ReassemblerOK
<1>3. /\ Loaded(s, capacity, top)
      /\ s.output = r.output /\ s.write_ptr = r.write_ptr
      /\ s.eof_f <=> r.eof_f \/ noted
      /\ s.eof_index = IF noted THEN index + len ELSE r.eof_index
      /\ Have(s) = Have(r) \cup {b \in index .. index + len - 1 : b < Limit(r)}
  BY <1>2, StoreKeeps
<1> HIDE DEF s
<1>4. /\ Assembled(s, a, LoopEnd(DOMAIN s.stream), capacity, top)
      /\ a.write_ptr \notin Stored(a.stream)
  BY <1>3, AssembleKeeps
<1> HIDE DEF a
<1>5. /\ Loaded(a, capacity, top) /\ a \in ReassemblerType
      /\ a.eof_index = s.eof_index /\ a.eof_f = s.eof_f
      /\ a.output.read_count = r.output.read_count
      /\ a.output.end_flag = r.output.end_flag /\ a.output.error = r.output.error
      /\ a.write_ptr >= r.write_ptr
      /\ Have(a) = Have(s)
  BY <1>3, <1>4 DEF Assembled, Loaded
<1>6. PICK n : Coalesced(a.stream, n) /\ Coalesce(a) = [a EXCEPT !.stream = n]
  <2>1. UpTo(a.stream, top)
    BY <1>5 DEF Loaded
  <2> QED
    BY <1>5, <2>1, CoalesceKeeps
<1> DEFINE c == [a EXCEPT !.stream = n]
<1>7. n \in StringMap
  BY <1>6 DEF Coalesced
<1>8. /\ c \in ReassemblerType /\ c.output = a.output /\ c.write_ptr = a.write_ptr
      /\ c.capacity = a.capacity /\ c.eof_f = a.eof_f /\ c.eof_index = a.eof_index
      /\ c.stream = n
  BY <1>5, <1>7 DEF ReassemblerType
<1>9. y = EndWhenComplete(c)
  BY <1>1, <1>6
<1> HIDE DEF c
<1> DEFINE done == c.write_ptr = c.eof_index /\ c.eof_f
           o == c.output
           t == IF done THEN end_input(o) ELSE o
<1>10. StreamOK(o, capacity) /\ o \in ByteStreamType(Nat)
  BY <1>5, <1>8 DEF Loaded, StreamOK
<1>11. /\ StreamOK(t, capacity)
       /\ t.read_count = o.read_count /\ t.write_count = o.write_count
       /\ t.end_flag <=> o.end_flag \/ done
       /\ t.error = o.error
  <2>1. CASE done
    <3>1. t = end_input(o)
      BY <2>1
    <3> HIDE DEF t, o, done
    <3>2. /\ StreamOK(t, capacity)
          /\ t.read_count = o.read_count /\ t.write_count = o.write_count
          /\ t.end_flag = TRUE /\ t.error = o.error
      BY <1>10, <3>1, EndKeepsStream
    <3> QED
      BY <2>1, <3>2, Zenon
  <2>2. CASE ~done
    BY <1>10, <2>2
  <2> QED
    BY <2>1, <2>2
<1>12. /\ y \in ReassemblerType /\ y.output = t /\ y.write_ptr = a.write_ptr
       /\ y.capacity = a.capacity /\ y.eof_f = a.eof_f /\ y.eof_index = a.eof_index
       /\ y.stream = n
  <2>1. t \in ByteStreamType(Nat)
    BY <1>11 DEF StreamOK
  <2>2. CASE done
    <3>1. y = [c EXCEPT !.output = t]
      BY <1>9, <2>2 DEF EndWhenComplete
    <3> HIDE DEF t, o, done
    <3> QED
      BY <1>8, <2>1, <3>1 DEF ReassemblerType
  <2>3. CASE ~done
    BY <1>8, <1>9, <2>3 DEF EndWhenComplete
  <2> QED
    BY <2>2, <2>3
<1>13. done <=> a.eof_f /\ a.write_ptr = a.eof_index
  BY <1>8
<1> HIDE DEF t
<1>14. Limit(y) = Limit(a)
  BY <1>8, <1>11, <1>12 DEF Limit, o
<1>15. Loaded(y, capacity, top)
  <2>1. Limit(a) \in Nat
    <3>1. a.output.read_count \in Nat /\ a.capacity \in Nat
      BY <1>5, ReassemblerFields DEF ByteStreamType
    <3> QED
      BY <3>1 DEF Limit
  <2>2. Right(n) /\ UpTo(n, top) /\ UpTo(n, Limit(y))
    BY <1>5, <1>6, <1>14, <2>1 DEF Coalesced, Loaded
  <2>3. y.write_ptr = t.write_count
    BY <1>5, <1>8, <1>11, <1>12 DEF Loaded, o
  <2> QED
    BY <1>5, <1>11, <1>12, <2>2, <2>3 DEF Loaded
<1>16. Stored(n) = Stored(a.stream)
  BY <1>6 DEF Coalesced
<1>17. y.write_ptr \notin Stored(y.stream)
  BY <1>4, <1>12, <1>16
<1>18. Apart(y.stream)
  BY <1>6, <1>12 DEF Coalesced
<1>19. y.eof_f => y.eof_index = top
  <2>1. r.eof_f => r.eof_index = top
    BY DEF ReassemblerOK
  <2> QED
    BY <1>3, <1>5, <1>12, <2>1
<1>20. y.output.end_flag <=> y.eof_f /\ y.write_ptr = top
  <2>1. y.output.end_flag <=> r.output.end_flag \/ (y.eof_f /\ y.write_ptr = y.eof_index)
    BY <1>5, <1>8, <1>11, <1>12, <1>13
  <2>2. r.output.end_flag => y.eof_f /\ y.write_ptr = top
    <3>1. r.output.end_flag => r.eof_f /\ r.write_ptr = top
      BY DEF ReassemblerOK
    <3>2. y.write_ptr \in Nat /\ y.write_ptr <= top /\ y.write_ptr >= r.write_ptr
      BY <1>5, <1>12, <1>15, ReassemblerFields DEF Loaded
    <3>3. r.eof_f => y.eof_f
      BY <1>3, <1>5, <1>12
    <3> QED
      BY <3>1, <3>2, <3>3
  <2> QED
    BY <1>19, <2>1, <2>2
<1>21. ReassemblerOK(y, capacity, top)
  BY <1>15, <1>17, <1>18, <1>19, <1>20 DEF ReassemblerOK
<1>22. Have(y) = Have(r) \cup {b \in index .. index + len - 1 : b < Limit(r)}
  <2>1. Have(y) = Have(a)
    BY <1>12, <1>16 DEF Have
  <2> QED
    BY <1>3, <1>5, <2>1
<1>23. y.output.read_count = r.output.read_count /\ y.output.error = r.output.error
  BY <1>5, <1>8, <1>11, <1>12
<1>24. y.eof_f <=> r.eof_f \/ noted
  BY <1>3, <1>5, <1>12
<1> QED
  BY <1>5, <1>12, <1>21, <1>22, <1>23, <1>24 DEF Pushed

\* y is r after a reader took n bytes from the output.
ReadFrom(r, y, n, capacity, top) ==
  /\ ReassemblerOK(y, capacity, top)
  /\ y.output.read_count = r.output.read_count + n
  /\ y.output.write_count = r.output.write_count
  /\ y.output.end_flag = r.output.end_flag /\ y.output.error = r.output.error
  /\ y.write_ptr = r.write_ptr /\ y.stream = r.stream
  /\ y.eof_f = r.eof_f /\ y.eof_index = r.eof_index

\* A reader that takes bytes from the output keeps the invariant.
LEMMA ReassemblerReadKeeps ==
  ASSUME NEW capacity \in Nat, NEW top \in Nat, NEW r, ReassemblerOK(r, capacity, top),
         NEW n \in Nat, n <= buffer_size(r.output),
         NEW y, y = [r EXCEPT !.output = after_read(r.output, n)]
  PROVE  ReadFrom(r, y, n, capacity, top)
<1> DEFINE o == r.output
           t == after_read(o, n)
<1>1. StreamOK(o, capacity) /\ r \in ReassemblerType
  BY DEF ReassemblerOK, Loaded
<1>2. n <= o.write_count - o.read_count
  BY <1>1, StreamFacts
<1>3. y = [r EXCEPT !.output = t]
  OBVIOUS
<1>4. o.read_count \in Nat
  BY <1>1, StreamFacts
<1> HIDE DEF o
<1>5. /\ StreamOK(t, capacity)
      /\ t.read_count = o.read_count + n
      /\ t.write_count = o.write_count
      /\ t.end_flag = o.end_flag /\ t.error = o.error
  BY <1>1, <1>2, ReadExactly
<1>6. t \in ByteStreamType(Nat)
  BY <1>5 DEF StreamOK
<1> HIDE DEF t
<1>7. /\ y \in ReassemblerType /\ y.output = t /\ y.write_ptr = r.write_ptr
      /\ y.capacity = r.capacity /\ y.stream = r.stream
      /\ y.eof_f = r.eof_f /\ y.eof_index = r.eof_index
  BY <1>1, <1>3, <1>6 DEF ReassemblerType
<1>8. UpTo(y.stream, Limit(y))
  <2>1. UpTo(r.stream, Limit(r)) /\ r.stream \in StringMap /\ r.capacity \in Nat
    BY ReassemblerFields DEF ReassemblerOK, Loaded
  <2>2. Limit(r) \in Nat /\ Limit(y) = Limit(r) + n
    BY <1>4, <1>5, <1>7, <2>1 DEF Limit, o
  <2>3. \A k \in DOMAIN r.stream : End(r.stream, k) \in Nat /\ End(r.stream, k) <= Limit(r)
    BY <2>1, MapFacts DEF UpTo
  <2> QED
    BY <1>7, <2>2, <2>3 DEF UpTo
<1>9. Loaded(y, capacity, top)
  BY <1>5, <1>7, <1>8 DEF ReassemblerOK, Loaded, o
<1>10. ReassemblerOK(y, capacity, top)
  BY <1>5, <1>7, <1>9 DEF ReassemblerOK, o
<1> QED
  BY <1>5, <1>7, <1>10 DEF ReadFrom, o

\* A new reassembler.
LEMMA NewReassemblerOK ==
  ASSUME NEW capacity \in Nat, NEW top \in Nat
  PROVE  ReassemblerOK(NewReassembler(capacity), capacity, top)
<1> DEFINE r == NewReassembler(capacity)
           o == NewByteStream(capacity)
<1>1. StreamOK(o, capacity) /\ o.write_count = 0 /\ o.read_count = 0 /\ o.end_flag = FALSE
  BY NewStreamOK DEF NewByteStream
<1>2. o \in ByteStreamType(Nat)
  BY <1>1 DEF StreamOK
<1>3. r = [output |-> o, capacity |-> capacity, write_ptr |-> 0,
           eof_index |-> capacity, eof_f |-> FALSE, stream |-> <<>>]
  BY DEF NewReassembler
<1>4. <<>> \in StringMap /\ DOMAIN <<>> = {}
  <2>1. <<>> \in [{} -> Seq(Nat)]
    OBVIOUS
  <2> QED
    BY <2>1 DEF StringMap
<1> HIDE DEF r, o
<1>5. /\ r \in ReassemblerType /\ r.output = o /\ r.capacity = capacity
      /\ r.write_ptr = 0 /\ r.eof_f = FALSE /\ r.stream = <<>>
  BY <1>2, <1>3, <1>4 DEF ReassemblerType
<1>6. Loaded(r, capacity, top)
  BY <1>1, <1>4, <1>5 DEF Loaded, Right, UpTo
<1>7. Stored(<<>>) = {}
  BY <1>4 DEF Stored
<1>8. Apart(<<>>)
  BY <1>4 DEF Apart
<1>9. ReassemblerOK(r, capacity, top)
  BY <1>1, <1>5, <1>6, <1>7, <1>8 DEF ReassemblerOK
<1> QED
  BY <1>9 DEF r

\* While the end is not known, the stream may turn out to be longer.
LEMMA LongerStream ==
  ASSUME NEW capacity \in Nat, NEW top \in Nat, NEW longer \in Nat, top <= longer,
         NEW r, ReassemblerOK(r, capacity, top), ~r.eof_f
  PROVE  ReassemblerOK(r, capacity, longer)
<1>1. r.stream \in StringMap /\ r.write_ptr \in Nat
  BY ReassemblerFields DEF ReassemblerOK, Loaded
<1>2. \A k \in DOMAIN r.stream : End(r.stream, k) \in Nat /\ End(r.stream, k) <= top
  BY <1>1, MapFacts DEF ReassemblerOK, Loaded, UpTo
<1>3. UpTo(r.stream, longer)
  BY <1>2 DEF UpTo
<1>4. Loaded(r, capacity, longer)
  BY <1>1, <1>3 DEF ReassemblerOK, Loaded
<1> QED
  BY <1>4 DEF ReassemblerOK

\* write_ptr is the length of the gap-free prefix of what was received.
LEMMA PrefixOfHave ==
  ASSUME NEW capacity \in Nat, NEW top \in Nat, NEW r, ReassemblerOK(r, capacity, top),
         NEW n \in Nat
  PROVE  0 .. n - 1 \subseteq Have(r) <=> n <= r.write_ptr
<1>1. r \in ReassemblerType /\ r.write_ptr \in Nat /\ r.write_ptr \notin Stored(r.stream)
  BY ReassemblerFields DEF ReassemblerOK, Loaded
<1>2. r.write_ptr \notin Have(r)
  BY <1>1 DEF Have
<1>3. ASSUME n <= r.write_ptr PROVE 0 .. n - 1 \subseteq Have(r)
  BY <1>1, <1>3 DEF Have
<1>4. ASSUME ~(n <= r.write_ptr) PROVE r.write_ptr \in 0 .. n - 1
  BY <1>1, <1>4
<1> QED
  BY <1>2, <1>3, <1>4

-----------------------------------------------------------------------------
(* unassembled_bytes. *)

\* The bytes of the strings above w with keys below i.
Waiting(m, w, i) == UNION {k .. End(m, k) - 1 : k \in {j \in DOMAIN m : w < j /\ j < i}}

\* One round of the loop adds the length of one string.
LEMMA WaitingGrows ==
  ASSUME NEW m \in StringMap, Apart(m), NEW w \in Nat, NEW i \in Nat,
         IsFiniteSet(Waiting(m, w, i))
  PROVE  /\ IsFiniteSet(Waiting(m, w, i + 1))
         /\ Cardinality(Waiting(m, w, i + 1))
              = IF i \in DOMAIN m /\ i > w THEN Cardinality(Waiting(m, w, i)) + Len(m[i])
                ELSE Cardinality(Waiting(m, w, i))
<1> DEFINE S == Waiting(m, w, i)
           I == i .. End(m, i) - 1
<1>1. \A k \in DOMAIN m : k \in Nat /\ End(m, k) \in Nat /\ Len(m[k]) \in Nat
  BY MapFacts
<1>2. CASE i \in DOMAIN m /\ i > w
  <2>1. {j \in DOMAIN m : w < j /\ j < i + 1} = {j \in DOMAIN m : w < j /\ j < i} \cup {i}
    BY <1>1, <1>2
  <2>2. Waiting(m, w, i + 1) = S \cup I
    BY <2>1 DEF Waiting
  <2>3. S \cap I = {}
    <3>1. SUFFICES ASSUME NEW b \in S, b \in I PROVE FALSE
      OBVIOUS
    <3>2. PICK k \in DOMAIN m : k < i /\ b \in k .. End(m, k) - 1
      BY DEF Waiting
    <3>3. End(m, k) <= i
      BY <1>2, <3>2 DEF Apart
    <3> QED
      BY <1>1, <1>2, <3>1, <3>2, <3>3
  <2>4. IsFiniteSet(I) /\ Cardinality(I) = Len(m[i])
    <3> DEFINE e == End(m, i) - 1
    <3>1. i \in Int /\ e \in Int /\ e = i + Len(m[i]) - 1 /\ Len(m[i]) \in Nat
      BY <1>1, <1>2 DEF End
    <3> HIDE DEF e
    <3>2. /\ IsFiniteSet(i .. e)
          /\ Cardinality(i .. e) = IF i > e THEN 0 ELSE e - i + 1
      BY <3>1, FS_Interval
    <3>3. (IF i > e THEN 0 ELSE e - i + 1) = Len(m[i])
      BY <3>1
    <3> QED
      BY <3>2, <3>3 DEF e
  <2> HIDE DEF S, I
  <2>5. IsFiniteSet(S)
    BY DEF S
  <2>6. /\ IsFiniteSet(S \cup I)
        /\ Cardinality(S \cup I) = Cardinality(S) + Cardinality(I) - Cardinality(S \cap I)
    BY <2>4, <2>5, FS_Union
  <2>7. Cardinality(S \cap I) = 0 /\ Cardinality(S) \in Nat
    BY <2>3, <2>5, FS_EmptySet, FS_CardinalityType
  <2>8. Len(m[i]) \in Nat
    BY <1>1, <1>2
  <2>9. Cardinality(S \cup I) = Cardinality(S) + Len(m[i])
    BY <2>4, <2>6, <2>7, <2>8
  <2> QED
    BY <1>2, <2>2, <2>6, <2>9 DEF S
<1>3. CASE ~(i \in DOMAIN m /\ i > w)
  <2>1. {j \in DOMAIN m : w < j /\ j < i + 1} = {j \in DOMAIN m : w < j /\ j < i}
    BY <1>1, <1>3
  <2>2. Waiting(m, w, i + 1) = Waiting(m, w, i)
    BY <2>1 DEF Waiting
  <2> QED
    BY <1>3, <2>2
<1> QED
  BY <1>2, <1>3

\* f is the recursive function of the loop.
UnassembledLoop(f, m, w, keys, end) ==
  f = [i \in 0 .. end |->
        IF i = 0 THEN 0
        ELSE IF (i - 1) \in keys
             THEN IF i - 1 > w THEN f[i - 1] + Len(m[i - 1]) ELSE f[i - 1]
             ELSE f[i - 1]]

\* If there is such a function, unassembled_bytes() is the last value of one.
LEMMA UnassembledIsLoop ==
  ASSUME NEW r, NEW keys, keys = DOMAIN r.stream, NEW end, end = LoopEnd(keys),
         NEW g, UnassembledLoop(g, r.stream, r.write_ptr, keys, end)
  PROVE  \E f : /\ UnassembledLoop(f, r.stream, r.write_ptr, keys, end)
                /\ unassembled_bytes(r) = f[end]
<1> DEFINE R(x, i) == IF (i - 1) \in keys
                      THEN IF i - 1 > r.write_ptr THEN x + Len(r.stream[i - 1]) ELSE x
                      ELSE x
           P(f) == f = [i \in 0 .. end |->
                         IF i = 0 THEN 0
                         ELSE CHOOSE y \in {R(x, i) : x \in {f[i - 1]}} : TRUE]
<1>1. unassembled_bytes(r) = (CHOOSE f : P(f))[end]
  BY DEF unassembled_bytes, InKeyOrder, Then, LoopEnd
<1> HIDE DEF R
<1>2. ASSUME NEW f
      PROVE  P(f) <=> f = [i \in 0 .. end |-> IF i = 0 THEN 0 ELSE R(f[i - 1], i)]
  <2>1. ASSUME NEW e, NEW i
        PROVE  (CHOOSE y \in {R(x, i) : x \in {e}} : TRUE) = R(e, i)
    <3>1. {R(x, i) : x \in {e}} = {R(e, i)}
      OBVIOUS
    <3> QED
      BY <3>1
  <2> QED
    BY <2>1
<1>3. P(g)
  <2>1. g = [i \in 0 .. end |-> IF i = 0 THEN 0 ELSE R(g[i - 1], i)]
    BY DEF R, UnassembledLoop
  <2> QED
    BY <1>2, <2>1
<1>4. P(CHOOSE f : P(f))
  <2> HIDE DEF P
  <2> QED
    BY <1>3
<1> DEFINE f == CHOOSE f : P(f)
<1>5. f = [i \in 0 .. end |-> IF i = 0 THEN 0 ELSE R(f[i - 1], i)]
  BY <1>2, <1>4
<1>6. unassembled_bytes(r) = f[end]
  BY <1>1
<1> HIDE DEF f, P
<1>7. UnassembledLoop(f, r.stream, r.write_ptr, keys, end)
  BY <1>5 DEF R, UnassembledLoop
<1> QED
  BY <1>6, <1>7

\* unassembled_bytes() is the number of bytes stored above write_ptr.
LEMMA UnassembledCount ==
  ASSUME NEW capacity \in Nat, NEW top \in Nat, NEW r, ReassemblerOK(r, capacity, top)
  PROVE  unassembled_bytes(r) = Cardinality({b \in Stored(r.stream) : b >= r.write_ptr})
<1> DEFINE m == r.stream
           w == r.write_ptr
           keys == DOMAIN m
           end == LoopEnd(keys)
           N(i) == Cardinality(Waiting(m, w, i))
           Y == [i \in 0 .. end |-> {N(i)}]
           R(x, i) == IF i \in keys THEN IF i > w THEN x + Len(m[i]) ELSE x ELSE x
           step == [i \in 0 .. end |-> [x \in Y[i] |-> R(x, i)]]
<1>0. /\ m \in StringMap /\ w \in Nat /\ Apart(m) /\ UpTo(m, top)
      /\ w \notin Stored(m)
  BY ReassemblerFields DEF ReassemblerOK, Loaded
<1>1. keys \subseteq Nat /\ \A k \in keys : k <= top
  <2>1. \A k \in keys : k \in Nat /\ End(m, k) \in Nat /\ k <= End(m, k) /\ End(m, k) <= top
    BY <1>0, MapFacts DEF UpTo
  <2> QED
    BY <2>1
<1>2. end \in Nat /\ \A k \in keys : k < end
  <2> HIDE DEF keys
  <2> QED
    BY <1>1, LoopEndFacts
<1> HIDE DEF m, w
<1>3. Waiting(m, w, 0) = {}
  <2>1. {j \in DOMAIN m : w < j /\ j < 0} = {}
    BY <1>0, <1>1
  <2> QED
    BY <2>1 DEF Waiting
<1>4. \A i \in Nat : IsFiniteSet(Waiting(m, w, i))
  <2> DEFINE T == {i \in Nat : IsFiniteSet(Waiting(m, w, i))}
  <2>1. 0 \in T
    BY <1>3, FS_EmptySet
  <2>2. ASSUME NEW i \in Nat, i \in T PROVE i + 1 \in T
    BY <1>0, <2>2, WaitingGrows
  <2> HIDE DEF T
  <2>3. \A i \in Nat : i \in T
    BY <2>1, <2>2, SetInduction
  <2> QED
    BY <2>3 DEF T
<1>5. \A i \in Nat : N(i + 1) = R(N(i), i)
  BY <1>0, <1>4, WaitingGrows
<1>6. N(0) = 0
  BY <1>3, FS_EmptySet
<1> HIDE DEF N, R, end, keys
<1>7. \A i \in 0 .. end : Y[i] = {N(i)}
  OBVIOUS
<1>8. ASSUME NEW i \in 0 .. end - 1, NEW x \in Y[i]
      PROVE  step[i][x] = R(x, i) /\ R(x, i) \in Y[i + 1]
  <2>1. i \in 0 .. end /\ i + 1 \in 0 .. end /\ i \in Nat
    BY <1>2
  <2>2. x = N(i)
    BY <1>7, <2>1
  <2>3. step[i][x] = R(x, i)
    BY <2>1
  <2> QED
    BY <1>5, <1>7, <2>1, <2>2, <2>3
<1>9. 0 \in Y[0]
  BY <1>2, <1>6, <1>7
<1> HIDE DEF Y, step
<1>10. PICK g : IsStaged(g, end, Y, 0, step)
  <2>1. \A i \in 0 .. end - 1 : \A x \in Y[i] : step[i][x] \in Y[i + 1]
    BY <1>8
  <2> QED
    BY <1>2, <1>9, <2>1, StagedLoop
<1>11. UnassembledLoop(g, m, w, keys, end)
  <2>1. ASSUME NEW i \in 0 .. end, i # 0 PROVE step[i - 1][g[i - 1]] = R(g[i - 1], i - 1)
    <3>1. i - 1 \in 0 .. end - 1 /\ i - 1 \in 0 .. end
      BY <1>2, <2>1
    <3> QED
      BY <1>8, <1>10, <3>1 DEF IsStaged
  <2>2. g = [i \in 0 .. end |-> IF i = 0 THEN 0 ELSE R(g[i - 1], i - 1)]
    BY <1>10, <2>1 DEF IsStaged
  <2> QED
    BY <2>2 DEF UnassembledLoop, R
<1>12. PICK f : UnassembledLoop(f, m, w, keys, end) /\ unassembled_bytes(r) = f[end]
  <2>1. keys = DOMAIN r.stream /\ end = LoopEnd(keys) /\ m = r.stream /\ w = r.write_ptr
    BY DEF keys, end, m, w
  <2> QED
    BY <1>11, <2>1, UnassembledIsLoop
<1>13. \A i \in 0 .. end : f[i] \in Y[i]
  <2>1. f[0] \in Y[0]
    BY <1>2, <1>9, <1>12 DEF UnassembledLoop
  <2>2. ASSUME NEW i \in 1 .. end, f[i - 1] \in Y[i - 1] PROVE f[i] \in Y[i]
    <3>1. i - 1 \in 0 .. end - 1 /\ (i - 1) + 1 = i /\ i \in 0 .. end /\ i # 0
      BY <1>2
    <3>2. f[i] = R(f[i - 1], i - 1)
      BY <1>12, <3>1 DEF UnassembledLoop, R
    <3>3. R(f[i - 1], i - 1) \in Y[(i - 1) + 1]
      BY <1>8, <2>2, <3>1
    <3> QED
      BY <3>1, <3>2, <3>3
  <2> QED
    BY <1>2, <2>1, <2>2, LoopAdvances
<1>14. unassembled_bytes(r) = Cardinality(Waiting(m, w, end))
  <2>1. f[end] \in {N(end)}
    BY <1>2, <1>7, <1>13
  <2> QED
    BY <1>12, <2>1 DEF N
<1>15. Waiting(m, w, end) = {b \in Stored(m) : b >= w}
  <2>1. \A k \in DOMAIN m : k \in Nat /\ End(m, k) \in Nat /\ k < end
    BY <1>0, <1>2, MapFacts DEF keys
  <2>2. ASSUME NEW b \in Waiting(m, w, end) PROVE b \in Stored(m) /\ b >= w
    <3>1. PICK k \in DOMAIN m : w < k /\ b \in k .. End(m, k) - 1
      BY DEF Waiting
    <3> QED
      BY <1>0, <2>1, <3>1 DEF Stored
  <2>3. ASSUME NEW b \in Stored(m), b >= w PROVE b \in Waiting(m, w, end)
    <3>1. PICK k \in DOMAIN m : b \in k .. End(m, k) - 1
      BY DEF Stored
    <3>2. w < k
      <4>1. SUFFICES ASSUME ~(w < k) PROVE FALSE
        OBVIOUS
      <4>2. w \in k .. End(m, k) - 1
        BY <1>0, <2>1, <2>3, <3>1, <4>1
      <4> QED
        BY <1>0, <4>2 DEF Stored
    <3> QED
      BY <2>1, <3>1, <3>2 DEF Waiting
  <2> QED
    BY <2>2, <2>3
<1> QED
  BY <1>14, <1>15 DEF m, w

\* What waits in the output and what waits for a gap to close fit the capacity.
LEMMA LiveBytes ==
  ASSUME NEW capacity \in Nat, NEW top \in Nat, NEW r, ReassemblerOK(r, capacity, top)
  PROVE  buffer_size(r.output) + unassembled_bytes(r) <= capacity
<1> DEFINE w == r.write_ptr
           S == {b \in Stored(r.stream) : b >= w}
           o == r.output
           l == o.read_count + capacity
<1>1. /\ r.stream \in StringMap /\ w \in Nat /\ StreamOK(o, capacity) /\ w = o.write_count
      /\ UpTo(r.stream, l)
  BY ReassemblerFields DEF ReassemblerOK, Loaded, Limit
<1>2. /\ o.read_count \in Nat /\ o.read_count <= w /\ buffer_size(o) = w - o.read_count
      /\ w - o.read_count <= capacity
  BY <1>1, StreamFacts DEF StreamOK
<1>3. S \subseteq w .. l - 1
  <2>1. SUFFICES ASSUME NEW b \in S PROVE b \in w .. l - 1
    OBVIOUS
  <2>2. PICK k \in DOMAIN r.stream : b \in Nat /\ k <= b /\ b < End(r.stream, k)
    BY <1>1, InStored
  <2>3. End(r.stream, k) \in Nat /\ End(r.stream, k) <= l
    BY <1>1, MapFacts DEF UpTo
  <2> QED
    BY <1>1, <1>2, <2>2, <2>3
<1>4. unassembled_bytes(r) = Cardinality(S)
  BY UnassembledCount
<1> DEFINE h == l - 1
<1>5. w \in Int /\ h \in Int /\ l \in Nat /\ w <= l
  BY <1>1, <1>2
<1>6. S \in SUBSET (w .. h)
  BY <1>3
<1> HIDE DEF S, w, h
<1>7. IsFiniteSet(w .. h) /\ Cardinality(w .. h) = IF w > h THEN 0 ELSE h - w + 1
  BY <1>5, FS_Interval
<1>8. IsFiniteSet(S) /\ Cardinality(S) <= Cardinality(w .. h)
  BY <1>6, <1>7, FS_Subset
<1>9. Cardinality(S) \in Nat
  BY <1>8, FS_CardinalityType
<1>10. Cardinality(w .. h) = l - w
  BY <1>5, <1>7 DEF h
<1> QED
  BY <1>1, <1>2, <1>4, <1>8, <1>9, <1>10
=============================================================================
