---------------------------- MODULE WebGet_proofs ----------------------------
(***************************************************************************)
(* webget writes its request whole, from any list of buffers and whatever  *)
(* part of it each writev takes, prints the whole answer, and gives its    *)
(* descriptor back on every path, for every number and length of buffers   *)
(* and every room of the kernel's buffers.                                 *)
(*                                                                         *)
(* The first section states again the lemmas of DataTheorems about         *)
(* induction and loops, all that is needed here of that module.            *)
(***************************************************************************)
EXTENDS WebGet, SequenceTheorems, WellFoundedInduction, TLAPS

-----------------------------------------------------------------------------
(* Induction and loops. *)

\* Every set of natural numbers that is not empty has a least element.
LEMMA LeastNatural ==
  ASSUME NEW S, S \subseteq Nat, S # {}
  PROVE  \E x \in S : \A y \in S : x <= y
<1> DEFINE R == OpToRel(<, Nat)
<1>1. IsWellFoundedOn(R, Nat)
  BY NatLessThanWellFounded
<1> HIDE DEF R
<1>2. PICK x \in S : \A y \in S : ~ (<<y, x>> \in R)
  BY <1>1, WFMin
<1>3. ASSUME NEW y \in S PROVE x <= y
  <2>1. <<y, x>> \notin {ss \in Nat \X Nat : ss[1] < ss[2]}
    BY <1>2 DEF R, OpToRel
  <2> QED
    BY <2>1
<1> QED
  BY <1>3

\* Induction: a set that holds 0, and n + 1 with every n, holds all numbers.
LEMMA SetInduction ==
  ASSUME NEW T, 0 \in T, \A n \in Nat : n \in T => n + 1 \in T
  PROVE  \A n \in Nat : n \in T
<1> DEFINE U == {n \in Nat : n \notin T}
<1>1. SUFFICES ASSUME U # {} PROVE FALSE
  OBVIOUS
<1>2. U \subseteq Nat
  OBVIOUS
<1> HIDE DEF U
<1>3. PICK x \in U : \A y \in U : x <= y
  BY <1>1, <1>2, LeastNatural
<1>4. x \in Nat /\ x # 0 /\ x \notin T
  BY DEF U
<1>5. x - 1 \in U
  BY <1>4 DEF U
<1>6. x <= x - 1
  BY <1>3, <1>5
<1> QED
  BY <1>4, <1>6

\* h is a run of n rounds from x0.
IsRun(h, n, X, x0, step) ==
  /\ h \in [0 .. n -> X]
  /\ h[0] = x0
  /\ \A k \in 0 .. n - 1 : h[k + 1] = step[k][h[k]]

\* A loop whose rounds map X to X can be run for any number of rounds, and never
\* leaves X.
LEMMA RunExists ==
  ASSUME NEW X, NEW x0 \in X, NEW step \in [Nat -> [X -> X]]
  PROVE  \A n \in Nat : \E h : IsRun(h, n, X, x0, step)
<1> DEFINE T == {n \in Nat : \E h : IsRun(h, n, X, x0, step)}
<1>1. 0 \in T
  <2> DEFINE h == [k \in 0 .. 0 |-> x0]
  <2>1. IsRun(h, 0, X, x0, step)
    BY DEF IsRun
  <2> QED
    BY <2>1
<1>2. ASSUME NEW n \in Nat, n \in T PROVE n + 1 \in T
  <2>1. PICK h : IsRun(h, n, X, x0, step)
    BY <1>2
  <2> DEFINE g == [k \in 0 .. n + 1 |-> IF k = n + 1 THEN step[n][h[n]] ELSE h[k]]
  <2>2. h[n] \in X
    BY <2>1 DEF IsRun
  <2>3. step[n][h[n]] \in X
    BY <2>2
  <2>4. g \in [0 .. n + 1 -> X]
    BY <2>1, <2>3 DEF IsRun
  <2>5. g[0] = x0
    BY <2>1 DEF IsRun
  <2>6. ASSUME NEW k \in 0 .. (n + 1) - 1 PROVE g[k + 1] = step[k][g[k]]
    BY <2>1 DEF IsRun
  <2>7. IsRun(g, n + 1, X, x0, step)
    <3> HIDE DEF g
    <3> QED
      BY <2>4, <2>5, <2>6 DEF IsRun
  <2> QED
    BY <2>7
<1> HIDE DEF T
<1>3. \A n \in Nat : n \in T
  BY <1>1, <1>2, SetInduction
<1> QED
  BY <1>3 DEF T

\* g is the recursive function that the modules write for a loop of n rounds.
IsLoop(g, n, X, x0, step) ==
  /\ g \in [0 .. n -> X]
  /\ g = [k \in 0 .. n |-> IF k = 0 THEN x0 ELSE step[k - 1][g[k - 1]]]

\* There is such a function.
LEMMA LoopExists ==
  ASSUME NEW X, NEW x0 \in X, NEW step \in [Nat -> [X -> X]], NEW n \in Nat
  PROVE  \E g : IsLoop(g, n, X, x0, step)
<1>1. PICK h : IsRun(h, n, X, x0, step)
  BY RunExists
<1>2. h \in [0 .. n -> X]
  BY <1>1 DEF IsRun
<1>3. ASSUME NEW k \in 0 .. n
      PROVE  h[k] = IF k = 0 THEN x0 ELSE step[k - 1][h[k - 1]]
  <2>1. CASE k = 0
    BY <1>1, <2>1 DEF IsRun
  <2>2. CASE k # 0
    <3>1. k - 1 \in 0 .. n - 1 /\ (k - 1) + 1 = k
      BY <2>2
    <3>2. h[(k - 1) + 1] = step[k - 1][h[k - 1]]
      BY <1>1, <3>1 DEF IsRun
    <3> QED
      BY <2>2, <3>1, <3>2
  <2> QED
    BY <2>1, <2>2
<1>4. h = [k \in 0 .. n |-> IF k = 0 THEN x0 ELSE step[k - 1][h[k - 1]]]
  BY <1>2, <1>3
<1> QED
  BY <1>2, <1>4 DEF IsLoop

\* A loop stays in every set that its rounds map into itself.
LEMMA LoopKeeps ==
  ASSUME NEW X, NEW n \in Nat, NEW g, g[0] \in X,
         \A k \in 1 .. n : g[k - 1] \in X => g[k] \in X
  PROVE  \A k \in 0 .. n : g[k] \in X
<1> DEFINE T == {k \in Nat : k <= n => g[k] \in X}
<1>1. 0 \in T
  OBVIOUS
<1>2. ASSUME NEW k \in Nat, k \in T PROVE k + 1 \in T
  <2>1. CASE k + 1 <= n
    <3>1. k + 1 \in 1 .. n /\ (k + 1) - 1 = k /\ g[k] \in X
      BY <1>2, <2>1
    <3> QED
      BY <3>1
  <2>2. CASE ~(k + 1 <= n)
    BY <2>2
  <2> QED
    BY <2>1, <2>2
<1> HIDE DEF T
<1>3. \A k \in Nat : k \in T
  BY <1>1, <1>2, SetInduction
<1> QED
  BY <1>3 DEF T

\* A loop whose rounds lead from each set of the family Y to the next.
LEMMA LoopAdvances ==
  ASSUME NEW n \in Nat, NEW Y, NEW g, g[0] \in Y[0],
         \A k \in 1 .. n : g[k - 1] \in Y[k - 1] => g[k] \in Y[k]
  PROVE  \A k \in 0 .. n : g[k] \in Y[k]
<1> DEFINE T == {k \in Nat : k <= n => g[k] \in Y[k]}
<1>1. 0 \in T
  OBVIOUS
<1>2. ASSUME NEW k \in Nat, k \in T PROVE k + 1 \in T
  <2>1. CASE k + 1 <= n
    <3>1. k + 1 \in 1 .. n /\ (k + 1) - 1 = k /\ g[k] \in Y[k]
      BY <1>2, <2>1
    <3> QED
      BY <3>1
  <2>2. CASE ~(k + 1 <= n)
    BY <2>2
  <2> QED
    BY <2>1, <2>2
<1> HIDE DEF T
<1>3. \A k \in Nat : k \in T
  BY <1>1, <1>2, SetInduction
<1> QED
  BY <1>3 DEF T
-----------------------------------------------------------------------------
(* Lists of buffers. *)

\* A prefix of a string of bytes: its type and its length.
LEMMA PrefixFacts ==
  ASSUME NEW S, NEW s \in Seq(S), NEW n \in 0 .. Len(s)
  PROVE  /\ SubSeq(s, 1, n) \in Seq(S)
         /\ Len(SubSeq(s, 1, n)) = n
<1>1. \A i \in 1 .. n : s[i] \in S
  BY ElementOfSeq, LenProperties
<1> QED
  BY <1>1, SubSeqProperties, LenProperties

\* What is left of a string behind a prefix of it: its type and its length.
LEMMA TailFacts ==
  ASSUME NEW S, NEW s \in Seq(S), NEW n \in 0 .. Len(s)
  PROVE  /\ SubSeq(s, n + 1, Len(s)) \in Seq(S)
         /\ Len(SubSeq(s, n + 1, Len(s))) = Len(s) - n
<1>1. \A i \in n + 1 .. Len(s) : s[i] \in S
  BY ElementOfSeq, LenProperties
<1>2. Len(s) \in Nat
  BY LenProperties
<1> QED
  BY <1>1, <1>2, SubSeqProperties

\* A string is a prefix of it followed by the rest: what pop_output removes and
\* what it leaves make up what was there.
LEMMA PrefixSuffix ==
  ASSUME NEW S, NEW s \in Seq(S), NEW n \in 0 .. Len(s)
  PROVE  SubSeq(s, 1, n) \o SubSeq(s, n + 1, Len(s)) = s
<1>1. Len(s) \in Nat
  BY LenProperties
<1>2. /\ 1 \in 1 .. Len(s) + 1
      /\ n \in 1 - 1 .. Len(s)
      /\ Len(s) \in n .. Len(s)
  BY <1>1
<1>3. SubSeq(s, 1, n) \o SubSeq(s, n + 1, Len(s)) = SubSeq(s, 1, Len(s))
  BY <1>2, ConcatAdjacentSubSeq
<1> QED
  BY <1>3, SubSeqFull


\* g is the string that the loop over the views has put together after k of them.
IsGather(g, views, S) ==
  /\ g \in [0 .. Len(views) -> Seq(S)] /\ g[0] = <<>>
  /\ \A k \in 1 .. Len(views) : g[k] = g[k - 1] \o views[k]
  /\ Gather(views) = g[Len(views)]

\* The loop of concatenate, and of the iovecs, is a function of the views.
LEMMA GatherIsLoop ==
  ASSUME NEW S, NEW views \in Seq(Seq(S))
  PROVE  \E g : IsGather(g, views, S)
<1> DEFINE n == Len(views)
           X == Seq(S)
           view(k) == IF k \in 1 .. n THEN views[k] ELSE <<>>
           step == [k \in Nat |-> [x \in X |-> x \o view(k + 1)]]
           P(f) == f = [k \in 0 .. n |-> IF k = 0 THEN <<>> ELSE f[k - 1] \o views[k]]
<1>1. n \in Nat
  BY LenProperties
<1>2. \A k \in 1 .. n : views[k] \in X
  BY ElementOfSeq
<1>3. <<>> \in X
  BY EmptySeq
<1>4. \A k \in Nat : view(k) \in X
  BY <1>2, <1>3
<1>5. \A k \in 1 .. n : view(k) = views[k]
  OBVIOUS
<1> HIDE DEF view, n
<1>6. step \in [Nat -> [X -> X]]
  <2>1. ASSUME NEW k \in Nat, NEW x \in X PROVE x \o view(k + 1) \in X
    BY <1>4, ConcatProperties
  <2> QED
    BY <2>1
<1>7. \A k \in Nat, x \in X : step[k][x] = x \o view(k + 1)
  OBVIOUS
<1> DEFINE e == <<>>
<1> HIDE DEF X, step, e
<1>8. PICK g : IsLoop(g, n, X, e, step)
  BY <1>1, <1>3, <1>6, LoopExists DEF e
<1>9. P(g)
  <2>1. ASSUME NEW k \in 0 .. n, k # 0
        PROVE  step[k - 1][g[k - 1]] = g[k - 1] \o views[k]
    <3>1. k - 1 \in Nat /\ k - 1 \in 0 .. n /\ (k - 1) + 1 = k /\ k \in 1 .. n
      BY <1>1, <2>1
    <3>2. g[k - 1] \in X
      BY <1>8, <3>1 DEF IsLoop
    <3>3. step[k - 1][g[k - 1]] = g[k - 1] \o view((k - 1) + 1)
      BY <1>7, <3>1, <3>2
    <3> QED
      BY <1>5, <3>1, <3>3
  <2> QED
    BY <1>8, <2>1 DEF IsLoop, e
<1>10. Gather(views) = (CHOOSE f : P(f))[n]
  BY DEF Gather, n
<1> DEFINE h == CHOOSE f : P(f)
<1>11. P(h)
  <2> HIDE DEF P
  <2> QED
    BY <1>9
<1>12. Gather(views) = h[n]
  BY <1>10
<1> HIDE DEF h
<1>13. h[0] = <<>> /\ \A k \in 1 .. n : h[k] = h[k - 1] \o views[k]
  <2>1. 0 \in 0 .. n /\ \A k \in 1 .. n : k \in 0 .. n /\ k # 0
    BY <1>1
  <2>2. h[0] = <<>>
    BY <1>11, <2>1
  <2>3. ASSUME NEW k \in 1 .. n PROVE h[k] = h[k - 1] \o views[k]
    BY <1>11, <2>1
  <2> QED
    BY <2>2, <2>3
<1>14. \A k \in 0 .. n : h[k] \in X
  <2>1. h[0] \in X
    BY <1>3, <1>13
  <2>2. \A k \in 1 .. n : h[k - 1] \in X => h[k] \in X
    BY <1>2, <1>13, ConcatProperties DEF X
  <2> QED
    BY <1>1, <2>1, <2>2, LoopKeeps
<1>15. h \in [0 .. n -> X]
  BY <1>11, <1>14
<1> QED
  BY <1>12, <1>13, <1>15 DEF IsGather, X, n

\* What is gathered is a string.
LEMMA GatherType ==
  ASSUME NEW S, NEW views \in Seq(Seq(S))
  PROVE  Gather(views) \in Seq(S)
<1>1. PICK g : IsGather(g, views, S)
  BY GatherIsLoop
<1>2. Len(views) \in 0 .. Len(views)
  BY LenProperties
<1> QED
  BY <1>1, <1>2 DEF IsGather

\* Of no views it is the empty string.
LEMMA GatherNone ==
  ASSUME NEW S, NEW views \in Seq(Seq(S)), Len(views) = 0
  PROVE  Gather(views) = <<>>
<1>1. PICK g : IsGather(g, views, S)
  BY GatherIsLoop
<1> QED
  BY <1>1 DEF IsGather

\* Three strings one behind the other, whichever two meet first.
Regroups(S) == \A r, s, u \in Seq(S) : (r \o s) \o u = r \o (s \o u)

\* So they do.
LEMMA Regrouped ==
  ASSUME NEW S
  PROVE  Regroups(S)
  BY ConcatAssociative DEF Regroups

\* It is the first view and what is gathered from the others.
LEMMA GatherShift ==
  ASSUME NEW S, NEW v \in Seq(Seq(S)), NEW w \in Seq(Seq(S)), Len(v) = Len(w) + 1,
         \A k \in 1 .. Len(w) : v[k + 1] = w[k]
  PROVE  Gather(v) = v[1] \o Gather(w)
<1>0. Regroups(S)
  BY Regrouped
<1> DEFINE n == Len(w)
           x == v[1]
<1>1. n \in Nat /\ Len(v) = n + 1 /\ 1 \in 1 .. n + 1
  BY LenProperties
<1>2. x \in Seq(S)
  BY <1>1, ElementOfSeq
<1>3. PICK f : IsGather(f, v, S)
  BY GatherIsLoop
<1>4. PICK g : IsGather(g, w, S)
  BY GatherIsLoop
<1>5. /\ f[0] = <<>> /\ \A k \in 1 .. n + 1 : f[k] = f[k - 1] \o v[k]
      /\ Gather(v) = f[n + 1]
  BY <1>1, <1>3 DEF IsGather
<1>6. /\ g[0] = <<>> /\ \A k \in 1 .. n : g[k] = g[k - 1] \o w[k]
      /\ Gather(w) = g[n] /\ \A k \in 0 .. n : g[k] \in Seq(S)
  BY <1>4 DEF IsGather
<1>7. \A k \in 1 .. n : w[k] \in Seq(S) /\ v[k + 1] = w[k]
  BY ElementOfSeq
<1> HIDE DEF n, x
<1> DEFINE T == {k \in Nat : k <= n => f[k + 1] = x \o g[k]}
<1>8. 0 \in T
  <2>1. f[1] = <<>> \o x
    <3>1. 1 \in 1 .. n + 1 /\ 1 - 1 = 0
      BY <1>1
    <3>2. f[1] = f[1 - 1] \o v[1]
      BY <1>5, <3>1
    <3> QED
      BY <1>5, <3>1, <3>2 DEF x
  <2>2. <<>> \o x = x /\ x \o <<>> = x
    BY <1>2, ConcatEmptySeq
  <2>3. f[0 + 1] = x \o g[0]
    BY <1>6, <2>1, <2>2
  <2> QED
    BY <2>3
<1>9. ASSUME NEW k \in Nat, k \in T PROVE k + 1 \in T
  <2>1. CASE k + 1 <= n
    <3>1. /\ k + 1 \in 1 .. n /\ (k + 1) + 1 \in 1 .. n + 1 /\ (k + 1) - 1 = k
          /\ ((k + 1) + 1) - 1 = k + 1 /\ k \in 0 .. n
      BY <1>1, <2>1
    <3>2. f[k + 1] = x \o g[k]
      BY <1>9, <3>1
    <3>3. f[(k + 1) + 1] = (x \o g[k]) \o w[k + 1]
      BY <1>5, <1>7, <3>1, <3>2
    <3>4. g[k] \in Seq(S) /\ w[k + 1] \in Seq(S)
      BY <1>6, <1>7, <3>1
    <3>5. (x \o g[k]) \o w[k + 1] = x \o (g[k] \o w[k + 1])
      BY <1>0, <1>2, <3>4, Zenon DEF Regroups
    <3>6. g[k + 1] = g[k] \o w[k + 1]
      BY <1>6, <3>1
    <3>7. f[(k + 1) + 1] = x \o g[k + 1]
      BY <3>3, <3>5, <3>6
    <3> QED
      BY <3>7
  <2>2. CASE ~(k + 1 <= n)
    BY <1>1, <2>2
  <2> QED
    BY <2>1, <2>2
<1>10. n \in T
  <2> HIDE DEF T
  <2> QED
    BY <1>1, <1>8, <1>9, SetInduction
<1>11. f[n + 1] = x \o g[n]
  BY <1>1, <1>10
<1> QED
  BY <1>5, <1>6, <1>11 DEF x

\* size() is the length of what is gathered.
LEMMA SizeIsLength ==
  ASSUME NEW S, NEW views \in Seq(Seq(S))
  PROVE  size(views) = Len(Gather(views))
<1> DEFINE n == Len(views)
           P(f) == f = [k \in 0 .. n |-> IF k = 0 THEN 0 ELSE f[k - 1] + Len(views[k])]
<1>1. n \in Nat
  BY LenProperties
<1>2. PICK g : IsGather(g, views, S)
  BY GatherIsLoop
<1>3. /\ g[0] = <<>> /\ \A k \in 1 .. n : g[k] = g[k - 1] \o views[k]
      /\ Gather(views) = g[n] /\ \A k \in 0 .. n : g[k] \in Seq(S)
  BY <1>2 DEF IsGather
<1>4. \A k \in 1 .. n : views[k] \in Seq(S)
  BY ElementOfSeq
<1>5. size(views) = (CHOOSE f : P(f))[n]
  BY DEF size
<1> HIDE DEF n
<1>6. P([k \in 0 .. n |-> Len(g[k])])
  <2>1. Len(g[0]) = 0
    BY <1>3, EmptySeq
  <2>2. ASSUME NEW k \in 0 .. n, k # 0
        PROVE  Len(g[k]) = Len(g[k - 1]) + Len(views[k]) /\ k - 1 \in 0 .. n
    <3>1. k \in 1 .. n /\ k - 1 \in 0 .. n
      BY <1>1, <2>2
    <3>2. g[k] = g[k - 1] \o views[k] /\ g[k - 1] \in Seq(S) /\ views[k] \in Seq(S)
      BY <1>3, <1>4, <3>1
    <3> QED
      BY <3>1, <3>2, ConcatProperties
  <2> QED
    BY <2>1, <2>2
<1> DEFINE h == CHOOSE f : P(f)
<1>7. P(h)
  <2> HIDE DEF P
  <2> QED
    BY <1>6
<1>8. size(views) = h[n]
  BY <1>5
<1> HIDE DEF h
<1> DEFINE T == {k \in Nat : k <= n => h[k] = Len(g[k])}
<1>9. 0 \in T
  <2>1. 0 \in 0 .. n
    BY <1>1
  <2>2. h[0] = 0
    BY <1>7, <2>1
  <2> QED
    BY <1>3, <2>2, EmptySeq
<1>10. ASSUME NEW k \in Nat, k \in T PROVE k + 1 \in T
  <2>1. CASE k + 1 <= n
    <3>1. /\ k + 1 \in 1 .. n /\ k + 1 \in 0 .. n /\ k + 1 # 0 /\ (k + 1) - 1 = k
          /\ k \in 0 .. n
      BY <1>1, <2>1
    <3>2. h[k + 1] = h[k] + Len(views[k + 1])
      BY <1>7, <3>1
    <3>3. h[k] = Len(g[k])
      BY <1>1, <1>10, <2>1
    <3>4. g[k + 1] = g[k] \o views[k + 1] /\ g[k] \in Seq(S) /\ views[k + 1] \in Seq(S)
      BY <1>3, <1>4, <3>1
    <3>5. Len(g[k + 1]) = Len(g[k]) + Len(views[k + 1])
      BY <3>4, ConcatProperties
    <3>6. h[k + 1] = Len(g[k + 1])
      BY <3>2, <3>3, <3>5
    <3> QED
      BY <3>6
  <2>2. CASE ~(k + 1 <= n)
    BY <1>1, <2>2
  <2> QED
    BY <2>1, <2>2
<1>11. n \in T
  <2> HIDE DEF T
  <2> QED
    BY <1>1, <1>9, <1>10, SetInduction
<1> QED
  BY <1>1, <1>3, <1>8, <1>11

\* The state of remove_prefix's loop after k turns: what it has dropped from the
\* front, and that it has not ended before there was nothing left to drop.
Dropped(l, k, views, n, S) ==
  /\ l.views \in Seq(Seq(S)) /\ l.n \in 0 .. n
  /\ \E p \in Seq(S) : Len(p) = n - l.n /\ Gather(views) = p \o Gather(l.views)
  /\ l.n = 0 \/ Len(l.views) = Len(views) - k

\* A loop state is a list and a count.
PrefixState(S) == [views : Seq(Seq(S)), n : Nat]

\* From l to m something is dropped from the front, and the first view with it
\* unless the loop has ended.
IsTurn(l, m, S) ==
  /\ m \in PrefixState(S) /\ m.n <= l.n
  /\ \E p \in Seq(S) : Len(p) = l.n - m.n /\ Gather(l.views) = p \o Gather(m.views)
  /\ m.n = 0 \/ (Len(l.views) = 0 /\ m = l) \/ Len(m.views) = Len(l.views) - 1

\* A string in front of others.
Prepends(T) ==
  \A b \in T, t \in Seq(T) :
    /\ <<b>> \o t \in Seq(T) /\ Len(<<b>> \o t) = Len(t) + 1
    /\ (<<b>> \o t)[1] = b
    /\ \A k \in 1 .. Len(t) : (<<b>> \o t)[k + 1] = t[k]

\* It is the first of them, and the others follow in their order.
LEMMA Prepended ==
  ASSUME NEW T
  PROVE  Prepends(T)
<1> SUFFICES ASSUME NEW b \in T, NEW t \in Seq(T)
             PROVE  /\ <<b>> \o t \in Seq(T) /\ Len(<<b>> \o t) = Len(t) + 1
                    /\ (<<b>> \o t)[1] = b
                    /\ \A k \in 1 .. Len(t) : (<<b>> \o t)[k + 1] = t[k]
  BY Zenon DEF Prepends
<1> DEFINE u == <<b>>
<1>1. u \in Seq(T) /\ Len(u) = 1 /\ u[1] = b
  OBVIOUS
<1>2. Len(t) \in Nat
  BY LenProperties
<1> HIDE DEF u
<1>3. u \o t \in Seq(T) /\ Len(u \o t) = Len(u) + Len(t)
  BY <1>1, ConcatProperties
<1>4. \A i \in 1 .. Len(u) + Len(t) : (u \o t)[i] = IF i <= Len(u) THEN u[i] ELSE t[i - Len(u)]
  BY <1>1, ConcatProperties
<1>5. (u \o t)[1] = b
  BY <1>1, <1>2, <1>4
<1>6. ASSUME NEW k \in 1 .. Len(t) PROVE (u \o t)[k + 1] = t[k]
  <2>1. k + 1 \in 1 .. Len(u) + Len(t) /\ ~(k + 1 <= Len(u)) /\ (k + 1) - Len(u) = k
    BY <1>1, <1>2
  <2>2. (u \o t)[k + 1] = IF k + 1 <= Len(u) THEN u[k + 1] ELSE t[(k + 1) - Len(u)]
    BY <1>4, <2>1
  <2> QED
    BY <2>1, <2>2
<1> QED
  BY <1>1, <1>2, <1>3, <1>5, <1>6 DEF u

\* One turn drops the first view, or cuts it.
LEMMA TurnFacts ==
  ASSUME NEW S, NEW l \in PrefixState(S), NEW m, m = PrefixTurn(l)
  PROVE  IsTurn(l, m, S)
<1>0. Regroups(S)
  BY Regrouped
<1> DEFINE v == l.views
           c == l.n
           h == Head(v)
           t == Tail(v)
<1>1. v \in Seq(Seq(S)) /\ c \in Nat /\ Len(v) \in Nat
  BY LenProperties DEF PrefixState
<1>2. Gather(v) \in Seq(S)
  BY <1>1, GatherType
<1>3. CASE c = 0 \/ v = <<>>
  <2>1. m = l /\ (c = 0 \/ Len(v) = 0)
    BY <1>3, EmptySeq DEF PrefixTurn
  <2>2. <<>> \in Seq(S) /\ Len(<<>>) = 0 /\ <<>> \o Gather(v) = Gather(v)
    BY <1>2, EmptySeq, ConcatEmptySeq
  <2>3. c - c = 0 /\ c <= c
    BY <1>1
  <2> HIDE DEF v, c
  <2>4. l.views = v /\ l.n = c
    BY DEF v, c
  <2>5. \E p \in Seq(S) : Len(p) = c - c /\ Gather(v) = p \o Gather(v)
    BY <2>2, <2>3
  <2> QED
    BY <2>1, <2>3, <2>4, <2>5 DEF IsTurn
<1>4. CASE c # 0 /\ v # <<>>
  <2>1. /\ h \in Seq(S) /\ t \in Seq(Seq(S)) /\ Len(t) = Len(v) - 1 /\ v[1] = h
        /\ \A k \in 1 .. Len(t) : v[k + 1] = t[k]
    BY <1>1, <1>4, HeadTailProperties
  <2>2. Gather(v) = h \o Gather(t) /\ Gather(t) \in Seq(S) /\ Len(h) \in Nat
    <3>1. Len(v) = Len(t) + 1
      BY <1>1, <2>1
    <3>2. Gather(v) = v[1] \o Gather(t)
      BY <1>1, <2>1, <3>1, GatherShift
    <3> QED
      BY <2>1, <3>2, GatherType, LenProperties
  <2>3. CASE c < Len(h)
    <3> DEFINE a == SubSeq(h, 1, c)
               b == SubSeq(h, c + 1, Len(h))
               w == <<b>> \o t
    <3>1. c \in 0 .. Len(h)
      BY <1>1, <2>2, <2>3
    <3>2. a \in Seq(S) /\ Len(a) = c /\ b \in Seq(S) /\ a \o b = h
      BY <2>1, <3>1, PrefixFacts, TailFacts, PrefixSuffix
    <3>3. m = [views |-> w, n |-> 0]
      BY <1>4, <2>3 DEF PrefixTurn
    <3> HIDE DEF a, b
    <3>4. /\ w \in Seq(Seq(S)) /\ Len(w) = Len(t) + 1 /\ w[1] = b
          /\ \A k \in 1 .. Len(t) : w[k + 1] = t[k]
      <4>1. b \in Seq(S) /\ t \in Seq(Seq(S))
        BY <2>1, <3>2
      <4>2. Prepends(Seq(S))
        BY Prepended
      <4> HIDE DEF t, h, v, c
      <4> QED
        BY <4>1, <4>2, Zenon DEF Prepends, w
    <3> HIDE DEF w
    <3>5. Gather(w) = b \o Gather(t) /\ Gather(w) \in Seq(S)
      <4>1. Gather(w) = w[1] \o Gather(t)
        BY <2>1, <3>4, GatherShift
      <4> QED
        BY <3>4, <4>1, GatherType
    <3>6. Gather(v) = a \o Gather(w)
      <4>1. (a \o b) \o Gather(t) = a \o (b \o Gather(t))
        BY <1>0, <2>2, <3>2, Zenon DEF Regroups
      <4> QED
        BY <2>2, <3>2, <3>5, <4>1
    <3>7. m.views = w /\ m.n = 0 /\ m \in PrefixState(S)
      BY <3>3, <3>4 DEF PrefixState
    <3>8. Len(a) = c - 0 /\ 0 <= c
      BY <1>1, <3>2
    <3>9. \E p \in Seq(S) : Len(p) = l.n - m.n /\ Gather(l.views) = p \o Gather(m.views)
      <4>1. /\ a \in Seq(S) /\ Len(a) = l.n - m.n
            /\ Gather(l.views) = a \o Gather(m.views)
        BY <3>2, <3>6, <3>7, <3>8
      <4> QED
        BY <4>1, Zenon
    <3>10. m.n <= l.n
      BY <3>7, <3>8
    <3> QED
      BY <3>7, <3>9, <3>10, Zenon DEF IsTurn
  <2>4. CASE ~(c < Len(h))
    <3>1. m = [views |-> t, n |-> c - Len(h)]
      BY <1>4, <2>4 DEF PrefixTurn
    <3>2. c - Len(h) \in Nat /\ c - Len(h) <= c /\ Len(h) = c - (c - Len(h))
      BY <1>1, <2>2, <2>4
    <3>3. m.views = t /\ m.n = c - Len(h) /\ m \in PrefixState(S)
      BY <2>1, <3>1, <3>2 DEF PrefixState
    <3> QED
      BY <2>1, <2>2, <3>2, <3>3 DEF IsTurn
  <2> QED
    BY <2>3, <2>4
<1> QED
  BY <1>3, <1>4

\* A turn keeps what the loop state says.
LEMMA TurnKeeps ==
  ASSUME NEW S, NEW views \in Seq(Seq(S)), NEW n \in Nat, NEW k \in Nat,
         NEW l \in PrefixState(S), NEW m, m = PrefixTurn(l), Dropped(l, k, views, n, S),
         k < Len(views)
  PROVE  m \in PrefixState(S) /\ Dropped(m, k + 1, views, n, S)
<1>0. Regroups(S)
  BY Regrouped
<1>1. /\ m \in PrefixState(S) /\ m.n <= l.n
      /\ \E p \in Seq(S) : Len(p) = l.n - m.n /\ Gather(l.views) = p \o Gather(m.views)
      /\ m.n = 0 \/ (Len(l.views) = 0 /\ m = l) \/ Len(m.views) = Len(l.views) - 1
  <2>1. IsTurn(l, m, S)
    BY TurnFacts
  <2> QED
    BY <2>1 DEF IsTurn
<1>2. /\ l.views \in Seq(Seq(S)) /\ m.views \in Seq(Seq(S)) /\ l.n \in Nat /\ m.n \in Nat
      /\ l.n <= n
  BY <1>1 DEF PrefixState, Dropped
<1>3. PICK p \in Seq(S) : Len(p) = l.n - m.n /\ Gather(l.views) = p \o Gather(m.views)
  BY <1>1
<1>4. PICK q \in Seq(S) : Len(q) = n - l.n /\ Gather(views) = q \o Gather(l.views)
  BY DEF Dropped
<1>5. q \o p \in Seq(S) /\ Len(q \o p) = n - m.n
  <2>1. q \o p \in Seq(S) /\ Len(q \o p) = Len(q) + Len(p)
    BY ConcatProperties
  <2>2. Len(q) + Len(p) = n - m.n
    <3> DEFINE a == l.n
               b == m.n
    <3>1. Len(q) = n - a /\ Len(p) = a - b /\ a \in Nat /\ b \in Nat
      BY <1>2, <1>3, <1>4
    <3> HIDE DEF a, b
    <3>2. (n - a) + (a - b) = n - b
      BY <3>1
    <3> QED
      BY <3>1, <3>2 DEF b
  <2> QED
    BY <2>1, <2>2
<1>6. Gather(views) = (q \o p) \o Gather(m.views)
  <2>1. Gather(m.views) \in Seq(S)
    BY <1>2, GatherType
  <2>2. (q \o p) \o Gather(m.views) = q \o (p \o Gather(m.views))
    BY <1>0, <2>1, Zenon DEF Regroups
  <2> QED
    BY <1>3, <1>4, <2>2
<1>7. m.n = 0 \/ Len(m.views) = Len(views) - (k + 1)
  <2>1. Len(views) \in Nat /\ Len(l.views) \in Nat
    BY <1>2, LenProperties
  <2>2. l.n = 0 \/ Len(l.views) = Len(views) - k
    BY DEF Dropped
  <2>3. CASE l.n = 0
    BY <1>1, <1>2, <2>3
  <2>4. CASE l.n # 0
    <3>1. Len(l.views) = Len(views) - k /\ Len(l.views) # 0
      BY <2>1, <2>2, <2>4
    <3>2. m.n = 0 \/ Len(m.views) = Len(l.views) - 1
      BY <1>1, <3>1
    <3> QED
      BY <2>1, <3>1, <3>2
  <2> QED
    BY <2>3, <2>4
<1>8. m.n \in 0 .. n
  BY <1>1, <1>2
<1> QED
  BY <1>1, <1>2, <1>5, <1>6, <1>7, <1>8 DEF Dropped

\* BufferViewList::remove_prefix drops the first n bytes, whatever views they are
\* spread over, and leaves the others.
LEMMA RemovePrefixFacts ==
  ASSUME NEW S, NEW views \in Seq(Seq(S)), NEW n \in 0 .. size(views)
  PROVE  /\ remove_prefix(views, n) \in Seq(Seq(S))
         /\ \E p \in Seq(S) : /\ Len(p) = n
                              /\ Gather(views) = p \o Gather(remove_prefix(views, n))
<1> DEFINE e == Len(views)
           X == PrefixState(S)
           l0 == [views |-> views, n |-> n]
           step == [k \in Nat |-> [x \in X |-> PrefixTurn(x)]]
           P(f) == f = [k \in 0 .. e |-> IF k = 0 THEN l0 ELSE PrefixTurn(f[k - 1])]
<1>1. e \in Nat /\ Gather(views) \in Seq(S) /\ size(views) = Len(Gather(views))
      /\ Len(Gather(views)) \in Nat
  BY GatherType, SizeIsLength, LenProperties
<1>2. n \in Nat /\ n <= Len(Gather(views))
  BY <1>1
<1>3. l0 \in X /\ l0.views = views /\ l0.n = n
  BY <1>2 DEF PrefixState
<1>4. ASSUME NEW x \in X PROVE PrefixTurn(x) \in X
  <2>1. IsTurn(x, PrefixTurn(x), S)
    BY TurnFacts
  <2> QED
    BY <2>1 DEF IsTurn
<1>5. remove_prefix(views, n) = (CHOOSE f : P(f))[e].views
  BY DEF remove_prefix
<1>6. step \in [Nat -> [X -> X]] /\ \A k \in Nat, x \in X : step[k][x] = PrefixTurn(x)
  BY <1>4
<1> HIDE DEF e, X, l0, step
<1>7. PICK g : IsLoop(g, e, X, l0, step)
  BY <1>1, <1>3, <1>6, LoopExists
<1>8. P(g)
  <2>1. ASSUME NEW k \in 0 .. e, k # 0
        PROVE  step[k - 1][g[k - 1]] = PrefixTurn(g[k - 1])
    <3>1. k - 1 \in Nat /\ k - 1 \in 0 .. e
      BY <1>1, <2>1
    <3> QED
      BY <1>6, <1>7, <3>1 DEF IsLoop
  <2> QED
    BY <1>7, <2>1 DEF IsLoop
<1> DEFINE h == CHOOSE f : P(f)
<1>9. P(h)
  <2> HIDE DEF P
  <2> QED
    BY <1>8
<1>10. remove_prefix(views, n) = h[e].views
  BY <1>5
<1> HIDE DEF h
<1>11. h[0] = l0 /\ \A k \in 1 .. e : h[k] = PrefixTurn(h[k - 1])
  <2>1. 0 \in 0 .. e /\ \A k \in 1 .. e : k \in 0 .. e /\ k # 0
    BY <1>1
  <2> QED
    BY <1>9, <2>1
<1> DEFINE Y == [k \in Nat |-> {x \in X : Dropped(x, k, views, n, S)}]
<1>12. h[0] \in Y[0]
  <2>1. <<>> \in Seq(S) /\ Len(<<>>) = 0 /\ <<>> \o Gather(views) = Gather(views)
    BY <1>1, EmptySeq, ConcatEmptySeq
  <2>2. Len(views) = Len(views) - 0 /\ n - n = 0 /\ n \in 0 .. n
    BY <1>1, <1>2 DEF e
  <2>3. Dropped(l0, 0, views, n, S)
    BY <1>3, <2>1, <2>2 DEF Dropped
  <2> QED
    BY <1>3, <1>11, <2>3
<1>13. ASSUME NEW k \in 1 .. e, h[k - 1] \in Y[k - 1] PROVE h[k] \in Y[k]
  <2> DEFINE j == k - 1
             x == h[j]
  <2>1. j \in Nat /\ j < Len(views) /\ j + 1 = k /\ k \in Nat
    BY <1>1 DEF e
  <2>2. x \in X /\ Dropped(x, j, views, n, S)
    BY <1>13, <2>1
  <2>3. h[k] = PrefixTurn(x)
    BY <1>11
  <2> HIDE DEF j, x
  <2>4. h[k] \in X /\ Dropped(h[k], j + 1, views, n, S)
    BY <1>2, <2>1, <2>2, <2>3, TurnKeeps DEF X
  <2> QED
    BY <2>1, <2>4
<1>14. h[e] \in X /\ Dropped(h[e], e, views, n, S)
  <2>1. \A k \in Nat : \A x \in Y[k] : x \in X /\ Dropped(x, k, views, n, S)
    OBVIOUS
  <2> HIDE DEF Y
  <2>2. \A k \in 0 .. e : h[k] \in Y[k]
    BY <1>1, <1>12, <1>13, LoopAdvances
  <2> QED
    BY <1>1, <2>1, <2>2
<1> DEFINE l == h[e]
<1> HIDE DEF l
<1>15. /\ l.views \in Seq(Seq(S)) /\ l.n \in Nat
       /\ l.n = 0 \/ Len(l.views) = 0
       /\ remove_prefix(views, n) = l.views
  BY <1>1, <1>10, <1>14 DEF Dropped, l, e
<1>16. PICK p \in Seq(S) : Len(p) = n - l.n /\ Gather(views) = p \o Gather(l.views)
  BY <1>14 DEF Dropped, l
<1>17. l.n = 0
  <2>1. CASE Len(l.views) = 0
    <3>1. Gather(l.views) = <<>>
      BY <1>15, <2>1, GatherNone
    <3>2. Gather(views) = p
      BY <1>16, <3>1, ConcatEmptySeq
    <3> QED
      BY <1>2, <1>15, <1>16, <3>2
  <2> QED
    BY <1>15, <2>1
<1>18. Len(p) = n
  BY <1>2, <1>16, <1>17
<1> QED
  BY <1>15, <1>16, <1>18

-----------------------------------------------------------------------------
(* webget. *)

RequestByte == Nat \X Nat \X Nat
FDWrapperType == [eof : BOOLEAN, closed : BOOLEAN, served : SUBSET Direction]

\* The types of the variables.
GetTypeOK ==
  /\ \A m \in 1 .. Calls : BufferViewList(messages[m]) \in Seq(Seq(RequestByte))
  /\ stage \in {"connect", "write", "shutdown", "read", "close", "success", "failure"}
  /\ sent \in 0 .. Calls /\ buffer \in Seq(Seq(RequestByte))
  /\ sock \in FDWrapperType
  /\ printed \in Seq(Nat) /\ toClient \in Seq(Nat) /\ toServer \in Seq(RequestByte)
  /\ closes \in Nat /\ written_off \in BOOLEAN
  /\ server \in [got : Seq(RequestByte), answered : Nat, ended : BOOLEAN]

\* The request: what has been written of it at each stage.
Writing ==
  /\ stage = "connect" => sent = 0 /\ Gather(buffer) = <<>>
  /\ stage = "write" => sent < Calls
  /\ stage \in {"shutdown", "read", "close", "success"} =>
       sent = Calls /\ Gather(buffer) = <<>>

\* The end: eof is seen only when the server has ended and all has been read, and
\* it ends only when it has the whole request.
Ending ==
  /\ stage \in {"connect", "write", "shutdown"} => ~written_off
  /\ stage \in {"connect", "write", "shutdown", "read"} => ~sock.eof
  /\ stage \in {"close", "success"} => sock.eof /\ server.ended /\ toClient = <<>>
  /\ server.ended => written_off /\ toServer = <<>>

\* The descriptor: how often it has been closed at each stage.
Closing ==
  /\ stage \notin {"success", "failure"} => closes = 0 /\ ~sock.closed
  /\ stage = "success" => closes = 1
  /\ stage = "failure" => ~sock.closed /\ (closes = 1 \/ (closes = 2 /\ sock.eof))

\* The answer: nothing of it is lost between the server and cout.
InTransit == printed \o toClient = Answer(server.answered)

\* The inductive invariant.
GetInv == GetTypeOK /\ Writing /\ Ending /\ Closing /\ InTransit /\ RequestIntact

\* A function on the first n numbers is a sequence.
LEMMA FunctionIsString ==
  ASSUME NEW S, NEW n \in Nat, NEW f \in [1 .. n -> S]
  PROVE  f \in Seq(S) /\ Len(f) = n
<1>1. f \in Seq(S)
  BY SeqDef
<1>2. Len(f) \in Nat /\ DOMAIN f = 1 .. Len(f) /\ DOMAIN f = 1 .. n
  BY <1>1, LenProperties
<1> QED
  BY <1>1, <1>2

\* The views of the messages, one string per message.
LEMMA MessagesType ==
  ASSUME GetTypeOK, NEW m \in 1 .. Calls + 1, NEW v,
         v = [k \in 1 .. Calls + 1 - m |-> concatenate(messages[m + k - 1])]
  PROVE  /\ v \in Seq(Seq(RequestByte)) /\ Len(v) = Calls + 1 - m
         /\ MessagesFrom(m) = Gather(v) /\ MessagesFrom(m) \in Seq(RequestByte)
<1> DEFINE n == Calls + 1 - m
<1>1. Calls \in Nat /\ m \in Nat /\ n \in Nat
  BY WebGetAssumption
<1>2. ASSUME NEW k \in 1 .. n PROVE concatenate(messages[m + k - 1]) \in Seq(RequestByte)
  <2>1. m + k - 1 \in 1 .. Calls
    BY <1>1
  <2>2. BufferViewList(messages[m + k - 1]) \in Seq(Seq(RequestByte))
    BY <2>1 DEF GetTypeOK
  <2> QED
    BY <2>2, GatherType DEF concatenate, BufferViewList
<1>3. v \in [1 .. n -> Seq(RequestByte)]
  BY <1>2
<1> HIDE DEF n
<1>4. v \in Seq(Seq(RequestByte)) /\ Len(v) = n
  BY <1>1, <1>3, FunctionIsString
<1>5. MessagesFrom(m) = Gather(v)
  BY DEF MessagesFrom
<1> QED
  BY <1>4, <1>5, GatherType DEF n

\* They are one string.
LEMMA MessagesAreString ==
  ASSUME GetTypeOK, NEW m \in 1 .. Calls + 1
  PROVE  MessagesFrom(m) \in Seq(RequestByte)
  BY MessagesType

\* No message comes after the last one.
LEMMA MessagesNone ==
  ASSUME GetTypeOK
  PROVE  MessagesFrom(Calls + 1) = <<>>
<1> DEFINE m == Calls + 1
           v == [k \in 1 .. Calls + 1 - m |-> concatenate(messages[m + k - 1])]
<1>1. m \in 1 .. Calls + 1 /\ Calls + 1 - m = 0
  BY WebGetAssumption
<1>2. v \in Seq(Seq(RequestByte)) /\ Len(v) = Calls + 1 - m /\ MessagesFrom(m) = Gather(v)
  <2> HIDE DEF m
  <2> QED
    BY <1>1, MessagesType
<1> HIDE DEF v, m
<1>3. Gather(v) = <<>>
  BY <1>1, <1>2, GatherNone
<1> QED
  BY <1>2, <1>3 DEF m

\* The messages from the m-th on are that one and those behind it.
LEMMA MessagesPeel ==
  ASSUME GetTypeOK, NEW m \in 1 .. Calls
  PROVE  MessagesFrom(m) = Gather(BufferViewList(messages[m])) \o MessagesFrom(m + 1)
<1> DEFINE v == [k \in 1 .. Calls + 1 - m |-> concatenate(messages[m + k - 1])]
           j == m + 1
           w == [k \in 1 .. Calls + 1 - j |-> concatenate(messages[j + k - 1])]
<1>1. Calls \in Nat /\ m \in Nat /\ m \in 1 .. Calls + 1 /\ j \in 1 .. Calls + 1
  BY WebGetAssumption
<1>2. /\ v \in Seq(Seq(RequestByte)) /\ Len(v) = Calls + 1 - m
      /\ MessagesFrom(m) = Gather(v)
  BY <1>1, MessagesType
<1>3. /\ w \in Seq(Seq(RequestByte)) /\ Len(w) = Calls + 1 - j
      /\ MessagesFrom(j) = Gather(w)
  <2> HIDE DEF j
  <2> QED
    BY <1>1, MessagesType
<1>4. Len(v) = Len(w) + 1
  BY <1>1, <1>2, <1>3
<1>5. ASSUME NEW k \in 1 .. Len(w) PROVE v[k + 1] = w[k]
  <2>1. /\ k \in 1 .. Calls + 1 - j /\ k + 1 \in 1 .. Calls + 1 - m
        /\ m + (k + 1) - 1 = j + k - 1
    BY <1>1, <1>3
  <2>2. v[k + 1] = concatenate(messages[m + (k + 1) - 1])
    BY <2>1
  <2>3. w[k] = concatenate(messages[j + k - 1])
    BY <2>1
  <2> QED
    BY <2>1, <2>2, <2>3
<1>6. v[1] = Gather(BufferViewList(messages[m]))
  <2>1. 1 \in 1 .. Calls + 1 - m /\ m + 1 - 1 = m
    BY <1>1
  <2>2. v[1] = concatenate(messages[m + 1 - 1])
    BY <2>1
  <2> QED
    BY <2>1, <2>2 DEF concatenate, BufferViewList
<1> HIDE DEF v, w
<1>7. Gather(v) = v[1] \o Gather(w)
  BY <1>2, <1>3, <1>4, <1>5, GatherShift
<1> QED
  BY <1>2, <1>3, <1>6, <1>7

\* What comes first is a prefix.
LEMMA PrefixOfWhole ==
  ASSUME NEW S, NEW s \in Seq(S), NEW t \in Seq(S)
  PROVE  IsPrefix(s, s \o t)
<1>1. Len(s) \in Nat /\ Len(t) \in Nat
  BY LenProperties
<1>2. s \o t \in Seq(S) /\ Len(s \o t) = Len(s) + Len(t)
      /\ \A k \in 1 .. Len(s) : (s \o t)[k] = s[k]
  BY <1>1, ConcatProperties
<1> DEFINE u == s \o t
<1> HIDE DEF u
<1>3. u \in Seq(S) /\ Len(u) = Len(s) + Len(t) /\ \A k \in 1 .. Len(s) : u[k] = s[k]
  BY <1>2 DEF u
<1>4. SubSeq(s, 1, Len(s)) = SubSeq(u, 1, Len(s))
  BY <1>1, <1>3, SubSeqProperties
<1> QED
  BY <1>1, <1>3, <1>4 DEF IsPrefix, u

\* The first bytes of a string made of two.
LEMMA PrefixIs ==
  ASSUME NEW S, NEW p \in Seq(S), NEW t \in Seq(S), NEW s, s = p \o t,
         NEW n, n = Len(p)
  PROVE  SubSeq(s, 1, n) = p
<1>1. n \in Nat /\ Len(t) \in Nat
  BY LenProperties
<1>2. s \in Seq(S) /\ Len(s) = n + Len(t) /\ \A k \in 1 .. n : s[k] = p[k]
  BY <1>1, ConcatProperties
<1>3. SubSeq(s, 1, n) = SubSeq(p, 1, n)
  BY <1>1, <1>2, SubSeqProperties
<1> QED
  BY <1>3, SubSeqFull

\* A step that moves no byte of the request, or only from the kernel to the server.
LEMMA NothingWritten ==
  ASSUME RequestIntact, UNCHANGED <<messages, sent, buffer>>,
         server'.got \o toServer' = server.got \o toServer,
         \/ stage' = "failure" \/ stage' = stage
         \/ stage \notin {"write", "failure"} /\ stage' \notin {"write", "failure"}
  PROVE  RequestIntact'
<1>1. \A m : MessagesFrom(m)' = MessagesFrom(m)
  BY DEF MessagesFrom
<1>2. Request' = Request
  BY <1>1 DEF Request
<1>3. Gather(buffer)' = Gather(buffer)
  BY DEF Gather
<1> QED
  BY <1>1, <1>2, <1>3 DEF RequestIntact

\* The whole request is what is out, what is held and what is to come.
LEMMA IntactFrom ==
  ASSUME GetTypeOK, GetTypeOK', messages' = messages, NEW k \in 0 .. Calls,
         k = (IF stage = "write" THEN sent + 1 ELSE sent)',
         (server'.got \o toServer') \o Gather(buffer') \o MessagesFrom(k + 1) = Request
  PROVE  RequestIntact'
<1> DEFINE out == server'.got \o toServer'
           a == Gather(buffer')
           b == MessagesFrom(k + 1)
<1>1. out \in Seq(RequestByte) /\ a \in Seq(RequestByte)
  BY GatherType, ConcatProperties DEF GetTypeOK
<1>2. b \in Seq(RequestByte)
  <2>1. k + 1 \in 1 .. Calls + 1
    BY WebGetAssumption
  <2> QED
    BY <2>1, MessagesAreString
<1>3. Regroups(RequestByte)
  BY Regrouped
<1>4. \A m : MessagesFrom(m)' = MessagesFrom(m)
  BY DEF MessagesFrom
<1>5. Request' = Request
  BY <1>4 DEF Request
<1>6. IsPrefix(out, Request)
  <2> HIDE DEF out, a, b
  <2>1. a \o b \in Seq(RequestByte)
    BY <1>1, <1>2, ConcatProperties
  <2>2. (out \o a) \o b = out \o (a \o b)
    BY <1>1, <1>2, <1>3, Zenon DEF Regroups
  <2>3. Request = out \o (a \o b)
    BY <2>2 DEF out, a, b
  <2> QED
    BY <1>1, <2>1, <2>3, PrefixOfWhole
<1> QED
  BY <1>4, <1>5, <1>6 DEF RequestIntact

\* get_URL starts to write the first message.
LEMMA ConnectStep ==
  ASSUME GetInv, Connect
  PROVE  GetInv'
<1>1. /\ UNCHANGED <<messages, sent, sock, printed, closes, toServer, toClient,
                     written_off, server>>
      /\ stage = "connect" /\ stage' = "write" /\ buffer' = BufferViewList(messages[1])
  BY DEF Connect
<1>2. /\ sent = 0 /\ Gather(buffer) = <<>> /\ 1 \in 1 .. Calls /\ 1 \in 0 .. Calls
      /\ GetTypeOK
  BY <1>1, WebGetAssumption DEF GetInv, Writing
<1>3. GetTypeOK'
  BY <1>1, <1>2 DEF GetTypeOK
<1>4. Writing'
  <2>1. sent' < Calls
    BY <1>1, <1>2, WebGetAssumption
  <2> QED
    BY <1>1, <2>1 DEF Writing
<1>5. Ending' /\ Closing' /\ InTransit'
  BY <1>1 DEF GetInv, Ending, Closing, InTransit
<1>6. RequestIntact'
  <2> DEFINE out == server.got \o toServer
  <2>1. out \in Seq(RequestByte)
    BY <1>2, ConcatProperties DEF GetTypeOK
  <2>2. (out \o Gather(buffer)) \o MessagesFrom(1) = Request
    BY <1>1, <1>2 DEF GetInv, RequestIntact
  <2> DEFINE d == MessagesFrom(1 + 1)
  <2>3. MessagesFrom(1) = Gather(buffer') \o d
    <3>1. MessagesFrom(1) = Gather(BufferViewList(messages[1])) \o MessagesFrom(1 + 1)
      BY <1>2, MessagesPeel
    <3> QED
      BY <1>1, <3>1
  <2>4. Gather(buffer') \in Seq(RequestByte) /\ d \in Seq(RequestByte)
    <3>1. 1 + 1 \in 1 .. Calls + 1
      BY WebGetAssumption
    <3>2. buffer' \in Seq(Seq(RequestByte))
      BY <1>3 DEF GetTypeOK
    <3> QED
      BY <1>2, <3>1, <3>2, GatherType, MessagesAreString
  <2>5. Regroups(RequestByte)
    BY Regrouped
  <2> HIDE DEF out, d
  <2>6. out \o Gather(buffer) = out
    BY <1>2, <2>1, ConcatEmptySeq
  <2>7. (out \o Gather(buffer')) \o d = out \o (Gather(buffer') \o d)
    BY <2>1, <2>4, <2>5, Zenon DEF Regroups
  <2>8. ((server'.got \o toServer') \o Gather(buffer')) \o MessagesFrom(1 + 1) = Request
    BY <1>1, <2>2, <2>3, <2>6, <2>7 DEF out, d
  <2>9. 1 = (IF stage = "write" THEN sent + 1 ELSE sent)'
    BY <1>1, <1>2
  <2> QED
    BY <1>1, <1>2, <1>3, <2>8, <2>9, IntactFrom
<1> QED
  BY <1>3, <1>4, <1>5, <1>6 DEF GetInv

\* writev takes some bytes of the list, and write goes on with the rest or returns.
LEMMA WriteStep ==
  ASSUME GetInv, NEW n \in 0 .. size(buffer), WriteTurn(n)
  PROVE  GetInv'
<1> DEFINE rest == remove_prefix(buffer, n)
           out == server.got \o toServer
<1>1. /\ UNCHANGED <<messages, printed, closes, toClient, written_off, server>>
      /\ stage = "write" /\ toServer' = toServer \o SubSeq(Gather(buffer), 1, n)
      /\ sock' = register_write(sock)
      /\ sent' = IF size(rest) = 0 THEN sent + 1 ELSE sent
      /\ stage' = IF size(rest) = 0 /\ sent + 1 = Calls THEN "shutdown" ELSE "write"
      /\ buffer' = IF size(rest) = 0 /\ sent + 1 # Calls
                     THEN BufferViewList(messages[sent + 2]) ELSE rest
  BY DEF WriteTurn
<1>2. /\ GetTypeOK /\ buffer \in Seq(Seq(RequestByte)) /\ toServer \in Seq(RequestByte)
      /\ server.got \in Seq(RequestByte) /\ sent \in Nat /\ sent < Calls /\ Calls \in Nat
  BY <1>1, WebGetAssumption DEF GetInv, GetTypeOK, Writing
<1>3. /\ rest \in Seq(Seq(RequestByte))
      /\ \E p \in Seq(RequestByte) : Len(p) = n /\ Gather(buffer) = p \o Gather(rest)
  BY <1>2, RemovePrefixFacts
<1>4. PICK p \in Seq(RequestByte) : Len(p) = n /\ Gather(buffer) = p \o Gather(rest)
  BY <1>3
<1> HIDE DEF rest
<1>5. Gather(rest) \in Seq(RequestByte) /\ size(rest) = Len(Gather(rest))
  BY <1>3, GatherType, SizeIsLength
<1>6. toServer' = toServer \o p
  <2>1. SubSeq(Gather(buffer), 1, n) = p
    BY <1>4, <1>5, PrefixIs
  <2> QED
    BY <1>1, <2>1
<1>7. sock' \in FDWrapperType
      /\ sock'.eof = sock.eof /\ sock'.closed = sock.closed
  BY <1>1, <1>2 DEF register_write, GetTypeOK, Direction, FDWrapperType
<1>8. size(rest) = 0 => Gather(rest) = <<>>
  BY <1>5, EmptySeq
<1>9. GetTypeOK'
  <2>1. toServer' \in Seq(RequestByte)
    BY <1>2, <1>4, <1>6, ConcatProperties
  <2>2. buffer' \in Seq(Seq(RequestByte)) /\ sent' \in 0 .. Calls
    <3>1. sent + 1 # Calls => sent + 2 \in 1 .. Calls
      BY <1>2
    <3> QED
      BY <1>1, <1>2, <1>3, <3>1 DEF GetTypeOK
  <2> QED
    BY <1>1, <1>2, <1>7, <2>1, <2>2 DEF GetTypeOK
<1>10. Writing'
  BY <1>1, <1>2, <1>8 DEF Writing
<1>11. Ending'
  BY <1>1, <1>7 DEF GetInv, Ending
<1>12. Closing' /\ InTransit'
  BY <1>1, <1>7 DEF GetInv, Closing, InTransit
<1>13. RequestIntact'
  <2> DEFINE k == sent + 1
             a == Gather(rest)
             b == MessagesFrom(k + 1)
  <2>1. out \in Seq(RequestByte)
    BY <1>2, ConcatProperties
  <2>2. (out \o Gather(buffer)) \o b = Request
    BY <1>1, <1>2 DEF GetInv, RequestIntact
  <2>3. b \in Seq(RequestByte)
    <3>1. k + 1 \in 1 .. Calls + 1
      BY <1>2
    <3> QED
      BY <1>2, <3>1, MessagesAreString
  <2>4. Regroups(RequestByte)
    BY Regrouped
  <2>5. server'.got \o toServer' = out \o p
    <3>1. (server.got \o toServer) \o p = server.got \o (toServer \o p)
      BY <1>2, <2>4, Zenon DEF Regroups
    <3> QED
      BY <1>1, <1>6, <3>1
  <2> HIDE DEF out, a, b
  <2>6. ((out \o p) \o a) \o b = Request
    <3>1. (out \o p) \o a = out \o (p \o a)
      BY <1>4, <1>5, <2>1, <2>4, Zenon DEF Regroups, a
    <3> QED
      BY <1>4, <2>2, <3>1 DEF a
  <2>7. CASE size(rest) # 0
    <3>1. k \in 0 .. Calls /\ stage' = "write" /\ sent' + 1 = k /\ buffer' = rest
      BY <1>1, <1>2, <2>7
    <3>2. ((server'.got \o toServer') \o Gather(buffer')) \o MessagesFrom(k + 1) = Request
      BY <2>5, <2>6, <3>1 DEF a, b
    <3> QED
      BY <1>1, <1>2, <1>9, <3>1, <3>2, IntactFrom
  <2>8. CASE size(rest) = 0
    <3>1. out \o p \in Seq(RequestByte) /\ (out \o p) \o a = out \o p
      BY <1>4, <1>8, <2>1, <2>8, ConcatProperties, ConcatEmptySeq DEF a
    <3>2. (out \o p) \o b = Request
      BY <2>6, <3>1
    <3>3. CASE k = Calls
      <4>1. k \in 0 .. Calls /\ stage' = "shutdown" /\ sent' = k /\ buffer' = rest
        BY <1>1, <1>2, <2>8, <3>3
      <4>2. ((server'.got \o toServer') \o Gather(buffer')) \o MessagesFrom(k + 1) = Request
        BY <2>5, <2>6, <4>1 DEF a, b
      <4> QED
        BY <1>1, <1>2, <1>9, <4>1, <4>2, IntactFrom
    <3>4. CASE k # Calls
      <4> DEFINE j == k + 1
                 c == Gather(buffer')
                 d == MessagesFrom(j + 1)
      <4>1. /\ j \in 1 .. Calls /\ j \in 0 .. Calls /\ stage' = "write" /\ sent' + 1 = j
            /\ buffer' = BufferViewList(messages[j])
        <5>1. j = sent + 2 /\ sent' = k
          BY <1>1, <1>2, <2>8
        <5> QED
          BY <1>1, <1>2, <2>8, <3>4, <5>1
      <4> HIDE DEF j
      <4>2. b = c \o d
        <5>1. MessagesFrom(j) = Gather(BufferViewList(messages[j])) \o MessagesFrom(j + 1)
          BY <1>2, <4>1, MessagesPeel
        <5> QED
          BY <4>1, <5>1 DEF b, j
      <4>3. c \in Seq(RequestByte) /\ d \in Seq(RequestByte)
        <5>1. j + 1 \in 1 .. Calls + 1 /\ buffer' \in Seq(Seq(RequestByte))
          BY <1>2, <1>9, <4>1 DEF GetTypeOK
        <5> QED
          BY <1>2, <5>1, GatherType, MessagesAreString
      <4> HIDE DEF c, d
      <4>4. ((out \o p) \o c) \o d = Request
        BY <2>4, <3>1, <3>2, <4>2, <4>3, Zenon DEF Regroups
      <4>5. ((server'.got \o toServer') \o Gather(buffer')) \o MessagesFrom(j + 1) = Request
        BY <2>5, <4>4 DEF c, d
      <4> QED
        BY <1>1, <1>2, <1>9, <4>1, <4>5, IntactFrom
    <3> QED
      BY <3>3, <3>4
  <2> QED
    BY <2>7, <2>8
<1> QED
  BY <1>9, <1>10, <1>11, <1>12, <1>13 DEF GetInv

\* s2 and t2 are strings that make up the same as s and t.
Moved(s, t, s2, t2, S) == s2 \in Seq(S) /\ t2 \in Seq(S) /\ s2 \o t2 = s \o t

\* The first bytes of one string go to the end of another.
LEMMA MoveBytes ==
  ASSUME NEW S, NEW s \in Seq(S), NEW t \in Seq(S), NEW n \in 0 .. Len(t),
         NEW s2, s2 = s \o SubSeq(t, 1, n), NEW t2, t2 = SubSeq(t, n + 1, Len(t))
  PROVE  Moved(s, t, s2, t2, S)
<1> DEFINE a == SubSeq(t, 1, n)
<1>1. a \in Seq(S) /\ t2 \in Seq(S) /\ a \o t2 = t
  BY PrefixFacts, TailFacts, PrefixSuffix
<1>2. Regroups(S)
  BY Regrouped
<1>3. s2 = s \o a
  OBVIOUS
<1> HIDE DEF a
<1>4. (s \o a) \o t2 = s \o (a \o t2)
  BY <1>1, <1>2, Zenon DEF Regroups
<1>5. s2 \in Seq(S)
  BY <1>1, <1>3, ConcatProperties
<1> QED
  BY <1>1, <1>3, <1>4, <1>5 DEF Moved

\* One more byte of the answer.
LEMMA AnswerGrows ==
  ASSUME NEW a \in Nat
  PROVE  Append(Answer(a), a + 1) = Answer(a + 1) /\ Answer(a) \in Seq(Nat)
<1>1. Answer(a) \in [1 .. a -> Nat]
  BY DEF Answer
<1>2. Answer(a) \in Seq(Nat) /\ Len(Answer(a)) = a
  BY <1>1, FunctionIsString
<1> DEFINE s == Answer(a)
           t == Append(s, a + 1)
<1>3. /\ t \in Seq(Nat) /\ Len(t) = a + 1 /\ t[a + 1] = a + 1
      /\ \A k \in 1 .. a : t[k] = s[k]
  BY <1>2, AppendProperties
<1>4. \A k \in 1 .. a : s[k] = k
  BY DEF Answer
<1> HIDE DEF s, t
<1>5. \A k \in 1 .. a + 1 : t[k] = k
  BY <1>3, <1>4
<1>6. DOMAIN t = 1 .. a + 1
  BY <1>3, LenProperties
<1>7. t = [k \in 1 .. a + 1 |-> t[k]]
  BY <1>3, <1>6
<1> QED
  BY <1>2, <1>5, <1>7 DEF Answer, s, t

\* Appending to the second of two strings.
AppendsToSecond(S) ==
  \A s, t \in Seq(S), e \in S : s \o Append(t, e) = Append(s \o t, e)

\* It appends to the two of them together.
LEMMA AppendToSecond ==
  ASSUME NEW S
  PROVE  AppendsToSecond(S)
<1> SUFFICES ASSUME NEW s \in Seq(S), NEW t \in Seq(S), NEW e \in S
             PROVE  s \o Append(t, e) = Append(s \o t, e)
  BY Zenon DEF AppendsToSecond
<1>1. Regroups(S)
  BY Regrouped
<1> DEFINE u == <<e>>
<1>2. u \in Seq(S) /\ Append(t, e) = t \o u
  BY AppendIsConcat
<1>3. s \o t \in Seq(S)
  BY ConcatProperties
<1>4. Append(s \o t, e) = (s \o t) \o u
  BY <1>3, AppendIsConcat
<1> HIDE DEF u
<1>5. (s \o t) \o u = s \o (t \o u)
  BY <1>1, <1>2, Zenon DEF Regroups
<1> QED
  BY <1>2, <1>4, <1>5

\* get_URL ends its direction.
LEMMA ShutdownStep ==
  ASSUME GetInv, Shutdown
  PROVE  GetInv'
<1>1. /\ UNCHANGED <<messages, sent, buffer, printed, closes, toServer, toClient, server>>
      /\ stage = "shutdown" /\ stage' = "read" /\ sock' = shutdown(sock, "SHUT_WR")
      /\ written_off' = TRUE
  BY DEF Shutdown
<1>2. sock' \in FDWrapperType
      /\ sock'.eof = sock.eof /\ sock'.closed = sock.closed
  BY <1>1 DEF shutdown, GetInv, GetTypeOK, Direction, FDWrapperType
<1>3. GetTypeOK'
  BY <1>1, <1>2 DEF GetInv, GetTypeOK
<1>4. Writing'
  BY <1>1 DEF GetInv, Writing
<1>5. Ending'
  BY <1>1, <1>2 DEF GetInv, Ending
<1>6. Closing' /\ InTransit'
  BY <1>1, <1>2 DEF GetInv, Closing, InTransit
<1>7. RequestIntact'
  BY <1>1, NothingWritten DEF GetInv
<1> QED
  BY <1>3, <1>4, <1>5, <1>6, <1>7 DEF GetInv

\* get_URL reads some bytes and prints them, or finds the end.
LEMMA ReadTurnStep ==
  ASSUME GetInv, NEW n \in 0 .. Len(toClient), ReadTurn(n),
         n = 0 => toClient = <<>> /\ server.ended
  PROVE  GetInv'
<1>1. /\ UNCHANGED <<messages, sent, buffer, closes, toServer, written_off, server>>
      /\ stage = "read" /\ sock' = read(sock, RecvRoom, n)
      /\ printed' = printed \o SubSeq(toClient, 1, n)
      /\ toClient' = SubSeq(toClient, n + 1, Len(toClient))
      /\ stage' = IF sock'.eof THEN "close" ELSE "read"
  BY DEF ReadTurn
<1>2. /\ sock \in FDWrapperType
      /\ printed \in Seq(Nat) /\ toClient \in Seq(Nat) /\ ~sock.eof /\ RecvRoom > 0
      /\ Len(toClient) \in Nat
  BY <1>1, WebGetAssumption, LenProperties DEF GetInv, GetTypeOK, Ending
<1>3. /\ sock' \in FDWrapperType
      /\ sock'.eof <=> n = 0
      /\ sock'.closed = sock.closed
  BY <1>1, <1>2 DEF read, register_read, Direction, FDWrapperType
<1>4. /\ printed' \in Seq(Nat) /\ toClient' \in Seq(Nat)
      /\ printed' \o toClient' = printed \o toClient
  <2>1. Moved(printed, toClient, printed', toClient', Nat)
    BY <1>1, <1>2, MoveBytes
  <2> QED
    BY <2>1 DEF Moved
<1>5. GetTypeOK'
  <2>1. stage' \in {"close", "read"}
    BY <1>1
  <2> QED
    BY <1>1, <1>3, <1>4, <2>1 DEF GetInv, GetTypeOK
<1>6. Writing'
  BY <1>1 DEF GetInv, Writing
<1>7. Ending'
  <2>1. CASE n = 0
    <3>1. Len(toClient') = 0 /\ sock'.eof /\ server.ended
      BY <1>1, <1>2, <1>3, <2>1, TailFacts, EmptySeq
    <3>2. toClient' = <<>>
      BY <1>4, <3>1, EmptySeq
    <3> QED
      BY <1>1, <3>1, <3>2 DEF GetInv, Ending
  <2>2. CASE n # 0
    BY <1>1, <1>3, <2>2 DEF GetInv, Ending
  <2> QED
    BY <2>1, <2>2
<1>8. Closing'
  BY <1>1, <1>3 DEF GetInv, Closing
<1>9. InTransit'
  BY <1>1, <1>4 DEF GetInv, InTransit, Answer
<1>10. RequestIntact'
  BY <1>1, NothingWritten DEF GetInv
<1> QED
  BY <1>5, <1>6, <1>7, <1>8, <1>9, <1>10 DEF GetInv

\* get_URL closes the socket.
LEMMA CloseStep ==
  ASSUME GetInv, Close
  PROVE  GetInv'
<1>1. /\ UNCHANGED <<messages, sent, buffer, printed, toServer, toClient,
                     written_off, server>>
      /\ stage = "close" /\ stage' = "success" /\ sock' = close(sock)
      /\ closes' = closes + 1
  BY DEF Close
<1>2. sock' \in FDWrapperType /\ sock'.eof
  BY <1>1 DEF close, GetInv, GetTypeOK, FDWrapperType
<1>3. GetTypeOK'
  BY <1>1, <1>2 DEF GetInv, GetTypeOK
<1>4. Writing' /\ InTransit'
  BY <1>1 DEF GetInv, Writing, InTransit
<1>5. Ending'
  BY <1>1, <1>2 DEF GetInv, Ending
<1>6. Closing'
  BY <1>1 DEF GetInv, Closing
<1>7. RequestIntact'
  BY <1>1, NothingWritten DEF GetInv
<1> QED
  BY <1>3, <1>4, <1>5, <1>6, <1>7 DEF GetInv

\* A system call throws: the destructor closes the socket.
LEMMA ThrowStep ==
  ASSUME GetInv, CallFails \/ CloseFails
  PROVE  GetInv'
<1>1. /\ UNCHANGED <<messages, sent, buffer, sock, printed, toServer, toClient, server>>
      /\ stage' = "failure" /\ written_off' = TRUE
      /\ stage \in {"connect", "write", "shutdown", "read", "close"}
  BY DEF CallFails, CloseFails, Throw
<1>2. ~sock.closed /\ closes = 0
  BY <1>1 DEF GetInv, Closing
<1>3. closes' = 1 \/ (closes' = 2 /\ sock.eof)
  <2>1. CASE CallFails
    BY <1>2, <2>1 DEF CallFails, Throw, Destroy
  <2>2. CASE CloseFails
    BY <1>2, <2>2 DEF CloseFails, Throw, Destroy, GetInv, Ending
  <2> QED
    BY <2>1, <2>2
<1>4. GetTypeOK'
  BY <1>1, <1>3 DEF GetInv, GetTypeOK
<1>5. Writing' /\ InTransit'
  BY <1>1 DEF GetInv, Writing, InTransit
<1>6. Ending'
  BY <1>1 DEF GetInv, Ending
<1>7. Closing'
  BY <1>1, <1>2, <1>3 DEF Closing
<1>8. RequestIntact'
  BY <1>1, NothingWritten DEF GetInv
<1> QED
  BY <1>4, <1>5, <1>6, <1>7, <1>8 DEF GetInv

\* The server reads some of the request.
LEMMA ServerReadsStep ==
  ASSUME GetInv, ServerReads
  PROVE  GetInv'
<1>1. PICK n \in 1 .. Len(toServer) :
        /\ server' = [server EXCEPT !.got = @ \o SubSeq(toServer, 1, n)]
        /\ toServer' = SubSeq(toServer, n + 1, Len(toServer))
  BY DEF ServerReads
<1>2. /\ UNCHANGED <<messages, stage, sent, buffer, sock, printed, closes, toClient,
                     written_off>>
      /\ ~server.ended
  BY DEF ServerReads
<1>3. /\ server \in [got : Seq(RequestByte), answered : Nat, ended : BOOLEAN]
      /\ toServer \in Seq(RequestByte) /\ server.got \in Seq(RequestByte)
  BY DEF GetInv, GetTypeOK
<1>4. /\ server'.got = server.got \o SubSeq(toServer, 1, n)
      /\ server'.answered = server.answered /\ server'.ended = server.ended
  <2> DEFINE taken == SubSeq(toServer, 1, n)
  <2>1. server' = [server EXCEPT !.got = server.got \o taken]
    BY <1>1, <1>3
  <2> HIDE DEF taken
  <2>2. /\ server'.got = server.got \o taken
        /\ server'.answered = server.answered /\ server'.ended = server.ended
    BY <1>3, <2>1
  <2> QED
    BY <2>2 DEF taken
<1>5. n \in 0 .. Len(toServer)
  BY LenProperties
<1>6. /\ server'.got \in Seq(RequestByte) /\ toServer' \in Seq(RequestByte)
      /\ server'.got \o toServer' = server.got \o toServer
  <2>1. Moved(server.got, toServer, server'.got, toServer', RequestByte)
    BY <1>1, <1>3, <1>4, <1>5, MoveBytes
  <2> QED
    BY <2>1 DEF Moved
<1>7. server' \in [got : Seq(RequestByte), answered : Nat, ended : BOOLEAN]
  BY <1>1, <1>3, <1>4, <1>6
<1>8. GetTypeOK'
  BY <1>2, <1>6, <1>7 DEF GetInv, GetTypeOK
<1>9. Writing' /\ Closing'
  BY <1>2 DEF GetInv, Writing, Closing
<1>10. InTransit'
  BY <1>2, <1>4 DEF GetInv, InTransit, Answer
<1>11. Ending'
  BY <1>2, <1>4 DEF GetInv, Ending
<1>12. RequestIntact'
  BY <1>2, <1>6, NothingWritten DEF GetInv
<1> QED
  BY <1>8, <1>9, <1>10, <1>11, <1>12 DEF GetInv

\* The server sends a byte of the answer.
LEMMA ServerAnswersStep ==
  ASSUME GetInv, ServerAnswers
  PROVE  GetInv'
<1> DEFINE a == server.answered
<1>1. /\ UNCHANGED <<messages, stage, sent, buffer, sock, printed, closes, toServer,
                     written_off>>
      /\ ~server.ended /\ server' = [server EXCEPT !.answered = @ + 1]
      /\ toClient' = Append(toClient, a + 1)
  BY DEF ServerAnswers
<1>2. /\ server \in [got : Seq(RequestByte), answered : Nat, ended : BOOLEAN]
      /\ toClient \in Seq(Nat) /\ printed \in Seq(Nat) /\ a \in Nat
  BY DEF GetInv, GetTypeOK
<1>3. /\ server' \in [got : Seq(RequestByte), answered : Nat, ended : BOOLEAN]
      /\ server'.got = server.got /\ server'.answered = a + 1
      /\ server'.ended = server.ended
  <2>1. a + 1 \in Nat /\ server' = [server EXCEPT !.answered = a + 1]
    BY <1>1, <1>2
  <2> HIDE DEF a
  <2> QED
    BY <1>2, <2>1
<1>4. toClient' \in Seq(Nat)
  BY <1>1, <1>2, AppendProperties
<1>5. GetTypeOK'
  BY <1>1, <1>3, <1>4 DEF GetInv, GetTypeOK
<1>6. Writing' /\ Closing'
  BY <1>1 DEF GetInv, Writing, Closing
<1>7. Ending'
  BY <1>1, <1>3 DEF GetInv, Ending
<1>8. InTransit'
  <2> HIDE DEF a
  <2>1. printed \o toClient = Answer(a)
    BY DEF GetInv, InTransit, a
  <2>2. printed \o toClient' = Append(printed \o toClient, a + 1)
    <3> DEFINE e == a + 1
    <3>1. e \in Nat /\ toClient' = Append(toClient, e)
      BY <1>1, <1>2
    <3>2. AppendsToSecond(Nat)
      BY AppendToSecond
    <3> HIDE DEF e
    <3>3. printed \o Append(toClient, e) = Append(printed \o toClient, e)
      BY <1>2, <3>1, <3>2, Zenon DEF AppendsToSecond
    <3> QED
      BY <3>1, <3>3, Zenon DEF e
  <2>3. Append(Answer(a), a + 1) = Answer(a + 1)
    BY <1>2, AnswerGrows
  <2> QED
    BY <1>1, <1>3, <2>1, <2>2, <2>3 DEF InTransit
<1>9. RequestIntact'
  BY <1>1, <1>3, NothingWritten DEF GetInv
<1> QED
  BY <1>5, <1>6, <1>7, <1>8, <1>9 DEF GetInv

\* The server ends.
LEMMA ServerEndsStep ==
  ASSUME GetInv, ServerEnds
  PROVE  GetInv'
<1>1. /\ UNCHANGED <<messages, stage, sent, buffer, sock, printed, closes, toServer,
                     toClient, written_off>>
      /\ server' = [server EXCEPT !.ended = TRUE] /\ written_off /\ toServer = <<>>
  BY DEF ServerEnds, RequestComplete
<1>2. server \in [got : Seq(RequestByte), answered : Nat, ended : BOOLEAN]
  BY DEF GetInv, GetTypeOK
<1>3. /\ server' \in [got : Seq(RequestByte), answered : Nat, ended : BOOLEAN]
      /\ server'.got = server.got /\ server'.answered = server.answered /\ server'.ended
  BY <1>1, <1>2
<1>4. GetTypeOK'
  BY <1>1, <1>3 DEF GetInv, GetTypeOK
<1>5. Writing' /\ Closing'
  BY <1>1 DEF GetInv, Writing, Closing
<1>6. InTransit'
  BY <1>1, <1>3 DEF GetInv, InTransit, Answer
<1>7. Ending'
  BY <1>1, <1>3 DEF GetInv, Ending
<1>8. RequestIntact'
  BY <1>1, <1>3, NothingWritten DEF GetInv
<1> QED
  BY <1>4, <1>5, <1>6, <1>7, <1>8 DEF GetInv

\* In the beginning nothing is sent.
LEMMA GetInitOK ==
  ASSUME GetInit
  PROVE  GetInv
<1>1. PICK lengths \in [1 .. Calls -> UNION {[1 .. k -> 0 .. MaxLen] : k \in 1 .. MaxBuffers}] :
        messages = [m \in 1 .. Calls |-> Message(m, lengths[m])]
  BY DEF GetInit
<1>2. ASSUME NEW m \in 1 .. Calls
      PROVE  BufferViewList(messages[m]) \in Seq(Seq(RequestByte))
  <2> DEFINE L == lengths[m]
             text == [i \in DOMAIN L |-> [k \in 1 .. L[i] |-> <<m, i, k>>]]
  <2>1. PICK n \in 1 .. MaxBuffers : L \in [1 .. n -> 0 .. MaxLen]
    BY <1>1
  <2>2. /\ n \in Nat /\ m \in Nat /\ DOMAIN L = 1 .. n
        /\ \A i \in 1 .. n : L[i] \in Nat
    BY <2>1, WebGetAssumption
  <2>3. messages[m] = [i \in 1 .. n |-> Buffer(text[i])]
    BY <1>1, <2>2 DEF Message
  <2> HIDE DEF L
  <2>4. ASSUME NEW i \in 1 .. n PROVE text[i] \in Seq(RequestByte)
    <3>1. text[i] = [k \in 1 .. L[i] |-> <<m, i, k>>]
      BY <2>2
    <3>2. [k \in 1 .. L[i] |-> <<m, i, k>>] \in [1 .. L[i] -> RequestByte]
      BY <2>2 DEF RequestByte
    <3> QED
      BY <2>2, <3>1, <3>2, FunctionIsString
  <2> HIDE DEF text
  <2>5. ASSUME NEW s \in Seq(RequestByte) PROVE str(Buffer(s)) = s
    <3>1. str(Buffer(s)) = SubSeq(s, 0 + 1, Len(s))
      BY DEF str, Buffer
    <3>2. 0 + 1 = 1
      OBVIOUS
    <3> QED
      BY <3>1, <3>2, SubSeqFull
  <2>6. BufferViewList(messages[m]) = [i \in 1 .. n |-> text[i]]
    BY <2>3, <2>4, <2>5 DEF BufferViewList
  <2>7. [i \in 1 .. n |-> text[i]] \in [1 .. n -> Seq(RequestByte)]
    BY <2>4
  <2> QED
    BY <2>2, <2>6, <2>7, FunctionIsString
<1>3. /\ <<>> \in Seq(RequestByte) /\ <<>> \in Seq(Seq(RequestByte)) /\ <<>> \in Seq(Nat)
      /\ Len(<<>>) = 0
  BY EmptySeq
<1>4. GetTypeOK
  <2>1. sock \in FDWrapperType
    BY DEF GetInit, NewFDWrapper, FDWrapperType
  <2>2. server \in [got : Seq(RequestByte), answered : Nat, ended : BOOLEAN]
    BY <1>3 DEF GetInit
  <2>3. sent \in 0 .. Calls /\ closes \in Nat
    BY WebGetAssumption DEF GetInit
  <2>4. /\ buffer \in Seq(Seq(RequestByte)) /\ toServer \in Seq(RequestByte)
        /\ printed \in Seq(Nat) /\ toClient \in Seq(Nat)
    BY <1>3 DEF GetInit
  <2> QED
    BY <1>2, <2>1, <2>2, <2>3, <2>4 DEF GetInit, GetTypeOK
<1>5. Gather(buffer) = <<>>
  BY <1>3, GatherNone DEF GetInit
<1>6. Writing /\ Closing /\ Ending
  BY <1>5 DEF GetInit, Writing, Closing, Ending, NewFDWrapper
<1>7. InTransit
  <2>1. Answer(0) = <<>>
    BY DEF Answer
  <2>2. <<>> \o <<>> = <<>>
    BY <1>3, ConcatEmptySeq
  <2> QED
    BY <2>1, <2>2 DEF GetInit, InTransit
<1>8. RequestIntact
  <2>1. Request \in Seq(RequestByte) /\ 0 + 1 = 1
    BY <1>4, MessagesAreString, WebGetAssumption DEF Request
  <2> DEFINE e == <<>>
  <2>2. e \in Seq(RequestByte) /\ e \o e = e /\ e \o Request = Request
    BY <1>3, <2>1, ConcatEmptySeq
  <2>3. server.got = e /\ toServer = e /\ Gather(buffer) = e /\ sent = 0 /\ stage = "connect"
    BY <1>5 DEF GetInit
  <2> HIDE DEF e
  <2>4. IsPrefix(e, Request)
    BY <2>1, <2>2, PrefixOfWhole
  <2> QED
    BY <2>1, <2>2, <2>3, <2>4 DEF RequestIntact, Request
<1> QED
  BY <1>4, <1>6, <1>7, <1>8 DEF GetInv

\* The invariant is inductive.
LEMMA GetInvHolds == GetSpec => []GetInv
<1>1. GetInit => GetInv
  BY GetInitOK
<1>2. GetInv /\ [GetNext]_getVars => GetInv'
  <2> SUFFICES ASSUME GetInv, [GetNext]_getVars PROVE GetInv'
    OBVIOUS
  <2>1. CASE Client
    <3>1. CASE WriteSome
      BY <3>1, WriteStep DEF WriteSome
    <3>2. CASE ReadAnswer
      BY <3>2, ReadTurnStep DEF ReadAnswer
    <3> QED
      BY <2>1, <3>1, <3>2, ConnectStep, ShutdownStep, CloseStep DEF Client
  <2>2. CASE CallFails \/ CloseFails
    BY <2>2, ThrowStep
  <2>3. CASE Server
    BY <2>3, ServerReadsStep, ServerAnswersStep, ServerEndsStep DEF Server
  <2>4. CASE UNCHANGED getVars
    <3>1. GetTypeOK' /\ Writing' /\ Ending' /\ Closing'
      BY <2>4 DEF getVars, GetInv, GetTypeOK, Writing, Ending, Closing
    <3>2. InTransit'
      BY <2>4 DEF getVars, GetInv, InTransit
    <3>3. RequestIntact'
      BY <2>4, NothingWritten DEF getVars, GetInv
    <3> QED
      BY <3>1, <3>2, <3>3 DEF GetInv
  <2> QED
    BY <2>1, <2>2, <2>3, <2>4 DEF GetNext
<1> QED
  BY <1>1, <1>2, PTL DEF GetSpec

\* get_URL of apps/webget.cc, for any number and size of buffers and socket
\* buffers, and any system call failing: writing a list of buffers in whatever parts
\* writev takes repeats and skips no byte of the request; success means that the
\* server had the whole request and the whole answer was printed; and the descriptor
\* is given back once, or once more when ::close itself failed.
THEOREM GetCorrect == GetSpec => [](RequestIntact /\ SuccessIsComplete /\ GivenBackOnce)
<1>1. GetInv => RequestIntact /\ SuccessIsComplete /\ GivenBackOnce
  <2> SUFFICES ASSUME GetInv PROVE RequestIntact /\ SuccessIsComplete /\ GivenBackOnce
    OBVIOUS
  <2>1. SuccessIsComplete
    <3>1. ASSUME stage = "success"
          PROVE  server.got = Request /\ server.ended /\ printed = Answer(server.answered)
      <4>1. /\ server.ended /\ toClient = <<>> /\ toServer = <<>>
            /\ sent = Calls /\ Gather(buffer) = <<>>
        BY <3>1 DEF GetInv, Ending, Writing
      <4>2. server.got \in Seq(RequestByte) /\ printed \in Seq(Nat)
        BY DEF GetInv, GetTypeOK
      <4>3. printed = Answer(server.answered)
        <5>1. printed \o <<>> = printed
          BY <4>2, ConcatEmptySeq
        <5> QED
          BY <4>1, <5>1 DEF GetInv, InTransit
      <4>4. server.got \o <<>> = server.got
        BY <4>2, ConcatEmptySeq
      <4>5. MessagesFrom(sent + 1) = <<>>
        BY <4>1, MessagesNone DEF GetInv
      <4>6. ((server.got \o toServer) \o Gather(buffer)) \o MessagesFrom(sent + 1) = Request
        BY <3>1 DEF GetInv, RequestIntact
      <4>7. server.got = Request
        BY <4>1, <4>4, <4>5, <4>6
      <4> QED
        BY <4>1, <4>3, <4>7
    <3> QED
      BY <3>1 DEF SuccessIsComplete, GetInv, InTransit
  <2>2. GivenBackOnce
    <3>1. stage = "success" => closes = 1
      BY DEF GetInv, Closing
    <3>2. stage = "failure" => ~sock.closed /\ (closes = 1 \/ (closes = 2 /\ sock.eof))
      BY DEF GetInv, Closing
    <3>3. stage \notin {"success", "failure"} => closes = 0 /\ ~sock.closed
      BY DEF GetInv, Closing
    <3> QED
      BY <3>1, <3>2, <3>3 DEF GivenBackOnce
  <2> QED
    BY <2>1, <2>2 DEF GetInv
<1> QED
  BY <1>1, GetInvHolds, PTL
=============================================================================
