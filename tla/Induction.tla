------------------------------ MODULE Induction ------------------------------
(***************************************************************************)
(* Facts about natural numbers, and about FlattenSeq, that the proofs of   *)
(* several components rest on.  Induction is over sets of numbers, which   *)
(* the provers can handle, and not over a predicate: a proof that uses it  *)
(* collects the numbers for which its claim holds.                         *)
(***************************************************************************)
EXTENDS Integers, FiniteSetsExt, SequencesExt, TLAPS, NaturalsInduction,
        WellFoundedInduction, SequenceTheorems, FiniteSetTheorems

\* A set of numbers that is not empty has a least element, and Min is it.
LEMMA MinIsLeast ==
  ASSUME NEW S \in SUBSET Nat, S # {}
  PROVE  Min(S) \in S /\ \A y \in S : Min(S) <= y
<1> DEFINE R == {ss \in Nat \X Nat : ss[1] < ss[2]}
<1>1. IsWellFoundedOn(R, Nat)
  BY NatLessThanWellFounded, Zenon DEF OpToRel
<1>2. \A x, y \in Nat : y < x => <<y, x>> \in R
  OBVIOUS
<1> HIDE DEF R
<1>3. PICK x \in S : \A y \in S : <<y, x>> \notin R
  BY <1>1, WFMin
<1>4. \A y \in S : x <= y
  <2> TAKE y \in S
  <2>1. ~(y < x)
    BY <1>2, <1>3, Zenon
  <2> QED BY <2>1
<1> QED BY <1>3, <1>4 DEF Min

\* Induction: a set of numbers that has 0, and with each number the next, has
\* all of them.
LEMMA InductionOnSet ==
  ASSUME NEW S, 0 \in S, \A n \in Nat : n \in S => n + 1 \in S
  PROVE  Nat \subseteq S
<1> SUFFICES ASSUME Nat \ S # {} PROVE FALSE
  OBVIOUS
<1> DEFINE m == Min(Nat \ S)
<1>1. m \in Nat \ S /\ \A y \in Nat \ S : m <= y
  BY MinIsLeast
<1> HIDE DEF m
<1>2. m # 0
  BY <1>1
<1>3. m - 1 \in Nat /\ m - 1 \in S
  BY <1>1, <1>2
<1>4. (m - 1) + 1 \in S
  BY <1>3
<1> QED BY <1>1, <1>4

-----------------------------------------------------------------------------
(* Functions defined by recursion on a number.                             *)

\* f starts at base and takes the first n steps.
Steps(f, base, step, n) ==
    f[0] = base /\ \A i \in Nat : i < n => f[i + 1] = step[f[i]]

\* Two functions that take the same steps have the same values.
LEMMA StepsAgree ==
  ASSUME NEW base, NEW step, NEW f, NEW g, NEW n \in Nat,
         Steps(f, base, step, n), Steps(g, base, step, n)
  PROVE  \A i \in 0 .. n : f[i] = g[i]
<1> DEFINE Good == {i \in Nat : i <= n => f[i] = g[i]}
<1>1. 0 \in Good
  BY DEF Steps
<1>2. ASSUME NEW i \in Nat, i \in Good
      PROVE  i + 1 \in Good
  <2> SUFFICES ASSUME i + 1 <= n PROVE f[i + 1] = g[i + 1]
    OBVIOUS
  <2>1. i < n /\ f[i] = g[i]
    BY <1>2
  <2> QED BY <2>1 DEF Steps
<1>3. Nat \subseteq Good
  <2> HIDE DEF Good
  <2> QED BY <1>1, <1>2, InductionOnSet, Zenon
<1> QED BY <1>3

\* The steps can be taken, as many as one likes.
LEMMA StepsExist ==
  ASSUME NEW V, NEW base \in V, NEW step \in [V -> V], NEW n \in Nat
  PROVE  \E f \in [Nat -> V] : Steps(f, base, step, n)
<1> DEFINE Good == {i \in Nat : \E f \in [Nat -> V] : Steps(f, base, step, i)}
<1>1. 0 \in Good
  <2> DEFINE f == [i \in Nat |-> base]
  <2>1. f \in [Nat -> V] /\ Steps(f, base, step, 0)
    BY DEF Steps
  <2> QED BY <2>1
<1>2. ASSUME NEW i \in Nat, i \in Good
      PROVE  i + 1 \in Good
  <2>1. PICK f \in [Nat -> V] : Steps(f, base, step, i)
    BY <1>2
  <2> DEFINE g == [f EXCEPT ![i + 1] = step[f[i]]]
  <2>2. g \in [Nat -> V] /\ \A j \in Nat : g[j] = IF j = i + 1 THEN step[f[i]] ELSE f[j]
    OBVIOUS
  <2> HIDE DEF g
  <2>3. Steps(g, base, step, i + 1)
    <3>1. g[0] = base
      BY <2>1, <2>2 DEF Steps
    <3>2. ASSUME NEW j \in Nat, j < i + 1 PROVE g[j + 1] = step[g[j]]
      <4>1. g[j] = f[j]
        BY <2>2, <3>2
      <4>2. CASE j = i
        BY <2>2, <4>1, <4>2
      <4>3. CASE j # i
        <5>1. j < i /\ j + 1 # i + 1 /\ j + 1 \in Nat
          BY <3>2, <4>3
        <5>2. f[j + 1] = step[f[j]]
          BY <2>1, <5>1 DEF Steps
        <5> QED BY <2>2, <4>1, <5>1, <5>2
      <4> QED BY <4>2, <4>3
    <3> QED BY <3>1, <3>2 DEF Steps
  <2> QED BY <2>2, <2>3
<1>3. Nat \subseteq Good
  <2> HIDE DEF Good
  <2> QED BY <1>1, <1>2, InductionOnSet, Zenon
<1> QED BY <1>3

\* A function can be defined by its value at 0 and a step from each value to
\* the next.
LEMMA IterationExists ==
  ASSUME NEW V, NEW base \in V, NEW step \in [V -> V]
  PROVE  \E f \in [Nat -> V] : f[0] = base /\ \A n \in Nat : f[n + 1] = step[f[n]]
<1> DEFINE Upto(n) == CHOOSE f : f \in [Nat -> V] /\ Steps(f, base, step, n)
           F == [n \in Nat |-> Upto(n)[n]]
<1>1. \A n \in Nat : Upto(n) \in [Nat -> V] /\ Steps(Upto(n), base, step, n)
  <2> TAKE n \in Nat
  <2>1. \E f : f \in [Nat -> V] /\ Steps(f, base, step, n)
    BY StepsExist
  <2> QED BY <2>1, Zenon
<1>2. \A n \in Nat : F[n] = Upto(n)[n]
  OBVIOUS
<1>3. F \in [Nat -> V]
  <2> SUFFICES ASSUME NEW n \in Nat PROVE Upto(n)[n] \in V
    OBVIOUS
  <2> HIDE DEF Upto
  <2> QED BY <1>1
<1> HIDE DEF Upto, F
<1>4. F[0] = base
  BY <1>1, <1>2 DEF Steps
<1>5. ASSUME NEW n \in Nat PROVE F[n + 1] = step[F[n]]
  <2> PICK g : g = Upto(n + 1)
    OBVIOUS
  <2>1. Steps(g, base, step, n + 1) /\ F[n + 1] = g[n + 1]
    BY <1>1, <1>2
  <2>2. Steps(g, base, step, n) /\ g[n + 1] = step[g[n]]
    BY <2>1 DEF Steps
  <2>3. g[n] = F[n]
    <3>1. Steps(Upto(n), base, step, n)
      BY <1>1
    <3>2. \A i \in 0 .. n : g[i] = Upto(n)[i]
      BY <2>2, <3>1, StepsAgree
    <3> QED BY <1>2, <3>2
  <2> QED BY <2>1, <2>2, <2>3
<1> QED BY <1>3, <1>4, <1>5

-----------------------------------------------------------------------------
(* Paths.                                                                  *)

\* The places s[0] .. s[k] lead from a to b along the pairs of R.
IsPath(s, R, a, b, k) ==
    s[0] = a /\ s[k] = b /\ \A i \in 0 .. k - 1 : <<s[i], s[i + 1]>> \in R

\* A path of k steps through the places of P.
Path(R, P, a, b, k) == \E s \in [0 .. k -> P] : IsPath(s, R, a, b, k)

\* No step.
LEMMA PathStays ==
  ASSUME NEW R, NEW P, NEW a \in P
  PROVE  Path(R, P, a, a, 0)
<1> DEFINE s == [i \in 0 .. 0 |-> a]
<1>1. s \in [0 .. 0 -> P] /\ s[0] = a /\ \A i \in 0 .. 0 - 1 : FALSE
  OBVIOUS
<1> HIDE DEF s
<1> QED BY <1>1, Zenon DEF Path, IsPath

\* One step more.
LEMMA PathGrows ==
  ASSUME NEW R, NEW P, NEW a, NEW b, NEW c \in P, NEW k \in Nat,
         Path(R, P, a, b, k), <<b, c>> \in R
  PROVE  Path(R, P, a, c, k + 1)
<1>1. PICK s \in [0 .. k -> P] : IsPath(s, R, a, b, k)
  BY DEF Path
<1> DEFINE t == [i \in 0 .. k + 1 |-> IF i = k + 1 THEN c ELSE s[i]]
<1>2. t \in [0 .. k + 1 -> P]
  OBVIOUS
<1>3. t[k + 1] = c /\ \A i \in 0 .. k : t[i] = s[i]
  OBVIOUS
<1> HIDE DEF t
<1>4. ASSUME NEW i \in 0 .. (k + 1) - 1 PROVE <<t[i], t[i + 1]>> \in R
  <2>1. CASE i = k
    BY <1>1, <1>3, <2>1 DEF IsPath
  <2>2. CASE i # k
    BY <1>1, <1>3, <2>2 DEF IsPath
  <2> QED BY <2>1, <2>2
<1>5. t[0] = a
  BY <1>1, <1>3 DEF IsPath
<1> QED BY <1>2, <1>3, <1>4, <1>5 DEF Path, IsPath

\* A path that comes to a place twice can do without what is between.
LEMMA PathShortens ==
  ASSUME NEW R, NEW P, NEW a, NEW b, NEW k \in Nat,
         NEW s \in [0 .. k -> P], IsPath(s, R, a, b, k),
         NEW i \in 0 .. k, NEW j \in 0 .. k, i < j, s[i] = s[j]
  PROVE  k - (j - i) \in Nat /\ Path(R, P, a, b, k - (j - i))
<1>1. PICK m \in Nat : m = k - (j - i)
  OBVIOUS
<1> DEFINE t == [x \in 0 .. m |-> IF x <= i THEN s[x] ELSE s[x + (j - i)]]
<1>2. t \in [0 .. m -> P]
  BY <1>1
<1>3. \A x \in 0 .. m : (x <= i => t[x] = s[x]) /\ (x >= i => t[x] = s[x + (j - i)])
  BY <1>1
<1> HIDE DEF t
<1>4. ASSUME NEW x \in 0 .. m - 1 PROVE <<t[x], t[x + 1]>> \in R
  <2>1. CASE x < i
    <3>1. t[x] = s[x] /\ t[x + 1] = s[x + 1] /\ x \in 0 .. k - 1
      BY <1>1, <1>3, <2>1
    <3> QED BY <3>1 DEF IsPath
  <2>2. CASE x >= i
    <3> PICK y \in Nat : y = x + (j - i)
      BY <2>2
    <3>1. t[x] = s[y] /\ t[x + 1] = s[y + 1] /\ y \in 0 .. k - 1
      BY <1>1, <1>3, <2>2
    <3> QED BY <3>1 DEF IsPath
  <2> QED BY <2>1, <2>2
<1>5. t[0] = a /\ t[m] = b
  <2>1. t[0] = s[0] /\ i <= m /\ m + (j - i) = k
    BY <1>1, <1>3
  <2>2. t[m] = s[k]
    BY <1>1, <1>3, <2>1
  <2> QED BY <2>1, <2>2 DEF IsPath
<1> QED BY <1>1, <1>2, <1>4, <1>5 DEF Path, IsPath

\* Among n places, what can be reached can be reached in less than n steps.
LEMMA ShortPath ==
  ASSUME NEW R, NEW n \in Nat, NEW a, NEW b, NEW k \in Nat,
         Path(R, 0 .. n - 1, a, b, k)
  PROVE  \E m \in Nat : m < n /\ Path(R, 0 .. n - 1, a, b, m)
<1> DEFINE P == 0 .. n - 1
           K == {x \in Nat : Path(R, P, a, b, x)}
<1>1. PICK m \in K : \A x \in K : m <= x
  BY MinIsLeast
<1> HIDE DEF P
<1>2. PICK s \in [0 .. m -> P] : IsPath(s, R, a, b, m)
  BY <1>1 DEF Path
<1>3. ~(n <= m)
  <2> SUFFICES ASSUME n <= m PROVE FALSE
    OBVIOUS
  <2>1. IsFiniteSet(0 .. m) /\ Cardinality(0 .. m) = m + 1
    BY FS_Interval
  <2>2. IsFiniteSet(P) /\ Cardinality(P) = n
    BY FS_Interval DEF P
  <2>3. PICK x, y \in 0 .. m : x # y /\ s[x] = s[y]
    BY <2>1, <2>2, FS_PigeonHole
  <2>4. PICK i, j \in 0 .. m : i < j /\ s[i] = s[j]
    <3>1. x < y \/ y < x
      BY <2>3
    <3> QED BY <2>3, <3>1
  <2>5. m - (j - i) \in K
    BY <1>1, <1>2, <2>4, PathShortens
  <2> QED BY <1>1, <2>4, <2>5
<1> QED BY <1>1, <1>3 DEF P

-----------------------------------------------------------------------------
(* FlattenSeq.                                                             *)

\* The equation that defines flatten, the function behind FlattenSeq, up to n.
IsFlatten(f, seqs, n) ==
    \A i \in 1 .. n : f[i] = IF i = 1 THEN seqs[1] ELSE f[i - 1] \o seqs[i]

\* The equation has a solution: one that holds up to a place is extended to
\* the next.
LEMMA FlattenExists ==
  ASSUME NEW Q, \A a, b \in Q : a \o b \in Q,
         NEW N \in Nat \ {0}, NEW seqs \in [1 .. N -> Q]
  PROVE  \E f \in [1 .. N -> Q] : IsFlatten(f, seqs, N)
<1> DEFINE Good == {n \in Nat : n < N =>
                      \E f \in [1 .. N -> Q] : IsFlatten(f, seqs, n + 1)}
<1>1. 0 \in Good
  <2> DEFINE f == [i \in 1 .. N |-> seqs[1]]
  <2>1. f \in [1 .. N -> Q] /\ IsFlatten(f, seqs, 1)
    BY DEF IsFlatten
  <2> QED BY <2>1
<1>2. ASSUME NEW n \in Nat, n \in Good
      PROVE  n + 1 \in Good
  <2> SUFFICES ASSUME n + 1 < N
               PROVE  \E g \in [1 .. N -> Q] : IsFlatten(g, seqs, n + 2)
    OBVIOUS
  <2>1. PICK f \in [1 .. N -> Q] : IsFlatten(f, seqs, n + 1)
    BY <1>2
  <2> DEFINE next == f[n + 1] \o seqs[n + 2]
             g == [f EXCEPT ![n + 2] = next]
  <2>2. next \in Q
    OBVIOUS
  <2>3. \A i \in 1 .. N : g[i] = IF i = n + 2 THEN next ELSE f[i]
    OBVIOUS
  <2>4. g \in [1 .. N -> Q]
    BY <2>2
  <2>5. IsFlatten(g, seqs, n + 2)
    <3> SUFFICES ASSUME NEW i \in 1 .. n + 2
                 PROVE  g[i] = IF i = 1 THEN seqs[1] ELSE g[i - 1] \o seqs[i]
      BY DEF IsFlatten
    <3>1. CASE i = n + 2
      <4>1. i # 1 /\ i \in 1 .. N /\ i - 1 \in 1 .. N /\ i - 1 = n + 1 /\ i - 1 # n + 2
        BY <3>1
      <4>2. g[i - 1] = f[n + 1] /\ g[i] = next
        <5> HIDE DEF g, next
        <5> QED BY <2>3, <3>1, <4>1
      <4> QED BY <3>1, <4>1, <4>2
    <3>2. CASE i # n + 2
      <4>1. i \in 1 .. n + 1
        BY <3>2
      <4>2. g[i] = f[i] /\ (i # 1 => g[i - 1] = f[i - 1])
        BY <2>3, <4>1
      <4>3. f[i] = IF i = 1 THEN seqs[1] ELSE f[i - 1] \o seqs[i]
        BY <2>1, <4>1 DEF IsFlatten
      <4> QED BY <4>2, <4>3
    <3> QED BY <3>1, <3>2
  <2> QED BY <2>4, <2>5
<1>3. N - 1 \in Good
  <2> HIDE DEF Good
  <2> QED BY <1>1, <1>2, InductionOnSet
<1> QED BY <1>3

\* Every solution has sequences of the same kind for its values.
LEMMA FlattenType ==
  ASSUME NEW Q, \A a, b \in Q : a \o b \in Q,
         NEW N \in Nat \ {0}, NEW seqs \in [1 .. N -> Q],
         NEW f, IsFlatten(f, seqs, N)
  PROVE  \A i \in 1 .. N : f[i] \in Q
<1> DEFINE Good == {n \in Nat : n + 1 \in 1 .. N => f[n + 1] \in Q}
<1>1. 0 \in Good
  BY DEF IsFlatten
<1>2. ASSUME NEW n \in Nat, n \in Good
      PROVE  n + 1 \in Good
  <2> SUFFICES ASSUME n + 2 \in 1 .. N PROVE f[n + 2] \in Q
    OBVIOUS
  <2>1. f[n + 1] \in Q /\ seqs[n + 2] \in Q
    BY <1>2
  <2> DEFINE j == n + 2
  <2>2. j - 1 = n + 1 /\ j # 1 /\ j \in 1 .. N
    OBVIOUS
  <2>3. f[j] = f[j - 1] \o seqs[j]
    <3> HIDE DEF j
    <3> QED BY <2>2 DEF IsFlatten
  <2> QED BY <2>1, <2>2, <2>3
<1>3. Nat \subseteq Good
  <2> HIDE DEF Good
  <2> QED BY <1>1, <1>2, InductionOnSet
<1> TAKE i \in 1 .. N
<1>4. i - 1 \in Nat /\ (i - 1) + 1 = i
  OBVIOUS
<1> QED BY <1>3, <1>4

\* What FlattenSeq computes, step by step: its value is the last of a sequence
\* of values, each of which is the one before followed by the next sequence.
LEMMA FlattenSteps ==
  ASSUME NEW S, NEW seqs \in Seq(Seq(S)), Len(seqs) # 0
  PROVE  \E f \in [1 .. Len(seqs) -> Seq(S)] :
            IsFlatten(f, seqs, Len(seqs)) /\ FlattenSeq(seqs) = f[Len(seqs)]
<1> DEFINE N == Len(seqs)
           Eq(f) == f = [i \in 1 .. N |-> IF i = 1 THEN seqs[i] ELSE f[i - 1] \o seqs[i]]
           F == CHOOSE f : Eq(f)
<1>0. N \in Nat \ {0} /\ seqs \in [1 .. N -> Seq(S)]
  OBVIOUS
<1>1. \A a, b \in Seq(S) : a \o b \in Seq(S)
  OBVIOUS
<1>2. PICK f \in [1 .. N -> Seq(S)] : IsFlatten(f, seqs, N)
  BY <1>0, <1>1, FlattenExists
<1>3. Eq(f)
  BY <1>2, Zenon DEF IsFlatten
<1>4. FlattenSeq(seqs) = F[N]
  BY Zenon DEF FlattenSeq
<1>5. Eq(F)
  <2> HIDE DEF Eq
  <2> QED BY <1>3
<1>6. IsFlatten(F, seqs, N)
  <2> HIDE DEF F
  <2> QED BY <1>5 DEF IsFlatten
<1>7. \A i \in 1 .. N : F[i] \in Seq(S)
  <2> HIDE DEF F
  <2> QED BY <1>0, <1>1, <1>6, FlattenType
<1>8. F \in [1 .. N -> Seq(S)]
  <2> HIDE DEF F
  <2> QED BY <1>5, <1>7
<1> HIDE DEF F
<1> QED BY <1>4, <1>6, <1>8

\* FlattenSeq yields a sequence of the same elements.
LEMMA FlattenIsSeq ==
  ASSUME NEW S, NEW seqs \in Seq(Seq(S))
  PROVE  FlattenSeq(seqs) \in Seq(S)
<1>1. CASE Len(seqs) = 0
  <2>1. seqs = <<>> /\ seqs \in Seq(S)
    BY <1>1
  <2> QED BY <1>1, <2>1 DEF FlattenSeq
<1>2. CASE Len(seqs) # 0
  <2>1. PICK f \in [1 .. Len(seqs) -> Seq(S)] : FlattenSeq(seqs) = f[Len(seqs)]
    BY <1>2, FlattenSteps
  <2> QED BY <1>2, <2>1
<1> QED BY <1>1, <1>2

\* What the proofs need to know of sequences and of the empty one, e.
Monoid(Q, e) ==
    /\ e \in Q
    /\ \A a, b \in Q : a \o b \in Q
    /\ \A a \in Q : a \o e = a
    /\ \A a, b, c \in Q : (a \o b) \o c = a \o (b \o c)

LEMMA SeqMonoid ==
  ASSUME NEW S
  PROVE  Monoid(Seq(S), <<>>)
<1>1. \A a, b, c \in Seq(S) : (a \o b) \o c = a \o (b \o c)
  BY ConcatAssociative
<1>2. \A a \in Seq(S) : a \o <<>> = a
  BY ConcatEmptySeq
<1> QED BY <1>1, <1>2 DEF Monoid

\* s and t are the same before place j, where t has r more; after that only t
\* has anything.
Continues(s, t, n, j, r, e) ==
    /\ t[j] = s[j] \o r
    /\ \A k \in 1 .. n : k < j => s[k] = t[k]
    /\ \A k \in 1 .. n : k > j => s[k] = e

\* y is x, then r, then what t has after place j.
IsMore(x, y, t, n, j, r, Q, e) ==
    \E q \in Q : y = (x \o r) \o q /\ ((\A k \in 1 .. n : k > j => t[k] = e) => q = e)

\* Two solutions f and g, for such an s and t: from j on, g is f, then r, then
\* what else t has.
LEMMA FlattenClaim ==
  ASSUME NEW Q, NEW e, Monoid(Q, e), NEW N \in Nat \ {0},
         NEW s \in [1 .. N -> Q], NEW t \in [1 .. N -> Q],
         NEW f \in [1 .. N -> Q], NEW g \in [1 .. N -> Q],
         IsFlatten(f, s, N), IsFlatten(g, t, N),
         NEW j \in 1 .. N, NEW r \in Q, Continues(s, t, N, j, r, e)
  PROVE  IsMore(f[N], g[N], t, N, j, r, Q, e)
<1> DEFINE Ends == \A k \in 1 .. N : k > j => t[k] = e
           Adds(k) == \E q \in Q : g[k] = (f[k] \o r) \o q /\ (Ends => q = e)
           Claim(k) == (k < j => g[k] = f[k]) /\ (k >= j => Adds(k))
           Good == {n \in Nat : \A k \in 1 .. N : k = n + 1 => Claim(k)}
<1>0. \A a, b, c \in Q : (a \o b) \o c = a \o (b \o c)
  BY DEF Monoid
<1>c. /\ t[j] = s[j] \o r
      /\ \A k \in 1 .. N : k < j => s[k] = t[k]
      /\ \A k \in 1 .. N : k > j => s[k] = e
  BY DEF Continues
<1>1. f[1] = s[1] /\ g[1] = t[1]
  BY DEF IsFlatten
<1>2. ASSUME NEW k \in 1 .. N, g[k] = f[k] \o r
      PROVE  Adds(k)
  <2>1. g[k] = (f[k] \o r) \o e /\ e \in Q
    BY <1>2 DEF Monoid
  <2> QED BY <2>1
<1> HIDE DEF Ends, Adds
<1>3. Claim(1)
  <2>1. CASE 1 < j
    BY <1>c, <1>1, <2>1
  <2>2. CASE 1 = j
    BY <1>c, <1>1, <1>2, <2>2
  <2> QED BY <2>1, <2>2
<1>4. ASSUME NEW m \in 1 .. N, NEW k \in 1 .. N, k = m + 1, Claim(m)
      PROVE  Claim(k)
  <2>0. f[m] \in Q /\ s[k] \in Q /\ t[k] \in Q
    OBVIOUS
  <2>1. f[k] = f[m] \o s[k] /\ g[k] = g[m] \o t[k]
    <3>1. k # 1 /\ m = k - 1
      BY <1>4
    <3>2. f[k] = f[k - 1] \o s[k]
      BY <3>1 DEF IsFlatten
    <3>3. g[k] = g[k - 1] \o t[k]
      BY <3>1 DEF IsFlatten
    <3> QED BY <3>1, <3>2, <3>3, Zenon
  <2>2. (m < j => g[m] = f[m]) /\ (m >= j => Adds(m))
    BY <1>4
  <2>3. CASE k < j
    <3>1. s[k] = t[k] /\ m < j
      BY <1>c, <1>4, <2>3
    <3> QED BY <2>1, <2>2, <2>3, <3>1
  <2>4. CASE k = j
    <3>0. m < j
      BY <1>4, <2>4
    <3>1. t[k] = s[k] \o r
      BY <1>c, <2>4, Zenon
    <3>2. g[k] = f[m] \o (s[k] \o r)
      BY <2>1, <2>2, <3>0, <3>1, Zenon
    <3>3. g[k] = (f[m] \o s[k]) \o r
      BY <1>0, <2>0, <3>2
    <3>4. Adds(k)
      BY <1>2, <2>1, <3>3
    <3> QED BY <2>4, <3>4
  <2>5. CASE k > j
    <3>1. m >= j /\ s[k] = e
      BY <1>c, <1>4, <2>5
    <3>2. PICK q \in Q : g[m] = (f[m] \o r) \o q /\ (Ends => q = e)
      BY <2>2, <3>1 DEF Adds
    <3>3. f[k] = f[m]
      BY <2>1, <3>1 DEF Monoid
    <3>4. f[m] \o r \in Q /\ q \o t[k] \in Q
      BY DEF Monoid
    <3>5. g[k] = ((f[m] \o r) \o q) \o t[k]
      BY <2>1, <3>2, Zenon
    <3>8. ((f[m] \o r) \o q) \o t[k] = (f[m] \o r) \o (q \o t[k])
      <4> DEFINE x == f[m] \o r
      <4>1. x \in Q
        BY <3>4
      <4> HIDE DEF x
      <4>2. (x \o q) \o t[k] = x \o (q \o t[k])
        BY <1>0, <2>0, <4>1
      <4> QED BY <4>2 DEF x
    <3>6. Ends => q \o t[k] = e
      <4>1. Ends => q = e /\ t[k] = e
        BY <2>5, <3>2 DEF Ends
      <4> QED BY <4>1 DEF Monoid
    <3>7. Adds(k)
      BY <3>3, <3>4, <3>5, <3>6, <3>8, Zenon DEF Adds
    <3> QED BY <2>5, <3>7
  <2> QED BY <2>3, <2>4, <2>5
<1> HIDE DEF Claim
<1>5. 0 \in Good
  BY <1>3
<1>6. ASSUME NEW n \in Nat, n \in Good
      PROVE  n + 1 \in Good
  <2> SUFFICES ASSUME NEW k \in 1 .. N, k = (n + 1) + 1 PROVE Claim(k)
    OBVIOUS
  <2>1. n + 1 \in 1 .. N /\ Claim(n + 1)
    BY <1>6
  <2> QED BY <1>4, <2>1
<1>7. Nat \subseteq Good
  <2> HIDE DEF Good
  <2> QED BY <1>5, <1>6, InductionOnSet, Zenon
<1>8. Claim(N)
  <2>1. N - 1 \in Good /\ N = (N - 1) + 1
    <3> HIDE DEF Good
    <3> QED BY <1>7
  <2> QED BY <2>1
<1>9. Adds(N)
  BY <1>8 DEF Claim
<1> QED BY <1>9 DEF Adds, Ends, IsMore

\* The same for FlattenSeq.
LEMMA FlattenMore ==
  ASSUME NEW S, NEW s \in Seq(Seq(S)), NEW t \in Seq(Seq(S)), NEW N,
         Len(s) = N, Len(t) = N,
         NEW j \in 1 .. N, NEW r \in Seq(S), Continues(s, t, N, j, r, <<>>)
  PROVE  IsMore(FlattenSeq(s), FlattenSeq(t), t, N, j, r, Seq(S), <<>>)
<1> DEFINE Q == Seq(S)
           e == <<>>
<1>0. N \in Nat \ {0} /\ s \in [1 .. N -> Q] /\ t \in [1 .. N -> Q]
  OBVIOUS
<1>1. PICK f \in [1 .. N -> Q] : IsFlatten(f, s, N) /\ FlattenSeq(s) = f[N]
  BY <1>0, FlattenSteps
<1>2. PICK g \in [1 .. N -> Q] : IsFlatten(g, t, N) /\ FlattenSeq(t) = g[N]
  BY <1>0, FlattenSteps
<1>3. r \in Q /\ Continues(s, t, N, j, r, e)
  OBVIOUS
<1>4. Monoid(Q, e)
  BY SeqMonoid
<1> HIDE DEF Q, e
<1>5. IsMore(f[N], g[N], t, N, j, r, Q, e)
  BY <1>0, <1>1, <1>2, <1>3, <1>4, FlattenClaim
<1> QED BY <1>1, <1>2, <1>5, Zenon DEF Q, e

\* Nothing but empty sequences makes an empty one.
LEMMA FlattenEmpty ==
  ASSUME NEW S, NEW seqs \in Seq(Seq(S)), \A k \in 1 .. Len(seqs) : seqs[k] = <<>>
  PROVE  FlattenSeq(seqs) = <<>>
<1>1. CASE Len(seqs) = 0
  BY <1>1 DEF FlattenSeq
<1>2. CASE Len(seqs) # 0
  <2> DEFINE N == Len(seqs)
  <2>1. PICK f \in [1 .. N -> Seq(S)] : IsFlatten(f, seqs, N) /\ FlattenSeq(seqs) = f[N]
    BY <1>2, FlattenSteps
  <2>2. N \in Nat \ {0} /\ \A k \in 1 .. N : seqs[k] = <<>>
    BY <1>2
  <2>3. <<>> \o <<>> = <<>>
    OBVIOUS
  <2> DEFINE e == <<>>
             Good == {n \in Nat : \A k \in 1 .. N : k = n + 1 => f[k] = e}
  <2> HIDE DEF N
  <2>4. 0 \in Good
    <3>1. 1 \in 1 .. N /\ seqs[1] = e
      BY <2>2
    <3>2. f[1] = seqs[1]
      BY <2>1, <3>1 DEF IsFlatten
    <3> QED BY <3>1, <3>2
  <2>5. ASSUME NEW n \in Nat, n \in Good
        PROVE  n + 1 \in Good
    <3> SUFFICES ASSUME NEW k \in 1 .. N, k = (n + 1) + 1 PROVE f[k] = e
      OBVIOUS
    <3>1. k - 1 \in 1 .. N /\ k - 1 = n + 1 /\ k # 1
      BY <2>2
    <3>2. f[k - 1] = e
      BY <2>5, <3>1
    <3>3. f[k] = f[k - 1] \o seqs[k]
      BY <2>1, <3>1 DEF IsFlatten
    <3> QED BY <2>2, <2>3, <3>2, <3>3
  <2>6. Nat \subseteq Good
    <3> HIDE DEF Good
    <3> QED BY <2>4, <2>5, InductionOnSet, Zenon
  <2>7. N - 1 \in Good
    <3> HIDE DEF Good
    <3> QED BY <2>2, <2>6
  <2>8. f[N] = e
    BY <2>2, <2>7
  <2> QED BY <2>1, <2>8
<1> QED BY <1>1, <1>2

\* One sequence more comes after what there is.
LEMMA FlattenAppend ==
  ASSUME NEW S, NEW s \in Seq(Seq(S)), NEW t \in Seq(Seq(S)), NEW n \in Nat,
         Len(s) = n, Len(t) = n + 1, \A i \in 1 .. n : t[i] = s[i]
  PROVE  FlattenSeq(t) = FlattenSeq(s) \o t[n + 1]
<1>0. t[n + 1] \in Seq(S) /\ t \in [1 .. n + 1 -> Seq(S)] /\ s \in [1 .. n -> Seq(S)]
  OBVIOUS
<1>1. PICK g \in [1 .. n + 1 -> Seq(S)] :
         IsFlatten(g, t, n + 1) /\ FlattenSeq(t) = g[n + 1]
  <2>1. PICK m \in Nat : m = Len(t) /\ m = n + 1
    OBVIOUS
  <2>2. Len(t) # 0
    OBVIOUS
  <2>3. \E g \in [1 .. Len(t) -> Seq(S)] :
           IsFlatten(g, t, Len(t)) /\ FlattenSeq(t) = g[Len(t)]
    BY <2>2, FlattenSteps, Zenon
  <2> QED BY <2>1, <2>3, Zenon
<1>2. CASE n = 0
  <2>1. FlattenSeq(s) = <<>>
    <3>1. \A k \in 1 .. Len(s) : s[k] = <<>>
      BY <1>2
    <3> QED BY <3>1, FlattenEmpty, Zenon
  <2>2. FlattenSeq(t) = t[n + 1]
    BY <1>1, <1>2 DEF IsFlatten
  <2>3. <<>> \o t[n + 1] = t[n + 1]
    BY <1>0, ConcatEmptySeq
  <2> QED BY <2>1, <2>2, <2>3
<1>3. CASE n # 0
  <2>1. PICK f \in [1 .. n -> Seq(S)] : IsFlatten(f, s, n) /\ FlattenSeq(s) = f[n]
    BY <1>3, FlattenSteps
  <2> DEFINE Good == {k \in Nat : \A i \in 1 .. n : i = k + 1 => f[i] = g[i]}
  <2>2. 0 \in Good
    <3>1. 1 \in 1 .. n /\ 1 \in 1 .. n + 1 /\ t[1] = s[1]
      BY <1>3
    <3>2. f[1] = s[1] /\ g[1] = t[1]
      BY <1>1, <2>1, <3>1 DEF IsFlatten
    <3> QED BY <3>1, <3>2
  <2>3. ASSUME NEW k \in Nat, k \in Good
        PROVE  k + 1 \in Good
    <3> SUFFICES ASSUME NEW i \in 1 .. n, i = (k + 1) + 1 PROVE f[i] = g[i]
      OBVIOUS
    <3>1. i - 1 \in 1 .. n /\ i - 1 = k + 1 /\ i # 1 /\ i \in 1 .. n + 1 /\ t[i] = s[i]
      OBVIOUS
    <3>2. f[i - 1] = g[i - 1]
      BY <2>3, <3>1
    <3>3. f[i] = f[i - 1] \o s[i] /\ g[i] = g[i - 1] \o t[i]
      BY <1>1, <2>1, <3>1 DEF IsFlatten
    <3> QED BY <3>1, <3>2, <3>3
  <2>4. Nat \subseteq Good
    <3> HIDE DEF Good
    <3> QED BY <2>2, <2>3, InductionOnSet, Zenon
  <2>5. n - 1 \in Good /\ n \in 1 .. n
    <3> HIDE DEF Good
    <3> QED BY <1>3, <2>4
  <2>6. f[n] = g[n]
    BY <2>5
  <2>7. PICK j \in 1 .. n + 1 : j = n + 1 /\ j - 1 = n /\ j # 1
    BY <1>3
  <2>8. g[j] = g[j - 1] \o t[j]
    BY <1>1, <2>7 DEF IsFlatten
  <2> QED BY <1>1, <2>1, <2>6, <2>7, <2>8, Zenon
<1> QED BY <1>2, <1>3

\* The places of a concatenation.
LEMMA ConcatPlaces ==
  ASSUME NEW S, NEW a \in Seq(S), NEW b \in Seq(S)
  PROVE  /\ Len(a) \in Nat /\ Len(b) \in Nat
         /\ a \o b \in Seq(S) /\ Len(a \o b) = Len(a) + Len(b)
         /\ \A k \in 1 .. Len(a) : (a \o b)[k] = a[k]
         /\ \A k \in 1 .. Len(b) : (a \o b)[Len(a) + k] = b[k]
<1>1. Len(a) \in Nat /\ Len(b) \in Nat /\ a \o b \in Seq(S)
      /\ Len(a \o b) = Len(a) + Len(b)
  OBVIOUS
<1>2. \A k \in 1 .. Len(a) : (a \o b)[k] = a[k]
  BY <1>1
<1>3. \A k \in 1 .. Len(b) : (a \o b)[Len(a) + k] = b[k]
  BY <1>1
<1> QED BY <1>1, <1>2, <1>3

\* What comes first in a concatenation is a prefix of it.
LEMMA ConcatPrefix ==
  ASSUME NEW S, NEW s \in Seq(S), NEW q \in Seq(S)
  PROVE  IsPrefix(s, s \o q)
<1>1. s \o q \in Seq(S) /\ Len(s \o q) = Len(s) + Len(q) /\ Len(s) \in Nat /\ Len(q) \in Nat
  OBVIOUS
<1>2. \A k \in 1 .. Len(s) : s[k] \in S /\ (s \o q)[k] = s[k]
  OBVIOUS
<1> DEFINE a == SubSeq(s, 1, Len(s))
           b == SubSeq(s \o q, 1, Len(s))
<1>3. a \in Seq(S) /\ Len(a) = Len(s) /\ \A k \in 1 .. Len(s) : a[k] = s[k]
  BY <1>1, <1>2, SubSeqProperties
<1>4. b \in Seq(S) /\ Len(b) = Len(s) /\ \A k \in 1 .. Len(s) : b[k] = s[k]
  BY <1>1, <1>2, SubSeqProperties
<1> HIDE DEF a, b
<1>5. a = b
  BY <1>3, <1>4, SeqEqual
<1> QED BY <1>1, <1>5 DEF a, b, IsPrefix

=============================================================================
