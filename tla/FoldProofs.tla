----------------------------- MODULE FoldProofs -----------------------------
(***************************************************************************)
(* Lemmas on the operators that the models are built from: recursion over  *)
(* the naturals, FoldLeft and FlattenSeq of the community modules, least   *)
(* and greatest elements, and division.  Induction is that every set of    *)
(* naturals has a least element, or that a set that has 0 and the successor*)
(* of each of its elements has all naturals.                               *)
(***************************************************************************)
EXTENDS Integers, Sequences, FiniteSets, SequencesExt, SequenceTheorems, FiniteSetTheorems,
        WellFoundedInduction, TLAPS

-----------------------------------------------------------------------------
(* Induction.                                                              *)

LEMMA LeastOfNat ==
  ASSUME NEW S \in SUBSET Nat, S # {}
  PROVE  \E n \in S : \A m \in S : n <= m
  <1>1. \E x \in S : \A y \in S : ~ (<<y, x>> \in OpToRel(<, Nat))
    BY WFMin, NatLessThanWellFounded
  <1>2. PICK x \in S : \A y \in S : ~ (y < x)
    BY <1>1 DEF OpToRel
  <1> QED BY <1>2

LEMMA InductionSet ==
  ASSUME NEW S, 0 \in S, \A n \in Nat : n \in S => n + 1 \in S
  PROVE  Nat \subseteq S
  <1>1. SUFFICES ASSUME Nat \ S # {} PROVE FALSE
    OBVIOUS
  <1>2. PICK n \in Nat \ S : \A m \in Nat \ S : n <= m
    BY <1>1, LeastOfNat
  <1>3. n # 0 /\ n - 1 \in Nat
    BY <1>2
  <1>4. n - 1 \in S
    BY <1>2, <1>3
  <1> QED BY <1>2, <1>3, <1>4

(* The greatest element of a finite set of naturals.                       *)
LEMMA GreatestOfNat ==
  ASSUME NEW S \in SUBSET Nat, S # {}, NEW n \in Nat, \A m \in S : m <= n
  PROVE  Max(S) \in S /\ \A m \in S : m <= Max(S)
  <1> DEFINE D == {d \in 0 .. n : n - d \in S}
  <1>1. D \in SUBSET Nat
    OBVIOUS
  <1>0. D # {}
    <2>1. PICK m \in S : TRUE
      OBVIOUS
    <2>2. n - m \in D
      BY <2>1
    <2> QED BY <2>2
  <1>2. PICK d \in D : \A e \in D : d <= e
    <2> HIDE DEF D
    <2> QED BY <1>0, <1>1, LeastOfNat
  <1>3. n - d \in S /\ \A m \in S : m <= n - d
    <2>1. \A m \in S : n - m \in D
      OBVIOUS
    <2>2. \A m \in S : d <= n - m
      BY <1>2, <2>1
    <2> QED BY <1>2, <2>2
  <1> QED BY <1>3 DEF Max

LEMMA MaxIsGreatest ==
  ASSUME NEW S \in SUBSET Nat, NEW n \in S, \A m \in S : m <= n
  PROVE  Max(S) = n
  <1>1. S # {} /\ n \in Nat
    OBVIOUS
  <1>2. Max(S) \in S /\ \A m \in S : m <= Max(S)
    BY <1>1, GreatestOfNat
  <1>3. Max(S) <= n /\ n <= Max(S) /\ Max(S) \in Nat
    BY <1>2
  <1> QED BY <1>1, <1>3

LEMMA MaxOfInterval ==
  ASSUME NEW k \in Nat \ {0}
  PROVE  Max(1 .. k) = k
  <1>1. (1 .. k) \in SUBSET Nat /\ k \in 1 .. k /\ \A m \in 1 .. k : m <= k
    OBVIOUS
  <1> QED BY <1>1, MaxIsGreatest

-----------------------------------------------------------------------------
(* A function over the naturals that starts with b and goes on by step.    *)
IsRecursion(f, b, step) == f[0] = b /\ \A n \in Nat : f[n + 1] = step[n][f[n]]

LEMMA NatRecursion ==
  ASSUME NEW T, NEW b \in T, NEW step \in [Nat -> [T -> T]]
  PROVE  \E f \in [Nat -> T] : IsRecursion(f, b, step)
  <1> DEFINE A(n) == {g \in [0 .. n -> T] :
                        g[0] = b /\ \A k \in 0 .. n - 1 : g[k + 1] = step[k][g[k]]}
             S == {n \in Nat : A(n) # {}}
  <1>1. 0 \in S
    <2>1. [k \in 0 .. 0 |-> b] \in A(0)
      OBVIOUS
    <2> QED BY <2>1
  <1>2. ASSUME NEW n \in Nat, n \in S PROVE n + 1 \in S
    <2>1. PICK g \in [0 .. n -> T] :
            g[0] = b /\ \A k \in 0 .. n - 1 : g[k + 1] = step[k][g[k]]
      BY <1>2
    <2> DEFINE h == [k \in 0 .. n + 1 |-> IF k = n + 1 THEN step[n][g[n]] ELSE g[k]]
    <2>2. step[n][g[n]] \in T
      BY <2>1
    <2>3. h \in [0 .. n + 1 -> T] /\ h[0] = b
      BY <2>1, <2>2
    <2>4. \A k \in 0 .. (n + 1) - 1 : h[k + 1] = step[k][h[k]]
      BY <2>1
    <2> HIDE DEF h
    <2>5. h \in A(n + 1)
      BY <2>3, <2>4
    <2>6. A(n + 1) # {}
      BY <2>5
    <2> QED BY <2>6
  <1>3. Nat \subseteq S
    <2> HIDE DEF S
    <2> QED BY <1>1, <1>2, InductionSet
  <1> DEFINE G(n) == CHOOSE g \in A(n) : TRUE
             f == [n \in Nat |-> G(n)[n]]
  <1>4. \A n \in Nat : G(n) \in A(n)
    BY <1>3
  <1>5. \A n \in Nat : /\ G(n) \in [0 .. n -> T] /\ G(n)[0] = b
                       /\ \A k \in 0 .. n - 1 : G(n)[k + 1] = step[k][G(n)[k]]
    BY <1>4
  <1> HIDE DEF G
  <1>6. \A n \in Nat : \A k \in 0 .. n : G(n + 1)[k] = G(n)[k]
    <2> SUFFICES ASSUME NEW n \in Nat PROVE \A k \in 0 .. n : G(n + 1)[k] = G(n)[k]
      OBVIOUS
    <2> DEFINE E == {k \in Nat : k <= n => G(n + 1)[k] = G(n)[k]}
    <2>1. 0 \in E
      BY <1>5
    <2>2. ASSUME NEW k \in Nat, k \in E PROVE k + 1 \in E
      <3> SUFFICES ASSUME k + 1 <= n PROVE G(n + 1)[k + 1] = G(n)[k + 1]
        OBVIOUS
      <3>1. G(n + 1)[k] = G(n)[k]
        BY <2>2
      <3>2. G(n + 1)[k + 1] = step[k][G(n + 1)[k]] /\ G(n)[k + 1] = step[k][G(n)[k]]
        BY <1>5
      <3> QED BY <3>1, <3>2
    <2>3. Nat \subseteq E
      <3> HIDE DEF E
      <3> QED BY <2>1, <2>2, InductionSet
    <2> QED BY <2>3
  <1>7. f \in [Nat -> T] /\ f[0] = b
    BY <1>5
  <1>8. ASSUME NEW n \in Nat PROVE f[n + 1] = step[n][f[n]]
    <2>1. G(n + 1)[n + 1] = step[n][G(n + 1)[n]]
      BY <1>5
    <2>2. G(n + 1)[n] = G(n)[n]
      BY <1>6
    <2> QED BY <2>1, <2>2
  <1> QED BY <1>7, <1>8 DEF IsRecursion

(* The function by which FoldLeft is defined exists.  Its values after the *)
(* first k positions, for each set of positions, make a level.             *)
IsLevels(H, n, b, step) ==
  /\ \A u \in SUBSET (1 .. n) : H[0][u] = b
  /\ \A k \in Nat : \A u \in SUBSET (1 .. n) :
       H[k + 1][u] = IF k + 1 \in u THEN step[k + 1][H[k][u]] ELSE H[k][u]

LEMMA FoldLevels ==
  ASSUME NEW n \in Nat, NEW T, NEW b \in T, NEW step \in [1 .. n -> [T -> T]]
  PROVE  \E H : /\ \A k \in Nat : H[k] \in [SUBSET (1 .. n) -> T]
                /\ IsLevels(H, n, b, step)
  <1> DEFINE P == SUBSET (1 .. n)
             T2 == [P -> T]
             Level(k, g) == [u \in P |-> IF k + 1 \in u THEN step[k + 1][g[u]] ELSE g[u]]
             step2 == [k \in Nat |-> [g \in T2 |-> Level(k, g)]]
             base == [u \in P |-> b]
  <1>1. \A k \in Nat : \A g \in T2 : Level(k, g) \in T2
    <2> SUFFICES ASSUME NEW k \in Nat, NEW g \in T2 PROVE Level(k, g) \in T2
      OBVIOUS
    <2>1. ASSUME NEW u \in P PROVE (IF k + 1 \in u THEN step[k + 1][g[u]] ELSE g[u]) \in T
      <3>1. g[u] \in T
        OBVIOUS
      <3>2. CASE k + 1 \in u
        <4>1. k + 1 \in 1 .. n
          BY <3>2
        <4>2. step[k + 1] \in [T -> T]
          BY <4>1
        <4> QED BY <3>1, <3>2, <4>2
      <3> QED BY <3>1, <3>2
    <2> HIDE DEF P
    <2> QED BY <2>1
  <1>2. base \in T2
    OBVIOUS
  <1> HIDE DEF T2
  <1>3. step2 \in [Nat -> [T2 -> T2]]
    <2> HIDE DEF Level
    <2> QED BY <1>1
  <1>4. \E H \in [Nat -> T2] : IsRecursion(H, base, step2)
    <2> HIDE DEF base, step2
    <2> QED BY <1>2, <1>3, NatRecursion
  <1>5. PICK H \in [Nat -> T2] : IsRecursion(H, base, step2)
    BY <1>4
  <1>6. H[0] = base
    BY <1>5 DEF IsRecursion
  <1>7. \A k \in Nat : H[k + 1] = Level(k, H[k])
    <2>1. ASSUME NEW k \in Nat PROVE H[k + 1] = Level(k, H[k])
      <3>1. H[k + 1] = step2[k][H[k]]
        <4> HIDE DEF step2
        <4> QED BY <1>5 DEF IsRecursion
      <3>2. H[k] \in T2
        OBVIOUS
      <3> HIDE DEF Level
      <3> QED BY <3>1, <3>2
    <2> QED BY <2>1
  <1>8. \A k \in Nat : H[k] \in [SUBSET (1 .. n) -> T]
    BY DEF T2
  <1>9. \A u \in P : H[0][u] = b
    BY <1>6
  <1>10. \A k \in Nat : \A u \in P :
          H[k + 1][u] = IF k + 1 \in u THEN step[k + 1][H[k][u]] ELSE H[k][u]
    BY <1>7
  <1>11. IsLevels(H, n, b, step)
    BY <1>9, <1>10 DEF IsLevels
  <1> QED BY <1>8, <1>11

(* A level depends on the positions before it alone.                       *)
LEMMA LevelPrefix ==
  ASSUME NEW n \in Nat, NEW step, NEW H, NEW b, IsLevels(H, n, b, step),
         NEW k \in Nat, NEW u \in SUBSET (1 .. n), NEW v \in SUBSET (1 .. n),
         \A i \in 1 .. k : i \in u <=> i \in v
  PROVE  H[k][u] = H[k][v]
  <1> DEFINE Same(l) == (\A i \in 1 .. l : i \in u <=> i \in v) => H[l][u] = H[l][v]
             S == {l \in Nat : Same(l)}
  <1>1. Same(0)
    BY DEF IsLevels
  <1>2. ASSUME NEW l \in Nat, Same(l) PROVE Same(l + 1)
    <2> SUFFICES ASSUME \A i \in 1 .. l + 1 : i \in u <=> i \in v
                 PROVE  H[l + 1][u] = H[l + 1][v]
      OBVIOUS
    <2>1. \A i \in 1 .. l : i \in u <=> i \in v
      OBVIOUS
    <2>2. H[l][u] = H[l][v]
      BY <1>2, <2>1
    <2>3. l + 1 \in u <=> l + 1 \in v
      OBVIOUS
    <2> QED BY <2>2, <2>3 DEF IsLevels
  <1> HIDE DEF Same
  <1>3. Nat \subseteq S
    <2>1. 0 \in S
      BY <1>1
    <2>2. \A l \in Nat : l \in S => l + 1 \in S
      BY <1>2
    <2> HIDE DEF S
    <2> QED BY <2>1, <2>2, InductionSet
  <1>4. Same(k)
    BY <1>3
  <1> QED BY <1>4 DEF Same

(* Positions after the last one of a set change nothing.                   *)
LEMMA LevelStays ==
  ASSUME NEW n \in Nat, NEW step, NEW H, NEW b, IsLevels(H, n, b, step),
         NEW u \in SUBSET (1 .. n), NEW m \in 0 .. n, \A i \in u : i <= m
  PROVE  H[n][u] = H[m][u]
  <1> DEFINE S == {k \in Nat : H[m + k][u] = H[m][u]}
  <1>1. 0 \in S
    OBVIOUS
  <1>2. ASSUME NEW k \in Nat, k \in S PROVE k + 1 \in S
    <2>1. H[m + k][u] = H[m][u]
      BY <1>2
    <2>2. (m + k) + 1 \notin u /\ m + (k + 1) = (m + k) + 1 /\ m + k \in Nat
      OBVIOUS
    <2>3. H[(m + k) + 1][u] = H[m + k][u]
      BY <2>2 DEF IsLevels
    <2> QED BY <2>1, <2>2, <2>3
  <1>3. Nat \subseteq S
    <2> HIDE DEF S
    <2> QED BY <1>1, <1>2, InductionSet
  <1>4. n - m \in Nat /\ m + (n - m) = n
    OBVIOUS
  <1>5. H[m + (n - m)][u] = H[m][u]
    BY <1>3, <1>4
  <1> QED BY <1>4, <1>5

IsFold(fold, n, b, step) ==
  \A u \in SUBSET (1 .. n) :
    fold[u] = IF u = {} THEN b ELSE step[Max(u)][fold[u \ {Max(u)}]]

LEMMA FoldExists ==
  ASSUME NEW n \in Nat, NEW T, NEW b \in T, NEW step \in [1 .. n -> [T -> T]]
  PROVE  \E fold \in [SUBSET (1 .. n) -> T] : IsFold(fold, n, b, step)
  <1>1. PICK H : /\ \A k \in Nat : H[k] \in [SUBSET (1 .. n) -> T]
                 /\ IsLevels(H, n, b, step)
    BY FoldLevels
  <1>2. ASSUME NEW u \in SUBSET (1 .. n)
        PROVE  H[n][u] = IF u = {} THEN b ELSE step[Max(u)][H[n][u \ {Max(u)}]]
    <2>1. CASE u = {}
      <3>1. H[n][u] = H[0][u]
        BY <1>1, <2>1, LevelStays
      <3> QED BY <1>1, <2>1, <3>1 DEF IsLevels
    <2>2. ASSUME u # {} PROVE H[n][u] = step[Max(u)][H[n][u \ {Max(u)}]]
      <3>1. u \in SUBSET Nat /\ \A i \in u : i <= n
        OBVIOUS
      <3>2. Max(u) \in u /\ \A i \in u : i <= Max(u)
        BY <2>2, <3>1, GreatestOfNat
      <3> DEFINE m == Max(u)
                 v == u \ {m}
      <3>3. m \in u /\ \A i \in u : i <= m
        BY <3>2
      <3> HIDE DEF m
      <3>4. m \in 1 .. n /\ m \in 0 .. n /\ m - 1 \in 0 .. n
        BY <3>3
      <3>5. v \in SUBSET (1 .. n) /\ \A i \in v : i <= m - 1
        BY <3>3, <3>4
      <3>6. H[n][u] = H[m][u]
        BY <1>1, <3>3, <3>4, LevelStays
      <3>7. \A i \in 1 .. m - 1 : i \in u <=> i \in v
        BY <3>4
      <3> HIDE DEF v
      <3>8. H[n][v] = H[m - 1][v]
        BY <1>1, <3>4, <3>5, LevelStays
      <3>9. H[m - 1][u] = H[m - 1][v]
        BY <1>1, <3>4, <3>5, <3>7, LevelPrefix
      <3>10. H[(m - 1) + 1][u] = step[(m - 1) + 1][H[m - 1][u]]
        BY <1>1, <3>3, <3>4 DEF IsLevels
      <3>11. (m - 1) + 1 = m
        BY <3>4
      <3>12. H[n][u] = step[m][H[n][v]]
        BY <3>6, <3>8, <3>9, <3>10, <3>11
      <3> QED BY <3>12 DEF m, v
    <2> QED BY <2>1, <2>2
  <1>3. H[n] \in [SUBSET (1 .. n) -> T]
    BY <1>1
  <1> QED BY <1>2, <1>3 DEF IsFold

(* On the first k positions: the value on the first k - 1, one step on.    *)
LEMMA FoldPrefix ==
  ASSUME NEW n \in Nat, NEW b, NEW step, NEW fold, IsFold(fold, n, b, step)
  PROVE  /\ fold[1 .. 0] = b
         /\ \A k \in 1 .. n : fold[1 .. k] = step[k][fold[1 .. k - 1]]
  <1>1. fold[1 .. 0] = b
    <2>1. 1 .. 0 = {} /\ {} \in SUBSET (1 .. n)
      OBVIOUS
    <2> QED BY <2>1 DEF IsFold
  <1>2. ASSUME NEW k \in 1 .. n PROVE fold[1 .. k] = step[k][fold[1 .. k - 1]]
    <2>1. k \in Nat \ {0}
      OBVIOUS
    <2>2. Max(1 .. k) = k
      BY <2>1, MaxOfInterval
    <2>3. (1 .. k) \ {k} = 1 .. k - 1 /\ (1 .. k) \in SUBSET (1 .. n) /\ 1 .. k # {}
      OBVIOUS
    <2> QED BY <2>2, <2>3 DEF IsFold
  <1> QED BY <1>1, <1>2

LEMMA InductionTo ==
  ASSUME NEW n \in Nat, NEW S, 0 \in S, \A k \in 1 .. n : k - 1 \in S => k \in S
  PROVE  0 .. n \subseteq S
  <1> DEFINE R == {k \in Nat : k <= n => k \in S}
  <1>1. 0 \in R
    OBVIOUS
  <1>2. \A k \in Nat : k \in R => k + 1 \in R
    <2> SUFFICES ASSUME NEW k \in Nat, k \in R, k + 1 <= n PROVE k + 1 \in S
      OBVIOUS
    <2>1. k \in S /\ k + 1 \in 1 .. n /\ (k + 1) - 1 = k
      OBVIOUS
    <2> QED BY <2>1
  <1>3. Nat \subseteq R
    <2> HIDE DEF R
    <2> QED BY <1>1, <1>2, InductionSet
  <1> QED BY <1>3

(* Recursion up to n.                                                      *)
IsRecursionTo(f, n, b, step) == f[0] = b /\ \A k \in 1 .. n : f[k] = step[k][f[k - 1]]

LEMMA RecursionTo ==
  ASSUME NEW n \in Nat, NEW T, NEW b \in T, NEW step \in [1 .. n -> [T -> T]]
  PROVE  \E f \in [0 .. n -> T] : IsRecursionTo(f, n, b, step)
  <1> DEFINE step2 == [k \in Nat |-> IF k < n THEN step[k + 1] ELSE [x \in T |-> x]]
  <1>1. step2 \in [Nat -> [T -> T]]
    <2>1. \A k \in Nat : (IF k < n THEN step[k + 1] ELSE [x \in T |-> x]) \in [T -> T]
      <3> SUFFICES ASSUME NEW k \in Nat
                   PROVE  (IF k < n THEN step[k + 1] ELSE [x \in T |-> x]) \in [T -> T]
        OBVIOUS
      <3>1. CASE k < n
        <4>1. k + 1 \in 1 .. n
          BY <3>1
        <4> QED BY <3>1, <4>1
      <3>2. CASE ~ (k < n)
        BY <3>2
      <3> QED BY <3>1, <3>2
    <2> QED BY <2>1
  <1>2. PICK f \in [Nat -> T] : IsRecursion(f, b, step2)
    <2> HIDE DEF step2
    <2> QED BY <1>1, NatRecursion
  <1> DEFINE g == [k \in 0 .. n |-> f[k]]
  <1>3. g \in [0 .. n -> T] /\ g[0] = b
    BY <1>2 DEF IsRecursion
  <1>4. ASSUME NEW k \in 1 .. n PROVE g[k] = step[k][g[k - 1]]
    <2>1. k - 1 \in Nat /\ k - 1 < n /\ (k - 1) + 1 = k
      OBVIOUS
    <2>2. f[(k - 1) + 1] = step2[k - 1][f[k - 1]]
      <3> HIDE DEF step2
      <3> QED BY <1>2, <2>1 DEF IsRecursion
    <2>3. step2[k - 1] = step[k]
      BY <2>1
    <2> HIDE DEF step2
    <2> QED BY <2>1, <2>2, <2>3
  <1> QED BY <1>3, <1>4 DEF IsRecursionTo

LEMMA ConcatRange ==
  ASSUME NEW T, NEW s \in Seq(T), NEW t \in Seq(T)
  PROVE  /\ s \o t \in Seq(T)
         /\ \A x : x \in ToSet(s \o t) <=> x \in ToSet(s) \/ x \in ToSet(t)
  <1>1. /\ s \o t \in Seq(T) /\ Len(s \o t) = Len(s) + Len(t)
        /\ \A i \in 1 .. Len(s) + Len(t) :
             (s \o t)[i] = IF i <= Len(s) THEN s[i] ELSE t[i - Len(s)]
    OBVIOUS
  <1> DEFINE c == s \o t
  <1> HIDE DEF c
  <1>2. DOMAIN s = 1 .. Len(s) /\ DOMAIN t = 1 .. Len(t) /\ DOMAIN c = 1 .. Len(s) + Len(t)
        /\ Len(s) \in Nat /\ Len(t) \in Nat
    BY <1>1 DEF c
  <1>3. \A i \in 1 .. Len(s) + Len(t) : c[i] = IF i <= Len(s) THEN s[i] ELSE t[i - Len(s)]
    BY <1>1 DEF c
  <1>4. ASSUME NEW i \in DOMAIN c PROVE c[i] \in ToSet(s) \/ c[i] \in ToSet(t)
    <2>1. CASE i <= Len(s)
      BY <1>2, <1>3, <2>1 DEF ToSet
    <2>2. CASE ~ (i <= Len(s))
      <3>1. i - Len(s) \in DOMAIN t /\ c[i] = t[i - Len(s)]
        BY <1>2, <1>3, <2>2
      <3> QED BY <3>1 DEF ToSet
    <2> QED BY <2>1, <2>2
  <1>5. ASSUME NEW i \in DOMAIN s PROVE s[i] \in ToSet(c)
    <2>1. i \in DOMAIN c /\ c[i] = s[i]
      BY <1>2, <1>3
    <2> QED BY <2>1 DEF ToSet
  <1>6. ASSUME NEW i \in DOMAIN t PROVE t[i] \in ToSet(c)
    <2>1. Len(s) + i \in DOMAIN c /\ c[Len(s) + i] = t[i]
      BY <1>2, <1>3
    <2> QED BY <2>1 DEF ToSet
  <1>7. \A x : x \in ToSet(c) <=> x \in ToSet(s) \/ x \in ToSet(t)
    BY <1>4, <1>5, <1>6 DEF ToSet
  <1> QED BY <1>1, <1>7 DEF c

(* A sequence of sequences is flattened by appending one after the other.  *)
LEMMA FlattenPrefixes ==
  ASSUME NEW T, NEW ss \in Seq(Seq(T))
  PROVE  \E f \in [0 .. Len(ss) -> Seq(T)] :
           /\ f[0] = << >>
           /\ \A k \in 1 .. Len(ss) : f[k] = f[k - 1] \o ss[k]
           /\ FlattenSeq(ss) = f[Len(ss)]
  <1> DEFINE n == Len(ss)
             F == CHOOSE f : f = [i \in 1 .. n |-> IF i = 1 THEN ss[i] ELSE f[i - 1] \o ss[i]]
             step == [k \in 1 .. n |-> [x \in Seq(T) |-> x \o ss[k]]]
  <1>0. n \in Nat /\ DOMAIN ss = 1 .. n /\ \A k \in 1 .. n : ss[k] \in Seq(T)
    OBVIOUS
  <1>1. FlattenSeq(ss) = IF n = 0 THEN ss ELSE F[n]
    BY DEF FlattenSeq
  <1>2. step \in [1 .. n -> [Seq(T) -> Seq(T)]]
    BY <1>0
  <1>3. << >> \in Seq(T)
    OBVIOUS
  <1>4. \E g \in [0 .. n -> Seq(T)] : IsRecursionTo(g, n, << >>, step)
    <2> HIDE DEF step, n
    <2> QED BY <1>0, <1>2, <1>3, RecursionTo
  <1>5. PICK g \in [0 .. n -> Seq(T)] : g[0] = << >> /\ \A k \in 1 .. n : g[k] = step[k][g[k - 1]]
    BY <1>4 DEF IsRecursionTo
  <1>6. ASSUME NEW k \in 1 .. n PROVE g[k] = g[k - 1] \o ss[k]
    <2>1. k - 1 \in 0 .. n
      BY <1>0
    <2>2. g[k - 1] \in Seq(T)
      BY <1>5, <2>1
    <2> HIDE DEF n
    <2> QED BY <1>5, <2>2
  <1> DEFINE h == [i \in 1 .. n |-> g[i]]
  <1>7. h = [i \in 1 .. n |-> IF i = 1 THEN ss[i] ELSE h[i - 1] \o ss[i]]
    <2>1. ASSUME NEW i \in 1 .. n
          PROVE  h[i] = IF i = 1 THEN ss[i] ELSE h[i - 1] \o ss[i]
      <3>1. CASE i = 1
        <4>0. i - 1 = 0
          BY <3>1
        <4>1. g[1] = << >> \o ss[1]
          BY <1>5, <1>6, <3>1, <4>0
        <4>2. << >> \o ss[1] = ss[1]
          BY <1>0, <3>1
        <4> QED BY <3>1, <4>1, <4>2
      <3>2. CASE i # 1
        <4>1. i - 1 \in 1 .. n
          BY <1>0, <3>2
        <4>2. h[i - 1] = g[i - 1]
          BY <4>1
        <4> QED BY <1>6, <3>2, <4>2
      <3> QED BY <3>1, <3>2
    <2> HIDE DEF n
    <2> QED BY <2>1
  <1>8. F = [i \in 1 .. n |-> IF i = 1 THEN ss[i] ELSE F[i - 1] \o ss[i]]
    <2> HIDE DEF h, n
    <2> QED BY <1>7
  <1> HIDE DEF F
  <1>9. ASSUME NEW i \in 1 .. n PROVE F[i] = IF i = 1 THEN ss[i] ELSE F[i - 1] \o ss[i]
    <2> HIDE DEF n
    <2> QED BY <1>8
  <1> DEFINE S == {k \in 0 .. n : k # 0 => F[k] = g[k]}
  <1>10. 0 \in S
    BY <1>0
  <1>11. ASSUME NEW k \in 1 .. n, k - 1 \in S PROVE k \in S
    <2>1. CASE k = 1
      <3>1. F[1] = ss[1] /\ h[1] = ss[1] /\ h[1] = g[1]
        BY <1>7, <1>9, <2>1
      <3> QED BY <2>1, <3>1
    <2>2. CASE k # 1
      <3>1. k - 1 # 0 /\ F[k - 1] = g[k - 1]
        BY <1>11, <2>2
      <3>2. F[k] = F[k - 1] \o ss[k]
        BY <1>9, <2>2
      <3>3. F[k] = g[k]
        BY <1>6, <3>1, <3>2
      <3> QED BY <1>0, <3>3
    <2> QED BY <2>1, <2>2
  <1>12. 0 .. n \subseteq S
    <2> HIDE DEF S, n
    <2> QED BY <1>0, <1>10, <1>11, InductionTo
  <1>13. FlattenSeq(ss) = g[n]
    <2>1. CASE n = 0
      <3>1. ss = << >>
        BY <2>1
      <3> QED BY <1>1, <1>5, <2>1, <3>1
    <2>2. CASE n # 0
      <3>1. n \in S
        BY <1>0, <1>12
      <3> QED BY <1>1, <2>2, <3>1
    <2> QED BY <2>1, <2>2
  <1> QED BY <1>5, <1>6, <1>13

(* The elements of a flattened sequence are those of its members.          *)
LEMMA FlattenRange ==
  ASSUME NEW T, NEW ss \in Seq(Seq(T))
  PROVE  /\ FlattenSeq(ss) \in Seq(T)
         /\ \A x : x \in ToSet(FlattenSeq(ss)) <=> \E i \in DOMAIN ss : x \in ToSet(ss[i])
  <1> DEFINE n == Len(ss)
  <1>0. n \in Nat /\ DOMAIN ss = 1 .. n /\ \A k \in 1 .. n : ss[k] \in Seq(T)
    OBVIOUS
  <1>1. PICK f \in [0 .. n -> Seq(T)] :
          /\ f[0] = << >>
          /\ \A k \in 1 .. n : f[k] = f[k - 1] \o ss[k]
          /\ FlattenSeq(ss) = f[n]
    BY FlattenPrefixes
  <1> HIDE DEF n
  <1> DEFINE Good(k) == \A x : x \in ToSet(f[k]) <=> \E i \in 1 .. k : x \in ToSet(ss[i])
             S == {k \in 0 .. n : Good(k)}
  <1>2. 0 \in S
    <2>1. ToSet(f[0]) = {}
      BY <1>1 DEF ToSet
    <2> QED BY <1>0, <2>1
  <1>3. ASSUME NEW k \in 1 .. n, k - 1 \in S PROVE k \in S
    <2>1. k - 1 \in 0 .. n /\ k \in 0 .. n
      BY <1>0
    <2>2. f[k - 1] \in Seq(T) /\ ss[k] \in Seq(T) /\ f[k] = f[k - 1] \o ss[k]
      BY <1>0, <1>1, <2>1
    <2>3. \A x : x \in ToSet(f[k]) <=> x \in ToSet(f[k - 1]) \/ x \in ToSet(ss[k])
      BY <2>2, ConcatRange
    <2>4. \A i : i \in 1 .. k <=> i \in 1 .. k - 1 \/ i = k
      BY <1>0
    <2>5. Good(k - 1)
      BY <1>3
    <2>6. Good(k)
      BY <2>3, <2>4, <2>5
    <2> HIDE DEF Good
    <2> QED BY <2>1, <2>6
  <1>4. 0 .. n \subseteq S
    <2> HIDE DEF S
    <2> QED BY <1>0, <1>2, <1>3, InductionTo
  <1>5. Good(n) /\ n \in 0 .. n
    <2> HIDE DEF Good
    <2> QED BY <1>0, <1>4
  <1> QED BY <1>0, <1>1, <1>5

(* Where its elements come from: the places of the members, in their order.*)
IsFlattening(F, ss, w, q) ==
    /\ w \in [1 .. Len(F) -> 1 .. Len(ss)]
    /\ q \in [1 .. Len(F) -> Nat]
    /\ \A n \in 1 .. Len(F) : q[n] \in DOMAIN ss[w[n]] /\ F[n] = ss[w[n]][q[n]]
    /\ \A n, m \in 1 .. Len(F) : n < m => w[n] < w[m] \/ (w[n] = w[m] /\ q[n] < q[m])
    /\ \A i \in 1 .. Len(ss) : \A k \in DOMAIN ss[i] :
         \E n \in 1 .. Len(F) : w[n] = i /\ q[n] = k

LEMMA FlattenPlaces ==
  ASSUME NEW T, NEW ss \in Seq(Seq(T))
  PROVE  \E w, q : IsFlattening(FlattenSeq(ss), ss, w, q)
  <1> DEFINE n == Len(ss)
             At(F, k, w, q) ==
               /\ w \in [1 .. Len(F) -> 1 .. k]
               /\ q \in [1 .. Len(F) -> Nat]
               /\ \A m \in 1 .. Len(F) : q[m] \in DOMAIN ss[w[m]] /\ F[m] = ss[w[m]][q[m]]
               /\ \A l, m \in 1 .. Len(F) : l < m => w[l] < w[m] \/ (w[l] = w[m] /\ q[l] < q[m])
               /\ \A i \in 1 .. k : \A j \in DOMAIN ss[i] :
                    \E m \in 1 .. Len(F) : w[m] = i /\ q[m] = j
  <1>0. n \in Nat /\ DOMAIN ss = 1 .. n /\ \A k \in 1 .. n : ss[k] \in Seq(T)
    OBVIOUS
  <1>1. PICK f \in [0 .. n -> Seq(T)] :
          /\ f[0] = << >>
          /\ \A k \in 1 .. n : f[k] = f[k - 1] \o ss[k]
          /\ FlattenSeq(ss) = f[n]
    BY FlattenPrefixes
  <1> HIDE DEF n
  <1> DEFINE S == {k \in 0 .. n : \E w, q : At(f[k], k, w, q)}
  <1>2. 0 \in S
    <2>1. At(f[0], 0, << >>, << >>)
      BY <1>1
    <2> HIDE DEF At
    <2> QED BY <1>0, <2>1
  <1>3. ASSUME NEW k \in 1 .. n, k - 1 \in S PROVE k \in S
    <2>1. k - 1 \in 0 .. n /\ k \in 0 .. n /\ k \in Nat
      BY <1>0
    <2>2. PICK w, q : At(f[k - 1], k - 1, w, q)
      BY <1>3
    <2> DEFINE a == Len(f[k - 1])
               b == Len(ss[k])
               w2 == [m \in 1 .. a + b |-> IF m <= a THEN w[m] ELSE k]
               q2 == [m \in 1 .. a + b |-> IF m <= a THEN q[m] ELSE m - a]
    <2>3. f[k - 1] \in Seq(T) /\ ss[k] \in Seq(T) /\ f[k] = f[k - 1] \o ss[k]
      BY <1>0, <1>1, <2>1
    <2>4. /\ a \in Nat /\ b \in Nat /\ Len(f[k]) = a + b /\ DOMAIN ss[k] = 1 .. b
          /\ \A m \in 1 .. a + b : f[k][m] = IF m <= a THEN f[k - 1][m] ELSE ss[k][m - a]
      <3> DEFINE s == f[k - 1]
                 t == ss[k]
      <3>1. s \in Seq(T) /\ t \in Seq(T) /\ f[k] = s \o t
        BY <2>3
      <3> HIDE DEF s, t
      <3>2. /\ Len(s) \in Nat /\ Len(t) \in Nat /\ DOMAIN t = 1 .. Len(t)
            /\ Len(s \o t) = Len(s) + Len(t)
            /\ \A m \in 1 .. Len(s) + Len(t) :
                 (s \o t)[m] = IF m <= Len(s) THEN s[m] ELSE t[m - Len(s)]
        BY <3>1
      <3> QED BY <3>1, <3>2 DEF s, t
    <2> HIDE DEF a, b
    <2>5. /\ w \in [1 .. a -> 1 .. k - 1] /\ q \in [1 .. a -> Nat]
          /\ \A m \in 1 .. a : q[m] \in DOMAIN ss[w[m]] /\ f[k - 1][m] = ss[w[m]][q[m]]
          /\ \A l, m \in 1 .. a : l < m => w[l] < w[m] \/ (w[l] = w[m] /\ q[l] < q[m])
          /\ \A i \in 1 .. k - 1 : \A j \in DOMAIN ss[i] :
               \E m \in 1 .. a : w[m] = i /\ q[m] = j
      BY <2>2 DEF a
    <2>6. /\ \A m \in 1 .. a : w2[m] = w[m] /\ q2[m] = q[m] /\ m \in 1 .. a + b
          /\ \A m \in (1 .. a + b) \ (1 .. a) : w2[m] = k /\ q2[m] = m - a /\ m - a \in 1 .. b
      BY <2>4
    <2>7. /\ \A m \in 1 .. a : w2[m] \in 1 .. k - 1 /\ q2[m] \in Nat
          /\ \A m \in 1 .. a + b : w2[m] \in 1 .. k /\ q2[m] \in Nat
      BY <2>1, <2>4, <2>5, <2>6
    <2>8. w2 \in [1 .. a + b -> 1 .. k] /\ q2 \in [1 .. a + b -> Nat]
      BY <2>7
    <2> HIDE DEF w2, q2
    <2>9. ASSUME NEW m \in 1 .. a + b
          PROVE  q2[m] \in DOMAIN ss[w2[m]] /\ f[k][m] = ss[w2[m]][q2[m]]
      <3>1. CASE m \in 1 .. a
        <4>1. f[k][m] = f[k - 1][m]
          BY <2>4, <3>1
        <4> QED BY <2>5, <2>6, <3>1, <4>1
      <3>2. CASE m \notin 1 .. a
        <4>1. f[k][m] = ss[k][m - a]
          BY <2>4, <3>2
        <4> QED BY <2>4, <2>6, <3>2, <4>1
      <3> QED BY <3>1, <3>2
    <2>10. ASSUME NEW l \in 1 .. a + b, NEW m \in 1 .. a + b, l < m
           PROVE  w2[l] < w2[m] \/ (w2[l] = w2[m] /\ q2[l] < q2[m])
      <3>1. CASE m \in 1 .. a
        <4>1. l \in 1 .. a
          BY <2>4, <2>10, <3>1
        <4> QED BY <2>5, <2>6, <2>10, <3>1, <4>1
      <3>2. CASE m \notin 1 .. a /\ l \in 1 .. a
        BY <2>1, <2>6, <2>7, <3>2
      <3>3. CASE m \notin 1 .. a /\ l \notin 1 .. a
        BY <2>4, <2>6, <2>10, <3>3
      <3> QED BY <3>1, <3>2, <3>3
    <2>11. ASSUME NEW i \in 1 .. k, NEW j \in DOMAIN ss[i]
           PROVE  \E m \in 1 .. a + b : w2[m] = i /\ q2[m] = j
      <3>1. CASE i = k
        <4>1. j \in 1 .. b
          BY <2>4, <3>1
        <4>2. a + j \in (1 .. a + b) \ (1 .. a) /\ (a + j) - a = j
          BY <2>4, <4>1
        <4> QED BY <2>6, <3>1, <4>2
      <3>2. CASE i # k
        <4>1. i \in 1 .. k - 1
          BY <2>1, <3>2
        <4>2. PICK m \in 1 .. a : w[m] = i /\ q[m] = j
          BY <2>5, <4>1
        <4> QED BY <2>6, <4>2
      <3> QED BY <3>1, <3>2
    <2>12. At(f[k], k, w2, q2)
      BY <2>4, <2>8, <2>9, <2>10, <2>11
    <2> HIDE DEF At
    <2> QED BY <2>1, <2>12
  <1>4. 0 .. n \subseteq S
    <2> HIDE DEF S
    <2> QED BY <1>0, <1>2, <1>3, InductionTo
  <1>5. \E w, q : At(f[n], n, w, q)
    <2> HIDE DEF At
    <2> QED BY <1>0, <1>4
  <1>6. PICK w, q : At(f[n], n, w, q)
    BY <1>5
  <1>7. IsFlattening(f[n], ss, w, q)
    BY <1>6 DEF IsFlattening, n
  <1> QED BY <1>1, <1>7

-----------------------------------------------------------------------------
(* Cells of a grid.  Extent[k] is the number of places in dimension k, and *)
(* Volume[k] the number of cells of the first k dimensions.                *)

LEMMA DivisionIs ==
  ASSUME NEW q \in Nat, NEW y \in Nat, NEW r \in Nat, r < y
  PROVE  (q * y + r) \div y = q /\ (q * y + r) % y = r
  <1> DEFINE n == q * y + r
  <1>1. n \in Nat
    OBVIOUS
  <1>2. n = q * y + r
    OBVIOUS
  <1> HIDE DEF n
  <1>3. n \div y = q /\ n % y = r
    BY <1>1, <1>2
  <1> QED BY <1>3 DEF n

LEMMA DivisionHas ==
  ASSUME NEW n \in Nat, NEW y \in Nat \ {0}
  PROVE  /\ n \div y \in Nat /\ n % y \in 0 .. y - 1
         /\ n = (n \div y) * y + (n % y)
  <1>1. n \div y \in Int /\ n % y \in 0 .. y - 1
    OBVIOUS
  <1>2. n = y * (n \div y) + (n % y)
    OBVIOUS
  <1> DEFINE q == n \div y
             r == n % y
  <1>3. q \in Int /\ r \in 0 .. y - 1 /\ n = y * q + r
    BY <1>1, <1>2
  <1> HIDE DEF q, r
  <1>4. y * q = q * y
    BY <1>3
  <1>5. q >= 0
    <2>1. ASSUME q <= -1 PROVE FALSE
      <3>1. y * q <= -y
        BY <1>3, <2>1
      <3> QED BY <1>3, <3>1
    <2> QED BY <1>3, <2>1
  <1>6. q \in Nat /\ r \in 0 .. y - 1 /\ n = q * y + r
    BY <1>3, <1>4, <1>5
  <1> QED BY <1>6 DEF q, r

IsGrid(Volume, Extent, a) ==
  /\ Volume[0] = 1
  /\ \A k \in 1 .. a : /\ Extent[k] \in Nat \ {0}
                       /\ Volume[k] = Volume[k - 1] * Extent[k]

LEMMA GridVolumes ==
  ASSUME NEW a \in Nat, NEW Volume, NEW Extent, IsGrid(Volume, Extent, a)
  PROVE  \A k \in 0 .. a : Volume[k] \in Nat \ {0}
  <1> DEFINE S == {k \in 0 .. a : Volume[k] \in Nat \ {0}}
  <1>1. 0 \in S
    BY DEF IsGrid
  <1>2. \A k \in 1 .. a : k - 1 \in S => k \in S
    <2> SUFFICES ASSUME NEW k \in 1 .. a, k - 1 \in S PROVE k \in S
      OBVIOUS
    <2>1. Volume[k - 1] \in Nat \ {0} /\ Extent[k] \in Nat \ {0}
      BY DEF IsGrid
    <2>2. \A v, e \in Nat \ {0} : v * e \in Nat \ {0}
      OBVIOUS
    <2>3. Volume[k] \in Nat \ {0}
      BY <2>1, <2>2 DEF IsGrid
    <2> QED BY <2>3
  <1>3. 0 .. a \subseteq S
    <2> HIDE DEF S
    <2> QED BY <1>1, <1>2, InductionTo
  <1> QED BY <1>3

(* The number of the cell at places x.                                     *)
IsCell(cell, x, Volume, a) ==
  cell[0] = 0 /\ \A k \in 1 .. a : cell[k] = cell[k - 1] + x[k] * Volume[k - 1]

LEMMA CellInGrid ==
  ASSUME NEW a \in Nat, NEW Volume, NEW Extent, IsGrid(Volume, Extent, a), NEW x, NEW cell,
         \A k \in 1 .. a : x[k] \in 0 .. Extent[k] - 1, IsCell(cell, x, Volume, a)
  PROVE  \A k \in 0 .. a : cell[k] \in 0 .. Volume[k] - 1
  <1> DEFINE S == {k \in 0 .. a : cell[k] \in 0 .. Volume[k] - 1}
  <1>1. 0 \in S
    BY DEF IsGrid, IsCell
  <1>2. \A k \in 1 .. a : k - 1 \in S => k \in S
    <2> SUFFICES ASSUME NEW k \in 1 .. a, k - 1 \in S PROVE k \in S
      OBVIOUS
    <2> DEFINE v == Volume[k - 1]
               e == Extent[k]
               y == x[k]
               c == cell[k - 1]
    <2>1. v \in Nat \ {0}
      BY GridVolumes
    <2>2. e \in Nat \ {0} /\ y \in 0 .. e - 1 /\ c \in 0 .. v - 1
      BY DEF IsGrid
    <2>3. cell[k] = c + y * v /\ Volume[k] = v * e
      BY DEF IsGrid, IsCell
    <2> HIDE DEF v, e, y, c
    <2>4. y * v \in Nat /\ v * e \in Nat /\ (y + 1) * v <= v * e /\ (y + 1) * v = y * v + v
      <3>1. \A f, g \in Nat : f * v \in Nat /\ (f <= g => f * v <= g * v)
        BY <2>1
      <3>2. y \in Nat /\ y + 1 \in Nat /\ y + 1 <= e
        BY <2>2
      <3>3. (y + 1) * v <= e * v /\ e * v = v * e /\ e * v \in Nat
        BY <2>1, <2>2, <3>1, <3>2
      <3>4. (y + 1) * v = y * v + v
        BY <2>1, <3>2
      <3> QED BY <3>1, <3>2, <3>3, <3>4
    <2>5. cell[k] \in 0 .. Volume[k] - 1
      BY <2>1, <2>2, <2>3, <2>4
    <2> QED BY <2>5
  <1>3. 0 .. a \subseteq S
    <2> HIDE DEF S
    <2> QED BY <1>1, <1>2, InductionTo
  <1> QED BY <1>3

(* The place in a dimension is had from the number of the cell.            *)
LEMMA PlaceOfCell ==
  ASSUME NEW a \in Nat, NEW Volume, NEW Extent, IsGrid(Volume, Extent, a), NEW x, NEW cell,
         \A k \in 1 .. a : x[k] \in 0 .. Extent[k] - 1, IsCell(cell, x, Volume, a),
         NEW d \in 1 .. a
  PROVE  (cell[a] \div Volume[d - 1]) % Extent[d] = x[d]
  <1> DEFINE S == {k \in 0 .. a : k >= d => \E q \in Nat : cell[k] = cell[d] + q * Volume[d]}
  <1>0. Volume[d] \in Nat \ {0} /\ Volume[d - 1] \in Nat \ {0} /\ Extent[d] \in Nat \ {0}
    <2>1. \A k \in 0 .. a : Volume[k] \in Nat \ {0}
      BY GridVolumes
    <2> QED BY <2>1 DEF IsGrid
  <1>1. \A k \in 0 .. a : cell[k] \in 0 .. Volume[k] - 1
    BY CellInGrid
  <1>2. 0 \in S
    OBVIOUS
  <1>3. ASSUME NEW k \in 1 .. a, k - 1 \in S PROVE k \in S
    <2> SUFFICES ASSUME k >= d PROVE \E q \in Nat : cell[k] = cell[d] + q * Volume[d]
      OBVIOUS
    <2>1. CASE k = d
      <3>1. cell[d] \in Nat
        BY <1>0, <1>1
      <3>2. cell[k] = cell[d] + 0 * Volume[d]
        BY <1>0, <2>1, <3>1
      <3> QED BY <3>2
    <2>2. CASE k > d
      <3>1. PICK q \in Nat : cell[k - 1] = cell[d] + q * Volume[d]
        BY <1>3, <2>2
      <3>2. PICK p \in Nat : Volume[k - 1] = p * Volume[d]
        <4> DEFINE R == {j \in 0 .. a : j >= d => \E p \in Nat : Volume[j] = p * Volume[d]}
        <4>1. 0 \in R
          OBVIOUS
        <4>2. ASSUME NEW j \in 1 .. a, j - 1 \in R PROVE j \in R
          <5> SUFFICES ASSUME j >= d PROVE \E p \in Nat : Volume[j] = p * Volume[d]
            OBVIOUS
          <5>1. CASE j = d
            <6>1. Volume[j] = 1 * Volume[d]
              BY <1>0, <5>1
            <6> QED BY <6>1
          <5>2. CASE j > d
            <6>1. PICK p \in Nat : Volume[j - 1] = p * Volume[d]
              BY <4>2, <5>2
            <6>2. Extent[j] \in Nat /\ Volume[j] = Volume[j - 1] * Extent[j]
              BY DEF IsGrid
            <6>3. \A v, e \in Nat : (p * v) * e = (p * e) * v /\ p * e \in Nat
              OBVIOUS
            <6>4. Volume[j] = (p * Extent[j]) * Volume[d] /\ p * Extent[j] \in Nat
              BY <1>0, <6>1, <6>2, <6>3
            <6> QED BY <6>4
          <5> QED BY <5>1, <5>2
        <4>3. 0 .. a \subseteq R
          <5> HIDE DEF R
          <5> QED BY <4>1, <4>2, InductionTo
        <4>4. k - 1 \in 0 .. a /\ k - 1 >= d
          BY <2>2
        <4> QED BY <4>3, <4>4
      <3>3. x[k] \in Nat /\ cell[d] \in Nat
        <4>1. Extent[k] \in Nat /\ x[k] \in 0 .. Extent[k] - 1
          BY DEF IsGrid
        <4>2. cell[d] \in 0 .. Volume[d] - 1
          BY <1>1
        <4> QED BY <1>0, <4>1, <4>2
      <3>4. cell[k] = (cell[d] + q * Volume[d]) + x[k] * (p * Volume[d])
        BY <3>1, <3>2 DEF IsCell
      <3>5. \A c, v, y \in Nat : /\ (c + q * v) + y * (p * v) = c + (q + y * p) * v
                                 /\ q + y * p \in Nat
        <4>1. \A v, y \in Nat : y * (p * v) = (y * p) * v /\ y * p \in Nat
          OBVIOUS
        <4>2. \A v, z \in Nat : (q + z) * v = q * v + z * v /\ q * v \in Nat /\ z * v \in Nat
          OBVIOUS
        <4> QED BY <4>1, <4>2
      <3>6. cell[k] = cell[d] + (q + x[k] * p) * Volume[d] /\ q + x[k] * p \in Nat
        BY <1>0, <3>3, <3>4, <3>5
      <3> QED BY <3>6
    <2> QED BY <2>1, <2>2
  <1>4. 0 .. a \subseteq S
    <2> HIDE DEF S
    <2> QED BY <1>2, <1>3, InductionTo
  <1>5. PICK q \in Nat : cell[a] = cell[d] + q * Volume[d]
    <2>1. a \in 0 .. a /\ a >= d
      OBVIOUS
    <2> QED BY <1>4, <2>1
  <1> DEFINE v == Volume[d - 1]
             e == Extent[d]
             y == x[d]
             c == cell[d - 1]
  <1>6. v \in Nat \ {0} /\ e \in Nat \ {0} /\ y \in 0 .. e - 1 /\ c \in 0 .. v - 1
    BY <1>0, <1>1
  <1>7. cell[a] = (c + y * v) + q * (v * e)
    BY <1>5 DEF IsGrid, IsCell
  <1> HIDE DEF v, e, y, c
  <1>8. y \in Nat /\ c \in Nat /\ c < v /\ y < e
    BY <1>6
  <1>9. cell[a] = (q * e + y) * v + c
    <2>1. q * (v * e) = (q * e) * v /\ q * e \in Nat
      BY <1>6
    <2>2. \A z \in Nat : (z + y) * v = z * v + y * v /\ z * v \in Nat /\ y * v \in Nat
      BY <1>6, <1>8
    <2> QED BY <1>7, <1>8, <2>1, <2>2
  <1>10. q * e + y \in Nat /\ (q * e + y) % e = y
    BY <1>6, <1>8, DivisionIs
  <1>11. cell[a] \div v = q * e + y
    BY <1>6, <1>8, <1>9, <1>10, DivisionIs
  <1> QED BY <1>10, <1>11 DEF v, e, y

(* Every number is that of the cell at the places had from it.             *)
LEMMA CellOfPlaces ==
  ASSUME NEW a \in Nat, NEW Volume, NEW Extent, IsGrid(Volume, Extent, a), NEW x, NEW cell,
         NEW n \in 0 .. Volume[a] - 1,
         \A k \in 1 .. a : x[k] = (n \div Volume[k - 1]) % Extent[k],
         IsCell(cell, x, Volume, a)
  PROVE  cell[a] = n
  <1>0. \A k \in 0 .. a : Volume[k] \in Nat \ {0}
    BY GridVolumes
  <1>n. n \in Nat
    BY <1>0
  <1> DEFINE S == {k \in 0 .. a : cell[k] = n % Volume[k]}
  <1>1. 0 \in S
    <2>1. n % 1 = 0
      BY <1>n
    <2> QED BY <2>1 DEF IsGrid, IsCell
  <1>2. ASSUME NEW k \in 1 .. a, k - 1 \in S PROVE k \in S
    <2> DEFINE v == Volume[k - 1]
               e == Extent[k]
               q == n \div v
               r == n % v
               p == q \div e
               s == q % e
    <2>1. v \in Nat \ {0} /\ e \in Nat \ {0} /\ Volume[k] = v * e
      BY <1>0 DEF IsGrid
    <2>2. cell[k] = r + s * v
      BY <1>2 DEF IsCell
    <2> HIDE DEF v, e
    <2>3. q \in Nat /\ r \in 0 .. v - 1 /\ n = q * v + r
      BY <1>n, <2>1, DivisionHas
    <2> HIDE DEF q, r
    <2>4. p \in Nat /\ s \in 0 .. e - 1 /\ q = p * e + s
      BY <2>1, <2>3, DivisionHas
    <2> HIDE DEF p, s
    <2>5. r \in Nat /\ s \in Nat /\ r < v /\ s + 1 <= e
      BY <2>1, <2>3, <2>4
    <2>6. n = p * (v * e) + (s * v + r)
      <3>1. (p * e + s) * v = (p * e) * v + s * v
        BY <2>1, <2>4, <2>5
      <3>2. (p * e) * v = p * (v * e)
        BY <2>1, <2>4
      <3>3. p * (v * e) \in Nat /\ s * v \in Nat
        BY <2>1, <2>4, <2>5
      <3> QED BY <2>3, <2>4, <2>5, <3>1, <3>2, <3>3
    <2>7. s * v + r \in Nat /\ s * v + r < v * e /\ v * e \in Nat
      <3>1. (s + 1) * v <= e * v
        <4>1. \A f, g \in Nat : f <= g => f * v <= g * v
          BY <2>1
        <4> QED BY <2>1, <2>5, <4>1
      <3>2. (s + 1) * v = s * v + v /\ e * v = v * e /\ s * v \in Nat /\ v * e \in Nat
        BY <2>1, <2>5
      <3> QED BY <2>1, <2>5, <3>1, <3>2
    <2>8. n % (v * e) = s * v + r
      BY <2>4, <2>6, <2>7, DivisionIs
    <2>9. s * v \in Nat
      BY <2>1, <2>5
    <2> QED BY <2>1, <2>2, <2>5, <2>8, <2>9
  <1>3. 0 .. a \subseteq S
    <2> HIDE DEF S
    <2> QED BY <1>1, <1>2, InductionTo
  <1>4. n % Volume[a] = n
    <2>1. Volume[a] \in Nat /\ n < Volume[a] /\ n = 0 * Volume[a] + n
      BY <1>0
    <2>2. (0 * Volume[a] + n) % Volume[a] = n
      BY <1>n, <2>1, DivisionIs
    <2> QED BY <2>1, <2>2
  <1> QED BY <1>3, <1>4
=============================================================================
