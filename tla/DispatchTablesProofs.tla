------------------------ MODULE DispatchTablesProofs ------------------------
(***************************************************************************)
(* Proofs about DispatchTables: what the selection of the dominant         *)
(* overriders leaves, the numbering of groups and of cells, and from both  *)
(* what a call runs, when the selection crashes and what is reported.      *)
(***************************************************************************)
EXTENDS DispatchTables, FoldProofs

-----------------------------------------------------------------------------
(* Selection.                                                              *)

LEMMA OverridersAreNumbers ==
  ASSUME IsMethod(method)
  PROVE  /\ Len(method.specs) \in Nat /\ Overrider = 1 .. Len(method.specs)
         /\ Overrider \subseteq Nat /\ IsFiniteSet(Overrider)
         /\ arity \in Nat \ {0} /\ DOMAIN method.vp = 1 .. arity
         /\ Null \notin Overrider /\ crash \notin Overrider
         /\ not_implemented \notin Overrider /\ ambiguous \notin Overrider
  <1>1. Len(method.specs) \in Nat /\ Overrider = 1 .. Len(method.specs)
    BY DEF IsMethod, Overrider
  <1>2. IsFiniteSet(Overrider)
    BY <1>1, FS_Interval
  <1>3. arity \in Nat \ {0} /\ DOMAIN method.vp = 1 .. arity
    BY DEF IsMethod, arity
  <1> QED BY <1>1, <1>2, <1>3, PointersAssumption

(* Deriving is a partial order on the classes that are registered.         *)
LEMMA ClassesAreOrdered ==
  ASSUME IsMethod(method)
  PROVE  /\ \A a, b \in Class : a \in Covariant(b) => a \in Covariant(a)
         /\ \A i \in 1 .. arity : method.vp[i] \in Class /\ method.vp[i] \in Covariant(method.vp[i])
         /\ \A a, b, c \in Class : a \in Covariant(b) /\ b \in Covariant(c) => a \in Covariant(c)
         /\ \A a, b \in Class : a \in Covariant(b) /\ b \in Covariant(a) => a = b
         /\ \A s \in Overrider, i \in 1 .. arity :
              /\ method.specs[s][i] \in Class
              /\ method.specs[s][i] \in Covariant(method.specs[s][i])
         /\ method.returns # << >> =>
              \A s \in Overrider : /\ method.returns[s] \in Class
                                   /\ method.returns[s] \in Covariant(method.returns[s])
  <1> DEFINE Registered == {c \in Class : c \in Covariant(c)}
  <1>1. DOMAIN method.vp = 1 .. arity
    BY OverridersAreNumbers
  <1>2. /\ method.transitive_derived \in [Class -> SUBSET Registered]
        /\ method.vp \in Seq(Registered)
        /\ method.specs \in Seq(Seq(Registered))
        /\ \A s \in Overrider : DOMAIN method.specs[s] = DOMAIN method.vp
        /\ method.returns # << >> => method.returns \in [Overrider -> Registered]
    BY DEF IsMethod, Covariant, Overrider
  <1>3. \A s \in Overrider, i \in 1 .. arity : method.specs[s][i] \in Registered
    <2> SUFFICES ASSUME NEW s \in Overrider, NEW i \in 1 .. arity
                 PROVE  method.specs[s][i] \in Registered
      OBVIOUS
    <2> HIDE DEF Registered
    <2>1. method.specs[s] \in Seq(Registered)
      BY <1>2 DEF Overrider
    <2>2. DOMAIN method.specs[s] = 1 .. arity
      BY <1>1, <1>2
    <2>3. \A k \in DOMAIN method.specs[s] : method.specs[s][k] \in Registered
      BY ONLY <2>1
    <2> QED BY ONLY <2>2, <2>3, i \in 1 .. arity
  <1>4. \A a, b, c \in Class : a \in Covariant(b) /\ b \in Covariant(c) => a \in Covariant(c)
    BY DEF IsMethod, Covariant
  <1>5. \A a, b \in Class : a \in Covariant(b) /\ b \in Covariant(a) => a = b
    BY DEF IsMethod, Covariant
  <1>6. \A a, b \in Class : a \in Covariant(b) => a \in Covariant(a)
    BY <1>2 DEF Covariant
  <1>7. \A i \in 1 .. arity : method.vp[i] \in Registered
    <2> HIDE DEF Registered
    <2>1. method.vp \in Seq(Registered)
      BY <1>2
    <2>2. \A k \in DOMAIN method.vp : method.vp[k] \in Registered
      BY ONLY <2>1
    <2> QED BY ONLY <1>1, <2>2
  <1>8. method.returns # << >> => \A s \in Overrider : method.returns[s] \in Registered
    <2> HIDE DEF Registered
    <2> QED BY <1>2
  <1> QED BY <1>3, <1>4, <1>5, <1>6, <1>7, <1>8

(* Candidates that are only removed, never moved.                          *)
Sifted == {c \in [Overrider -> Overrider \cup {Null}] : \A i \in Overrider : c[i] \in {i, Null}}

(* One comparison removes a candidate only for one that dominates it, and  *)
(* leaves none of the two that dominates the other.                        *)
LEMMA CompareSifts ==
  ASSUME IsMethod(method), NEW c \in Sifted, NEW i \in Overrider, NEW j \in Overrider, i # j
  PROVE  /\ Compare(c, i, j) \in Sifted
         /\ \A x \in Overrider : Compare(c, i, j)[x] = x => c[x] = x
         /\ \A x \in Overrider : c[x] = x /\ Compare(c, i, j)[x] # x
                                   => \E r \in Overrider : c[r] = r /\ Dominates(r, x)
         /\ Compare(c, i, j)[i] = i /\ Compare(c, i, j)[j] = j
              => ~ Dominates(i, j) /\ ~ Dominates(j, i)
         /\ (\E x \in Overrider : c[x] = x) => \E x \in Overrider : Compare(c, i, j)[x] = x
  <1>1. \A a, b : is_more_specific(a, b) <=> Dominates(a, b)
    BY DEF is_more_specific, Dominates
  <1>2. Null \notin Overrider
    BY OverridersAreNumbers
  <1>3. /\ c \in [Overrider -> Overrider \cup {Null}] /\ c[i] \in {i, Null} /\ c[j] \in {j, Null}
        /\ \A x \in Overrider : c[x] \in {x, Null}
    BY DEF Sifted
  <1>4. CASE c[i] = Null \/ c[j] = Null
    <2>1. Compare(c, i, j) = c
      BY <1>4 DEF Compare
    <2> QED BY <1>2, <1>4, <2>1
  <1>5. CASE c[i] = i /\ c[j] = j
    <2>0. c[i] # Null /\ c[j] # Null
      BY <1>2, <1>5
    <2>1. Compare(c, i, j) = IF Dominates(i, j) THEN [c EXCEPT ![j] = Null]
                             ELSE IF Dominates(j, i) THEN [c EXCEPT ![i] = Null] ELSE c
      BY <1>1, <1>5, <2>0 DEF Compare
    <2>2. CASE Dominates(i, j)
      <3>1. Compare(c, i, j) = [c EXCEPT ![j] = Null]
        BY <2>1, <2>2
      <3>2. Compare(c, i, j) \in Sifted
        BY <1>3, <3>1 DEF Sifted
      <3>3. \A x \in Overrider : Compare(c, i, j)[x] = IF x = j THEN Null ELSE c[x]
        BY <1>3, <3>1
      <3> QED BY <1>2, <1>5, <2>2, <3>2, <3>3
    <2>3. CASE ~ Dominates(i, j) /\ Dominates(j, i)
      <3>1. Compare(c, i, j) = [c EXCEPT ![i] = Null]
        BY <2>1, <2>3
      <3>2. Compare(c, i, j) \in Sifted
        BY <1>3, <3>1 DEF Sifted
      <3>3. \A x \in Overrider : Compare(c, i, j)[x] = IF x = i THEN Null ELSE c[x]
        BY <1>3, <3>1
      <3> QED BY <1>2, <1>5, <2>3, <3>2, <3>3
    <2>4. CASE ~ Dominates(i, j) /\ ~ Dominates(j, i)
      <3>1. Compare(c, i, j) = c
        BY <2>1, <2>4
      <3> QED BY <2>4, <3>1
    <2> QED BY <2>2, <2>3, <2>4
  <1> QED BY <1>3, <1>4, <1>5

(* The state of the comparisons once the pairs in P are compared: the      *)
(* candidates that no other one dominates are kept, and of two that have   *)
(* been compared and are left none dominates the other.                    *)
Sifting(c, S, P) ==
  /\ c \in Sifted
  /\ \A x \in Overrider : c[x] = x => x \in S
  /\ \A x \in S : (\A r \in S : ~ Dominates(r, x)) => c[x] = x
  /\ \A x, y \in Overrider : <<x, y>> \in P /\ c[x] = x /\ c[y] = y
                              => ~ Dominates(x, y) /\ ~ Dominates(y, x)
  /\ S # {} => \E x \in Overrider : c[x] = x

LEMMA CompareKeeps ==
  ASSUME IsMethod(method), NEW S \in SUBSET Overrider, NEW P, NEW c, Sifting(c, S, P),
         NEW i \in Overrider, NEW j \in Overrider, i # j
  PROVE  Sifting(Compare(c, i, j), S, P \cup {<<i, j>>})
  <1> DEFINE D == Compare(c, i, j)
  <1>1. c \in Sifted
    BY DEF Sifting
  <1>2. D[i] = i /\ D[j] = j => ~ Dominates(i, j) /\ ~ Dominates(j, i)
    BY <1>1, CompareSifts
  <1>3. (\E x \in Overrider : c[x] = x) => \E x \in Overrider : D[x] = x
    BY <1>1, CompareSifts
  <1>4. /\ D \in Sifted
        /\ \A x \in Overrider : D[x] = x => c[x] = x
        /\ \A x \in Overrider : c[x] = x /\ D[x] # x
                                  => \E r \in Overrider : c[r] = r /\ Dominates(r, x)
    BY <1>1, CompareSifts
  <1> HIDE DEF D
  <1>5. /\ \A x \in Overrider : c[x] = x => x \in S
        /\ \A x \in S : (\A r \in S : ~ Dominates(r, x)) => c[x] = x
        /\ \A x, y \in Overrider : <<x, y>> \in P /\ c[x] = x /\ c[y] = y
                                    => ~ Dominates(x, y) /\ ~ Dominates(y, x)
        /\ S # {} => \E x \in Overrider : c[x] = x
    BY DEF Sifting
  <1>6. \A x \in Overrider : D[x] = x => x \in S
    BY <1>4, <1>5
  <1>7. ASSUME NEW x \in S, \A r \in S : ~ Dominates(r, x) PROVE D[x] = x
    BY <1>4, <1>5, <1>7
  <1>8. ASSUME NEW x \in Overrider, NEW y \in Overrider, <<x, y>> \in P \cup {<<i, j>>},
               D[x] = x, D[y] = y
        PROVE  ~ Dominates(x, y) /\ ~ Dominates(y, x)
    <2>1. CASE <<x, y>> \in P
      BY <1>4, <1>5, <1>8, <2>1
    <2>2. CASE <<x, y>> = <<i, j>>
      <3>1. x = i /\ y = j
        BY <2>2
      <3> QED BY <1>2, <1>8, <3>1
    <2> QED BY <1>8, <2>1, <2>2
  <1>9. S # {} => \E x \in Overrider : D[x] = x
    BY <1>3, <1>5
  <1>10. Sifting(D, S, P \cup {<<i, j>>})
    BY <1>4, <1>6, <1>7, <1>8, <1>9 DEF Sifting
  <1> QED BY <1>10 DEF D

(* The pairs of candidate i and one of the k candidates after it.          *)
Row(i, k) == {p \in Overrider \X Overrider : p[1] = i /\ i < p[2] /\ p[2] <= i + k}

LEMMA InnerLoopSifts ==
  ASSUME IsMethod(method), NEW S \in SUBSET Overrider, NEW P, NEW c, NEW i \in Overrider,
         Sifting(c, S, P)
  PROVE  Sifting(CompareWithNext(c, i), S, P \cup Row(i, Len(method.specs) - i))
  <1> DEFINE N == Len(method.specs)
             n == N - i
             Op(d, k) == Compare(d, i, i + k)
             F == CHOOSE f : f = [k \in 0 .. n |-> IF k = 0 THEN c ELSE Op(f[k - 1], k)]
             step == [k \in 1 .. n |-> [d \in Sifted |-> Op(d, k)]]
  <1>1. Overrider = 1 .. N /\ N \in Nat
    BY OverridersAreNumbers
  <1>2. c \in Sifted
    BY DEF Sifting
  <1>3. Len(c) = N
    BY <1>1, <1>2 DEF Sifted
  <1>4. CompareWithNext(c, i) = F[n]
    BY <1>3 DEF CompareWithNext
  <1>5. n \in Nat /\ \A k \in 1 .. n : i + k \in Overrider /\ i # i + k
    BY <1>1
  <1>6. \A k \in 1 .. n : \A d \in Sifted : Op(d, k) \in Sifted
    BY <1>5, CompareSifts
  <1> HIDE DEF n
  <1>7. step \in [1 .. n -> [Sifted -> Sifted]]
    <2> HIDE DEF Op
    <2> QED BY <1>6
  <1>8. \E f \in [0 .. n -> Sifted] : IsRecursionTo(f, n, c, step)
    <2> HIDE DEF step
    <2> QED BY <1>2, <1>5, <1>7, RecursionTo
  <1>9. PICK f \in [0 .. n -> Sifted] : IsRecursionTo(f, n, c, step)
    BY <1>8
  <1>10. f = [k \in 0 .. n |-> IF k = 0 THEN c ELSE Op(f[k - 1], k)]
    <2>1. ASSUME NEW k \in 0 .. n PROVE f[k] = IF k = 0 THEN c ELSE Op(f[k - 1], k)
      <3>1. CASE k = 0
        BY <1>9, <3>1 DEF IsRecursionTo
      <3>2. CASE k # 0
        <4>1. k \in 1 .. n /\ k - 1 \in 0 .. n
          BY <1>5, <3>2
        <4>2. f[k] = step[k][f[k - 1]] /\ f[k - 1] \in Sifted
          BY <1>9, <4>1 DEF IsRecursionTo
        <4> HIDE DEF Op
        <4> QED BY <3>2, <4>1, <4>2
      <3> QED BY <3>1, <3>2
    <2> HIDE DEF Op
    <2> QED BY <2>1
  <1>11. F = [k \in 0 .. n |-> IF k = 0 THEN c ELSE Op(F[k - 1], k)]
    <2> HIDE DEF Op
    <2> QED BY <1>10
  <1> HIDE DEF F
  <1>12. F[0] = c /\ \A k \in 1 .. n : F[k] = Op(F[k - 1], k)
    <2> HIDE DEF Op
    <2>1. 0 \in 0 .. n /\ \A k \in 1 .. n : k \in 0 .. n /\ k # 0
      BY <1>5
    <2> QED BY <1>11, <2>1
  <1> DEFINE R == {k \in 0 .. n : Sifting(F[k], S, P \cup Row(i, k))}
  <1>13. 0 \in R
    <2>1. i \in Nat /\ \A x \in Overrider : x \in Nat
      BY <1>1
    <2>2. Row(i, 0) = {}
      <3> SUFFICES ASSUME NEW p \in Row(i, 0) PROVE FALSE
        OBVIOUS
      <3>1. p \in Overrider \X Overrider /\ i < p[2] /\ p[2] <= i + 0
        BY DEF Row
      <3>2. p[2] \in Nat
        BY <2>1, <3>1
      <3> QED BY <2>1, <3>1, <3>2
    <2>3. P \cup Row(i, 0) = P
      BY <2>2
    <2>4. Sifting(F[0], S, P \cup Row(i, 0))
      BY <1>12, <2>3
    <2> QED BY <1>5, <2>4
  <1>14. ASSUME NEW k \in 1 .. n, k - 1 \in R PROVE k \in R
    <2> DEFINE Q == P \cup Row(i, k - 1)
    <2>1. i + k \in Overrider /\ i # i + k
      BY <1>5
    <2>2. Sifting(F[k - 1], S, Q)
      BY <1>14
    <2>3. Sifting(Compare(F[k - 1], i, i + k), S, Q \cup {<<i, i + k>>})
      <3> HIDE DEF Q, F
      <3> QED BY <2>1, <2>2, CompareKeeps
    <2>4. Row(i, k - 1) \cup {<<i, i + k>>} = Row(i, k)
      <3>1. k \in Nat /\ i \in Nat /\ k > 0 /\ \A x \in Overrider : x \in Nat
        BY <1>1, <1>5
      <3>2. ASSUME NEW p \in Overrider \X Overrider
            PROVE  p \in Row(i, k - 1) \cup {<<i, i + k>>} <=> p \in Row(i, k)
        <4>1. PICK x \in Overrider, y \in Overrider : p = <<x, y>>
          OBVIOUS
        <4>2. x \in Nat /\ y \in Nat
          BY <3>1
        <4>3. /\ p \in Row(i, k - 1) <=> x = i /\ i < y /\ y <= i + (k - 1)
              /\ p \in Row(i, k) <=> x = i /\ i < y /\ y <= i + k
          BY <4>1 DEF Row
        <4>4. p \in {<<i, i + k>>} <=> x = i /\ y = i + k
          BY <4>1
        <4> QED BY <3>1, <4>2, <4>3, <4>4
      <3>3. /\ Row(i, k - 1) \cup {<<i, i + k>>} \subseteq Overrider \X Overrider
            /\ Row(i, k) \subseteq Overrider \X Overrider
        BY <2>1 DEF Row
      <3> QED BY <3>2, <3>3
    <2>5. F[k] = Compare(F[k - 1], i, i + k)
      BY <1>12
    <2>6. Q \cup {<<i, i + k>>} = P \cup Row(i, k)
      BY <2>4
    <2>7. Sifting(F[k], S, P \cup Row(i, k))
      BY <2>3, <2>5, <2>6
    <2> QED BY <1>5, <2>7
  <1>15. 0 .. n \subseteq R
    <2> HIDE DEF R
    <2> QED BY <1>5, <1>13, <1>14, InductionTo
  <1>16. Sifting(F[n], S, P \cup Row(i, n))
    BY <1>5, <1>15
  <1> QED BY <1>4, <1>16 DEF n

(* The pairs whose first candidate is one of the first i.                  *)
Compared(i) == {p \in Overrider \X Overrider : p[1] < p[2] /\ p[1] <= i}

(* In the end no two candidates are left of which one dominates the other. *)
Undominating(D, S) ==
  /\ D \in Sifted
  /\ \A x \in Overrider : D[x] = x => x \in S
  /\ \A x \in S : (\A r \in S : ~ Dominates(r, x)) => D[x] = x
  /\ \A x, y \in Overrider : x # y /\ D[x] = x /\ D[y] = y => ~ Dominates(x, y)
  /\ S # {} => \E x \in Overrider : D[x] = x

LEMMA SiftedCandidates ==
  ASSUME IsMethod(method), NEW S \in SUBSET Overrider
  PROVE  Undominating(Sift(Candidates(S)), S)
  <1> DEFINE C == Candidates(S)
             N == Len(method.specs)
             F == CHOOSE f : f = [i \in 0 .. N |->
                                    IF i = 0 THEN C ELSE CompareWithNext(f[i - 1], i)]
             step == [i \in 1 .. N |-> [d \in Sifted |-> CompareWithNext(d, i)]]
  <1>1. Overrider = 1 .. N /\ N \in Nat /\ Null \notin Overrider
    BY OverridersAreNumbers
  <1>2. C \in Sifted /\ Len(C) = N /\ \A x \in Overrider : C[x] = IF x \in S THEN x ELSE Null
    <2>1. C \in [Overrider -> Overrider \cup {Null}]
      BY DEF Candidates
    <2>2. Len(C) = N
      BY <1>1 DEF Candidates
    <2> QED BY <2>1, <2>2 DEF Candidates, Sifted
  <1>4. Sift(C) = F[N]
    <2> HIDE DEF C, N
    <2> QED BY <1>2 DEF Sift, N
  <1> HIDE DEF C
  <1>6. ASSUME NEW i \in 1 .. N, NEW d \in Sifted PROVE CompareWithNext(d, i) \in Sifted
    <2> DEFINE U == {x \in Overrider : d[x] = x}
    <2>1. Sifting(d, U, {})
      BY DEF Sifting
    <2>2. U \in SUBSET Overrider /\ i \in Overrider
      BY <1>1
    <2> HIDE DEF U
    <2>3. Sifting(CompareWithNext(d, i), U, {} \cup Row(i, Len(method.specs) - i))
      BY <2>1, <2>2, InnerLoopSifts
    <2> QED BY <2>3 DEF Sifting
  <1> HIDE DEF N
  <1>7. step \in [1 .. N -> [Sifted -> Sifted]]
    BY <1>6
  <1>8. \E f \in [0 .. N -> Sifted] : IsRecursionTo(f, N, C, step)
    <2> HIDE DEF step
    <2> QED BY <1>1, <1>2, <1>7, RecursionTo
  <1>9. PICK f \in [0 .. N -> Sifted] : IsRecursionTo(f, N, C, step)
    BY <1>8
  <1>10. f = [i \in 0 .. N |-> IF i = 0 THEN C ELSE CompareWithNext(f[i - 1], i)]
    <2>1. ASSUME NEW i \in 0 .. N
          PROVE  f[i] = IF i = 0 THEN C ELSE CompareWithNext(f[i - 1], i)
      <3>1. CASE i = 0
        BY <1>9, <3>1 DEF IsRecursionTo
      <3>2. CASE i # 0
        <4>1. i \in 1 .. N /\ i - 1 \in 0 .. N
          BY <1>1, <3>2
        <4>2. f[i] = step[i][f[i - 1]] /\ f[i - 1] \in Sifted
          BY <1>9, <4>1 DEF IsRecursionTo
        <4> QED BY <3>2, <4>1, <4>2
      <3> QED BY <3>1, <3>2
    <2> QED BY <2>1
  <1>11. F = [i \in 0 .. N |-> IF i = 0 THEN C ELSE CompareWithNext(F[i - 1], i)]
    BY <1>10
  <1> HIDE DEF F
  <1>12. F[0] = C /\ \A i \in 1 .. N : F[i] = CompareWithNext(F[i - 1], i)
    <2>1. 0 \in 0 .. N /\ \A i \in 1 .. N : i \in 0 .. N /\ i # 0
      BY <1>1
    <2> QED BY <1>11, <2>1
  <1> DEFINE R == {i \in 0 .. N : Sifting(F[i], S, Compared(i))}
  <1>13. 0 \in R
    <2>1. Compared(0) = {}
      BY <1>1 DEF Compared
    <2>2. Sifting(C, S, {})
      <3>1. \A x \in Overrider : C[x] = x <=> x \in S
        BY <1>1, <1>2
      <3> QED BY <1>2, <3>1 DEF Sifting
    <2>3. Sifting(F[0], S, Compared(0))
      BY <1>12, <2>1, <2>2
    <2> QED BY <1>1, <2>3
  <1>14. ASSUME NEW i \in 1 .. N, i - 1 \in R PROVE i \in R
    <2>1. i \in Overrider
      BY <1>1
    <2>2. Sifting(F[i - 1], S, Compared(i - 1))
      BY <1>14
    <2>3. Sifting(CompareWithNext(F[i - 1], i), S,
                  Compared(i - 1) \cup Row(i, Len(method.specs) - i))
      BY <2>1, <2>2, InnerLoopSifts
    <2>4. Compared(i - 1) \cup Row(i, Len(method.specs) - i) = Compared(i)
      <3>1. \A x \in Overrider : x \in Nat /\ x <= i + (Len(method.specs) - i)
        BY <1>1 DEF N
      <3>2. i \in Nat
        BY <2>1, <3>1
      <3> QED BY <3>1, <3>2 DEF Compared, Row
    <2>5. F[i] = CompareWithNext(F[i - 1], i)
      BY <1>12
    <2>6. Sifting(F[i], S, Compared(i))
      BY <2>3, <2>4, <2>5
    <2> QED BY <1>1, <2>6
  <1>15. 0 .. N \subseteq R
    <2> HIDE DEF R
    <2> QED BY <1>1, <1>13, <1>14, InductionTo
  <1> DEFINE D == F[N]
  <1>16. Sifting(D, S, Compared(N))
    BY <1>1, <1>15
  <1> HIDE DEF D
  <1>17. ASSUME NEW x \in Overrider, NEW y \in Overrider, x < y, D[x] = x, D[y] = y
         PROVE  ~ Dominates(x, y) /\ ~ Dominates(y, x)
    <2>1. <<x, y>> \in Compared(N)
      BY <1>1, <1>17 DEF Compared
    <2> QED BY <1>16, <1>17, <2>1 DEF Sifting
  <1>18. \A x, y \in Overrider : x # y /\ D[x] = x /\ D[y] = y => ~ Dominates(x, y)
    <2>1. \A x, y \in Overrider : x # y => x < y \/ y < x
      BY <1>1
    <2> QED BY <1>17, <2>1
  <1>19. Undominating(D, S)
    BY <1>16, <1>18 DEF Undominating, Sifting
  <1> QED BY <1>4, <1>19 DEF C, D

(* Comparing the return types removes a candidate only for one that is left*)
(* and returns the same class or one that derives from it, unless a third  *)
(* candidate comes after one that has just been removed.  After k rounds,  *)
(* none of the first k that are left returns a class related to that of    *)
(* another one left after it.                                              *)
Three(D) == \E i, j, k \in Overrider : i < j /\ j < k /\ D[i] = i /\ D[j] = j /\ D[k] = k

CrashedAll == [i \in Overrider |-> crash]

Replaced(c, D) ==
  \A x \in Overrider : D[x] = x => \E y \in Overrider : c[y] = y /\ is_base_of(x, y)

Unrelated(c, k) ==
  \A x, y \in Overrider : x <= k /\ x < y /\ c[x] = x /\ c[y] = y
                            => ~ is_base_of(x, y) /\ ~ is_base_of(y, x)

ReturnsKept(c, D, k) ==
  \/ /\ c \in Sifted /\ \A x \in Overrider : c[x] = x => D[x] = x
     /\ Replaced(c, D) /\ Unrelated(c, k)
  \/ c = CrashedAll /\ Three(D)

LEMMA CompareReturnsKeeps ==
  ASSUME IsMethod(method), method.returns # << >>, NEW D, NEW c, NEW k \in Nat,
         ReturnsKept(c, D, k), NEW i \in Overrider
  PROVE  /\ ReturnsKept(CompareReturns(c, i), D, k)
         /\ k = i - 1 => ReturnsKept(CompareReturns(c, i), D, i)
  <1>1. /\ Overrider = 1 .. Len(method.specs) /\ Len(method.specs) \in Nat
        /\ Null \notin Overrider /\ crash \notin Overrider
    BY OverridersAreNumbers
  <1>2. CASE c = CrashedAll /\ Three(D)
    <2>1. c[i] = crash
      BY <1>2 DEF CrashedAll
    <2>2. CompareReturns(c, i) = c
      BY <2>1 DEF CompareReturns
    <2> QED BY <1>2, <2>2 DEF ReturnsKept
  <1>3. CASE /\ c \in Sifted /\ \A x \in Overrider : c[x] = x => D[x] = x
             /\ Replaced(c, D) /\ Unrelated(c, k)
    <2>1. /\ DOMAIN c = Overrider /\ c \in [Overrider -> Overrider \cup {Null}]
          /\ \A x \in Overrider : c[x] \in {x, Null}
      BY <1>3 DEF Sifted
    <2>5. /\ \A x \in Overrider : is_base_of(x, x)
          /\ \A x, y, z \in Overrider : is_base_of(x, y) /\ is_base_of(y, z) => is_base_of(x, z)
      <3>1. /\ \A x \in Overrider : /\ method.returns[x] \in Class
                                     /\ method.returns[x] \in Covariant(method.returns[x])
            /\ \A a, b, e \in Class : a \in Covariant(b) /\ b \in Covariant(e) => a \in Covariant(e)
        BY ClassesAreOrdered
      <3> QED BY <3>1 DEF is_base_of
    <2> DEFINE others == {j \in DOMAIN c : j > i /\ c[j] # Null}
               covariant == {j \in others : is_base_of(c[i], c[j])}
               compared == {j \in others : \A l \in covariant : j < l}
               left == [j \in DOMAIN c |->
                          IF \/ j = i /\ covariant # {}
                             \/ j \in compared /\ is_base_of(c[j], c[i])
                          THEN Null ELSE c[j]]
    <2>2. CASE c[i] \in {Null, crash}
      <3>1. CompareReturns(c, i) = c
        BY <2>2 DEF CompareReturns
      <3>2. k = i - 1 => Unrelated(c, i)
        <4>1. c[i] # i
          BY <1>1, <2>2
        <4>2. k = i - 1 => \A x \in Overrider : x <= i /\ c[x] = x => x <= k
          BY <1>1, <4>1
        <4> QED BY <1>3, <4>2 DEF Unrelated
      <3> QED BY <1>3, <3>1, <3>2 DEF ReturnsKept
    <2>3. CASE c[i] \notin {Null, crash} /\ \E l \in covariant, j \in others : l < j
      <3>1. CompareReturns(c, i) = CrashedAll
        BY <2>1, <2>3 DEF CompareReturns, CrashedAll
      <3>2. PICK l \in covariant : \E j \in others : l < j
        BY <2>3
      <3>3. PICK j \in others : l < j
        BY <3>2
      <3>4. l \in Overrider /\ j \in Overrider /\ i < l /\ c[l] # Null /\ c[j] # Null
        BY <1>1, <2>1
      <3>5. D[i] = i /\ D[l] = l /\ D[j] = j
        BY <1>3, <2>1, <2>3, <3>4
      <3>6. Three(D)
        BY <3>3, <3>4, <3>5 DEF Three
      <3> QED BY <3>1, <3>6 DEF ReturnsKept
    <2>4. CASE c[i] \notin {Null, crash} /\ ~ \E l \in covariant, j \in others : l < j
      <3>1. CompareReturns(c, i) = left
        BY <2>4 DEF CompareReturns
      <3>2. left \in Sifted /\ \A x \in Overrider : left[x] = x => c[x] = x
        <4>1. \A x \in Overrider : left[x] \in {c[x], Null}
          <5> HIDE DEF covariant, compared
          <5> QED BY <2>1
        <4>2. DOMAIN left = Overrider /\ left = [x \in Overrider |-> left[x]]
          BY <2>1
        <4> HIDE DEF left
        <4>3. \A x \in Overrider : left[x] \in {x, Null}
          BY <2>1, <4>1
        <4>4. left \in [Overrider -> Overrider \cup {Null}]
          BY <4>2, <4>3
        <4>5. \A x \in Overrider : left[x] = x => c[x] = x
          BY <1>1, <4>1
        <4> QED BY <4>3, <4>4, <4>5 DEF Sifted
      <3>3. c[i] = i /\ \A x \in Overrider : c[x] = x <=> c[x] # Null
        BY <1>1, <2>1, <2>4
      <3>4. /\ others = {j \in Overrider : j > i /\ c[j] = j}
            /\ covariant = {j \in others : is_base_of(i, j)}
        BY <2>1, <3>3
      <3>5. \A x \in Overrider : left[x] = x <=> /\ c[x] = x
                                                /\ ~ (x = i /\ covariant # {})
                                                /\ ~ (x \in compared /\ is_base_of(x, i))
        <4>1. \A x \in Overrider : left[x] = IF \/ x = i /\ covariant # {}
                                                \/ x \in compared /\ is_base_of(c[x], c[i])
                                             THEN Null ELSE c[x]
          <5> HIDE DEF covariant, compared
          <5> QED BY <2>1
        <4> HIDE DEF covariant, compared, left
        <4> QED BY <1>1, <2>1, <3>3, <4>1
      <3>6. \A l \in covariant : l \in Overrider /\ left[l] = l /\ is_base_of(i, l)
        <4> SUFFICES ASSUME NEW l \in covariant
                     PROVE  l \in Overrider /\ left[l] = l /\ is_base_of(i, l)
          OBVIOUS
        <4>1. l \in Overrider /\ c[l] = l /\ l > i /\ is_base_of(i, l)
          BY <3>4
        <4>2. l \notin compared /\ l # i
          BY <1>1, <4>1
        <4> HIDE DEF left, compared
        <4> QED BY <3>5, <4>1, <4>2
      <3>7. \A x \in Overrider : c[x] = x => \E y \in Overrider : left[y] = y /\ is_base_of(x, y)
        <4> SUFFICES ASSUME NEW x \in Overrider, c[x] = x
                     PROVE  \E y \in Overrider : left[y] = y /\ is_base_of(x, y)
          OBVIOUS
        <4> HIDE DEF left, compared, covariant
        <4>1. ASSUME is_base_of(x, i) PROVE \E y \in Overrider : left[y] = y /\ is_base_of(x, y)
          <5>1. CASE covariant # {}
            BY <2>5, <3>6, <4>1, <5>1
          <5>2. CASE covariant = {}
            <6>1. i \notin compared
              BY <1>1 DEF compared
            <6> QED BY <3>3, <3>5, <4>1, <5>2, <6>1
          <5> QED BY <5>1, <5>2
        <4>2. CASE x = i
          BY <2>5, <4>1, <4>2
        <4>3. CASE x # i /\ ~ is_base_of(x, i)
          BY <2>5, <3>5, <4>3
        <4> QED BY <4>1, <4>2, <4>3
      <3>8. Replaced(left, D)
        <4> HIDE DEF left, compared, covariant
        <4> QED BY <1>3, <2>5, <3>7 DEF Replaced
      <3>9. Unrelated(left, k)
        <4> HIDE DEF left
        <4> QED BY <1>3, <3>2 DEF Unrelated
      <3>10. ASSUME k = i - 1 PROVE Unrelated(left, i)
        <4> SUFFICES ASSUME NEW x \in Overrider, NEW y \in Overrider,
                            x <= i, x < y, left[x] = x, left[y] = y
                     PROVE  ~ is_base_of(x, y) /\ ~ is_base_of(y, x)
          BY DEF Unrelated
        <4>1. CASE x # i
          <5>1. x <= k
            BY <1>1, <3>10, <4>1
          <5> HIDE DEF left
          <5> QED BY <3>9, <5>1 DEF Unrelated
        <4>2. CASE x = i
          <5>1. covariant = {} /\ c[y] = y
            <6> HIDE DEF left, compared, covariant
            <6> QED BY <3>5, <4>2
          <5>2. y \in others /\ y \in compared
            BY <1>1, <3>4, <4>2, <5>1
          <5>3. ~ is_base_of(x, y)
            BY <3>4, <4>2, <5>1, <5>2
          <5>4. ~ is_base_of(y, x)
            <6> HIDE DEF left, compared, covariant
            <6> QED BY <3>5, <4>2, <5>2
          <5> QED BY <5>3, <5>4
        <4> QED BY <4>1, <4>2
      <3> HIDE DEF left
      <3> QED BY <1>3, <3>1, <3>2, <3>8, <3>9, <3>10 DEF ReturnsKept
    <2> QED BY <2>2, <2>3, <2>4
  <1> QED BY <1>2, <1>3 DEF ReturnsKept

LEMMA AllReturnsKept ==
  ASSUME IsMethod(method), method.returns # << >>, NEW D \in Sifted
  PROVE  ReturnsKept(SiftReturns(D), D, Len(method.specs))
  <1> DEFINE N == Len(method.specs)
             T == {c \in [Overrider -> Overrider \cup {Null, crash}] : ReturnsKept(c, D, 0)}
             F == CHOOSE f : f = [i \in 0 .. N |->
                                    IF i = 0 THEN D ELSE CompareReturns(f[i - 1], i)]
             step == [i \in 1 .. N |-> [c \in T |-> CompareReturns(c, i)]]
  <1>1. N \in Nat /\ Overrider = 1 .. N
    BY OverridersAreNumbers
  <1>0. Len(D) = N
    BY <1>1 DEF Sifted
  <1>2. SiftReturns(D) = F[N]
    <2> HIDE DEF N
    <2> QED BY <1>0 DEF SiftReturns
  <1>12. ReturnsKept(D, D, 0)
    <2>1. \A x \in Overrider : is_base_of(x, x)
      BY ClassesAreOrdered DEF is_base_of
    <2>2. Replaced(D, D)
      BY <2>1 DEF Replaced
    <2>3. Unrelated(D, 0)
      BY <1>1 DEF Unrelated
    <2> QED BY <2>2, <2>3 DEF ReturnsKept
  <1>3. D \in T
    BY <1>12 DEF Sifted
  <1>4. \A i \in 1 .. N : \A c \in T : CompareReturns(c, i) \in T
    <2> SUFFICES ASSUME NEW i \in 1 .. N, NEW c \in T PROVE CompareReturns(c, i) \in T
      OBVIOUS
    <2>1. ReturnsKept(CompareReturns(c, i), D, 0)
      BY <1>1, CompareReturnsKeeps
    <2>2. \A d : ReturnsKept(d, D, 0) => d \in [Overrider -> Overrider \cup {Null, crash}]
      BY DEF ReturnsKept, Sifted, CrashedAll
    <2> QED BY <2>1, <2>2
  <1> HIDE DEF N, T
  <1>5. step \in [1 .. N -> [T -> T]]
    BY <1>4
  <1>6. \E f \in [0 .. N -> T] : IsRecursionTo(f, N, D, step)
    <2> HIDE DEF step
    <2> QED BY <1>1, <1>3, <1>5, RecursionTo
  <1>7. PICK f \in [0 .. N -> T] : IsRecursionTo(f, N, D, step)
    BY <1>6
  <1>8. f = [i \in 0 .. N |-> IF i = 0 THEN D ELSE CompareReturns(f[i - 1], i)]
    <2>1. ASSUME NEW i \in 0 .. N
          PROVE  f[i] = IF i = 0 THEN D ELSE CompareReturns(f[i - 1], i)
      <3>1. CASE i = 0
        BY <1>7, <3>1 DEF IsRecursionTo
      <3>2. CASE i # 0
        <4>1. i \in 1 .. N /\ i - 1 \in 0 .. N
          BY <1>1, <3>2
        <4>2. f[i] = step[i][f[i - 1]] /\ f[i - 1] \in T
          BY <1>7, <4>1 DEF IsRecursionTo
        <4> QED BY <3>2, <4>1, <4>2
      <3> QED BY <3>1, <3>2
    <2> QED BY <2>1
  <1>9. F = [i \in 0 .. N |-> IF i = 0 THEN D ELSE CompareReturns(F[i - 1], i)]
    BY <1>8
  <1> HIDE DEF F
  <1>10. F[0] = D /\ \A i \in 1 .. N : F[i] = CompareReturns(F[i - 1], i)
    <2>1. 0 \in 0 .. N /\ \A i \in 1 .. N : i \in 0 .. N /\ i # 0
      BY <1>1
    <2> QED BY <1>9, <2>1
  <1>11. ReturnsKept(F[N], D, N)
    <2> DEFINE R == {i \in 0 .. N : ReturnsKept(F[i], D, i)}
    <2>1. 0 \in R
      BY <1>1, <1>10, <1>12
    <2>2. ASSUME NEW i \in 1 .. N, i - 1 \in R PROVE i \in R
      <3>1. i \in Overrider /\ i - 1 \in Nat
        BY <1>1
      <3>2. ReturnsKept(F[i - 1], D, i - 1) /\ F[i] = CompareReturns(F[i - 1], i)
        BY <1>10, <2>2
      <3>3. ReturnsKept(F[i], D, i)
        BY <3>1, <3>2, CompareReturnsKeeps
      <3> QED BY <3>3
    <2>3. 0 .. N \subseteq R
      <3> HIDE DEF R
      <3> QED BY <1>1, <2>1, <2>2, InductionTo
    <2> QED BY <1>1, <2>3
  <1> QED BY <1>2, <1>11 DEF N

(* What is left in the end: the candidates not removed by the comparison of*)
(* the overriders or, if the return types are compared too, some of those. *)
LEMMA DominantsKept ==
  ASSUME IsMethod(method), NEW S \in SUBSET Overrider
  PROVE  LET D == Sift(Candidates(S))
         IN IF method.n2216 /\ method.returns # << >> /\ Cardinality(Remaining(D)) > 1
            THEN ReturnsKept(Dominants(S), D, Len(method.specs))
            ELSE Dominants(S) = D
  <1> DEFINE C == Candidates(S)
             D == Sift(C)
  <1>1. Undominating(D, S)
    BY SiftedCandidates
  <1>2. D \in Sifted
    BY <1>1 DEF Undominating
  <1>4. Dominants(S) =
          IF method.n2216 /\ method.returns # << >> /\ Cardinality(Remaining(D)) > 1
          THEN SiftReturns(D) ELSE D
    BY DEF Dominants, select_dominant_overriders
  <1>5. method.returns # << >> => ReturnsKept(SiftReturns(D), D, Len(method.specs))
    <2> HIDE DEF C, D
    <2> QED BY <1>2, AllReturnsKept
  <1> HIDE DEF D
  <1>7. IF method.n2216 /\ method.returns # << >> /\ Cardinality(Remaining(D)) > 1
        THEN ReturnsKept(Dominants(S), D, Len(method.specs))
        ELSE Dominants(S) = D
    BY <1>4, <1>5
  <1> QED BY <1>7 DEF C, D

LEMMA RemainingSifted ==
  ASSUME IsMethod(method), NEW c \in Sifted
  PROVE  /\ Remaining(c) = {x \in Overrider : c[x] = x}
         /\ IsFiniteSet(Remaining(c))
         /\ Remaining(c) # {} => Picked(c) \in Remaining(c)
  <1>1. /\ Overrider \subseteq Nat /\ Overrider = 1 .. Len(method.specs)
        /\ Len(method.specs) \in Nat /\ IsFiniteSet(Overrider) /\ Null \notin Overrider
    BY OverridersAreNumbers
  <1>2. DOMAIN c = Overrider /\ \A x \in Overrider : c[x] \in {x, Null}
    BY DEF Sifted
  <1>3. Remaining(c) = {x \in Overrider : c[x] = x}
    BY <1>1, <1>2 DEF Remaining, Range
  <1>4. IsFiniteSet(Remaining(c))
    BY <1>1, <1>3, FS_Subset
  <1>5. ASSUME Remaining(c) # {} PROVE Picked(c) \in Remaining(c)
    <2> DEFINE P == {x \in DOMAIN c : c[x] # Null}
    <2>1. P = Remaining(c)
      BY <1>1, <1>2, <1>3
    <2>2. P \in SUBSET Nat /\ P # {} /\ \A m \in P : m <= Len(method.specs)
      BY <1>1, <1>2, <1>5, <2>1
    <2>3. Max(P) \in P
      <3> HIDE DEF P
      <3> QED BY <1>1, <2>2, GreatestOfNat
    <2>4. Picked(c) = c[Max(P)]
      BY DEF Picked
    <2> HIDE DEF P
    <2> QED BY <1>3, <2>1, <2>3, <2>4
  <1> QED BY <1>3, <1>4, <1>5

(* What is selected.                                                       *)
LEMMA SelectedIs ==
  ASSUME IsMethod(method), NEW S \in SUBSET Overrider
  PROVE  LET D == Sift(Candidates(S))
             selected == Selected(Dominants(S))
         IN /\ selected \in S \cup {not_implemented, ambiguous, crash}
            /\ selected = crash => method.n2216 /\ method.returns # << >> /\ Three(D)
            /\ \A s : Remaining(D) = {s} => selected = s
            /\ ~ method.n2216 =>
                 /\ Dominants(S) = D
                 /\ selected = not_implemented <=> Remaining(D) = {}
                 /\ selected = ambiguous <=> Cardinality(Remaining(D)) > 1
  <1> DEFINE D == Sift(Candidates(S))
             E == Dominants(S)
             selected == Selected(E)
  <1>1. Undominating(D, S)
    BY SiftedCandidates
  <1>2. D \in Sifted /\ \A x \in Overrider : D[x] = x => x \in S
    BY <1>1 DEF Undominating
  <1>3. IF method.n2216 /\ method.returns # << >> /\ Cardinality(Remaining(D)) > 1
        THEN ReturnsKept(E, D, Len(method.specs)) ELSE E = D
    BY DominantsKept
  <1>4. /\ Overrider \subseteq Nat /\ Overrider = 1 .. Len(method.specs)
        /\ Len(method.specs) \in Nat /\ crash \notin Overrider /\ Null \notin Overrider
        /\ not_implemented \notin Overrider /\ ambiguous \notin Overrider
    BY OverridersAreNumbers
  <1>5. /\ Remaining(D) = {x \in Overrider : D[x] = x}
        /\ IsFiniteSet(Remaining(D))
        /\ Remaining(D) # {} => Picked(D) \in Remaining(D)
    BY <1>2, RemainingSifted
  <1> HIDE DEF D, E
  <1>6. selected = IF Remaining(E) = {} THEN not_implemented
                   ELSE IF Cardinality(Remaining(E)) > 1 /\ ~ method.n2216 THEN ambiguous
                   ELSE Picked(E)
    BY DEF Selected
  <1>7. Cardinality(Remaining(D)) \in Nat /\ (Remaining(D) = {} <=> Cardinality(Remaining(D)) = 0)
    BY <1>5, FS_CardinalityType, FS_EmptySet
  <1>8. CASE E \in Sifted /\ \A x \in Overrider : E[x] = x => D[x] = x
    <2>1. /\ Remaining(E) = {x \in Overrider : E[x] = x}
          /\ Remaining(E) # {} => Picked(E) \in Remaining(E)
      BY <1>8, RemainingSifted
    <2>2. selected \in S \cup {not_implemented, ambiguous}
      BY <1>2, <1>6, <1>8, <2>1
    <2>3. selected # crash
      BY <1>4, <2>2, PointersAssumption
    <2>4. ASSUME NEW x, Remaining(D) = {x} PROVE selected = x
      <3>1. Cardinality(Remaining(D)) = 1
        BY <2>4, FS_Singleton
      <3>2. E = D
        BY <1>3, <3>1
      <3>3. ~ (Cardinality(Remaining(D)) > 1)
        BY <3>1
      <3> QED BY <1>5, <1>6, <2>4, <3>2, <3>3
    <2>5. ASSUME ~ method.n2216
          PROVE  /\ E = D
                 /\ selected = not_implemented <=> Remaining(D) = {}
                 /\ selected = ambiguous <=> Cardinality(Remaining(D)) > 1
      <3>1. E = D
        BY <1>3, <2>5
      <3>2. Remaining(D) = {} => ~ (Cardinality(Remaining(D)) > 1)
        BY <1>7
      <3>3. Remaining(D) # {} => Picked(D) \in Overrider
        BY <1>5
      <3> QED BY <1>4, <1>6, <2>5, <3>1, <3>2, <3>3, PointersAssumption
    <2> QED BY <2>2, <2>3, <2>4, <2>5 DEF D, E
  <1>9. CASE E = CrashedAll /\ Three(D)
    <2>1. PICK i \in Overrider : \E j, k \in Overrider : i < j /\ j < k /\ D[i] = i /\ D[j] = j /\ D[k] = k
      BY <1>9 DEF Three
    <2>2. PICK j \in Overrider : i < j /\ D[i] = i /\ D[j] = j
      BY <2>1
    <2>3. i # j /\ i \in Remaining(D) /\ j \in Remaining(D)
      BY <1>4, <1>5, <2>2
    <2>4. \A s : Remaining(D) # {s}
      BY <2>3
    <2>5. E # D
      <3>1. E[i] = crash
        BY <1>9 DEF CrashedAll
      <3> QED BY <1>4, <2>2, <3>1
    <2>6. method.n2216 /\ method.returns # << >>
      BY <1>3, <2>5
    <2>7. Remaining(E) = {crash} /\ {x \in DOMAIN E : E[x] # Null} = Overrider
      BY <1>9, <2>1, PointersAssumption DEF Remaining, Range, CrashedAll
    <2>8. Picked(E) = crash
      <3>1. Overrider \in SUBSET Nat /\ Overrider # {} /\ \A m \in Overrider : m <= Len(method.specs)
        BY <1>4, <2>1
      <3>2. Max(Overrider) \in Overrider
        BY <1>4, <3>1, GreatestOfNat
      <3> QED BY <1>9, <2>7, <3>2 DEF Picked, CrashedAll
    <2>9. selected = crash
      BY <1>6, <2>6, <2>7, <2>8
    <2> HIDE DEF selected
    <2>10. \A s : Remaining(D) = {s} => selected = s
      BY <2>4
    <2> QED BY <1>9, <2>6, <2>9, <2>10 DEF D, E, selected
  <1>10. \/ E \in Sifted /\ \A x \in Overrider : E[x] = x => D[x] = x
         \/ E = CrashedAll /\ Three(D)
    BY <1>2, <1>3 DEF ReturnsKept
  <1> QED BY <1>8, <1>9, <1>10

(* With n2216, one of the candidates left is always picked, and none of    *)
(* those left by the comparison of the overriders returns a class that     *)
(* derives from the one that it returns.                                   *)
LEMMA SelectedReturns ==
  ASSUME IsMethod(method), method.n2216, NEW S \in SUBSET Overrider,
         Selected(Dominants(S)) # crash
  PROVE  LET D == Sift(Candidates(S))
             selected == Selected(Dominants(S))
         IN IF S = {} THEN selected = not_implemented
            ELSE /\ selected \in Remaining(D) /\ selected \in S
                 /\ method.returns # << >> =>
                      \A r \in Remaining(D) :
                        ~ Derives(method.returns[r], method.returns[selected])
  <1> DEFINE D == Sift(Candidates(S))
             E == Dominants(S)
             N == Len(method.specs)
             selected == Selected(E)
  <1>1. Undominating(D, S)
    BY SiftedCandidates
  <1>2. /\ D \in Sifted /\ \A x \in Overrider : D[x] = x => x \in S
        /\ S # {} => \E x \in Overrider : D[x] = x
    BY <1>1 DEF Undominating
  <1>3. IF method.n2216 /\ method.returns # << >> /\ Cardinality(Remaining(D)) > 1
        THEN ReturnsKept(E, D, N) ELSE E = D
    BY DominantsKept
  <1>4. Overrider = 1 .. N /\ N \in Nat /\ crash \notin Overrider
    BY OverridersAreNumbers
  <1>5. Remaining(D) = {x \in Overrider : D[x] = x} /\ IsFiniteSet(Remaining(D))
    BY <1>2, RemainingSifted
  <1>6. selected = IF Remaining(E) = {} THEN not_implemented ELSE Picked(E)
    BY DEF Selected
  <1>7. selected # crash
    OBVIOUS
  <1> HIDE DEF D, E, selected
  <1>8. ASSUME Overrider # {} PROVE E # CrashedAll
    <2> SUFFICES ASSUME E = CrashedAll PROVE FALSE
      OBVIOUS
    <2>1. Remaining(E) = {crash} /\ {x \in DOMAIN E : E[x] # Null} = Overrider
      BY <1>8, PointersAssumption DEF Remaining, Range, CrashedAll
    <2>2. Max(Overrider) \in Overrider
      <3>1. Overrider \in SUBSET Nat /\ \A m \in Overrider : m <= N
        BY <1>4
      <3> QED BY <1>4, <1>8, <3>1, GreatestOfNat
    <2>3. Picked(E) = E[Max(Overrider)]
      BY <2>1 DEF Picked
    <2>4. E[Max(Overrider)] = crash
      BY <2>2 DEF CrashedAll
    <2> QED BY <1>6, <1>7, <2>1, <2>3, <2>4
  <1>9. CASE ~ (method.returns # << >> /\ Cardinality(Remaining(D)) > 1)
    <2>0. E = D
      BY <1>3, <1>9
    <2>1. Remaining(D) # {} => Picked(D) \in Remaining(D)
      BY <1>2, RemainingSifted
    <2>2. CASE S = {}
      <3>1. selected = not_implemented
        BY <1>2, <1>5, <1>6, <2>0, <2>2
      <3> QED BY <2>2, <3>1 DEF E, selected
    <2>3. CASE S # {}
      <3>1. selected \in Remaining(D) /\ selected \in S
        BY <1>2, <1>5, <1>6, <2>0, <2>1, <2>3
      <3>2. ASSUME method.returns # << >>, NEW r \in Remaining(D) PROVE r = selected
        <4>1. ~ (Cardinality(Remaining(D)) > 1) /\ Cardinality(Remaining(D)) \in Nat
          BY <1>5, <1>9, <3>2, FS_CardinalityType
        <4>2. Cardinality(Remaining(D)) = 1
          BY <1>5, <3>1, <4>1, FS_EmptySet
        <4>3. PICK x : Remaining(D) = {x}
          BY <1>5, <4>2, FS_Singleton
        <4> QED BY <3>1, <4>3
      <3>3. method.returns # << >> =>
              \A r \in Remaining(D) : ~ Derives(method.returns[r], method.returns[selected])
        BY <3>2 DEF Derives
      <3> QED BY <2>3, <3>1, <3>3 DEF D, E, selected
    <2> QED BY <2>2, <2>3
  <1>10. CASE method.returns # << >> /\ Cardinality(Remaining(D)) > 1
    <2>1. ReturnsKept(E, D, N)
      BY <1>3, <1>10
    <2>2. Remaining(D) # {}
      BY <1>5, <1>10, FS_EmptySet
    <2>3. Overrider # {} /\ S # {}
      BY <1>2, <1>5, <2>2
    <2>4. /\ E \in Sifted /\ \A x \in Overrider : E[x] = x => D[x] = x
          /\ Replaced(E, D) /\ Unrelated(E, N)
      BY <1>8, <2>1, <2>3 DEF ReturnsKept
    <2>5. Remaining(E) = {x \in Overrider : E[x] = x} /\ (Remaining(E) # {} => Picked(E) \in Remaining(E))
      BY <2>4, RemainingSifted
    <2>6. Remaining(E) # {}
      BY <1>5, <2>2, <2>4, <2>5 DEF Replaced
    <2>7. selected \in Overrider /\ E[selected] = selected
      BY <1>6, <2>5, <2>6
    <2>8. selected \in Remaining(D) /\ selected \in S
      BY <1>2, <1>5, <2>4, <2>7
    <2>9. ASSUME NEW r \in Remaining(D), Derives(method.returns[r], method.returns[selected])
          PROVE  FALSE
      <3>1. r \in Overrider /\ D[r] = r
        BY <1>5
      <3>2. PICK y \in Overrider : E[y] = y /\ is_base_of(r, y)
        BY <2>4, <3>1 DEF Replaced
      <3>3. /\ method.returns[r] \in Class /\ method.returns[y] \in Class
            /\ method.returns[selected] \in Class
        BY <1>10, <2>7, <3>1, ClassesAreOrdered
      <3>4. /\ method.returns[y] \in Covariant(method.returns[r])
            /\ method.returns[r] \in Covariant(method.returns[selected])
            /\ method.returns[r] # method.returns[selected]
        BY <2>9, <3>2 DEF is_base_of, Derives
      <3>5. method.returns[y] \in Covariant(method.returns[selected])
        BY <3>3, <3>4, ClassesAreOrdered
      <3>6. CASE y = selected
        BY <3>3, <3>4, <3>6, ClassesAreOrdered
      <3>7. CASE y # selected
        <4>1. is_base_of(selected, y) /\ (selected < y \/ y < selected) /\ y <= N /\ selected <= N
          BY <1>4, <2>7, <3>5, <3>7 DEF is_base_of
        <4> QED BY <2>4, <2>7, <3>2, <4>1 DEF Unrelated
      <3> QED BY <3>6, <3>7
    <2> QED BY <2>3, <2>8, <2>9 DEF D, E, selected
  <1> QED BY <1>9, <1>10

-----------------------------------------------------------------------------
(* Groups.                                                                 *)

(* Masks are totally ordered.                                              *)
LEMMA MaskDiff ==
  ASSUME IsMethod(method), NEW a \in SUBSET Overrider, NEW b \in SUBSET Overrider, a # b
  PROVE  LET m == Max((a \ b) \cup (b \ a))
         IN /\ m \in Nat /\ (m \in a <=> m \notin b)
            /\ \A x \in Overrider : x > m => (x \in a <=> x \in b)
  <1> DEFINE U == (a \ b) \cup (b \ a)
  <1>1. Overrider = 1 .. Len(method.specs) /\ Len(method.specs) \in Nat
    BY OverridersAreNumbers
  <1>2. U \in SUBSET Nat /\ U # {} /\ \A x \in U : x <= Len(method.specs)
    <2>1. U \subseteq Overrider /\ U # {}
      OBVIOUS
    <2> HIDE DEF U
    <2> QED BY <1>1, <2>1
  <1>3. Max(U) \in U /\ \A x \in U : x <= Max(U)
    <2> HIDE DEF U
    <2> QED BY <1>1, <1>2, GreatestOfNat
  <1>4. Max(U) \in Nat /\ (Max(U) \in a <=> Max(U) \notin b)
    BY <1>2, <1>3
  <1>5. ASSUME NEW x \in Overrider, x > Max(U) PROVE x \in a <=> x \in b
    <2>1. x \notin U
      <3> HIDE DEF U
      <3> QED BY <1>1, <1>3, <1>4, <1>5
    <2> QED BY <2>1
  <1> QED BY <1>4, <1>5

LEMMA MaskOrder ==
  ASSUME IsMethod(method)
  PROVE  /\ \A a \in SUBSET Overrider : ~ MaskLess(a, a)
         /\ \A a, b \in SUBSET Overrider : a # b => MaskLess(a, b) \/ MaskLess(b, a)
         /\ \A a, b, c \in SUBSET Overrider :
              MaskLess(a, b) /\ MaskLess(b, c) => MaskLess(a, c)
  <1>1. \A a \in SUBSET Overrider : ~ MaskLess(a, a)
    BY DEF MaskLess
  <1>2. ASSUME NEW a \in SUBSET Overrider, NEW b \in SUBSET Overrider, a # b
        PROVE  MaskLess(a, b) \/ MaskLess(b, a)
    <2>1. (a \ b) \cup (b \ a) = (b \ a) \cup (a \ b)
      OBVIOUS
    <2>2. Max((a \ b) \cup (b \ a)) \in a \/ Max((a \ b) \cup (b \ a)) \in b
      BY <1>2, MaskDiff
    <2> QED BY <1>2, <2>1, <2>2 DEF MaskLess
  <1>3. ASSUME NEW a \in SUBSET Overrider, NEW b \in SUBSET Overrider,
               NEW c \in SUBSET Overrider, MaskLess(a, b), MaskLess(b, c)
        PROVE  MaskLess(a, c)
    <2> DEFINE p == Max((a \ b) \cup (b \ a))
               q == Max((b \ c) \cup (c \ b))
               r == Max((a \ c) \cup (c \ a))
    <2>1. p \in Nat /\ p \in b /\ p \notin a /\ \A x \in Overrider : x > p => (x \in a <=> x \in b)
      BY <1>3, MaskDiff DEF MaskLess
    <2>2. q \in Nat /\ q \in c /\ q \notin b /\ \A x \in Overrider : x > q => (x \in b <=> x \in c)
      BY <1>3, MaskDiff DEF MaskLess
    <2> HIDE DEF p, q
    <2>3. Overrider \subseteq Nat
      BY OverridersAreNumbers
    <2>4. PICK m \in c \ a : \A x \in Overrider : x > m => (x \in a <=> x \in c)
      <3>1. CASE p > q
        BY <2>1, <2>2, <2>3, <3>1
      <3>2. CASE q > p
        BY <2>1, <2>2, <2>3, <3>2
      <3> QED BY <2>1, <2>2, <3>1, <3>2
    <2>5. a # c
      BY <2>4
    <2>6. r \in Nat /\ (r \in a <=> r \notin c) /\ \A x \in Overrider : x > r => (x \in a <=> x \in c)
      BY <2>5, MaskDiff
    <2> HIDE DEF r
    <2>7. m \in Nat /\ m \in Overrider /\ r \in Overrider
      BY <2>3, <2>6
    <2>8. r = m
      BY <2>4, <2>6, <2>7
    <2> QED BY <2>4, <2>5, <2>8 DEF MaskLess, r
  <1> QED BY <1>1, <1>2, <1>3

(* The places of the masks are all different, and are all the numbers from *)
(* zero up to that of the masks.                                           *)
LEMMA GroupIndexes ==
  ASSUME IsMethod(method), NEW d \in 1 .. arity
  PROVE  LET n == Cardinality(Masks(d))
         IN /\ n \in Nat \ {0} /\ Masks(d) \subseteq SUBSET Overrider
            /\ \A m \in Masks(d) : GroupIndex(d, m) \in 0 .. n - 1
            /\ \A l, m \in Masks(d) : GroupIndex(d, l) = GroupIndex(d, m) => l = m
            /\ \A k \in 0 .. n - 1 : \E m \in Masks(d) : GroupIndex(d, m) = k
  <1> DEFINE M == Masks(d)
             n == Cardinality(M)
             Before(m) == {l \in M : MaskLess(l, m)}
             Index(m) == GroupIndex(d, m)
  <1>1. M \subseteq SUBSET Overrider
    BY DEF Masks, Mask
  <1>2. IsFiniteSet(SUBSET Overrider)
    BY OverridersAreNumbers, FS_SUBSET
  <1>3. IsFiniteSet(M)
    BY <1>1, <1>2, FS_Subset
  <1>4. M # {}
    <2>1. method.vp[d] \in Class /\ method.vp[d] \in GroupedClasses(d)
      BY OverridersAreNumbers DEF IsMethod, arity, GroupedClasses, Covariant
    <2> QED BY <2>1 DEF Masks
  <1>5. n \in Nat \ {0}
    BY <1>3, <1>4, FS_CardinalityType, FS_EmptySet
  <1>6. \A m \in M : Index(m) = Cardinality(Before(m))
    BY DEF GroupIndex
  <1> HIDE DEF M, Index
  <1>7. ASSUME NEW m \in M PROVE IsFiniteSet(Before(m)) /\ Index(m) \in 0 .. n - 1
    <2>1. Before(m) \subseteq M \ {m}
      BY <1>1, MaskOrder
    <2>2. IsFiniteSet(M \ {m}) /\ Cardinality(M \ {m}) = n - 1
      BY <1>3, FS_RemoveElement
    <2> HIDE DEF Before
    <2>3. IsFiniteSet(Before(m)) /\ Cardinality(Before(m)) <= n - 1
      BY <2>1, <2>2, FS_Subset
    <2>4. Cardinality(Before(m)) \in Nat
      BY <2>3, FS_CardinalityType
    <2> HIDE DEF n
    <2> QED BY <1>5, <1>6, <2>3, <2>4
  <1>8. ASSUME NEW l \in M, NEW m \in M, MaskLess(l, m) PROVE Index(l) # Index(m)
    <2>1. Before(l) \subseteq Before(m) /\ l \in Before(m) /\ l \notin Before(l)
      BY <1>1, <1>8, MaskOrder
    <2>2. IsFiniteSet(Before(m))
      BY <1>7
    <2> HIDE DEF Before
    <2>3. Cardinality(Before(l)) # Cardinality(Before(m))
      BY <2>1, <2>2, FS_Subset
    <2> QED BY <1>6, <2>3
  <1>9. \A l, m \in M : Index(l) = Index(m) => l = m
    BY <1>1, <1>8, MaskOrder
  <1>10. ASSUME NEW k \in 0 .. n - 1 PROVE \E m \in M : Index(m) = k
    <2> DEFINE f == [m \in M |-> Index(m)]
    <2> HIDE DEF Before, n
    <2>1. f \in Injection(M, 0 .. n - 1)
      BY <1>7, <1>9 DEF Injection, IsInjective
    <2>2. IsFiniteSet(0 .. n - 1) /\ Cardinality(0 .. n - 1) = n
      <3>1. n - 1 \in Int /\ ~ (0 > n - 1) /\ (n - 1) - 0 + 1 = n
        BY <1>5
      <3> QED BY <3>1, FS_Interval
    <2>3. f \in Surjection(M, 0 .. n - 1)
      <3> HIDE DEF f
      <3> QED BY <2>1, <2>2, FS_Injection DEF n
    <2> QED BY <2>3 DEF Surjection
  <1> QED BY <1>1, <1>5, <1>7, <1>9, <1>10 DEF M, Index

(* The groups of a dimension, and where a class finds its own.             *)
LEMMA GroupsMade ==
  ASSUME IsMethod(method), NEW d \in 1 .. arity
  PROVE  LET G == MakeGroups(d)
         IN /\ Len(G) = Cardinality(Masks(d)) /\ DOMAIN G = 1 .. Len(G)
            /\ Len(G) \in Nat \ {0}
            /\ \A k \in DOMAIN G : /\ G[k].mask \in Masks(d)
                                   /\ G[k].classes = {c \in GroupedClasses(d) :
                                                        Mask(d, c) = G[k].mask}
            /\ \A k \in DOMAIN G : \E c \in GroupedClasses(d) : c \in G[k].classes
            /\ \A c \in GroupedClasses(d) :
                 \E k \in DOMAIN G : /\ c \in G[k].classes
                                     /\ \A l \in DOMAIN G : c \in G[l].classes => l = k
  <1> DEFINE G == MakeGroups(d)
             n == Cardinality(Masks(d))
             Nth(k) == CHOOSE mask \in Masks(d) : GroupIndex(d, mask) = k - 1
  <1>1. /\ n \in Nat \ {0}
        /\ \A m \in Masks(d) : GroupIndex(d, m) \in 0 .. n - 1
        /\ \A l, m \in Masks(d) : GroupIndex(d, l) = GroupIndex(d, m) => l = m
        /\ \A k \in 0 .. n - 1 : \E m \in Masks(d) : GroupIndex(d, m) = k
    BY GroupIndexes
  <1>2. G = [k \in 1 .. n |-> Group(d, Nth(k))]
    BY DEF MakeGroups
  <1> HIDE DEF G, n
  <1>3. DOMAIN G = 1 .. n /\ Len(G) = n
    BY <1>1, <1>2
  <1>4. \A k \in 1 .. n : Nth(k) \in Masks(d) /\ GroupIndex(d, Nth(k)) = k - 1
    <2> SUFFICES ASSUME NEW k \in 1 .. n
                 PROVE  Nth(k) \in Masks(d) /\ GroupIndex(d, Nth(k)) = k - 1
      OBVIOUS
    <2>1. k - 1 \in 0 .. n - 1
      BY <1>1
    <2>2. \E m \in Masks(d) : GroupIndex(d, m) = k - 1
      BY <1>1, <2>1
    <2> QED BY <2>2
  <1> HIDE DEF Nth
  <1>5. \A k \in 1 .. n : /\ G[k].mask = Nth(k)
                          /\ G[k].classes = {c \in GroupedClasses(d) : Mask(d, c) = Nth(k)}
    BY <1>2 DEF Group
  <1>6. ASSUME NEW c \in GroupedClasses(d)
        PROVE  \E k \in DOMAIN G : /\ c \in G[k].classes
                                   /\ \A l \in DOMAIN G : c \in G[l].classes => l = k
    <2> DEFINE k == GroupIndex(d, Mask(d, c)) + 1
    <2>1. Mask(d, c) \in Masks(d)
      BY DEF Masks
    <2>2. GroupIndex(d, Mask(d, c)) \in 0 .. n - 1
      BY <1>1, <2>1
    <2>3. k \in 1 .. n /\ k - 1 = GroupIndex(d, Mask(d, c))
      BY <1>1, <2>2
    <2> HIDE DEF k
    <2>4. Nth(k) = Mask(d, c)
      BY <1>1, <1>4, <2>1, <2>3
    <2>5. c \in G[k].classes
      BY <1>5, <2>3, <2>4
    <2>6. ASSUME NEW l \in DOMAIN G, c \in G[l].classes PROVE l = k
      <3>1. l \in 1 .. n /\ Nth(l) = Mask(d, c)
        BY <1>3, <1>5, <2>6
      <3>2. l - 1 = k - 1
        BY <1>4, <2>3, <2>4, <3>1
      <3> QED BY <1>1, <2>3, <3>1, <3>2
    <2> QED BY <1>3, <2>3, <2>5, <2>6
  <1>7. ASSUME NEW k \in DOMAIN G PROVE \E c \in GroupedClasses(d) : c \in G[k].classes
    <2>1. k \in 1 .. n /\ Nth(k) \in Masks(d)
      BY <1>3, <1>4
    <2>2. PICK c \in GroupedClasses(d) : Mask(d, c) = Nth(k)
      BY <2>1 DEF Masks
    <2> QED BY <1>5, <2>1, <2>2
  <1> QED BY <1>1, <1>3, <1>4, <1>5, <1>6, <1>7 DEF G, n

-----------------------------------------------------------------------------
(* Cells.                                                                  *)

(* The entry of a class is the place of its group.                         *)
EntriesMade(d) ==
  [c \in GroupedClasses(d) |->
     (CHOOSE g \in DOMAIN MakeGroups(d) : c \in MakeGroups(d)[g].classes) - 1]

GroupsUpTo(k) ==
  /\ groups = [d \in 1 .. k |-> MakeGroups(d)]
  /\ entries = [d \in 1 .. k |-> EntriesMade(d)]

GroupsReady == GroupsUpTo(arity)

Volumes == [k \in 0 .. arity |-> CellsUpTo(k)]
Extents == [d \in 1 .. arity |-> Extent(d)]

LEMMA TablesAreGrids ==
  ASSUME IsMethod(method), GroupsReady
  PROVE  IsGrid(Volumes, Extents, arity)
  <1> DEFINE F == CHOOSE f : f = [d \in 0 .. arity |-> IF d = 0 THEN 1 ELSE f[d - 1] * Extent(d)]
             step == [d \in 1 .. arity |-> [v \in Nat |-> v * Extent(d)]]
  <1>1. arity \in Nat
    BY OverridersAreNumbers
  <1>2. \A d \in 1 .. arity : Extent(d) \in Nat \ {0}
    BY GroupsMade DEF GroupsReady, GroupsUpTo, Extent
  <1>3. step \in [1 .. arity -> [Nat -> Nat]]
    BY <1>2
  <1>4. \E f \in [0 .. arity -> Nat] : IsRecursionTo(f, arity, 1, step)
    <2> HIDE DEF step
    <2> QED BY <1>1, <1>3, RecursionTo
  <1>5. PICK f \in [0 .. arity -> Nat] : IsRecursionTo(f, arity, 1, step)
    BY <1>4
  <1>6. f = [d \in 0 .. arity |-> IF d = 0 THEN 1 ELSE f[d - 1] * Extent(d)]
    <2>1. ASSUME NEW d \in 0 .. arity
          PROVE  f[d] = IF d = 0 THEN 1 ELSE f[d - 1] * Extent(d)
      <3>1. CASE d = 0
        BY <1>5, <3>1 DEF IsRecursionTo
      <3>2. ASSUME d # 0 PROVE f[d] = f[d - 1] * Extent(d)
        <4>1. d \in 1 .. arity /\ d - 1 \in 0 .. arity
          BY <1>1, <3>2
        <4>2. f[d] = step[d][f[d - 1]]
          BY <1>5, <4>1 DEF IsRecursionTo
        <4> QED BY <4>1, <4>2
      <3> QED BY <3>1, <3>2
    <2> QED BY <2>1
  <1>7. F = [d \in 0 .. arity |-> IF d = 0 THEN 1 ELSE F[d - 1] * Extent(d)]
    BY <1>6
  <1>8. \A k \in 0 .. arity : Volumes[k] = F[k]
    BY DEF Volumes, CellsUpTo
  <1> HIDE DEF F
  <1>9. F[0] = 1 /\ \A d \in 1 .. arity : F[d] = F[d - 1] * Extent(d)
    BY <1>1, <1>7
  <1>10. Volumes[0] = 1
    BY <1>1, <1>8, <1>9
  <1>11. ASSUME NEW k \in 1 .. arity
         PROVE  Extents[k] \in Nat \ {0} /\ Volumes[k] = Volumes[k - 1] * Extents[k]
    <2>1. k \in 0 .. arity /\ k - 1 \in 0 .. arity
      BY <1>1
    <2> QED BY <1>2, <1>8, <1>9, <2>1 DEF Extents
  <1> QED BY <1>10, <1>11 DEF IsGrid

(* The entries of the classes of a call are places in the grid, and the    *)
(* cell it reads is the one at those places.                               *)
Places(t) == [d \in 1 .. arity |-> entries[d][t[d]]]

LEMMA EntryIsPlace ==
  ASSUME IsMethod(method), GroupsReady, NEW d \in 1 .. arity, NEW c \in GroupedClasses(d)
  PROVE  /\ entries[d][c] \in 0 .. Extents[d] - 1
         /\ c \in groups[d][entries[d][c] + 1].classes
         /\ \A l \in DOMAIN groups[d] : c \in groups[d][l].classes => l = entries[d][c] + 1
         /\ groups[d][entries[d][c] + 1].mask = Mask(d, c)
  <1> DEFINE G == groups[d]
             g == CHOOSE k \in DOMAIN G : c \in G[k].classes
  <1>1. G = MakeGroups(d)
    BY DEF GroupsReady, GroupsUpTo
  <1>2. entries[d][c] = g - 1
    BY <1>1 DEF GroupsReady, GroupsUpTo, EntriesMade
  <1>3. /\ DOMAIN G = 1 .. Len(G) /\ Len(G) \in Nat
        /\ \A k \in DOMAIN G : G[k].classes = {e \in GroupedClasses(d) : Mask(d, e) = G[k].mask}
        /\ \E k \in DOMAIN G : /\ c \in G[k].classes
                               /\ \A l \in DOMAIN G : c \in G[l].classes => l = k
    BY <1>1, GroupsMade
  <1>4. Extents[d] = Len(G)
    BY DEF Extents, Extent
  <1> HIDE DEF G
  <1>5. g \in DOMAIN G /\ c \in G[g].classes /\ \A l \in DOMAIN G : c \in G[l].classes => l = g
    BY <1>3
  <1> HIDE DEF g
  <1>6. g \in 1 .. Len(G) /\ (g - 1) + 1 = g
    BY <1>3, <1>5
  <1>7. G[g].mask = Mask(d, c)
    BY <1>3, <1>5
  <1> QED BY <1>2, <1>3, <1>4, <1>5, <1>6, <1>7 DEF G

LEMMA CellsOfCalls ==
  ASSUME IsMethod(method), GroupsReady, NEW t, \A d \in 1 .. arity : t[d] \in GroupedClasses(d)
  PROVE  \E cell : IsCell(cell, Places(t), Volumes, arity) /\ CellOf(t) = cell[arity]
  <1> DEFINE Op(d, v) == v + entries[d][t[d]] * Stride(d)
             F == CHOOSE f : f = [d \in 0 .. arity |-> IF d = 0 THEN 0 ELSE Op(d, f[d - 1])]
             step == [d \in 1 .. arity |-> [v \in Nat |-> Op(d, v)]]
  <1>1. arity \in Nat
    BY OverridersAreNumbers
  <1>2. IsGrid(Volumes, Extents, arity)
    BY TablesAreGrids
  <1>3. \A k \in 0 .. arity : Volumes[k] \in Nat \ {0}
    BY <1>1, <1>2, GridVolumes
  <1>4. \A d \in 1 .. arity : /\ Stride(d) = Volumes[d - 1] /\ Stride(d) \in Nat
                              /\ entries[d][t[d]] \in Nat
    <2> SUFFICES ASSUME NEW d \in 1 .. arity
                 PROVE  /\ Stride(d) = Volumes[d - 1] /\ Stride(d) \in Nat
                        /\ entries[d][t[d]] \in Nat
      OBVIOUS
    <2>1. d - 1 \in 0 .. arity
      BY <1>1
    <2>2. Stride(d) = Volumes[d - 1]
      BY <2>1 DEF Stride, Volumes
    <2>3. Extents[d] \in Nat
      BY <1>2 DEF IsGrid
    <2>4. entries[d][t[d]] \in 0 .. Extents[d] - 1
      BY EntryIsPlace
    <2> QED BY <1>3, <2>1, <2>2, <2>3, <2>4
  <1>5. \A d \in 1 .. arity : \A v \in Nat : Op(d, v) \in Nat
    BY <1>4
  <1>6. step \in [1 .. arity -> [Nat -> Nat]]
    <2> HIDE DEF Op
    <2> QED BY <1>5
  <1>7. \E f \in [0 .. arity -> Nat] : IsRecursionTo(f, arity, 0, step)
    <2> HIDE DEF step
    <2> QED BY <1>1, <1>6, RecursionTo
  <1>8. PICK f \in [0 .. arity -> Nat] : IsRecursionTo(f, arity, 0, step)
    BY <1>7
  <1>9. f = [d \in 0 .. arity |-> IF d = 0 THEN 0 ELSE Op(d, f[d - 1])]
    <2>1. ASSUME NEW d \in 0 .. arity PROVE f[d] = IF d = 0 THEN 0 ELSE Op(d, f[d - 1])
      <3>1. CASE d = 0
        BY <1>8, <3>1 DEF IsRecursionTo
      <3>2. ASSUME d # 0 PROVE f[d] = Op(d, f[d - 1])
        <4>1. d \in 1 .. arity /\ d - 1 \in 0 .. arity
          BY <1>1, <3>2
        <4>2. f[d] = step[d][f[d - 1]]
          BY <1>8, <4>1 DEF IsRecursionTo
        <4> HIDE DEF Op
        <4> QED BY <4>1, <4>2
      <3> QED BY <3>1, <3>2
    <2> HIDE DEF Op
    <2> QED BY <2>1
  <1>10. F = [d \in 0 .. arity |-> IF d = 0 THEN 0 ELSE Op(d, F[d - 1])]
    <2> HIDE DEF Op
    <2> QED BY <1>9
  <1>11. CellOf(t) = F[arity]
    BY DEF CellOf
  <1> HIDE DEF F
  <1>12. F[0] = 0 /\ \A d \in 1 .. arity : F[d] = Op(d, F[d - 1])
    <2> HIDE DEF Op
    <2> QED BY <1>1, <1>10
  <1>13. \A d \in 1 .. arity : F[d] = F[d - 1] + Places(t)[d] * Volumes[d - 1]
    BY <1>4, <1>12 DEF Places
  <1>14. IsCell(F, Places(t), Volumes, arity)
    BY <1>12, <1>13 DEF IsCell
  <1> QED BY <1>11, <1>14

LEMMA CallReadsItsMask ==
  ASSUME IsMethod(method), GroupsReady, NEW t \in Calls
  PROVE  /\ CellOf(t) \in 0 .. Cells - 1 /\ MaskOfCell(CellOf(t)) = Applicable(t)
         /\ Applicable(t) \in SUBSET Overrider
  <1>1. arity \in Nat \ {0}
    BY OverridersAreNumbers
  <1>2. \A d \in 1 .. arity : t[d] \in GroupedClasses(d)
    BY DEF Calls, GroupedClasses
  <1>3. PICK cell : IsCell(cell, Places(t), Volumes, arity) /\ CellOf(t) = cell[arity]
    BY <1>2, CellsOfCalls
  <1>4. IsGrid(Volumes, Extents, arity)
    BY TablesAreGrids
  <1>5. \A d \in 1 .. arity : Places(t)[d] \in 0 .. Extents[d] - 1
    BY <1>2, EntryIsPlace DEF Places
  <1>6. \A k \in 0 .. arity : cell[k] \in 0 .. Volumes[k] - 1
    BY <1>1, <1>3, <1>4, <1>5, CellInGrid
  <1>7. CellOf(t) \in 0 .. Cells - 1
    BY <1>1, <1>3, <1>6 DEF Volumes, Cells
  <1>8. ASSUME NEW d \in 1 .. arity
        PROVE  groups[d][GroupOfCell(CellOf(t), d) + 1].mask = Mask(d, t[d])
    <2>1. d - 1 \in 0 .. arity
      BY <1>1
    <2>2. Stride(d) = Volumes[d - 1] /\ Extent(d) = Extents[d]
      BY <2>1 DEF Stride, Volumes, Extents
    <2>3. (cell[arity] \div Volumes[d - 1]) % Extents[d] = Places(t)[d]
      BY <1>1, <1>3, <1>4, <1>5, PlaceOfCell
    <2>4. GroupOfCell(CellOf(t), d) = entries[d][t[d]]
      BY <1>3, <2>2, <2>3 DEF GroupOfCell, Places
    <2>5. groups[d][entries[d][t[d]] + 1].mask = Mask(d, t[d])
      BY <1>2, EntryIsPlace
    <2> QED BY <2>4, <2>5
  <1>9. MaskOfCell(CellOf(t)) = Applicable(t)
    BY <1>8 DEF MaskOfCell, Applicable, Mask
  <1> QED BY <1>7, <1>9 DEF Applicable

LEMMA EveryCellIsRead ==
  ASSUME IsMethod(method), GroupsReady, NEW n \in 0 .. Cells - 1
  PROVE  \E t \in Calls : CellOf(t) = n
  <1>1. arity \in Nat \ {0}
    BY OverridersAreNumbers
  <1>2. IsGrid(Volumes, Extents, arity)
    BY TablesAreGrids
  <1>3. \A k \in 0 .. arity : Volumes[k] \in Nat \ {0}
    BY <1>1, <1>2, GridVolumes
  <1>4. Volumes[arity] = Cells
    BY <1>1 DEF Volumes, Cells
  <1>5. n \in Nat
    BY <1>1, <1>3, <1>4
  <1> DEFINE place(d) == (n \div Volumes[d - 1]) % Extents[d]
             t == [d \in 1 .. arity |->
                     CHOOSE c \in GroupedClasses(d) : c \in groups[d][place(d) + 1].classes]
  <1>6. ASSUME NEW d \in 1 .. arity
        PROVE  /\ t[d] \in GroupedClasses(d) /\ entries[d][t[d]] = place(d)
    <2>1. Volumes[d - 1] \in Nat \ {0} /\ Extents[d] \in Nat \ {0}
      BY <1>1, <1>2, <1>3 DEF IsGrid
    <2>2. n \div Volumes[d - 1] \in Nat
      BY <1>5, <2>1, DivisionHas
    <2>3. place(d) \in 0 .. Extents[d] - 1
      BY <2>1, <2>2, DivisionHas
    <2>4. groups[d] = MakeGroups(d) /\ Extents[d] = Len(groups[d])
      BY DEF GroupsReady, GroupsUpTo, Extents, Extent
    <2> HIDE DEF place
    <2>5. place(d) + 1 \in DOMAIN groups[d]
      BY <2>1, <2>3, <2>4, GroupsMade
    <2>6. \E c \in GroupedClasses(d) : c \in groups[d][place(d) + 1].classes
      BY <2>4, <2>5, GroupsMade
    <2>7. t[d] \in GroupedClasses(d) /\ t[d] \in groups[d][place(d) + 1].classes
      BY <2>6
    <2> HIDE DEF t
    <2>8. place(d) + 1 = entries[d][t[d]] + 1 /\ entries[d][t[d]] \in 0 .. Extents[d] - 1
      BY <2>5, <2>7, EntryIsPlace
    <2> QED BY <2>1, <2>3, <2>7, <2>8
  <1>7. t \in Calls
    <2>1. \A d \in 1 .. arity : t[d] \in Covariant(method.vp[d]) /\ t[d] \in Class
      <3> SUFFICES ASSUME NEW d \in 1 .. arity
                   PROVE  t[d] \in Covariant(method.vp[d]) /\ t[d] \in Class
        OBVIOUS
      <3>1. method.vp[d] \in Class
        BY OverridersAreNumbers DEF IsMethod
      <3>2. Covariant(method.vp[d]) \subseteq Class
        BY <3>1 DEF IsMethod, Covariant
      <3> HIDE DEF t
      <3> QED BY <1>6, <3>2 DEF GroupedClasses
    <2> QED BY <2>1 DEF Calls
  <1> HIDE DEF t
  <1>8. PICK cell : IsCell(cell, Places(t), Volumes, arity) /\ CellOf(t) = cell[arity]
    BY <1>6, CellsOfCalls
  <1>9. \A d \in 1 .. arity : Places(t)[d] = (n \div Volumes[d - 1]) % Extents[d]
    BY <1>6 DEF Places
  <1>10. n \in 0 .. Volumes[arity] - 1
    BY <1>4
  <1>11. cell[arity] = n
    BY <1>1, <1>2, <1>8, <1>9, <1>10, CellOfPlaces
  <1> QED BY <1>7, <1>8, <1>11

-----------------------------------------------------------------------------
(* What the steps leave alone: the groups of a method, its selections and  *)
(* the grid of its cells depend on the method and the groups only.         *)

LEMMA GroupsStable ==
  ASSUME method' = method
  PROVE  /\ arity' = arity
         /\ \A d : MakeGroups(d)' = MakeGroups(d) /\ EntriesMade(d)' = EntriesMade(d)
  <1>1. arity' = arity
    BY DEF arity
  <1>2. \A d : GroupedClasses(d)' = GroupedClasses(d)
    BY DEF GroupedClasses, Covariant
  <1>3. \A d, c : Mask(d, c)' = Mask(d, c)
    BY DEF Mask, Overrider, Covariant
  <1>4. \A d : Masks(d)' = Masks(d)
    BY <1>2, <1>3 DEF Masks
  <1>5. \A d, m : Group(d, m)' = Group(d, m)
    BY <1>2, <1>3 DEF Group
  <1>6. ASSUME NEW d PROVE MakeGroups(d)' = MakeGroups(d)
    <2> DEFINE Nth(M, k) == CHOOSE m \in M : Cardinality({l \in M : MaskLess(l, m)}) = k - 1
    <2>1. MakeGroups(d) = [k \in 1 .. Cardinality(Masks(d)) |-> Group(d, Nth(Masks(d), k))]
      BY DEF MakeGroups, GroupIndex
    <2>2. MakeGroups(d)' = ([k \in 1 .. Cardinality(Masks(d)) |-> Group(d, Nth(Masks(d), k))])'
      BY DEF MakeGroups, GroupIndex
    <2> HIDE DEF Nth
    <2> QED BY <1>4, <1>5, <2>1, <2>2
  <1>7. ASSUME NEW d PROVE EntriesMade(d)' = EntriesMade(d)
    <2> DEFINE Entries(G, C) == [c \in C |-> (CHOOSE g \in DOMAIN G : c \in G[g].classes) - 1]
    <2>1. EntriesMade(d) = Entries(MakeGroups(d), GroupedClasses(d))
      BY DEF EntriesMade
    <2>2. EntriesMade(d)' = Entries(MakeGroups(d)', GroupedClasses(d)')
      BY DEF EntriesMade
    <2> HIDE DEF Entries
    <2> QED BY <1>2, <1>6, <2>1, <2>2
  <1> QED BY <1>1, <1>6, <1>7

LEMMA SelectionStable ==
  ASSUME method' = method
  PROVE  /\ \A S : Dominants(S)' = Dominants(S)
         /\ \A S : Selected(Dominants(S))' = Selected(Dominants(S))
         /\ \A S : NextOf(S)' = NextOf(S)
         /\ \A c : Remaining(c)' = Remaining(c)
  <1>1. \A S : Candidates(S)' = Candidates(S)
    BY DEF Candidates, Overrider
  <1>2. \A c : Sift(c)' = Sift(c)
    BY DEF Sift, CompareWithNext, Compare, is_more_specific, Derives, Covariant, arity
  <1>3. \A c : SiftReturns(c)' = SiftReturns(c)
    BY DEF SiftReturns, CompareReturns, is_base_of, Covariant
  <1>4. \A c : Remaining(c)' = Remaining(c)
    BY DEF Remaining
  <1>6. \A S : Dominants(S)' = Dominants(S)
    <2> SUFFICES ASSUME NEW S PROVE Dominants(S)' = Dominants(S)
      OBVIOUS
    <2> DEFINE C == Candidates(S)
               D == Sift(C)
    <2>1. Dominants(S)' = (IF /\ method.n2216 /\ method.returns # << >>
                              /\ Cardinality(Remaining(D)) > 1
                           THEN SiftReturns(D) ELSE D)'
      BY DEF Dominants, select_dominant_overriders
    <2>2. C' = C /\ D' = D
      BY <1>1, <1>2
    <2>5. Dominants(S) = IF /\ method.n2216 /\ method.returns # << >>
                            /\ Cardinality(Remaining(D)) > 1
                         THEN SiftReturns(D) ELSE D
      BY DEF Dominants, select_dominant_overriders
    <2> HIDE DEF C, D
    <2>3. SiftReturns(D)' = SiftReturns(D)
      BY <1>3, <2>2
    <2>4. Remaining(D)' = Remaining(D)
      BY <1>4, <2>2
    <2> QED BY <2>1, <2>2, <2>3, <2>4, <2>5
  <1>7. \A c : Selected(c)' = Selected(c)
    BY <1>4 DEF Selected, Picked
  <1>8. \A S : Selected(Dominants(S))' = Selected(Dominants(S))
    BY <1>6, <1>7
  <1>9. \A S : NextOf(S)' = NextOf(S)
    BY <1>4, <1>6, <1>7 DEF NextOf
  <1> QED BY <1>4, <1>6, <1>8, <1>9

LEMMA CellsStable ==
  ASSUME method' = method, groups' = groups
  PROVE  /\ Cells' = Cells
         /\ \A n : MaskOfCell(n)' = MaskOfCell(n) /\ OverriderOfCell(n)' = OverriderOfCell(n)
  <1>1. \A k : CellsUpTo(k)' = CellsUpTo(k)
    BY DEF CellsUpTo, Extent, arity
  <1>2. \A n, d : GroupOfCell(n, d)' = GroupOfCell(n, d)
    BY <1>1 DEF GroupOfCell, Stride, Extent
  <1>3. \A n : MaskOfCell(n)' = MaskOfCell(n)
    BY <1>2 DEF MaskOfCell, arity, Overrider
  <1>4. \A n : OverriderOfCell(n)' = OverriderOfCell(n)
    BY <1>3, SelectionStable DEF OverriderOfCell
  <1>5. Cells' = Cells
    BY <1>1 DEF Cells, arity
  <1> QED BY <1>3, <1>4, <1>5

-----------------------------------------------------------------------------
(* The inductive invariant: the groups and the entries made so far, the    *)
(* cells filled so far, and what the report says of them.                  *)

Crashing(n) == crash \in {OverriderOfCell(n), NextOf(MaskOfCell(n))}

Filled(k) ==
  /\ dispatch_table = [n \in 1 .. k |-> OverriderOfCell(n - 1)]
  /\ \A n \in 0 .. k - 1 : OverriderOfCell(n) # crash

Several(n) == Cardinality(Remaining(Dominants(MaskOfCell(n)))) > 1

Reported(k) ==
  /\ report \in [cells : Nat, not_implemented : Nat, ambiguous : Nat]
  /\ report.not_implemented > 0 <=> \E n \in 0 .. k - 1 : OverriderOfCell(n) = not_implemented
  /\ report.ambiguous > 0 <=> \E n \in 0 .. k - 1 : Several(n)

(* Every overrider selected for some cell has its next from such a cell;   *)
(* the others have none.                                                   *)
Linked(k) ==
  /\ next = [s \in Overrider |-> next[s]]
  /\ \A s \in Overrider :
       \/ next[s] = Null /\ \A n \in 0 .. k - 1 : OverriderOfCell(n) # s
       \/ /\ next[s] # crash
          /\ \E n \in 0 .. k - 1 : OverriderOfCell(n) = s /\ next[s] = NextOf(MaskOfCell(n))

TablesInv ==
  /\ IsMethod(method)
  /\ pc \in {"groups", "cells", "done", "crashed"}
  /\ dim \in 1 .. arity + 1 /\ GroupsUpTo(dim - 1)
  /\ IF pc = "groups"
     THEN dim <= arity /\ dispatch_table = << >>
          /\ report = [cells |-> 0, not_implemented |-> 0, ambiguous |-> 0]
          /\ next = [s \in Overrider |-> Null]
     ELSE /\ dim = arity + 1
          /\ \E k \in 0 .. Cells :
               Filled(k) /\ Reported(k) /\ Linked(k) /\ (pc = "done" => k = Cells)
  /\ pc = "crashed" => \E n \in 0 .. Cells - 1 : Crashing(n)

LEMMA TablesInit == Init => TablesInv
  <1> SUFFICES ASSUME Init PROVE TablesInv
    OBVIOUS
  <1>1. IsMethod(method)
    BY MethodsAssumption DEF Init
  <1>2. arity \in Nat \ {0}
    BY <1>1, OverridersAreNumbers
  <1>3. GroupsUpTo(dim - 1)
    BY DEF Init, GroupsUpTo
  <1>4. next = [s \in Overrider |-> Null]
    BY DEF Init, Overrider
  <1> QED BY <1>1, <1>2, <1>3, <1>4 DEF Init, TablesInv

(* A sequence of what an operator gives for 1, 2, ... grows by one.        *)
LEMMA AppendNext ==
  ASSUME NEW k \in Nat, NEW f, NEW x
  PROVE  Append([n \in 1 .. k |-> f[n]], x) = [n \in 1 .. k + 1 |-> IF n = k + 1 THEN x ELSE f[n]]
  <1> DEFINE T == {f[n] : n \in 1 .. k} \cup {x}
             s == [n \in 1 .. k |-> f[n]]
  <1>1. s \in Seq(T) /\ x \in T /\ Len(s) = k
    OBVIOUS
  <1> HIDE DEF T
  <1> QED BY <1>1

LEMMA GridIsReady ==
  IsMethod(method) /\ GroupsReady => Cells \in Nat \ {0}
  <1> SUFFICES ASSUME IsMethod(method), GroupsReady PROVE Cells \in Nat \ {0}
    OBVIOUS
  <1>1. arity \in Nat
    BY OverridersAreNumbers
  <1>2. \A k \in 0 .. arity : Volumes[k] \in Nat \ {0}
    BY <1>1, TablesAreGrids, GridVolumes
  <1>3. arity \in 0 .. arity
    BY <1>1
  <1> QED BY <1>2, <1>3 DEF Volumes, Cells

LEMMA TablesStepGroups == TablesInv /\ GroupClasses => TablesInv'
  <1> SUFFICES ASSUME TablesInv, GroupClasses PROVE TablesInv'
    OBVIOUS
  <1>1. /\ IsMethod(method) /\ pc = "groups" /\ dim \in 1 .. arity /\ GroupsUpTo(dim - 1)
        /\ dispatch_table = << >>
        /\ report = [cells |-> 0, not_implemented |-> 0, ambiguous |-> 0]
        /\ next = [s \in Overrider |-> Null]
    BY DEF TablesInv, GroupClasses
  <1>2. /\ method' = method /\ dim' = dim + 1 /\ dispatch_table' = << >>
        /\ report' = report /\ next' = next /\ pc' = IF dim = arity THEN "cells" ELSE pc
    BY <1>1 DEF GroupClasses
  <1>3. arity \in Nat \ {0}
    BY <1>1, OverridersAreNumbers
  <1>4. /\ arity' = arity
        /\ \A d : MakeGroups(d)' = MakeGroups(d) /\ EntriesMade(d)' = EntriesMade(d)
    BY <1>2, GroupsStable
  <1>5. groups' = [d \in 1 .. dim |-> MakeGroups(d)]
    <2> DEFINE f == [d \in 1 .. arity |-> MakeGroups(d)]
    <2>0. groups' = Append(groups, MakeGroups(dim)) /\ groups = [d \in 1 .. dim - 1 |-> MakeGroups(d)]
      BY <1>1 DEF GroupClasses, GroupsUpTo
    <2>6. \A d \in 1 .. dim - 1 : f[d] = MakeGroups(d)
      BY <1>1, <1>3
    <2>1. groups' = Append(groups, MakeGroups(dim)) /\ groups = [d \in 1 .. dim - 1 |-> f[d]]
      BY <2>0, <2>6
    <2>2. dim \in Nat \ {0} /\ \A d \in 1 .. dim : f[d] = MakeGroups(d)
      BY <1>1, <1>3
    <2> HIDE DEF f
    <2>3. dim - 1 \in Nat /\ (dim - 1) + 1 = dim
      BY <1>1
    <2>4. groups' = [d \in 1 .. dim |-> IF d = dim THEN MakeGroups(dim) ELSE f[d]]
      BY <2>1, <2>3, AppendNext
    <2>5. dim \in 1 .. dim
      BY <2>2
    <2> QED BY <2>2, <2>4, <2>5
  <1>6. entries' = [d \in 1 .. dim |-> EntriesMade(d)]
    <2> DEFINE f == [d \in 1 .. arity |-> EntriesMade(d)]
    <2>1. groups'[dim] = MakeGroups(dim)
      BY <1>1, <1>3, <1>5
    <2>7. entries = [d \in 1 .. dim - 1 |-> EntriesMade(d)]
      BY <1>1 DEF GroupsUpTo
    <2>8. entries' = Append(entries, EntriesMade(dim))
      BY <2>1 DEF GroupClasses, EntriesMade
    <2>0. entries' = Append(entries, EntriesMade(dim)) /\ entries = [d \in 1 .. dim - 1 |-> EntriesMade(d)]
      BY <2>7, <2>8
    <2>6. \A d \in 1 .. dim - 1 : f[d] = EntriesMade(d)
      BY <1>1, <1>3
    <2>2. entries' = Append(entries, EntriesMade(dim)) /\ entries = [d \in 1 .. dim - 1 |-> f[d]]
      BY <2>0, <2>6
    <2>3. dim \in 1 .. dim /\ \A d \in 1 .. dim : f[d] = EntriesMade(d)
      BY <1>1, <1>3
    <2> HIDE DEF f
    <2>4. dim - 1 \in Nat /\ (dim - 1) + 1 = dim
      BY <1>1
    <2>5. entries' = [d \in 1 .. dim |-> IF d = dim THEN EntriesMade(dim) ELSE f[d]]
      BY <2>2, <2>4, AppendNext
    <2> QED BY <2>3, <2>5
  <1>7. GroupsUpTo(dim - 1)'
    <2>1. dim' - 1 = dim
      BY <1>1, <1>2, <1>3
    <2> QED BY <1>4, <1>5, <1>6, <2>1 DEF GroupsUpTo
  <1>8. IsMethod(method)'
    BY <1>1, <1>2
  <1>11. (next = [s \in Overrider |-> Null])'
    BY <1>1, <1>2 DEF Overrider
  <1>9. CASE dim # arity
    BY <1>1, <1>2, <1>3, <1>4, <1>7, <1>8, <1>9, <1>11 DEF TablesInv
  <1>10. CASE dim = arity
    <2>1. pc' = "cells" /\ (dim = arity + 1)' /\ dim' \in 1 .. arity' + 1
      BY <1>2, <1>3, <1>4, <1>10
    <2>2. GroupsReady'
      BY <1>1, <1>2, <1>4, <1>7, <1>10 DEF GroupsReady
    <2>3. Cells' \in Nat
      <3>1. (Cells \in Nat \ {0})'
        BY <1>8, <2>2, GridIsReady, PTL
      <3> QED BY <3>1
    <2>4. Filled(0)'
      BY <1>2 DEF Filled
    <2>5. Reported(0)'
      BY <1>1, <1>2 DEF Reported
    <2>7. Linked(0)'
      BY <1>11 DEF Linked
    <2>6. (\E k \in 0 .. Cells : Filled(k) /\ Reported(k) /\ Linked(k))'
      <3>1. 0 \in 0 .. Cells'
        BY <2>3
      <3> QED BY <2>4, <2>5, <2>7, <3>1
    <2> QED BY <1>7, <1>8, <2>1, <2>6 DEF TablesInv
  <1> QED BY <1>9, <1>10

(* A step that leaves the method and its groups alone keeps every cell.    *)
LEMMA CellsKept ==
  ASSUME TablesInv, pc # "groups", method' = method, groups' = groups, entries' = entries
  PROVE  /\ arity' = arity /\ Overrider' = Overrider /\ Cells' = Cells
         /\ IsMethod(method) /\ GroupsReady /\ IsMethod(method)' /\ GroupsUpTo(arity)'
         /\ Cells \in Nat \ {0}
         /\ \A n : /\ MaskOfCell(n)' = MaskOfCell(n) /\ OverriderOfCell(n)' = OverriderOfCell(n)
                   /\ NextOf(MaskOfCell(n))' = NextOf(MaskOfCell(n))
                   /\ Several(n)' = Several(n)
                   /\ Crashing(n)' = Crashing(n)
  <1>1. arity' = arity /\ Overrider' = Overrider
    BY DEF arity, Overrider
  <1>2. IsMethod(method) /\ arity \in Nat \ {0} /\ dim = arity + 1 /\ GroupsUpTo(dim - 1)
    BY OverridersAreNumbers DEF TablesInv
  <1>3. GroupsReady
    <2>1. dim - 1 = arity
      BY <1>2
    <2> QED BY <1>2, <2>1 DEF GroupsReady
  <1>4. GroupsUpTo(arity)'
    <2>1. \A d : MakeGroups(d)' = MakeGroups(d) /\ EntriesMade(d)' = EntriesMade(d)
      BY <1>1, GroupsStable
    <2> QED BY <1>1, <1>3, <2>1 DEF GroupsReady, GroupsUpTo
  <1>5. Cells \in Nat \ {0}
    BY <1>2, <1>3, GridIsReady
  <1>6. Cells' = Cells /\ \A n : MaskOfCell(n)' = MaskOfCell(n) /\ OverriderOfCell(n)' = OverriderOfCell(n)
    BY CellsStable
  <1>7. \A n : NextOf(MaskOfCell(n))' = NextOf(MaskOfCell(n))
    BY <1>6, SelectionStable
  <1>8. \A n : Several(n)' = Several(n)
    BY <1>6, SelectionStable DEF Several
  <1>9. \A n : Crashing(n)' = Crashing(n)
    BY <1>6, <1>7 DEF Crashing
  <1> QED BY <1>1, <1>2, <1>3, <1>4, <1>5, <1>6, <1>7, <1>8, <1>9


(* One more cell is filled, from those before.                             *)
LEMMA TablesStepCell == TablesInv /\ FillCell => TablesInv'
  <1> SUFFICES ASSUME TablesInv, FillCell PROVE TablesInv'
    OBVIOUS
  <1>1. /\ pc = "cells" /\ pc' = pc /\ dim' = dim
        /\ method' = method /\ groups' = groups /\ entries' = entries
    BY DEF FillCell
  <1>2. /\ arity' = arity /\ Overrider' = Overrider /\ Cells' = Cells
        /\ IsMethod(method)' /\ GroupsUpTo(arity)' /\ Cells \in Nat \ {0}
        /\ \A n : /\ MaskOfCell(n)' = MaskOfCell(n) /\ OverriderOfCell(n)' = OverriderOfCell(n)
                  /\ NextOf(MaskOfCell(n))' = NextOf(MaskOfCell(n))
                  /\ Several(n)' = Several(n)
    BY <1>1, CellsKept
  <1>3. arity \in Nat \ {0} /\ dim = arity + 1
    BY <1>1, OverridersAreNumbers DEF TablesInv
  <1>4. PICK k \in 0 .. Cells : Filled(k) /\ Reported(k) /\ Linked(k)
    BY <1>1 DEF TablesInv
  <1>5. Len(dispatch_table) = k /\ k < Cells
    BY <1>2, <1>4 DEF Filled, FillCell
  <1> DEFINE f   == [n \in 1 .. Cells |-> OverriderOfCell(n - 1)]
             new == OverriderOfCell(k)
             after == IF new \in Overrider THEN NextOf(MaskOfCell(k)) ELSE Null
  <1>6. /\ new # crash /\ after # crash
        /\ dispatch_table' = Append(dispatch_table, new)
        /\ report' = [report EXCEPT
             !.not_implemented = Increment(@, new = not_implemented),
             !.ambiguous = Increment(@, Several(k))]
        /\ next' = IF new \in Overrider THEN [next EXCEPT ![new] = after] ELSE next
    BY <1>5 DEF FillCell, Several
  <1>7. k + 1 \in 0 .. Cells /\ k \in Nat
        /\ \A n : n \in 0 .. k <=> n = k \/ n \in 0 .. k - 1
    BY <1>2, <1>5
  <1>8. Filled(k + 1)'
    <2>1. dispatch_table = [n \in 1 .. k |-> f[n]]
      BY <1>2, <1>4, <1>5 DEF Filled
    <2>2. f[k + 1] = new /\ \A n \in 1 .. k + 1 : f[n] = OverriderOfCell(n - 1)
      BY <1>2, <1>5, <1>7
    <2> HIDE DEF f
    <2>3. dispatch_table' = [n \in 1 .. k + 1 |-> IF n = k + 1 THEN new ELSE f[n]]
      BY <1>6, <1>7, <2>1, AppendNext
    <2>4. dispatch_table' = [n \in 1 .. k + 1 |-> OverriderOfCell(n - 1)]
      BY <1>7, <2>2, <2>3
    <2>5. \A n \in 0 .. k : OverriderOfCell(n) # crash
      BY <1>4, <1>6, <1>7 DEF Filled
    <2>6. (k + 1) - 1 = k
      BY <1>7
    <2> QED BY <1>2, <2>4, <2>5, <2>6 DEF Filled
  <1>9. Reported(k + 1)'
    <2>1. /\ report \in [cells : Nat, not_implemented : Nat, ambiguous : Nat]
          /\ report.not_implemented > 0 <=> \E n \in 0 .. k - 1 : OverriderOfCell(n) = not_implemented
          /\ report.ambiguous > 0 <=> \E n \in 0 .. k - 1 : Several(n)
      BY <1>4 DEF Reported
    <2>2. /\ report' \in [cells : Nat, not_implemented : Nat, ambiguous : Nat]
          /\ report'.not_implemented > 0 <=> report.not_implemented > 0 \/ new = not_implemented
          /\ report'.ambiguous > 0 <=> report.ambiguous > 0 \/ Several(k)
      <3> HIDE DEF new
      <3>1. /\ report' = [report EXCEPT !.not_implemented = Increment(@, new = not_implemented),
                                        !.ambiguous = Increment(@, Several(k))]
            /\ report.not_implemented \in Nat /\ report.ambiguous \in Nat
        BY <1>6, <2>1
      <3>2. /\ report'.not_implemented = Increment(report.not_implemented, new = not_implemented)
            /\ report'.ambiguous = Increment(report.ambiguous, Several(k))
            /\ report' = [cells |-> report.cells, not_implemented |-> report'.not_implemented,
                          ambiguous |-> report'.ambiguous]
        BY <2>1, <3>1
      <3>3. /\ report'.not_implemented \in Nat
            /\ report'.not_implemented > 0 <=> report.not_implemented > 0 \/ new = not_implemented
        BY <3>1, <3>2 DEF Increment
      <3>4. /\ report'.ambiguous \in Nat
            /\ report'.ambiguous > 0 <=> report.ambiguous > 0 \/ Several(k)
        BY <3>1, <3>2 DEF Increment
      <3> QED BY <2>1, <3>2, <3>3, <3>4
    <2>3. (\E n \in 0 .. k : OverriderOfCell(n) = not_implemented)
          <=> \/ new = not_implemented
              \/ \E n \in 0 .. k - 1 : OverriderOfCell(n) = not_implemented
      BY <1>7
    <2>4. (\E n \in 0 .. k : Several(n))
          <=> Several(k) \/ (\E n \in 0 .. k - 1 : Several(n))
      BY <1>7
    <2>5. (k + 1) - 1 = k
      BY <1>7
    <2> QED BY <1>2, <2>1, <2>2, <2>3, <2>4, <2>5 DEF Reported
  <1>10. Linked(k + 1)'
    <2>1. /\ next = [s \in Overrider |-> next[s]]
          /\ \A s \in Overrider :
               \/ next[s] = Null /\ \A n \in 0 .. k - 1 : OverriderOfCell(n) # s
               \/ /\ next[s] # crash
                  /\ \E n \in 0 .. k - 1 : /\ OverriderOfCell(n) = s
                                           /\ next[s] = NextOf(MaskOfCell(n))
      BY <1>4 DEF Linked
    <2>2. next' = [s \in Overrider |-> next'[s]]
      BY <1>6, <2>1
    <2>3. ASSUME NEW s \in Overrider
          PROVE  \/ next'[s] = Null /\ \A n \in 0 .. k : OverriderOfCell(n) # s
                 \/ /\ next'[s] # crash
                    /\ \E n \in 0 .. k : OverriderOfCell(n) = s /\ next'[s] = NextOf(MaskOfCell(n))
      <3>1. CASE s = new
        <4>1. next'[s] = after /\ after = NextOf(MaskOfCell(k))
          BY <1>6, <2>1, <3>1
        <4> QED BY <1>6, <1>7, <3>1, <4>1
      <3>2. CASE s # new
        <4>1. next'[s] = next[s]
          BY <1>6, <2>1, <3>2
        <4> QED BY <1>7, <2>1, <3>2, <4>1
      <3> QED BY <3>1, <3>2
    <2>4. (k + 1) - 1 = k
      BY <1>7
    <2> QED BY <1>2, <2>2, <2>3, <2>4 DEF Linked
  <1>11. (\E c \in 0 .. Cells : Filled(c) /\ Reported(c) /\ Linked(c) /\ (pc = "done" => c = Cells))'
    <2>1. k + 1 \in 0 .. Cells'
      BY <1>2, <1>7
    <2>2. pc' # "done"
      BY <1>1
    <2> QED BY <1>8, <1>9, <1>10, <2>1, <2>2
  <1>12. GroupsUpTo(dim - 1)' /\ (dim \in 1 .. arity + 1)' /\ (dim = arity + 1)'
    <2>1. dim' - 1 = arity
      BY <1>1, <1>3
    <2> QED BY <1>1, <1>2, <1>3, <2>1 DEF GroupsUpTo
  <1> QED BY <1>1, <1>2, <1>11, <1>12 DEF TablesInv


LEMMA TablesStepEnd == TablesInv /\ (Crash \/ TableDone \/ UNCHANGED vars) => TablesInv'
  <1> SUFFICES ASSUME TablesInv, Crash \/ TableDone \/ UNCHANGED vars PROVE TablesInv'
    OBVIOUS
  <1>1. /\ method' = method /\ groups' = groups /\ entries' = entries /\ dim' = dim
        /\ dispatch_table' = dispatch_table /\ next' = next
        /\ report' = IF TableDone /\ arity > 1 THEN [report EXCEPT !.cells = Cells] ELSE report
    BY DEF Crash, TableDone, vars
  <1>2. CASE pc = "groups"
    <2>1. UNCHANGED vars
      BY <1>2 DEF Crash, TableDone
    <2>2. arity' = arity /\ Overrider' = Overrider
      BY <1>1 DEF arity, Overrider
    <2>3. \A d : MakeGroups(d)' = MakeGroups(d) /\ EntriesMade(d)' = EntriesMade(d)
      BY <1>1, GroupsStable
    <2>4. GroupsUpTo(dim - 1)'
      BY <1>1, <2>3 DEF TablesInv, GroupsUpTo
    <2> QED BY <1>2, <2>1, <2>2, <2>4 DEF TablesInv, vars
  <1>3. CASE pc # "groups"
    <2>1. /\ arity' = arity /\ Overrider' = Overrider /\ Cells' = Cells
          /\ IsMethod(method)' /\ GroupsUpTo(arity)' /\ Cells \in Nat \ {0}
          /\ \A n : /\ MaskOfCell(n)' = MaskOfCell(n) /\ OverriderOfCell(n)' = OverriderOfCell(n)
                    /\ NextOf(MaskOfCell(n))' = NextOf(MaskOfCell(n))
                    /\ Several(n)' = Several(n)
                    /\ Crashing(n)' = Crashing(n)
      BY <1>1, <1>3, CellsKept
    <2>2. arity \in Nat \ {0} /\ dim = arity + 1
      BY <1>3, OverridersAreNumbers DEF TablesInv
    <2>3. PICK k \in 0 .. Cells : /\ Filled(k) /\ Reported(k) /\ Linked(k)
                                  /\ pc = "done" => k = Cells
      BY <1>3 DEF TablesInv
    <2>4. Filled(k)' /\ Linked(k)'
      BY <1>1, <2>1, <2>3 DEF Filled, Linked
    <2>5. /\ report' \in [cells : Nat, not_implemented : Nat, ambiguous : Nat]
          /\ report'.not_implemented = report.not_implemented
          /\ report'.ambiguous = report.ambiguous
      BY <1>1, <2>1, <2>3 DEF Reported
    <2>6. Reported(k)'
      BY <2>1, <2>3, <2>5 DEF Reported
    <2>7. pc' = "done" => k = Cells
      <3>1. Len(dispatch_table) = k
        BY <2>3 DEF Filled
      <3> QED BY <2>3, <3>1 DEF Crash, TableDone, vars
    <2>8. (\E c \in 0 .. Cells : Filled(c) /\ Reported(c) /\ Linked(c) /\ (pc = "done" => c = Cells))'
      BY <2>1, <2>4, <2>6, <2>7
    <2>9. GroupsUpTo(dim - 1)' /\ (dim \in 1 .. arity + 1)' /\ (dim = arity + 1)'
      <3>1. dim' - 1 = arity
        BY <1>1, <2>2
      <3> QED BY <1>1, <2>1, <2>2, <3>1 DEF GroupsUpTo
    <2>10. pc' \in {"cells", "done", "crashed"}
      BY <1>3 DEF TablesInv, Crash, TableDone, vars
    <2>11. pc' = "crashed" => (\E n \in 0 .. Cells - 1 : Crashing(n))'
      <3>1. CASE Crash
        <4>1. Len(dispatch_table) \in Nat
          BY <2>3 DEF Filled
        <4>2. Len(dispatch_table) \in 0 .. Cells - 1 /\ Crashing(Len(dispatch_table))
          BY <2>1, <3>1, <4>1 DEF Crash, Crashing
        <4> QED BY <2>1, <4>2
      <3>2. CASE TableDone
        BY <3>2 DEF TableDone
      <3>3. CASE UNCHANGED vars
        BY <2>1, <3>3 DEF TablesInv, vars
      <3> QED BY <3>1, <3>2, <3>3
    <2> QED BY <2>1, <2>8, <2>9, <2>10, <2>11 DEF TablesInv
  <1> QED BY <1>2, <1>3

LEMMA TablesInvariant == Spec => []TablesInv
  <1>1. TablesInv /\ [Next]_vars => TablesInv'
    BY TablesStepGroups, TablesStepCell, TablesStepEnd DEF Next
  <1> QED BY <1>1, TablesInit, PTL DEF Spec


-----------------------------------------------------------------------------
(* What calls run.                                                         *)

(* A complete table, as seen by a call.                                    *)
LEMMA DoneIs ==
  ASSUME TablesInv, pc = "done"
  PROVE  /\ IsMethod(method) /\ GroupsReady /\ Cells \in Nat \ {0}
         /\ Reported(Cells) /\ Linked(Cells)
         /\ \A t \in Calls :
              /\ CellOf(t) \in 0 .. Cells - 1 /\ MaskOfCell(CellOf(t)) = Applicable(t)
              /\ Applicable(t) \in SUBSET Overrider
              /\ Called(t) = OverriderOfCell(CellOf(t)) /\ Called(t) # crash
              /\ Called(t) = Selected(Dominants(Applicable(t)))
  <1>1. IsMethod(method) /\ arity \in Nat \ {0} /\ dim = arity + 1 /\ GroupsUpTo(dim - 1)
    BY OverridersAreNumbers DEF TablesInv
  <1>2. GroupsReady
    <2>1. dim - 1 = arity
      BY <1>1
    <2> QED BY <1>1, <2>1 DEF GroupsReady
  <1>3. Cells \in Nat \ {0}
    BY <1>1, <1>2, GridIsReady
  <1>4. Filled(Cells) /\ Reported(Cells) /\ Linked(Cells)
    BY DEF TablesInv
  <1>5. ASSUME NEW t \in Calls
        PROVE  /\ CellOf(t) \in 0 .. Cells - 1 /\ MaskOfCell(CellOf(t)) = Applicable(t)
               /\ Applicable(t) \in SUBSET Overrider
               /\ Called(t) = OverriderOfCell(CellOf(t)) /\ Called(t) # crash
               /\ Called(t) = Selected(Dominants(Applicable(t)))
    <2>1. /\ CellOf(t) \in 0 .. Cells - 1 /\ MaskOfCell(CellOf(t)) = Applicable(t)
          /\ Applicable(t) \in SUBSET Overrider
      BY <1>1, <1>2, CallReadsItsMask
    <2>2. CellOf(t) + 1 \in 1 .. Cells /\ (CellOf(t) + 1) - 1 = CellOf(t)
      BY <1>3, <2>1
    <2>3. Called(t) = OverriderOfCell(CellOf(t))
      BY <1>4, <2>2 DEF Filled, Called
    <2>4. OverriderOfCell(CellOf(t)) # crash
      BY <1>4, <2>1 DEF Filled
    <2> QED BY <2>1, <2>3, <2>4 DEF OverriderOfCell
  <1> QED BY <1>1, <1>2, <1>3, <1>4, <1>5

(* Whatever the lattice, a call runs the overrider that dominates all the  *)
(* others applicable to it, if there is one, and never one that is not     *)
(* applicable: the cell that the call reads was made for the overriders    *)
(* applicable to its classes, and no comparison removes the best of them.  *)
THEOREM BestIsCalled == Spec => []BestOverriderCalled
  <1>1. TablesInv => BestOverriderCalled
    <2> SUFFICES ASSUME TablesInv, pc = "done", NEW t \in Calls
                 PROVE  /\ Called(t) \in Applicable(t) \cup {not_implemented, ambiguous}
                        /\ \A s \in Applicable(t) :
                             (\A r \in Applicable(t) \ {s} : Dominates(s, r)) => Called(t) = s
      BY DEF BestOverriderCalled
    <2> DEFINE S == Applicable(t)
               D == Sift(Candidates(S))
    <2>1. /\ IsMethod(method) /\ S \in SUBSET Overrider
          /\ Called(t) = Selected(Dominants(S)) /\ Called(t) # crash
      BY DoneIs
    <2>2. /\ Called(t) \in S \cup {not_implemented, ambiguous, crash}
          /\ \A s : Remaining(D) = {s} => Called(t) = s
      <3> HIDE DEF S
      <3> QED BY <2>1, SelectedIs
    <2>3. ASSUME NEW s \in S, \A r \in S \ {s} : Dominates(s, r) PROVE Called(t) = s
      <3>1. Undominating(D, S)
        <4> HIDE DEF S
        <4> QED BY <2>1, SiftedCandidates
      <3>2. \A r \in S : ~ Dominates(r, s)
        BY <2>3 DEF Dominates
      <3>3. D[s] = s /\ \A x \in Overrider : D[x] = x => x = s
        <4> HIDE DEF S, D
        <4> QED BY <2>1, <2>3, <3>1, <3>2 DEF Undominating
      <3>4. Remaining(D) = {x \in Overrider : D[x] = x}
        <4> HIDE DEF D
        <4> QED BY <2>1, <3>1, RemainingSifted DEF Undominating
      <3>5. Remaining(D) = {s}
        <4> HIDE DEF D
        <4> QED BY <2>1, <3>3, <3>4
      <3> QED BY <2>2, <3>5
    <2> HIDE DEF S
    <2>4. Called(t) \in S \cup {not_implemented, ambiguous}
      BY <2>1, <2>2
    <2> QED BY <2>3, <2>4 DEF S
  <1> QED BY <1>1, TablesInvariant, PTL

(* If dominance is transitive, every overrider that is dominated is so by  *)
(* one that is not.                                                        *)
LEMMA UndominatedAbove ==
  ASSUME NEW S, IsFiniteSet(S), DominanceTransitive(S), NEW s \in S
  PROVE  \E u \in Undominated(S) : u = s \/ Dominates(u, s)
  <1> DEFINE Above(x) == {r \in S : Dominates(r, x)}
             From     == {x \in S : x = s \/ Dominates(x, s)}
             Family   == {Above(x) : x \in From}
  <1>1. \A x, y, z \in S : Dominates(x, y) /\ Dominates(y, z) => Dominates(x, z)
    BY DEF DominanceTransitive
  <1>2. Family # {} /\ Family \subseteq FiniteSubsetsOf(S)
    <2>1. FiniteSubsetsOf(S) = SUBSET S
      BY FS_FiniteSubsetsOfFinite
    <2>2. Above(s) \in Family
      OBVIOUS
    <2>3. Family \subseteq SUBSET S
      OBVIOUS
    <2> QED BY <2>1, <2>2, <2>3
  <1>3. \E F \in Family : \A G \in Family : ~ (<<G, F>> \in StrictSubsetOrdering(S))
    <2> HIDE DEF Family
    <2> QED BY <1>2, FS_StrictSubsetOrderingWellFounded, WFMin
  <1>4. PICK u \in From : \A G \in Family : ~ (<<G, Above(u)>> \in StrictSubsetOrdering(S))
    BY <1>3
  <1>5. ASSUME NEW r \in S, Dominates(r, u) PROVE FALSE
    <2>1. r \in From
      BY <1>1, <1>5
    <2>2. Above(r) \in Family /\ Above(r) \subseteq Above(u)
      BY <1>1, <1>5, <2>1
    <2>3. r \notin Above(r) /\ r \in Above(u)
      BY <1>5 DEF Dominates
    <2>4. <<Above(r), Above(u)>> \in StrictSubsetOrdering(S)
      BY <2>2, <2>3 DEF StrictSubsetOrdering
    <2> QED BY <1>4, <2>2, <2>4
  <1> QED BY <1>5 DEF Undominated

(* Then those that are left are those that no other one dominates.         *)
LEMMA TransitiveSift ==
  ASSUME IsMethod(method), NEW S \in SUBSET Overrider, DominanceTransitive(S)
  PROVE  /\ Remaining(Sift(Candidates(S))) = Undominated(S)
         /\ IsFiniteSet(Undominated(S)) /\ (S # {} => Undominated(S) # {})
  <1> DEFINE D == Sift(Candidates(S))
  <1>1. IsFiniteSet(S)
    BY OverridersAreNumbers, FS_Subset
  <1>2. Undominating(D, S)
    BY SiftedCandidates
  <1>3. Remaining(D) = {x \in Overrider : D[x] = x} /\ IsFiniteSet(Remaining(D))
    <2> HIDE DEF D
    <2> QED BY <1>2, RemainingSifted DEF Undominating
  <1> HIDE DEF D
  <1>4. \A x \in Undominated(S) : x \in Remaining(D)
    BY <1>2, <1>3 DEF Undominating, Undominated
  <1>5. ASSUME NEW x \in Remaining(D) PROVE x \in Undominated(S)
    <2>1. x \in S /\ D[x] = x /\ x \in Overrider
      BY <1>2, <1>3 DEF Undominating
    <2>2. PICK u \in Undominated(S) : u = x \/ Dominates(u, x)
      BY <1>1, <2>1, UndominatedAbove
    <2>3. u \in Overrider /\ D[u] = u
      BY <1>3, <1>4
    <2> QED BY <1>2, <2>1, <2>2, <2>3 DEF Undominating
  <1>6. Remaining(D) = Undominated(S)
    BY <1>4, <1>5
  <1>7. ASSUME S # {} PROVE Undominated(S) # {}
    <2>1. PICK x \in S : TRUE
      BY <1>7
    <2> QED BY <1>1, <2>1, UndominatedAbove
  <1> QED BY <1>3, <1>6, <1>7 DEF D

(* Without n2216, what is selected is then what is documented.             *)
LEMMA SelectedIsBest ==
  ASSUME IsMethod(method), ~ method.n2216, NEW S \in SUBSET Overrider, DominanceTransitive(S)
  PROVE  {Selected(Dominants(S))} = BestOf(S)
  <1> DEFINE U == Undominated(S)
             selected == Selected(Dominants(S))
  <1>1. /\ Remaining(Sift(Candidates(S))) = U
        /\ IsFiniteSet(U) /\ (S # {} => U # {})
    BY TransitiveSift
  <1>2. /\ selected \in S \cup {not_implemented, ambiguous, crash}
        /\ selected = crash => method.n2216
        /\ \A s : U = {s} => selected = s
        /\ selected = not_implemented <=> U = {}
        /\ selected = ambiguous <=> Cardinality(U) > 1
    BY <1>1, SelectedIs
  <1>3. BestOf(S) = IF S = {} THEN {not_implemented}
                    ELSE IF Cardinality(U) = 1 THEN U ELSE {ambiguous}
    BY DEF BestOf, Undominated
  <1>4. U \subseteq S /\ Cardinality(U) \in Nat /\ (Cardinality(U) = 0 => U = {})
    BY <1>1, FS_CardinalityType, FS_EmptySet DEF Undominated
  <1>5. {selected} = BestOf(S)
    <2> HIDE DEF U, selected
    <2>1. CASE S = {}
      BY <1>2, <1>3, <1>4, <2>1
    <2>2. CASE S # {} /\ Cardinality(U) = 1
      <3>1. PICK s : U = {s}
        BY <1>1, <2>2, FS_Singleton
      <3> QED BY <1>2, <1>3, <2>2, <3>1
    <2>3. CASE S # {} /\ Cardinality(U) # 1
      <3>1. Cardinality(U) > 1
        BY <1>1, <1>4, <2>3
      <3> QED BY <1>2, <1>3, <2>3, <3>1
    <2> QED BY <2>1, <2>2, <2>3
  <1> QED BY <1>5 DEF selected

(* Whenever dominance is transitive among the overriders applicable to a   *)
(* call, the order in which they were registered does not matter: the call *)
(* gets the one that the documented rules select, or their error.          *)
THEOREM CallsAreDocumented == Spec => []CallsDocumentedIfTransitive
  <1>1. TablesInv => CallsDocumentedIfTransitive
    <2> SUFFICES ASSUME TablesInv, pc = "done", ~ method.n2216, NEW t \in Calls,
                        DominanceTransitive(Applicable(t))
                 PROVE  {Called(t)} = BestOf(Applicable(t))
      BY DEF CallsDocumentedIfTransitive
    <2>1. /\ IsMethod(method) /\ Applicable(t) \in SUBSET Overrider
          /\ Called(t) = Selected(Dominants(Applicable(t)))
      BY DoneIs
    <2> QED BY <2>1, SelectedIsBest
  <1> QED BY <1>1, TablesInvariant, PTL


-----------------------------------------------------------------------------
(* What is reported, and when the compilation crashes.                     *)

(* The report counts the cells without an overrider, or without a single   *)
(* one; it speaks of calls because every cell is read by some call: there  *)
(* is no group without a class.                                            *)
THEOREM ReportIsFaithful == Spec => []ReportFaithful
  <1>1. TablesInv => ReportFaithful
    <2> SUFFICES ASSUME TablesInv, pc = "done" PROVE ReportFaithful
      BY DEF ReportFaithful
    <2>1. /\ IsMethod(method) /\ GroupsReady /\ Reported(Cells)
          /\ \A t \in Calls :
               /\ CellOf(t) \in 0 .. Cells - 1 /\ MaskOfCell(CellOf(t)) = Applicable(t)
               /\ Applicable(t) \in SUBSET Overrider
               /\ Called(t) = OverriderOfCell(CellOf(t))
      BY DoneIs
    <2>2. \A n \in 0 .. Cells - 1 : \E t \in Calls : CellOf(t) = n
      BY <2>1, EveryCellIsRead
    <2>3. /\ report.not_implemented > 0
                <=> \E n \in 0 .. Cells - 1 : OverriderOfCell(n) = not_implemented
          /\ report.ambiguous > 0 <=> \E n \in 0 .. Cells - 1 : Several(n)
      BY <2>1 DEF Reported
    <2>4. report.not_implemented > 0 <=> \E t \in Calls : Called(t) = not_implemented
      BY <2>1, <2>2, <2>3
    <2>5. ASSUME ~ method.n2216, NEW t \in Calls
          PROVE  Several(CellOf(t)) <=> Called(t) = ambiguous
      <3> DEFINE S == Applicable(t)
                 D == Sift(Candidates(S))
      <3>1. S \in SUBSET Overrider
        BY <2>1
      <3>2. Dominants(S) = D /\ (Selected(Dominants(S)) = ambiguous <=> Cardinality(Remaining(D)) > 1)
        <4> HIDE DEF S
        <4> QED BY <2>1, <2>5, <3>1, SelectedIs
      <3> QED BY <2>1, <3>2 DEF Several, OverriderOfCell
    <2>6. ASSUME ~ method.n2216
          PROVE  report.ambiguous > 0 <=> \E t \in Calls : Called(t) = ambiguous
      BY <2>1, <2>2, <2>3, <2>5, <2>6
    <2> QED BY <2>4, <2>6 DEF ReportFaithful
  <1> QED BY <1>1, TablesInvariant, PTL

(* A selection that crashes had three candidates left, none of which       *)
(* dominates another.                                                      *)
LEMMA CrashingSelection ==
  ASSUME IsMethod(method), NEW S \in SUBSET Overrider, Selected(Dominants(S)) = crash
  PROVE  /\ method.n2216 /\ method.returns # << >>
         /\ \E T \in SUBSET S : Cardinality(T) > 2 /\ \A a, b \in T : ~ Dominates(a, b)
  <1> DEFINE D == Sift(Candidates(S))
  <1>1. Undominating(D, S)
    BY SiftedCandidates
  <1>2. method.n2216 /\ method.returns # << >> /\ Three(D)
    BY SelectedIs
  <1>3. Overrider \subseteq Nat
    BY OverridersAreNumbers
  <1> HIDE DEF D
  <1>4. PICK i, j, k \in Overrider : i < j /\ j < k /\ D[i] = i /\ D[j] = j /\ D[k] = k
    BY <1>2 DEF Three
  <1> DEFINE T == {i, j, k}
  <1>5. i # j /\ i # k /\ j # k
    BY <1>3, <1>4
  <1>6. T \in SUBSET S
    BY <1>1, <1>4 DEF Undominating
  <1>7. \A a, b \in T : ~ Dominates(a, b)
    <2>1. \A a, b \in T : a # b => ~ Dominates(a, b)
      BY <1>1, <1>4 DEF Undominating
    <2>2. \A a : ~ Dominates(a, a)
      BY DEF Dominates
    <2> QED BY <2>1, <2>2
  <1>8. Cardinality(T) = 3
    <2>1. IsFiniteSet({i}) /\ Cardinality({i}) = 1
      BY FS_Singleton
    <2>2. IsFiniteSet({i} \cup {j}) /\ Cardinality({i} \cup {j}) = 2
      BY <1>5, <2>1, FS_AddElement
    <2>5. k \notin {i} \cup {j}
      BY <1>5
    <2>6. Cardinality(({i} \cup {j}) \cup {k}) = Cardinality({i} \cup {j}) + 1
      BY <2>2, <2>5, FS_AddElement
    <2>3. Cardinality(({i} \cup {j}) \cup {k}) = 3
      BY <2>2, <2>6
    <2>4. T = ({i} \cup {j}) \cup {k}
      OBVIOUS
    <2> QED BY <2>3, <2>4
  <1> HIDE DEF T
  <1> QED BY <1>2, <1>6, <1>7, <1>8

(* The compilation follows a null pointer only with the n2216 policy, for  *)
(* a method that returns a registered class, and when three overriders     *)
(* applicable to one call are such that none dominates another.            *)
THEOREM CrashNeedsThree == Spec => []CrashOnlyWithThree
  <1>1. TablesInv => CrashOnlyWithThree
    <2> SUFFICES ASSUME TablesInv, pc = "crashed"
                 PROVE  /\ method.n2216 /\ method.returns # << >>
                        /\ \E S \in SUBSET Overrider :
                             /\ Cardinality(S) > 2
                             /\ \E t \in Calls : S \subseteq Applicable(t)
                             /\ \A a, b \in S : ~ Dominates(a, b)
      BY DEF CrashOnlyWithThree
    <2>1. IsMethod(method) /\ arity \in Nat \ {0} /\ dim = arity + 1 /\ GroupsUpTo(dim - 1)
      BY OverridersAreNumbers DEF TablesInv
    <2>2. GroupsReady
      <3>1. dim - 1 = arity
        BY <2>1
      <3> QED BY <2>1, <3>1 DEF GroupsReady
    <2>3. PICK n \in 0 .. Cells - 1 : Crashing(n)
      BY DEF TablesInv
    <2>4. PICK t \in Calls : CellOf(t) = n
      BY <2>1, <2>2, EveryCellIsRead
    <2>5. MaskOfCell(n) = Applicable(t) /\ Applicable(t) \in SUBSET Overrider
      BY <2>1, <2>2, <2>4, CallReadsItsMask
    <2>6. PICK M \in SUBSET Applicable(t) : Selected(Dominants(M)) = crash
      <3> DEFINE A == Applicable(t)
                 rest == A \ Remaining(Dominants(A))
      <3>1. crash \in {Selected(Dominants(A)), Selected(Dominants(rest))}
        BY <2>3, <2>5 DEF Crashing, OverriderOfCell, NextOf
      <3>2. A \in SUBSET A /\ rest \in SUBSET A
        OBVIOUS
      <3> HIDE DEF A, rest
      <3>3. \E M \in SUBSET A : Selected(Dominants(M)) = crash
        BY <3>1, <3>2
      <3> QED BY <3>3 DEF A
    <2>7. M \in SUBSET Overrider
      BY <2>5
    <2>8. /\ method.n2216 /\ method.returns # << >>
          /\ \E T \in SUBSET M : Cardinality(T) > 2 /\ \A a, b \in T : ~ Dominates(a, b)
      BY <2>1, <2>6, <2>7, CrashingSelection
    <2> QED BY <2>5, <2>8
  <1> QED BY <1>1, TablesInvariant, PTL


-----------------------------------------------------------------------------
(* What is next.                                                           *)

(* Each overrider that a call runs got its next from a cell that selects   *)
(* it, and that some call reads.                                           *)
LEMMA NextIsOfCall ==
  ASSUME TablesInv, pc = "done", NEW s \in Overrider, next[s] # Null \/ \E t \in Calls : Called(t) = s
  PROVE  /\ next[s] # crash
         /\ \E t \in Calls : Called(t) = s /\ next[s] = NextOf(Applicable(t))
  <1>1. /\ IsMethod(method) /\ GroupsReady /\ Linked(Cells)
        /\ \A t \in Calls :
             /\ CellOf(t) \in 0 .. Cells - 1 /\ MaskOfCell(CellOf(t)) = Applicable(t)
             /\ Called(t) = OverriderOfCell(CellOf(t))
    BY DoneIs
  <1>2. next[s] # crash
        /\ \E n \in 0 .. Cells - 1 : OverriderOfCell(n) = s /\ next[s] = NextOf(MaskOfCell(n))
    BY <1>1 DEF Linked
  <1>3. PICK n \in 0 .. Cells - 1 : OverriderOfCell(n) = s /\ next[s] = NextOf(MaskOfCell(n))
    BY <1>2
  <1>4. PICK t \in Calls : CellOf(t) = n
    BY <1>1, EveryCellIsRead
  <1> QED BY <1>1, <1>2, <1>3, <1>4

(* With n2216 a call always runs an applicable overrider, if there is one; *)
(* it has an overrider or not_implemented for next; and when dominance is  *)
(* transitive, it is not dominated, and none of those that are not returns *)
(* a class that derives from its own.                                      *)
THEOREM N2216IsDocumented == Spec => []N2216Documented
  <1>1. TablesInv => N2216Documented
    <2> SUFFICES ASSUME TablesInv, pc = "done", method.n2216, NEW t \in Calls
                 PROVE  LET S == Applicable(t)
                        IN IF S = {} THEN Called(t) = not_implemented
                           ELSE /\ Called(t) \in S
                                /\ next[Called(t)] \in Overrider \cup {not_implemented}
                                /\ DominanceTransitive(S) => Called(t) \in BestReturns(Undominated(S))
      BY DEF N2216Documented
    <2> DEFINE S == Applicable(t)
               D == Sift(Candidates(S))
    <2>1. /\ IsMethod(method) /\ S \in SUBSET Overrider
          /\ Called(t) = Selected(Dominants(S)) /\ Called(t) # crash
      BY DoneIs
    <2>2. IF S = {} THEN Called(t) = not_implemented
          ELSE /\ Called(t) \in Remaining(D) /\ Called(t) \in S
               /\ method.returns # << >> =>
                    \A r \in Remaining(D) :
                      ~ Derives(method.returns[r], method.returns[Called(t)])
      <3> HIDE DEF S
      <3> QED BY <2>1, SelectedReturns
    <2>3. ASSUME S # {} PROVE next[Called(t)] \in Overrider \cup {not_implemented}
      <3>1. Called(t) \in Overrider
        <4> HIDE DEF S
        <4> QED BY <2>1, <2>2, <2>3
      <3>2. next[Called(t)] # crash /\ \E u \in Calls : next[Called(t)] = NextOf(Applicable(u))
        BY <3>1, NextIsOfCall
      <3>3. PICK u \in Calls : next[Called(t)] = NextOf(Applicable(u))
        BY <3>2
      <3> DEFINE rest == Applicable(u) \ Remaining(Dominants(Applicable(u)))
      <3>4. rest \in SUBSET Overrider
        BY DoneIs
      <3>5. next[Called(t)] = Selected(Dominants(rest)) /\ Selected(Dominants(rest)) # crash
        BY <3>2, <3>3 DEF NextOf
      <3> HIDE DEF rest
      <3>6. Selected(Dominants(rest)) \in rest \cup {not_implemented}
        BY <2>1, <3>4, <3>5, SelectedReturns
      <3> QED BY <3>4, <3>5, <3>6
    <2>4. ASSUME S # {}, DominanceTransitive(S) PROVE Called(t) \in BestReturns(Undominated(S))
      <3>1. Remaining(D) = Undominated(S)
        <4> HIDE DEF S
        <4> QED BY <2>1, <2>4, TransitiveSift
      <3> HIDE DEF S, D
      <3> QED BY <2>2, <2>4, <3>1 DEF BestReturns
    <2> HIDE DEF S, D
    <2>5. IF S = {} THEN Called(t) = not_implemented
          ELSE /\ Called(t) \in S
               /\ next[Called(t)] \in Overrider \cup {not_implemented}
               /\ DominanceTransitive(S) => Called(t) \in BestReturns(Undominated(S))
      BY <2>2, <2>3, <2>4
    <2> QED BY <2>5 DEF S
  <1> QED BY <1>1, TablesInvariant, PTL

(* Without n2216 and with transitive dominance, the overrider called is the*)
(* only one that is not dominated, it dominates all the others, and next is*)
(* the best of these.                                                      *)
LEMMA CalledDominates ==
  ASSUME IsMethod(method), ~ method.n2216, NEW S \in SUBSET Overrider, DominanceTransitive(S),
         NEW s \in Overrider, Selected(Dominants(S)) = s
  PROVE  /\ s \in S /\ \A r \in S \ {s} : Dominates(s, r)
         /\ NextOf(S) = Selected(Dominants(S \ {s}))
  <1> DEFINE U == Undominated(S)
             D == Sift(Candidates(S))
  <1>1. Remaining(D) = U /\ IsFiniteSet(U) /\ IsFiniteSet(S)
    BY TransitiveSift, OverridersAreNumbers, FS_Subset
  <1>2. not_implemented \notin Overrider /\ ambiguous \notin Overrider /\ crash \notin Overrider
    BY OverridersAreNumbers
  <1>3. /\ Dominants(S) = D /\ \A x : Remaining(D) = {x} => s = x
        /\ s = not_implemented <=> Remaining(D) = {}
        /\ s = ambiguous <=> Cardinality(Remaining(D)) > 1
    BY SelectedIs
  <1>4. U = {s}
    <2> HIDE DEF U, D
    <2>1. U # {} /\ ~ (Cardinality(U) > 1) /\ Cardinality(U) \in Nat
      BY <1>1, <1>2, <1>3, FS_CardinalityType
    <2>2. Cardinality(U) = 1
      BY <1>1, <2>1, FS_EmptySet
    <2>3. PICK x : U = {x}
      BY <1>1, <2>2, FS_Singleton
    <2> QED BY <1>1, <1>3, <2>3
  <1>5. s \in S
    BY <1>4 DEF Undominated
  <1>6. ASSUME NEW r \in S \ {s} PROVE Dominates(s, r)
    <2>1. PICK u \in U : u = r \/ Dominates(u, r)
      BY <1>1, UndominatedAbove
    <2> QED BY <1>4, <2>1
  <1>7. Remaining(Dominants(S)) = {s}
    BY <1>1, <1>3, <1>4
  <1> QED BY <1>5, <1>6, <1>7 DEF NextOf

(* Without n2216 and with transitive dominance, no overriders call each    *)
(* other's next in a circle: each dominates its next.                      *)
THEOREM ChainsOfNextEnd == Spec => []NextChainsEnd
  <1>1. TablesInv => NextChainsEnd
    <2> SUFFICES ASSUME TablesInv, pc = "done", ~ method.n2216, DominanceTransitive(Overrider),
                        NEW S \in SUBSET Overrider, S # {}, \A s \in S : next[s] \in S
                 PROVE  FALSE
      BY DEF NextChainsEnd
    <2>0. IsMethod(method)
      BY DEF TablesInv
    <2>1. ASSUME NEW s \in S PROVE next[s] \in S /\ Dominates(s, next[s])
      <3>1. next[s] \in Overrider /\ next[s] # Null /\ s \in Overrider
        BY <2>0, OverridersAreNumbers
      <3>2. PICK t \in Calls : Called(t) = s /\ next[s] = NextOf(Applicable(t))
        BY <3>1, NextIsOfCall
      <3> DEFINE A == Applicable(t)
      <3>3. A \in SUBSET Overrider /\ Selected(Dominants(A)) = s
        BY <3>2, DoneIs
      <3>4. DominanceTransitive(A) /\ DominanceTransitive(A \ {s})
        BY <3>3 DEF DominanceTransitive
      <3> HIDE DEF A
      <3>5. (\A r \in A \ {s} : Dominates(s, r)) /\ NextOf(A) = Selected(Dominants(A \ {s}))
        BY <2>0, <3>1, <3>3, <3>4, CalledDominates
      <3>6. /\ A \ {s} \in SUBSET Overrider
            /\ Selected(Dominants(A \ {s})) \in (A \ {s}) \cup {not_implemented, ambiguous, crash}
        BY <2>0, <3>3, SelectedIs
      <3>7. next[s] \in A \ {s}
        BY <2>0, <3>1, <3>2, <3>5, <3>6, OverridersAreNumbers DEF A
      <3> QED BY <3>5, <3>7
    <2>2. \A x, y, z \in S : Dominates(x, y) /\ Dominates(y, z) => Dominates(x, z)
      BY DEF DominanceTransitive
    <2>3. IsFiniteSet(S)
      BY <2>0, OverridersAreNumbers, FS_Subset
    <2> DEFINE Under(x) == {r \in S : Dominates(x, r)}
               Family   == {Under(x) : x \in S}
    <2>4. Family # {} /\ Family \subseteq FiniteSubsetsOf(S)
      <3>1. FiniteSubsetsOf(S) = SUBSET S
        BY <2>3, FS_FiniteSubsetsOfFinite
      <3>2. Family # {}
        OBVIOUS
      <3>3. Family \subseteq SUBSET S
        OBVIOUS
      <3> QED BY <3>1, <3>2, <3>3
    <2>5. \E F \in Family : \A G \in Family : ~ (<<G, F>> \in StrictSubsetOrdering(S))
      <3> HIDE DEF Family
      <3> QED BY <2>3, <2>4, FS_StrictSubsetOrderingWellFounded, WFMin
    <2>6. PICK s \in S : \A G \in Family : ~ (<<G, Under(s)>> \in StrictSubsetOrdering(S))
      BY <2>5
    <2>7. Under(next[s]) \in Family /\ Under(next[s]) \subseteq Under(s)
      BY <2>1, <2>2
    <2>8. next[s] \notin Under(next[s]) /\ next[s] \in Under(s)
      BY <2>1 DEF Dominates
    <2>9. <<Under(next[s]), Under(s)>> \in StrictSubsetOrdering(S)
      BY <2>7, <2>8 DEF StrictSubsetOrdering
    <2> QED BY <2>6, <2>7, <2>9
  <1> QED BY <1>1, TablesInvariant, PTL


(* The classes of a are those of b, or derive from them.                   *)
Within(a, b) == \A i \in 1 .. arity : method.specs[a][i] \in Covariant(method.specs[b][i])

Simple == arity = 1 \/ SingleInheritanceOnly

(* With one virtual parameter or with single inheritance, an overrider     *)
(* dominates another for some call when it specializes it in no parameter  *)
(* less and in some parameter more.                                        *)
LEMMA SimpleDominance ==
  ASSUME IsMethod(method), Simple, NEW t \in Calls,
         NEW a \in Applicable(t), NEW b \in Applicable(t)
  PROVE  Dominates(a, b)
           <=> Within(a, b) /\ \E i \in 1 .. arity : method.specs[a][i] # method.specs[b][i]
  <1> DEFINE A(i) == method.specs[a][i]
             B(i) == method.specs[b][i]
  <1>1. a \in Overrider /\ b \in Overrider /\ arity \in Nat \ {0}
    BY OverridersAreNumbers DEF Applicable
  <1>2. \A i \in 1 .. arity : /\ A(i) \in Class /\ B(i) \in Class
                              /\ A(i) \in Covariant(A(i)) /\ B(i) \in Covariant(B(i))
                              /\ t[i] \in Covariant(A(i)) /\ t[i] \in Covariant(B(i))
    BY <1>1, ClassesAreOrdered DEF Applicable
  <1>3. \A x, y \in Class : x \in Covariant(y) /\ y \in Covariant(x) => x = y
    BY ClassesAreOrdered
  <1>4. Dominates(a, b) <=> /\ \E i \in 1 .. arity : A(i) # B(i) /\ A(i) \in Covariant(B(i))
                            /\ ~ \E i \in 1 .. arity : B(i) # A(i) /\ B(i) \in Covariant(A(i))
    BY DEF Dominates, Derives
  <1>5. Within(a, b) <=> \A i \in 1 .. arity : A(i) \in Covariant(B(i))
    BY DEF Within
  <1>6. ASSUME SingleInheritanceOnly, NEW i \in 1 .. arity
        PROVE  A(i) \in Covariant(B(i)) \/ B(i) \in Covariant(A(i))
    <2>1. Covariant(A(i)) \cap Covariant(B(i)) \in {{}, Covariant(A(i)), Covariant(B(i))}
      BY <1>2, <1>6 DEF SingleInheritanceOnly
    <2> QED BY <1>2, <1>3, <2>1
  <1> HIDE DEF A, B
  <1>7. ASSUME Dominates(a, b), NEW i \in 1 .. arity PROVE A(i) \in Covariant(B(i))
    <2>1. CASE arity = 1
      BY <1>4, <1>7, <2>1
    <2>2. CASE SingleInheritanceOnly
      BY <1>2, <1>3, <1>4, <1>6, <1>7, <2>2
    <2> QED BY <2>1, <2>2 DEF Simple
  <1>8. Dominates(a, b) <=> Within(a, b) /\ \E i \in 1 .. arity : A(i) # B(i)
    BY <1>2, <1>3, <1>4, <1>5, <1>7
  <1> QED BY <1>8 DEF A, B

LEMMA SimpleIsTransitive ==
  ASSUME IsMethod(method), Simple, NEW t \in Calls
  PROVE  DominanceTransitive(Applicable(t))
  <1> SUFFICES ASSUME NEW a \in Applicable(t), NEW b \in Applicable(t), NEW c \in Applicable(t),
                      Dominates(a, b), Dominates(b, c)
               PROVE  Dominates(a, c)
    BY DEF DominanceTransitive
  <1> DEFINE A(i) == method.specs[a][i]
             B(i) == method.specs[b][i]
             C(i) == method.specs[c][i]
  <1>1. /\ Within(a, b) /\ \E i \in 1 .. arity : A(i) # B(i)
        /\ Within(b, c)
        /\ Dominates(a, c) <=> Within(a, c) /\ \E i \in 1 .. arity : A(i) # C(i)
    BY SimpleDominance
  <1>2. \A i \in 1 .. arity : A(i) \in Class /\ B(i) \in Class /\ C(i) \in Class
    BY ClassesAreOrdered DEF Applicable
  <1>3. \A i \in 1 .. arity : A(i) \in Covariant(B(i)) /\ B(i) \in Covariant(C(i))
    BY <1>1 DEF Within
  <1>4. /\ \A x, y, z \in Class : x \in Covariant(y) /\ y \in Covariant(z) => x \in Covariant(z)
        /\ \A x, y \in Class : x \in Covariant(y) /\ y \in Covariant(x) => x = y
    BY ClassesAreOrdered
  <1>5. Within(a, c) <=> \A i \in 1 .. arity : A(i) \in Covariant(C(i))
    BY DEF Within
  <1> HIDE DEF A, B, C
  <1>6. Within(a, c)
    BY <1>2, <1>3, <1>4, <1>5
  <1>7. \E i \in 1 .. arity : A(i) # C(i)
    <2>1. PICK i \in 1 .. arity : A(i) # B(i)
      BY <1>1
    <2>2. A(i) = C(i) => A(i) = B(i)
      BY <1>2, <1>3, <1>4
    <2> QED BY <2>1, <2>2
  <1> QED BY <1>1, <1>6, <1>7

(* The overriders applicable to the calls that run s are then always those *)
(* applicable to the classes of s itself.                                  *)
LEMMA SimpleMask ==
  ASSUME IsMethod(method), Simple, NEW t \in Calls, NEW s \in Applicable(t),
         \A r \in Applicable(t) \ {s} : Dominates(s, r)
  PROVE  Applicable(t) = {r \in Overrider : Within(s, r)}
  <1>1. s \in Overrider /\ \A i \in 1 .. arity : t[i] \in Class /\ t[i] \in Covariant(method.specs[s][i])
    BY DEF Applicable, Calls
  <1>2. /\ \A r \in Overrider, i \in 1 .. arity :
             /\ method.specs[r][i] \in Class
             /\ method.specs[r][i] \in Covariant(method.specs[r][i])
        /\ \A x, y, z \in Class : x \in Covariant(y) /\ y \in Covariant(z) => x \in Covariant(z)
    BY ClassesAreOrdered
  <1>3. ASSUME NEW r \in Applicable(t) PROVE Within(s, r)
    <2>1. CASE r = s
      BY <1>1, <1>2, <2>1 DEF Within
    <2>2. CASE r # s
      BY <2>2, SimpleDominance
    <2> QED BY <2>1, <2>2
  <1>4. ASSUME NEW r \in Overrider, Within(s, r) PROVE r \in Applicable(t)
    <2>1. \A i \in 1 .. arity : method.specs[s][i] \in Covariant(method.specs[r][i])
      BY <1>4 DEF Within
    <2>2. \A i \in 1 .. arity : t[i] \in Covariant(method.specs[r][i])
      BY <1>1, <1>2, <2>1
    <2> QED BY <2>2 DEF Applicable
  <1> QED BY <1>3, <1>4 DEF Applicable

(* For a method with one virtual parameter, or without multiple            *)
(* inheritance, next is what the documentation says for every call: all    *)
(* the cells that select an overrider give it the same next.               *)
THEOREM NextIsDocumented == Spec => []NextDocumentedIfSimple
  <1>1. TablesInv => NextDocumentedIfSimple
    <2> SUFFICES ASSUME TablesInv, Simple, pc = "done", ~ method.n2216, NEW t \in Calls,
                        Called(t) \in Overrider
                 PROVE  {next[Called(t)]} = BestOf(Applicable(t) \ {Called(t)})
      BY DEF NextDocumentedIfSimple, NextDocumented, Simple
    <2> DEFINE s == Called(t)
    <2>1. IsMethod(method)
      BY DEF TablesInv
    <2>2. PICK u \in Calls : Called(u) = s /\ next[s] = NextOf(Applicable(u))
      BY NextIsOfCall
    <2>3. /\ Applicable(t) \in SUBSET Overrider /\ s = Selected(Dominants(Applicable(t)))
          /\ Applicable(u) \in SUBSET Overrider /\ s = Selected(Dominants(Applicable(u)))
      BY <2>2, DoneIs
    <2>4. DominanceTransitive(Applicable(t)) /\ DominanceTransitive(Applicable(u))
      BY <2>1, SimpleIsTransitive
    <2> HIDE DEF s
    <2>5. s \in Overrider
      BY DEF s
    <2>6. /\ s \in Applicable(t) /\ \A r \in Applicable(t) \ {s} : Dominates(s, r)
          /\ s \in Applicable(u) /\ \A r \in Applicable(u) \ {s} : Dominates(s, r)
          /\ NextOf(Applicable(u)) = Selected(Dominants(Applicable(u) \ {s}))
      BY <2>1, <2>3, <2>4, <2>5, CalledDominates
    <2>7. Applicable(u) = Applicable(t)
      BY <2>1, <2>6, SimpleMask
    <2>8. DominanceTransitive(Applicable(t) \ {s}) /\ Applicable(t) \ {s} \in SUBSET Overrider
      BY <2>3, <2>4 DEF DominanceTransitive
    <2>9. {Selected(Dominants(Applicable(t) \ {s}))} = BestOf(Applicable(t) \ {s})
      BY <2>1, <2>8, SelectedIsBest
    <2>10. {next[s]} = BestOf(Applicable(t) \ {s})
      BY <2>2, <2>6, <2>7, <2>9
    <2> QED BY <2>10 DEF s
  <1> QED BY <1>1, TablesInvariant, PTL

=============================================================================
