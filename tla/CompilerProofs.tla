--------------------------- MODULE CompilerProofs ---------------------------
(***************************************************************************)
(* Proofs about the registry compiler, for any classes, modules, programs  *)
(* and methods: what augment_classes makes of the records that use_classes *)
(* left behind, which programs are aborted, and that what is handed over to*)
(* assign_slots is what the proofs about slots take for granted.           *)
(***************************************************************************)
EXTENDS Compiler, FoldProofs

-----------------------------------------------------------------------------
(* The operators of the library are the same in the modules of the passes. *)
LEMMA SameLibrary ==
  /\ \A s : Classes!ToSet(s) = ToSet(s) /\ Slots!ToSet(s) = ToSet(s)
  /\ \A s : Classes!IsInjective(s) <=> IsInjective(s)
  /\ \A s : Slots!IsInjective(s) <=> IsInjective(s)
  /\ \A s : Classes!FlattenSeq(s) = FlattenSeq(s)
  /\ \A S : Classes!SetToSeqs(S) = SetToSeqs(S)
  /\ \A S : Classes!Cardinality(S) = Cardinality(S) /\ Slots!Cardinality(S) = Cardinality(S)
  /\ \A S : Classes!Max(S) = Max(S)
  <1>1. \A s : Classes!ToSet(s) = ToSet(s) /\ Slots!ToSet(s) = ToSet(s)
    BY DEF Classes!ToSet, Slots!ToSet, ToSet
  <1>2. \A s : Classes!IsInjective(s) <=> IsInjective(s)
    BY DEF Classes!IsInjective, IsInjective
  <1>3. \A s : Slots!IsInjective(s) <=> IsInjective(s)
    BY DEF Slots!IsInjective, IsInjective
  <1>4. \A s : Classes!FlattenSeq(s) = FlattenSeq(s)
    BY DEF Classes!FlattenSeq, FlattenSeq
  <1>5. \A S : Classes!Cardinality(S) = Cardinality(S) /\ Slots!Cardinality(S) = Cardinality(S)
    BY DEF Classes!Cardinality, Slots!Cardinality, Cardinality
  <1>6. \A S : Classes!SetToSeqs(S) = SetToSeqs(S)
    BY <1>5 DEF Classes!SetToSeqs, SetToSeqs
  <1>7. \A S : Classes!Max(S) = Max(S)
    BY DEF Classes!Max, Max
  <1> QED BY <1>1, <1>2, <1>3, <1>4, <1>5, <1>6, <1>7

-----------------------------------------------------------------------------
(* Programs and their records.                                             *)

LEMMA ProgramFacts ==
  ASSUME NEW p \in Programs
  PROVE  /\ p.bases \in [Class -> SUBSET Class]
         /\ \A c \in Class : c \notin p.bases[c]
         /\ \A c \in Class : \A b \in p.bases[c] : p.bases[b] \subseteq p.bases[c]
         /\ p.abstract \subseteq Class
         /\ Len(p.uses) \in Nat \ {0} /\ DOMAIN p.uses = 1 .. Len(p.uses)
         /\ \A i \in 1 .. Len(p.uses) :
              p.uses[i].module \in Module /\ p.uses[i].list \in Seq(Class) \ {<<>>}
  <1> DEFINE lists == Seq(Class) \ {<<>>}
             U == [module : Module, list : lists]
             uses == p.uses
  <1>1. uses \in Seq(U) /\ uses # <<>>
    BY ProgramsAssumption DEF Classes!IsProgram
  <1>2. /\ p.bases \in [Class -> SUBSET Class]
        /\ \A c \in Class : c \notin p.bases[c]
        /\ \A c \in Class : \A b \in p.bases[c] : p.bases[b] \subseteq p.bases[c]
        /\ p.abstract \subseteq Class
    BY ProgramsAssumption DEF Classes!IsProgram
  <1> HIDE DEF lists, uses, U
  <1>3. Len(uses) \in Nat \ {0} /\ DOMAIN uses = 1 .. Len(uses)
    BY <1>1
  <1>4. \A i \in 1 .. Len(uses) : uses[i] \in U
    BY <1>1
  <1>5. \A i \in 1 .. Len(uses) : uses[i].module \in Module /\ uses[i].list \in lists
    BY <1>4 DEF U
  <1> QED BY <1>2, <1>3, <1>5 DEF uses, lists

Ids == Class \X Module

RecordSet == [type : Ids, bases : SUBSET Ids, is_abstract : BOOLEAN, static_vptr : Ids]

(* The class of a record, and those of its bases that are proper.          *)
ClassOf(r) == r.type[1]

Proper(r) == {b[1] : b \in r.bases} \ {r.type[1]}

IsRecordOf(r, p, list, k) ==
    ClassOf(r) = list[k] /\ Proper(r) = ToSet(list) \cap p.bases[ClassOf(r)]

LEMMA RecordsOfUse ==
  ASSUME NEW p \in Programs, NEW i \in 1 .. Len(p.uses)
  PROVE  /\ Classes!use_classes(p, p.uses[i]) \in Seq(RecordSet)
         /\ DOMAIN Classes!use_classes(p, p.uses[i]) = DOMAIN p.uses[i].list
         /\ \A k \in DOMAIN p.uses[i].list :
              IsRecordOf(Classes!use_classes(p, p.uses[i])[k], p, p.uses[i].list, k)
  <1> DEFINE use == p.uses[i]
             list == use.list
             R == Classes!use_classes(p, use)
  <1>1. list \in Seq(Class) /\ use.module \in Module
    BY ProgramFacts
  <1>2. list \in Seq(Class) /\ use.module \in Module /\ DOMAIN list = 1 .. Len(list) /\ Len(list) \in Nat
    BY <1>1
  <1> HIDE DEF use
  <1>3. \A k \in DOMAIN list : list[k] \in Class
    BY <1>2
  <1>4. ASSUME NEW k \in DOMAIN list
        PROVE  /\ R[k] \in RecordSet
               /\ IsRecordOf(R[k], p, list, k)
    <2> DEFINE cls == list[k]
               B == {b \in ToSet(list) : b = cls \/ b \in p.bases[cls]}
    <2>1. R[k] = [type |-> <<cls, use.module>>, bases |-> {<<b, use.module>> : b \in B},
                  is_abstract |-> cls \in p.abstract, static_vptr |-> <<cls, use.module>>]
      BY SameLibrary DEF Classes!use_classes, Classes!inheritance_map
    <2>2. cls \in Class /\ B \subseteq Class
      BY <1>3 DEF ToSet
    <2>3. cls \notin p.bases[cls]
      BY <2>2, ProgramFacts
    <2>4. R[k] \in RecordSet /\ ClassOf(R[k]) = cls
      BY <1>2, <2>1, <2>2 DEF RecordSet, ClassOf, Ids
    <2>5. {b[1] : b \in R[k].bases} = B
      <3>1. R[k].bases = {<<b, use.module>> : b \in B}
        BY <2>1
      <3>2. \A x \in {<<b, use.module>> : b \in B} : x[1] \in B
        OBVIOUS
      <3>3. \A b \in B : <<b, use.module>> \in {<<c, use.module>> : c \in B} /\ <<b, use.module>>[1] = b
        OBVIOUS
      <3> HIDE DEF B, R
      <3> QED BY <3>1, <3>2, <3>3
    <2>6. Proper(R[k]) = B \ {cls}
      BY <2>4, <2>5 DEF Proper, ClassOf
    <2>7. B \ {cls} = ToSet(list) \cap p.bases[cls]
      BY <2>3
    <2> QED BY <2>4, <2>6, <2>7 DEF IsRecordOf
  <1>5. R \in Seq(RecordSet) /\ DOMAIN R = DOMAIN list
    <2>1. DOMAIN R = 1 .. Len(list)
      BY <1>2 DEF Classes!use_classes
    <2>2. R = [k \in 1 .. Len(list) |-> R[k]]
      BY <1>2 DEF Classes!use_classes
    <2>3. \A k \in 1 .. Len(list) : R[k] \in RecordSet
      BY <1>2, <1>4
    <2> HIDE DEF R, list
    <2>4. R \in [1 .. Len(list) -> RecordSet]
      BY <2>2, <2>3
    <2> QED BY <1>2, <2>1, <2>4
  <1> QED BY <1>4, <1>5 DEF use

(* Which use_classes a record comes from: the records of one come before   *)
(* those of the next.                                                      *)
IsArrangement(p, R, w) ==
    /\ w \in [1 .. Len(R) -> 1 .. Len(p.uses)]
    /\ \A n \in 1 .. Len(R) :
         /\ ClassOf(R[n]) \in ToSet(p.uses[w[n]].list)
         /\ Proper(R[n]) = ToSet(p.uses[w[n]].list) \cap p.bases[ClassOf(R[n])]
    /\ \A n, m \in 1 .. Len(R) : n < m => w[n] <= w[m]
    /\ \A i \in 1 .. Len(p.uses) : \A c \in ToSet(p.uses[i].list) :
         \E n \in 1 .. Len(R) : w[n] = i /\ ClassOf(R[n]) = c

LEMMA RecordsAreArranged ==
  ASSUME NEW p \in Programs
  PROVE  /\ Classes!Registered(p) \in Seq(RecordSet)
         /\ Len(Classes!Registered(p)) \in Nat \ {0}
         /\ \E w : IsArrangement(p, Classes!Registered(p), w)
  <1> DEFINE R == Classes!Registered(p)
             ss == [i \in DOMAIN p.uses |-> Classes!use_classes(p, p.uses[i])]
             N == Len(p.uses)
  <1>1. N \in Nat \ {0} /\ DOMAIN p.uses = 1 .. N
    BY ProgramFacts
  <1>2. R = FlattenSeq(ss)
    BY SameLibrary DEF Classes!Registered, R, ss
  <1>3. ss \in Seq(Seq(RecordSet)) /\ Len(ss) = N /\ DOMAIN ss = 1 .. N
    <2>1. \A i \in 1 .. N : ss[i] \in Seq(RecordSet)
      BY <1>1, RecordsOfUse
    <2>2. ss = [i \in 1 .. N |-> ss[i]]
      BY <1>1
    <2> HIDE DEF ss, N
    <2>3. ss \in [1 .. N -> Seq(RecordSet)]
      BY <2>1, <2>2
    <2> QED BY <1>1, <2>3
  <1>4. \A i \in 1 .. N : ss[i] = Classes!use_classes(p, p.uses[i])
    BY <1>1
  <1> HIDE DEF ss, N, R
  <1>5. R \in Seq(RecordSet) /\ \E w, q : IsFlattening(R, ss, w, q)
    BY <1>2, <1>3, FlattenRange, FlattenPlaces
  <1>6. PICK w, q : IsFlattening(R, ss, w, q)
    BY <1>5
  <1>7. /\ w \in [1 .. Len(R) -> 1 .. N] /\ q \in [1 .. Len(R) -> Nat]
        /\ \A n \in 1 .. Len(R) : q[n] \in DOMAIN ss[w[n]] /\ R[n] = ss[w[n]][q[n]]
        /\ \A n, m \in 1 .. Len(R) : n < m => w[n] < w[m] \/ (w[n] = w[m] /\ q[n] < q[m])
        /\ \A i \in 1 .. N : \A k \in DOMAIN ss[i] :
             \E n \in 1 .. Len(R) : w[n] = i /\ q[n] = k
    BY <1>3, <1>6 DEF IsFlattening
  <1>8. ASSUME NEW i \in 1 .. N
        PROVE  /\ DOMAIN ss[i] = DOMAIN p.uses[i].list
               /\ \A k \in DOMAIN p.uses[i].list : IsRecordOf(ss[i][k], p, p.uses[i].list, k)
    <2>1. i \in 1 .. Len(p.uses) /\ ss[i] = Classes!use_classes(p, p.uses[i])
      BY <1>4 DEF N
    <2> QED BY <2>1, RecordsOfUse
  <1>9. ASSUME NEW n \in 1 .. Len(R)
        PROVE  /\ ClassOf(R[n]) \in ToSet(p.uses[w[n]].list)
               /\ Proper(R[n]) = ToSet(p.uses[w[n]].list) \cap p.bases[ClassOf(R[n])]
    <2>1. w[n] \in 1 .. N /\ q[n] \in DOMAIN p.uses[w[n]].list /\ R[n] = ss[w[n]][q[n]]
      BY <1>7, <1>8
    <2>2. p.uses[w[n]].list[q[n]] \in ToSet(p.uses[w[n]].list)
      BY <2>1 DEF ToSet
    <2>3. IsRecordOf(R[n], p, p.uses[w[n]].list, q[n])
      BY <1>8, <2>1
    <2> QED BY <2>2, <2>3 DEF IsRecordOf
  <1>10. ASSUME NEW n \in 1 .. Len(R), NEW m \in 1 .. Len(R), n < m PROVE w[n] <= w[m]
    <2>1. w[n] \in 1 .. N /\ w[m] \in 1 .. N
      BY <1>7
    <2>2. w[n] < w[m] \/ w[n] = w[m]
      BY <1>7, <1>10
    <2> QED BY <1>1, <2>1, <2>2
  <1>11. ASSUME NEW i \in 1 .. N, NEW c \in ToSet(p.uses[i].list)
         PROVE  \E n \in 1 .. Len(R) : w[n] = i /\ ClassOf(R[n]) = c
    <2>1. PICK k \in DOMAIN p.uses[i].list : p.uses[i].list[k] = c
      BY DEF ToSet
    <2>2. PICK n \in 1 .. Len(R) : w[n] = i /\ q[n] = k
      BY <1>7, <1>8, <2>1
    <2>3. IsRecordOf(R[n], p, p.uses[i].list, k)
      BY <1>7, <1>8, <2>1, <2>2
    <2> QED BY <2>1, <2>2, <2>3 DEF IsRecordOf
  <1>12. IsArrangement(p, R, w)
    BY <1>7, <1>9, <1>10, <1>11 DEF IsArrangement, N
  <1>13. Len(R) # 0
    <2>1. 1 \in 1 .. N
      BY <1>1
    <2>1a. p.uses[1].list \in Seq(Class) \ {<<>>}
      BY <2>1, ProgramFacts DEF N
    <2>2. 1 \in DOMAIN p.uses[1].list
      BY <2>1a
    <2>3. p.uses[1].list[1] \in ToSet(p.uses[1].list)
      BY <2>2 DEF ToSet
    <2>4. PICK n \in 1 .. Len(R) : w[n] = 1
      BY <1>11, <2>1, <2>3
    <2> QED BY <1>5, <2>4
  <1>14. Len(R) \in Nat
    BY <1>5
  <1> QED BY <1>5, <1>12, <1>13, <1>14 DEF R

-----------------------------------------------------------------------------
(* Relations between classes: above[c] are the classes that c is below of. *)
IsOrder(above) ==
    /\ above \in [Class -> SUBSET Class]
    /\ \A c \in Class : c \notin above[c]
    /\ \A c \in Class : \A b \in above[c] : above[b] \subseteq above[c]

(* There is no infinite way up.                                            *)
LEMMA TopExists ==
  ASSUME NEW above, IsOrder(above), NEW X \in SUBSET Class, X # {}
  PROVE  \E x \in X : \A y \in X : y \notin above[x]
  <1> DEFINE Family == {above[x] : x \in X}
  <1>1. Family # {} /\ Family \subseteq FiniteSubsetsOf(Class)
    <2>1. FiniteSubsetsOf(Class) = SUBSET Class
      BY ClassAssumption, FS_FiniteSubsetsOfFinite
    <2>2. Family # {}
      OBVIOUS
    <2>3. Family \subseteq SUBSET Class
      BY DEF IsOrder
    <2> QED BY <2>1, <2>2, <2>3
  <1>2. \E F \in Family : \A G \in Family : ~ (<<G, F>> \in StrictSubsetOrdering(Class))
    <2> HIDE DEF Family
    <2> QED BY <1>1, ClassAssumption, FS_StrictSubsetOrderingWellFounded, WFMin
  <1>3. PICK x \in X : \A G \in Family : ~ (<<G, above[x]>> \in StrictSubsetOrdering(Class))
    BY <1>2
  <1>4. ASSUME NEW y \in X, y \in above[x] PROVE FALSE
    <2>1. above[y] \in Family /\ above[y] \subseteq above[x] /\ above[x] \subseteq Class
      BY <1>4 DEF IsOrder
    <2>2. y \notin above[y] /\ y \in above[x]
      BY <1>4 DEF IsOrder
    <2>3. <<above[y], above[x]>> \in StrictSubsetOrdering(Class)
      BY <2>1, <2>2 DEF StrictSubsetOrdering
    <2> QED BY <1>3, <2>1, <2>3
  <1> QED BY <1>4

(* What can be reached by going up along succ.                             *)
IsReach(f, succ) ==
    /\ f \in [Class -> SUBSET Class]
    /\ \A n \in Class : f[n] = {n} \cup UNION {f[m] : m \in succ[n]}
    /\ \A n \in Class : \A S \in SUBSET Class :
         n \in S /\ (\A x \in S : succ[x] \subseteq S) => f[n] \subseteq S

LEMMA ReachableIs ==
  ASSUME NEW above, IsOrder(above), NEW succ \in [Class -> SUBSET Class],
         \A n \in Class : succ[n] \subseteq above[n]
  PROVE  IsReach(Classes!Reachable(succ), succ)
  <1> DEFINE f == Classes!Reachable(succ)
             Closed(S) == \A x \in S : succ[x] \subseteq S
             g == [n \in Class |-> {x \in Class : \A S \in SUBSET Class : n \in S /\ Closed(S) => x \in S}]
             F == CHOOSE reach :
                    reach = [n \in DOMAIN succ |-> {n} \cup UNION {reach[m] : m \in succ[n]}]
  <1>1. f = F
    BY DEF Classes!Reachable
  <1>2. g = [n \in DOMAIN succ |-> {n} \cup UNION {g[m] : m \in succ[n]}]
    <2>1. ASSUME NEW n \in Class PROVE g[n] = {n} \cup UNION {g[m] : m \in succ[n]}
      <3> DEFINE U == {n} \cup UNION {g[m] : m \in succ[n]}
      <3>1. succ[n] \subseteq Class
        OBVIOUS
      <3>0. \A m \in Class : \A x : x \in g[m]
              <=> x \in Class /\ \A S \in SUBSET Class : m \in S /\ Closed(S) => x \in S
        <4> HIDE DEF Closed
        <4> QED OBVIOUS
      <3> HIDE DEF g
      <3>2. \A m \in Class : m \in g[m] /\ g[m] \subseteq Class
        BY <3>0
      <3>3. U \subseteq g[n]
        <4>1. ASSUME NEW m \in succ[n], NEW x \in g[m], NEW S \in SUBSET Class, n \in S, Closed(S)
              PROVE  x \in S
          <5>1. m \in S
            BY <4>1
          <5>2. m \in Class
            BY <3>1
          <5> HIDE DEF Closed
          <5> QED BY <3>0, <4>1, <5>1, <5>2
        <4>2. \A m \in succ[n] : \A x \in g[m] : x \in g[n]
          <5> HIDE DEF Closed
          <5> QED BY <3>0, <3>1, <3>2, <4>1
        <4>3. n \in g[n]
          BY <3>2
        <4> QED BY <4>2, <4>3
      <3>4. U \in SUBSET Class /\ n \in U
        BY <3>1, <3>2
      <3>5. ASSUME NEW x \in U PROVE succ[x] \subseteq U
        <4>1. CASE x = n
          BY <3>1, <3>2, <4>1
        <4>2. CASE \E m \in succ[n] : x \in g[m]
          <5>1. PICK m \in succ[n] : x \in g[m]
            BY <4>2
          <5>2. ASSUME NEW y \in succ[x] PROVE y \in g[m]
            <6>1. x \in Class /\ y \in Class /\ m \in Class
              BY <3>1, <3>4, <5>2
            <6>2. ASSUME NEW S \in SUBSET Class, m \in S, Closed(S) PROVE y \in S
              <7>1. x \in S
                <8> HIDE DEF Closed
                <8> QED BY <3>0, <5>1, <6>1, <6>2
              <7> QED BY <5>2, <6>2, <7>1
            <6> HIDE DEF Closed
            <6> QED BY <3>0, <6>1, <6>2
          <5> QED BY <5>1, <5>2
        <4> QED BY <4>1, <4>2
      <3>6. Closed(U)
        BY <3>5
      <3>7. g[n] \subseteq U
        <4> HIDE DEF U, Closed
        <4> QED BY <3>0, <3>4, <3>6
      <3> QED BY <3>3, <3>7
    <2>2. DOMAIN succ = Class
      OBVIOUS
    <2>3. g = [n \in Class |-> g[n]]
      OBVIOUS
    <2> HIDE DEF g
    <2> QED BY <2>1, <2>2, <2>3
  <1>3. f = [n \in DOMAIN succ |-> {n} \cup UNION {f[m] : m \in succ[n]}]
    <2>1. F = [n \in DOMAIN succ |-> {n} \cup UNION {F[m] : m \in succ[n]}]
      <3> HIDE DEF f, g
      <3> QED BY <1>2
    <2> HIDE DEF f, F
    <2> QED BY <1>1, <2>1
  <1> HIDE DEF f, F, g
  <1>4. DOMAIN f = Class /\ \A n \in Class : f[n] = {n} \cup UNION {f[m] : m \in succ[n]}
    BY <1>3
  <1>5. ASSUME NEW S \in SUBSET Class, Closed(S) PROVE \A n \in S : f[n] \subseteq S
    <2> DEFINE Bad == {n \in S : ~ (f[n] \subseteq S)}
    <2>1. SUFFICES ASSUME Bad # {} PROVE FALSE
      OBVIOUS
    <2>2. PICK n \in Bad : \A m \in Bad : m \notin above[n]
      <3>1. Bad \in SUBSET Class
        OBVIOUS
      <3> HIDE DEF Bad
      <3> QED BY <2>1, <3>1, TopExists
    <2>3. \A m \in succ[n] : m \in S /\ m \notin Bad
      BY <1>5, <2>2
    <2>4. \A m \in succ[n] : f[m] \subseteq S
      BY <2>3
    <2>5. f[n] \subseteq S
      BY <1>4, <2>4
    <2> QED BY <2>5
  <1>6. ASSUME NEW n \in Class PROVE f[n] \subseteq Class
    <2>1. Closed(Class)
      OBVIOUS
    <2> HIDE DEF Closed
    <2> QED BY <1>5, <2>1
  <1>7. f = [n \in Class |-> f[n]]
    BY <1>3
  <1>8. f \in [Class -> SUBSET Class]
    BY <1>6, <1>7
  <1>9. ASSUME NEW n \in Class, NEW S \in SUBSET Class, n \in S, Closed(S) PROVE f[n] \subseteq S
    <2> HIDE DEF Closed
    <2> QED BY <1>5, <1>9
  <1>10. IsReach(f, succ)
    BY <1>4, <1>8, <1>9 DEF IsReach
  <1> QED BY <1>10 DEF f

(* It stays within what is above.                                          *)
LEMMA ReachIsAbove ==
  ASSUME NEW above, IsOrder(above), NEW succ \in [Class -> SUBSET Class],
         \A n \in Class : succ[n] \subseteq above[n], NEW f, IsReach(f, succ), NEW n \in Class
  PROVE  f[n] \subseteq {n} \cup above[n]
  <1> DEFINE S == {n} \cup above[n]
  <1>1. S \in SUBSET Class /\ n \in S
    BY DEF IsOrder
  <1>2. \A x \in S : succ[x] \subseteq S
    BY <1>1 DEF IsOrder
  <1> HIDE DEF S
  <1>3. f[n] \subseteq S
    BY <1>1, <1>2 DEF IsReach
  <1> QED BY <1>3 DEF S

-----------------------------------------------------------------------------
(* The sequences that are made of others.                                  *)
LEMMA SelectIs ==
  ASSUME NEW T, NEW s \in Seq(T), NEW S
  PROVE  /\ Classes!Select(s, S) \in Seq(T)
         /\ ToSet(Classes!Select(s, S)) = ToSet(s) \cap S
         /\ IsInjective(s) => IsInjective(Classes!Select(s, S))
  <1> DEFINE ss == [i \in DOMAIN s |-> IF s[i] \in S THEN <<s[i]>> ELSE <<>>]
             n == Len(s)
             R == Classes!Select(s, S)
  <1>1. n \in Nat /\ DOMAIN s = 1 .. n /\ \A i \in 1 .. n : s[i] \in T
    OBVIOUS
  <1>2. R = FlattenSeq(ss)
    BY SameLibrary DEF Classes!Select
  <1>3. ss \in Seq(Seq(T)) /\ Len(ss) = n /\ DOMAIN ss = 1 .. n
    <2>1. \A i \in 1 .. n : ss[i] \in Seq(T)
      BY <1>1
    <2>2. ss = [i \in 1 .. n |-> ss[i]]
      BY <1>1
    <2> HIDE DEF ss, n
    <2>3. ss \in [1 .. n -> Seq(T)]
      BY <2>1, <2>2
    <2> QED BY <1>1, <2>3
  <1>4. \A i \in 1 .. n : ss[i] = IF s[i] \in S THEN <<s[i]>> ELSE <<>>
    BY <1>1
  <1> HIDE DEF ss, n, R
  <1>5. ASSUME NEW i \in 1 .. n
        PROVE  /\ \A x : x \in ToSet(ss[i]) <=> x = s[i] /\ x \in S
               /\ \A k \in DOMAIN ss[i] : k = 1 /\ ss[i][k] = s[i]
    <2>1. CASE s[i] \in S
      <3>1. ss[i] = <<s[i]>>
        BY <1>4, <2>1
      <3>2. DOMAIN ss[i] = {1} /\ ss[i][1] = s[i]
        BY <3>1
      <3> QED BY <2>1, <3>2 DEF ToSet
    <2>2. CASE s[i] \notin S
      <3>1. ss[i] = << >>
        BY <1>4, <2>2
      <3>2. DOMAIN ss[i] = {}
        BY <3>1
      <3> QED BY <2>2, <3>2 DEF ToSet
    <2> QED BY <2>1, <2>2
  <1>6. /\ R \in Seq(T)
        /\ \A x : x \in ToSet(R) <=> \E i \in 1 .. n : x \in ToSet(ss[i])
    BY <1>2, <1>3, FlattenRange
  <1>7. ToSet(R) = ToSet(s) \cap S
    <2>1. \A x : x \in ToSet(s) <=> \E i \in 1 .. n : x = s[i]
      BY <1>1 DEF ToSet
    <2> QED BY <1>5, <1>6, <2>1
  <1>8. ASSUME IsInjective(s) PROVE IsInjective(R)
    <2>1. PICK w, q : IsFlattening(R, ss, w, q)
      BY <1>2, <1>3, FlattenPlaces
    <2>2. /\ w \in [1 .. Len(R) -> 1 .. n] /\ q \in [1 .. Len(R) -> Nat]
          /\ \A k \in 1 .. Len(R) : q[k] \in DOMAIN ss[w[k]] /\ R[k] = ss[w[k]][q[k]]
          /\ \A k, l \in 1 .. Len(R) : k < l => w[k] < w[l] \/ (w[k] = w[l] /\ q[k] < q[l])
      BY <1>3, <2>1 DEF IsFlattening
    <2>3. DOMAIN R = 1 .. Len(R) /\ Len(R) \in Nat
      BY <1>6
    <2>4. ASSUME NEW k \in 1 .. Len(R) PROVE w[k] \in 1 .. n /\ q[k] = 1 /\ R[k] = s[w[k]]
      <3>1. w[k] \in 1 .. n /\ q[k] \in DOMAIN ss[w[k]] /\ R[k] = ss[w[k]][q[k]]
        BY <2>2
      <3> QED BY <1>5, <3>1
    <2>5. ASSUME NEW k \in 1 .. Len(R), NEW l \in 1 .. Len(R), k < l PROVE R[k] # R[l]
      <3>1. w[k] < w[l]
        BY <2>2, <2>4, <2>5
      <3>2. s[w[k]] # s[w[l]]
        BY <1>1, <1>8, <2>4, <3>1 DEF IsInjective
      <3> QED BY <2>4, <3>2
    <2> QED BY <2>3, <2>5 DEF IsInjective
  <1> QED BY <1>6, <1>7, <1>8 DEF R

(* The bases of a class, sorted: those that are bases of more classes last.*)
LEMMA SortedIs ==
  ASSUME NEW c, NEW order \in Classes!SortedBases(c), transitive_bases[c] \in SUBSET Class
  PROVE  /\ order \in Seq(Class)
         /\ ToSet(order) = transitive_bases[c]
         /\ IsInjective(order)
         /\ \A i, j \in 1 .. Len(order) :
              i < j => Cardinality(transitive_bases[order[i]])
                         >= Cardinality(transitive_bases[order[j]])
  <1> DEFINE S == transitive_bases[c]
             n == Cardinality(S)
  <1>1. IsFiniteSet(S) /\ n \in Nat
    BY ClassAssumption, FS_Subset, FS_CardinalityType
  <1>2. /\ order \in [1 .. n -> S] /\ \A i, j \in 1 .. n : i # j => order[i] # order[j]
        /\ \A i, j \in DOMAIN order :
              i < j => Cardinality(transitive_bases[order[i]])
                         >= Cardinality(transitive_bases[order[j]])
    BY SameLibrary DEF Classes!SortedBases, SetToSeqs
  <1> HIDE DEF S, n
  <1>3. order \in Seq(S) /\ Len(order) = n /\ DOMAIN order = 1 .. n
    BY <1>1, <1>2
  <1>4. order \in Seq(Class)
    BY <1>3 DEF S
  <1>5. ToSet(order) = S
    <2>1. IsFiniteSet(1 .. n) /\ Cardinality(1 .. n) = n
      BY <1>1, FS_Interval
    <2>2. order \in Injection(1 .. n, S)
      BY <1>2 DEF Injection, IsInjective
    <2>3. order \in Surjection(1 .. n, S)
      BY <1>1, <2>1, <2>2, FS_Injection DEF n
    <2> QED BY <1>2, <1>3, <2>3 DEF Surjection, ToSet
  <1>6. IsInjective(order)
    BY <1>2, <1>3 DEF IsInjective
  <1> QED BY <1>2, <1>3, <1>4, <1>5, <1>6 DEF S

(* The direct bases found for a class: all its bases but those that a direct*)
(* base marks.  One that is marked by another was scanned before it.       *)
IsDirect(c, D) ==
    /\ D \subseteq transitive_bases[c]
    /\ \A b \in transitive_bases[c] \ D : \E d \in D : b \in transitive_bases[d]
    /\ \A b, d \in D :
         b \in transitive_bases[d]
           => Cardinality(transitive_bases[b]) >= Cardinality(transitive_bases[d])

LEMMA UnmarkedIs ==
  ASSUME NEW c \in Class, NEW order \in Classes!SortedBases(c),
         transitive_bases \in [Class -> SUBSET Class]
  PROVE  IsDirect(c, Classes!UnmarkedBases(order))
  <1> DEFINE N == Len(order)
             T == SUBSET Class
             Op(D, b) == IF \E d \in D : b \in transitive_bases[d] THEN D ELSE D \cup {b}
             F == CHOOSE f : f = [u \in SUBSET DOMAIN order |->
                                    IF u = {} THEN {} ELSE Op(f[u \ {Max(u)}], order[Max(u)])]
             step == [k \in 1 .. N |-> [D \in T |-> Op(D, order[k])]]
  <1>1. /\ order \in Seq(Class) /\ ToSet(order) = transitive_bases[c] /\ IsInjective(order)
        /\ \A i, j \in 1 .. N : i < j => Cardinality(transitive_bases[order[i]])
                                            >= Cardinality(transitive_bases[order[j]])
    BY SortedIs
  <1>2. N \in Nat /\ DOMAIN order = 1 .. N /\ \A k \in 1 .. N : order[k] \in Class
    BY <1>1
  <1>3. Classes!UnmarkedBases(order) = F[1 .. N]
    BY <1>2, SameLibrary DEF Classes!UnmarkedBases, Classes!FoldLeft, Classes!MapThenFoldSet
  <1> HIDE DEF N
  <1>4. {} \in T /\ \A k \in 1 .. N : \A D \in T : Op(D, order[k]) \in T
    BY <1>2
  <1>5. step \in [1 .. N -> [T -> T]]
    <2> HIDE DEF Op
    <2> QED BY <1>4
  <1>6. \E fold \in [SUBSET (1 .. N) -> T] : IsFold(fold, N, {}, step)
    <2> HIDE DEF step, T
    <2> QED BY <1>2, <1>4, <1>5, FoldExists
  <1>7. PICK fold \in [SUBSET (1 .. N) -> T] : IsFold(fold, N, {}, step)
    BY <1>6
  <1>8. fold = [u \in SUBSET DOMAIN order |->
                  IF u = {} THEN {} ELSE Op(fold[u \ {Max(u)}], order[Max(u)])]
    <2>1. ASSUME NEW u \in SUBSET (1 .. N)
          PROVE  fold[u] = IF u = {} THEN {} ELSE Op(fold[u \ {Max(u)}], order[Max(u)])
      <3>1. CASE u = {}
        BY <1>7, <3>1 DEF IsFold
      <3>2. ASSUME u # {} PROVE fold[u] = Op(fold[u \ {Max(u)}], order[Max(u)])
        <4>1. u \in SUBSET Nat /\ N \in Nat /\ \A m \in u : m <= N
          BY <1>2
        <4>2. Max(u) \in u
          BY <3>2, <4>1, GreatestOfNat
        <4>3. fold[u] = step[Max(u)][fold[u \ {Max(u)}]]
          BY <1>7, <3>2 DEF IsFold
        <4>4. Max(u) \in 1 .. N /\ u \ {Max(u)} \in SUBSET (1 .. N)
          BY <4>2
        <4>5. fold[u \ {Max(u)}] \in T
          BY <4>4
        <4> HIDE DEF Op, T
        <4> QED BY <4>3, <4>4, <4>5
      <3> QED BY <3>1, <3>2
    <2> HIDE DEF Op
    <2> QED BY <1>2, <2>1
  <1>9. F = [u \in SUBSET DOMAIN order |->
               IF u = {} THEN {} ELSE Op(F[u \ {Max(u)}], order[Max(u)])]
    <2> HIDE DEF Op
    <2> QED BY <1>8
  <1> HIDE DEF F
  <1>10. F[1 .. 0] = {} /\ \A k \in 1 .. N : F[1 .. k] = Op(F[1 .. k - 1], order[k])
    <2>1. 1 .. 0 = {} /\ {} \in SUBSET DOMAIN order
      OBVIOUS
    <2>2. F[{}] = {}
      <3> HIDE DEF Op
      <3> QED BY <1>9, <2>1
    <2>3. ASSUME NEW k \in 1 .. N PROVE F[1 .. k] = Op(F[1 .. k - 1], order[k])
      <3>1. k \in Nat \ {0}
        BY <1>2
      <3>2. Max(1 .. k) = k
        BY <3>1, MaxOfInterval
      <3>3. (1 .. k) \ {k} = 1 .. k - 1 /\ 1 .. k # {}
        BY <3>1
      <3>4. (1 .. k) \in SUBSET DOMAIN order
        BY <1>2
      <3>5. F[1 .. k] = Op(F[(1 .. k) \ {Max(1 .. k)}], order[Max(1 .. k)])
        <4> HIDE DEF Op
        <4> QED BY <1>9, <3>3, <3>4
      <3> QED BY <3>2, <3>3, <3>5
    <2> QED BY <2>1, <2>2, <2>3
  <1> DEFINE Good(k) ==
               /\ \A b \in F[1 .. k] : \E i \in 1 .. k : b = order[i]
               /\ \A i \in 1 .. k : \/ order[i] \in F[1 .. k]
                                     \/ \E d \in F[1 .. k] : order[i] \in transitive_bases[d]
               /\ \A i, j \in 1 .. k :
                    j < i /\ order[i] \in F[1 .. k] /\ order[j] \in F[1 .. k]
                      => order[i] \notin transitive_bases[order[j]]
  <1>11. Good(0)
    BY <1>10
  <1>12. ASSUME NEW k \in 1 .. N, Good(k - 1) PROVE Good(k)
    <2> DEFINE D == F[1 .. k - 1]
               E == F[1 .. k]
    <2>1. E = Op(D, order[k])
      BY <1>10
    <2> HIDE DEF D, E
    <2>2. /\ k \in Nat /\ k \in 1 .. k
          /\ \A i : i \in 1 .. k <=> i \in 1 .. k - 1 \/ i = k
      BY <1>2
    <2>3. /\ \A b \in D : \E i \in 1 .. k - 1 : b = order[i]
          /\ \A i \in 1 .. k - 1 : order[i] \in D \/ \E d \in D : order[i] \in transitive_bases[d]
          /\ \A i, j \in 1 .. k - 1 : j < i /\ order[i] \in D /\ order[j] \in D
                                       => order[i] \notin transitive_bases[order[j]]
      BY <1>12 DEF D
    <2>4. \A i \in 1 .. k - 1 : order[i] # order[k]
      BY <1>1, <1>2 DEF IsInjective
    <2>5. \A i \in 1 .. k - 1 : order[i] \in E <=> order[i] \in D
      BY <2>1, <2>4
    <2>6. order[k] \notin D
      BY <2>3, <2>4
    <2>7. order[k] \in E <=> ~ \E d \in D : order[k] \in transitive_bases[d]
      BY <2>1, <2>6
    <2>8. D \subseteq E /\ E \subseteq D \cup {order[k]}
      BY <2>1
    <2>9. \A b \in E : \E i \in 1 .. k : b = order[i]
      BY <2>2, <2>3, <2>8
    <2>10. \A i \in 1 .. k : order[i] \in E \/ \E d \in E : order[i] \in transitive_bases[d]
      BY <2>2, <2>3, <2>5, <2>7, <2>8
    <2>11. ASSUME NEW i \in 1 .. k, NEW j \in 1 .. k, j < i, order[i] \in E, order[j] \in E
           PROVE  order[i] \notin transitive_bases[order[j]]
      <3>1. j \in 1 .. k - 1 /\ order[j] \in D
        BY <2>2, <2>5, <2>11
      <3>2. CASE i = k
        BY <2>7, <2>11, <3>1, <3>2
      <3>3. CASE i # k
        BY <2>2, <2>3, <2>5, <2>11, <3>1, <3>3
      <3> QED BY <3>2, <3>3
    <2> QED BY <2>9, <2>10, <2>11 DEF E
  <1>13. Good(N)
    <2> DEFINE S == {k \in 0 .. N : Good(k)}
    <2>1. 0 \in S
      BY <1>2, <1>11
    <2>2. \A k \in 1 .. N : k - 1 \in S => k \in S
      <3> HIDE DEF Good
      <3>1. \A k \in 1 .. N : k \in 0 .. N
        OBVIOUS
      <3> QED BY <1>12, <3>1
    <2>3. 0 .. N \subseteq S
      <3> HIDE DEF S
      <3> QED BY <1>2, <2>1, <2>2, InductionTo
    <2>4. N \in S
      <3> HIDE DEF S
      <3> QED BY <1>2, <2>3
    <2> HIDE DEF Good
    <2> QED BY <2>4
  <1> DEFINE D == F[1 .. N]
  <1>14. /\ \A b \in D : \E i \in 1 .. N : b = order[i]
         /\ \A i \in 1 .. N : order[i] \in D \/ \E d \in D : order[i] \in transitive_bases[d]
         /\ \A i, j \in 1 .. N : j < i /\ order[i] \in D /\ order[j] \in D
                                  => order[i] \notin transitive_bases[order[j]]
    BY <1>13
  <1> HIDE DEF D
  <1>15. \A b : b \in transitive_bases[c] <=> \E i \in 1 .. N : b = order[i]
    BY <1>1, <1>2 DEF ToSet
  <1>16. ASSUME NEW b \in D, NEW d \in D, b \in transitive_bases[d]
         PROVE  Cardinality(transitive_bases[b]) >= Cardinality(transitive_bases[d])
    <2>1. PICK i \in 1 .. N, j \in 1 .. N : b = order[i] /\ d = order[j]
      BY <1>14
    <2>2. ~ (j < i)
      BY <1>14, <1>16, <2>1
    <2>3. CASE i < j
      BY <1>1, <2>1, <2>3
    <2>4. CASE i = j
      <3>1. b = d /\ d \in Class
        BY <1>2, <2>1, <2>4
      <3>2. IsFiniteSet(transitive_bases[d])
        BY <3>1, ClassAssumption, FS_Subset
      <3>3. Cardinality(transitive_bases[d]) \in Nat
        BY <3>2, FS_CardinalityType
      <3> QED BY <3>1, <3>3
    <2> QED BY <1>2, <2>2, <2>3, <2>4
  <1>17. IsDirect(c, D)
    BY <1>14, <1>15, <1>16 DEF IsDirect
  <1> QED BY <1>3, <1>17 DEF D

-----------------------------------------------------------------------------
(* The invariant of augment_classes.                                       *)

(* How far each loop has come.                                             *)
RecordsSeen == IF class_pc = "register" THEN next_record - 1 ELSE Len(records)

BasesSeen ==
    IF class_pc = "register" THEN 0
    ELSE IF class_pc = "bases" THEN next_record - 1 ELSE Len(records)

ClassesSeen ==
    IF class_pc \in {"register", "bases"} THEN 0
    ELSE IF class_pc = "direct" THEN next_record - 1 ELSE Len(classes)

(* The classes that some record is of, and their bases among these.        *)
Known == {ClassOf(records[i]) : i \in 1 .. Len(records)}

KnownBases(c) == program.bases[c] \cap Known

KnownDirectBases(c) == {b \in KnownBases(c) : \A d \in KnownBases(c) : b \notin program.bases[d]}

PlaceInv ==
    /\ program \in Programs /\ records = Classes!Registered(program)
    /\ class_pc \in {"register", "bases", "direct", "derived", "done"}
    /\ next_record \in Nat \ {0}
    /\ class_pc \in {"register", "bases"} => next_record <= Len(records)
    /\ class_pc = "direct" => next_record <= Len(classes)

IdsInv ==
    /\ classes \in Seq(Class) /\ IsInjective(classes)
    /\ ToSet(classes) = {ClassOf(records[i]) : i \in 1 .. RecordsSeen}
    /\ type_ids \in [Class -> Seq(Ids)]
    /\ \A c \in Class :
         /\ IsInjective(type_ids[c])
         /\ \A t : t \in ToSet(type_ids[c])
                     <=> \E i \in 1 .. RecordsSeen : t = records[i].type /\ ClassOf(records[i]) = c
    /\ is_abstract \in [Class -> BOOLEAN]
    /\ static_vptr \in [Class -> Ids \cup {<<>>}]

(* Bases are never invented, and those of a record have been collected.    *)
BasesInv ==
    /\ transitive_bases \in [Class -> SUBSET Class]
    /\ \A c \in Class : transitive_bases[c] \subseteq KnownBases(c)
    /\ \A i \in 1 .. BasesSeen : Proper(records[i]) \subseteq transitive_bases[ClassOf(records[i])]

(* u chooses, for each class, an instantiation of use_classes that lists it*)
(* with its direct bases, and that comes after those chosen for them.      *)
IsChoice(u) ==
    /\ u \in [Known -> 1 .. Len(program.uses)]
    /\ \A c \in Known :
         /\ {c} \cup KnownDirectBases(c) \subseteq ToSet(program.uses[u[c]].list)
         /\ \A b \in KnownDirectBases(c) : u[b] <= u[c]

(* Once the record of that instantiation is done, no base is missing.      *)
OrderInv ==
    \A w, u : IsArrangement(program, records, w) /\ IsChoice(u) =>
        \A i \in 1 .. BasesSeen :
            w[i] = u[ClassOf(records[i])]
              => KnownBases(ClassOf(records[i])) \subseteq transitive_bases[ClassOf(records[i])]

DirectInv ==
    /\ direct_bases \in [Class -> SUBSET Class]
    /\ \A c \in Class : direct_bases[c] \subseteq transitive_bases[c]
    /\ \A i \in 1 .. ClassesSeen : IsDirect(classes[i], direct_bases[classes[i]])

(* The derived classes are those that direct_derived leads to.             *)
DerivedInv ==
    /\ direct_derived \in [Class -> Seq(Class)]
    /\ transitive_derived \in [Class -> SUBSET Class]
    /\ class_pc = "done" =>
         /\ \A b \in Class :
              /\ IsInjective(direct_derived[b])
              /\ ToSet(direct_derived[b]) = {c \in ToSet(classes) : b \in direct_bases[c]}
         /\ \A c \in Class \ ToSet(classes) : transitive_derived[c] = {}
         /\ \A c \in ToSet(classes) :
              /\ transitive_derived[c] =
                   {c} \cup UNION {transitive_derived[d] : d \in ToSet(direct_derived[c])}
              /\ \A S \in SUBSET Class :
                   c \in S /\ (\A d \in S : ToSet(direct_derived[d]) \subseteq S)
                     => transitive_derived[c] \subseteq S

ClassInv == PlaceInv /\ IdsInv /\ BasesInv /\ OrderInv /\ DirectInv /\ DerivedInv

(* A class is known if and only if it is listed.                           *)
LEMMA KnownFacts ==
  ASSUME PlaceInv
  PROVE  /\ records \in Seq(RecordSet) /\ Len(records) \in Nat \ {0}
         /\ \A i \in 1 .. Len(records) : records[i] \in RecordSet /\ ClassOf(records[i]) \in Known
         /\ Known \subseteq Class /\ Known # {}
         /\ \A i \in 1 .. Len(program.uses) : ToSet(program.uses[i].list) \subseteq Known
         /\ \A i \in 1 .. Len(records) :
              Proper(records[i]) \subseteq KnownBases(ClassOf(records[i]))
         /\ IsOrder([c \in Class |-> KnownBases(c)])
         /\ IsOrder([c \in Class |-> {d \in Class : c \in KnownBases(d)}])
         /\ \A c \in Class : c \notin KnownBases(c) /\ KnownBases(c) \subseteq Class
         /\ \A c \in Class : \A b \in KnownBases(c) : KnownBases(b) \subseteq KnownBases(c)
  <1>1. /\ records \in Seq(RecordSet) /\ Len(records) \in Nat \ {0}
        /\ \E w : IsArrangement(program, records, w)
    BY RecordsAreArranged DEF PlaceInv
  <1>2. PICK w : IsArrangement(program, records, w)
    BY <1>1
  <1>3. \A i \in 1 .. Len(records) : records[i] \in RecordSet
    BY <1>1
  <1>4. \A i \in 1 .. Len(records) : ClassOf(records[i]) \in Class /\ ClassOf(records[i]) \in Known
    BY <1>3 DEF RecordSet, Ids, ClassOf, Known
  <1>5. Known \subseteq Class /\ Known # {}
    <2>1. 1 \in 1 .. Len(records)
      BY <1>1
    <2> QED BY <1>4, <2>1 DEF Known
  <1>6. \A i \in 1 .. Len(program.uses) : ToSet(program.uses[i].list) \subseteq Known
    <2> SUFFICES ASSUME NEW i \in 1 .. Len(program.uses), NEW c \in ToSet(program.uses[i].list)
                 PROVE  c \in Known
      OBVIOUS
    <2>1. PICK n \in 1 .. Len(records) : ClassOf(records[n]) = c
      BY <1>2 DEF IsArrangement
    <2> QED BY <1>4, <2>1
  <1>7. \A i \in 1 .. Len(records) : Proper(records[i]) \subseteq KnownBases(ClassOf(records[i]))
    <2> SUFFICES ASSUME NEW i \in 1 .. Len(records)
                 PROVE  Proper(records[i]) \subseteq KnownBases(ClassOf(records[i]))
      OBVIOUS
    <2>1. w[i] \in 1 .. Len(program.uses)
      BY <1>2 DEF IsArrangement
    <2>2. Proper(records[i]) = ToSet(program.uses[w[i]].list) \cap program.bases[ClassOf(records[i])]
      BY <1>2 DEF IsArrangement
    <2> QED BY <1>6, <2>1, <2>2 DEF KnownBases
  <1>8. /\ program.bases \in [Class -> SUBSET Class]
        /\ \A c \in Class : c \notin program.bases[c]
        /\ \A c \in Class : \A b \in program.bases[c] : program.bases[b] \subseteq program.bases[c]
    BY ProgramFacts DEF PlaceInv
  <1>9. /\ \A c \in Class : c \notin KnownBases(c) /\ KnownBases(c) \subseteq Class
        /\ \A c \in Class : \A b \in KnownBases(c) : KnownBases(b) \subseteq KnownBases(c)
    BY <1>8 DEF KnownBases
  <1>10. IsOrder([c \in Class |-> KnownBases(c)])
    BY <1>9 DEF IsOrder
  <1>11. IsOrder([c \in Class |-> {d \in Class : c \in KnownBases(d)}])
    <2> DEFINE below == [c \in Class |-> {d \in Class : c \in KnownBases(d)}]
    <2>1. \A c \in Class : below[c] = {d \in Class : c \in KnownBases(d)}
      OBVIOUS
    <2>2. below \in [Class -> SUBSET Class]
      OBVIOUS
    <2> HIDE DEF below
    <2>3. \A c \in Class : c \notin below[c]
      BY <1>9, <2>1
    <2>4. \A c \in Class : \A b \in below[c] : below[b] \subseteq below[c]
      BY <1>9, <2>1
    <2> QED BY <2>2, <2>3, <2>4 DEF IsOrder, below
  <1> QED BY <1>1, <1>3, <1>4, <1>5, <1>6, <1>7, <1>9, <1>10, <1>11

LEMMA AppendIs ==
  ASSUME NEW T, NEW s \in Seq(T), NEW x \in T
  PROVE  /\ Append(s, x) \in Seq(T)
         /\ ToSet(Append(s, x)) = ToSet(s) \cup {x}
         /\ IsInjective(s) /\ x \notin ToSet(s) => IsInjective(Append(s, x))
  <1> DEFINE t == Append(s, x)
             n == Len(s)
  <1>1. /\ t \in Seq(T) /\ n \in Nat /\ DOMAIN s = 1 .. n /\ DOMAIN t = 1 .. n + 1
        /\ t[n + 1] = x /\ \A i \in 1 .. n : t[i] = s[i]
    OBVIOUS
  <1> HIDE DEF t, n
  <1>2. /\ n + 1 \in 1 .. n + 1
        /\ \A i : i \in 1 .. n + 1 <=> i \in 1 .. n \/ i = n + 1
    BY <1>1
  <1>3. ToSet(t) = ToSet(s) \cup {x}
    BY <1>1, <1>2 DEF ToSet
  <1>4. ASSUME IsInjective(s), x \notin ToSet(s) PROVE IsInjective(t)
    <2>1. \A i, j \in 1 .. n : s[i] = s[j] => i = j
      BY <1>1, <1>4 DEF IsInjective
    <2>2. \A i \in 1 .. n : s[i] # x
      BY <1>1, <1>4 DEF ToSet
    <2> QED BY <1>1, <1>2, <2>1, <2>2 DEF IsInjective
  <1> QED BY <1>1, <1>3, <1>4 DEF t

LEMMA ClassInit == Classes!Init => ClassInv
  <1> SUFFICES ASSUME Classes!Init PROVE ClassInv
    OBVIOUS
  <1> USE DEF Classes!Init
  <1>1. /\ program \in Programs /\ records = Classes!Registered(program) /\ class_pc = "register"
        /\ next_record = 1
    OBVIOUS
  <1>2. Len(records) \in Nat \ {0}
    BY <1>1, RecordsAreArranged
  <1>3. PlaceInv
    BY <1>1, <1>2 DEF PlaceInv
  <1>4. RecordsSeen = 0 /\ BasesSeen = 0 /\ ClassesSeen = 0
    BY <1>1 DEF RecordsSeen, BasesSeen, ClassesSeen
  <1>5. ToSet(<< >>) = {} /\ IsInjective(<< >>)
    BY DEF ToSet, IsInjective
  <1>6. IdsInv
    <2>1. << >> \in Seq(Class) /\ << >> \in Seq(Ids) /\ 1 .. 0 = {}
      OBVIOUS
    <2> QED BY <1>1, <1>4, <1>5, <2>1 DEF IdsInv
  <1>7. BasesInv
    BY <1>1, <1>4 DEF BasesInv
  <1>8. OrderInv
    BY <1>4 DEF OrderInv
  <1>9. DirectInv
    BY <1>1, <1>4 DEF DirectInv
  <1>10. DerivedInv
    <2>1. << >> \in Seq(Class)
      OBVIOUS
    <2> QED BY <1>1, <2>1 DEF DerivedInv
  <1> QED BY <1>3, <1>6, <1>7, <1>8, <1>9, <1>10 DEF ClassInv

(* What a loop has seen when it has handled the record or class it was at. *)
LEMMA AdvanceIs ==
  ASSUME NEW s, Len(s) \in Nat, next_record \in Nat \ {0}, next_record <= Len(s),
         NEW after, Classes!Advance(s, after)
  PROVE  \/ class_pc' = class_pc /\ next_record' = next_record + 1 /\ next_record' <= Len(s)
         \/ class_pc' = after /\ next_record' = 1 /\ next_record = Len(s)
  BY DEF Classes!Advance

LEMMA ClassStepRegister == ClassInv /\ Classes!RegisterClass => ClassInv'
  <1> SUFFICES ASSUME ClassInv, Classes!RegisterClass PROVE ClassInv'
    OBVIOUS
  <1> DEFINE n == next_record
             cr == records[n]
             cls == ClassOf(cr)
  <1>1. PlaceInv /\ IdsInv /\ BasesInv /\ OrderInv /\ DirectInv /\ DerivedInv
    BY DEF ClassInv
  <1>2. /\ class_pc = "register" /\ n \in 1 .. Len(records) /\ n - 1 \in Nat
        /\ Len(records) \in Nat \ {0}
    BY <1>1, KnownFacts DEF PlaceInv, Classes!RegisterClass
  <1>3. /\ UNCHANGED <<program, records, transitive_bases, direct_bases, direct_derived,
                       transitive_derived>>
        /\ Classes!Advance(records, "bases")
        /\ classes' = IF cls \in ToSet(classes) THEN classes ELSE Append(classes, cls)
        /\ type_ids' = IF cr.type \in ToSet(type_ids[cls]) THEN type_ids
                       ELSE [type_ids EXCEPT ![cls] = Append(@, cr.type)]
        /\ is_abstract' = IF cls \in ToSet(classes) THEN is_abstract
                          ELSE [is_abstract EXCEPT ![cls] = cr.is_abstract]
        /\ static_vptr' = IF cls \in ToSet(classes) THEN static_vptr
                          ELSE [static_vptr EXCEPT ![cls] = cr.static_vptr]
    BY SameLibrary DEF Classes!RegisterClass, Classes!type_index, Classes!AddClass,
                       Classes!AddTypeId, ClassOf
  <1>4. \/ class_pc' = "register" /\ next_record' = n + 1 /\ next_record' <= Len(records)
        \/ class_pc' = "bases" /\ next_record' = 1 /\ n = Len(records)
    BY <1>2, <1>3, AdvanceIs
  <1>5. RecordsSeen = n - 1 /\ BasesSeen = 0 /\ ClassesSeen = 0
    BY <1>2 DEF RecordsSeen, BasesSeen, ClassesSeen
  <1>6. RecordsSeen' = n /\ BasesSeen' = 0 /\ ClassesSeen' = 0
    BY <1>2, <1>3, <1>4 DEF RecordsSeen, BasesSeen, ClassesSeen
  <1>7. PlaceInv'
    BY <1>1, <1>2, <1>3, <1>4 DEF PlaceInv
  <1>8. cr \in RecordSet /\ cls \in Class /\ cr.type \in Ids
    BY <1>1, <1>2, KnownFacts DEF RecordSet, ClassOf, Ids
  <1>9. \A i : i \in 1 .. n <=> i \in 1 .. n - 1 \/ i = n
    BY <1>2
  <1>10. IdsInv'
    <2>1. /\ classes \in Seq(Class) /\ IsInjective(classes)
          /\ ToSet(classes) = {ClassOf(records[i]) : i \in 1 .. n - 1}
          /\ type_ids \in [Class -> Seq(Ids)]
          /\ \A c \in Class :
               /\ IsInjective(type_ids[c])
               /\ \A t : t \in ToSet(type_ids[c])
                      <=> \E i \in 1 .. n - 1 : t = records[i].type /\ ClassOf(records[i]) = c
      BY <1>1, <1>5 DEF IdsInv
    <2>2. classes' \in Seq(Class) /\ IsInjective(classes') /\ ToSet(classes') = ToSet(classes) \cup {cls}
      <3>1. CASE cls \in ToSet(classes)
        BY <1>3, <2>1, <3>1
      <3>2. CASE cls \notin ToSet(classes)
        <4>1. classes' = Append(classes, cls)
          BY <1>3, <3>2
        <4> HIDE DEF cls
        <4> QED BY <1>8, <2>1, <3>2, <4>1, AppendIs
      <3> QED BY <3>1, <3>2
    <2>3. ToSet(classes') = {ClassOf(records[i]) : i \in 1 .. n}
      BY <1>9, <2>1, <2>2
    <2> DEFINE ids == type_ids[cls]
    <2>4. /\ type_ids' \in [Class -> Seq(Ids)]
          /\ \A c \in Class \ {cls} : type_ids'[c] = type_ids[c]
          /\ IsInjective(type_ids'[cls])
          /\ ToSet(type_ids'[cls]) = ToSet(ids) \cup {cr.type}
      <3>1. CASE cr.type \in ToSet(ids)
        BY <1>3, <1>8, <2>1, <3>1
      <3>2. CASE cr.type \notin ToSet(ids)
        <4>1. ids \in Seq(Ids) /\ IsInjective(ids)
          BY <1>8, <2>1
        <4>2. type_ids' = [type_ids EXCEPT ![cls] = Append(ids, cr.type)]
          BY <1>3, <3>2
        <4> HIDE DEF ids, cls
        <4>3. /\ Append(ids, cr.type) \in Seq(Ids) /\ IsInjective(Append(ids, cr.type))
              /\ ToSet(Append(ids, cr.type)) = ToSet(ids) \cup {cr.type}
          BY <1>8, <3>2, <4>1, AppendIs
        <4> QED BY <1>8, <2>1, <4>2, <4>3
      <3> QED BY <3>1, <3>2
    <2>5. ASSUME NEW c \in Class
          PROVE  /\ IsInjective(type_ids'[c])
                 /\ \A t : t \in ToSet(type_ids'[c])
                         <=> \E i \in 1 .. n : t = records[i].type /\ ClassOf(records[i]) = c
      <3>1. CASE c = cls
        <4>1. \A t : t \in ToSet(type_ids'[c])
                 <=> t = cr.type \/ \E i \in 1 .. n - 1 : t = records[i].type /\ ClassOf(records[i]) = c
          BY <2>1, <2>4, <3>1
        <4> QED BY <1>9, <2>4, <3>1, <4>1
      <3>2. CASE c # cls
        <4>1. type_ids'[c] = type_ids[c]
          BY <2>4, <3>2
        <4> QED BY <1>9, <2>1, <3>2, <4>1
      <3> QED BY <3>1, <3>2
    <2>6. is_abstract' \in [Class -> BOOLEAN] /\ static_vptr' \in [Class -> Ids \cup {<<>>}]
      <3>1. is_abstract \in [Class -> BOOLEAN] /\ static_vptr \in [Class -> Ids \cup {<<>>}]
        BY <1>1 DEF IdsInv
      <3>2. cr.is_abstract \in BOOLEAN /\ cr.static_vptr \in Ids
        BY <1>8 DEF RecordSet
      <3> HIDE DEF cls, cr
      <3>3. CASE cls \in ToSet(classes)
        BY <1>3, <3>1, <3>3
      <3>4. CASE cls \notin ToSet(classes)
        <4>1. is_abstract' = [is_abstract EXCEPT ![cls] = cr.is_abstract]
          BY <1>3, <3>4
        <4>2. static_vptr' = [static_vptr EXCEPT ![cls] = cr.static_vptr]
          BY <1>3, <3>4
        <4> QED BY <3>1, <3>2, <4>1, <4>2
      <3> QED BY <3>3, <3>4
    <2> HIDE DEF cls, cr
    <2>7. records' = records
      BY <1>3
    <2>8. ToSet(classes)' = {ClassOf(records[i]) : i \in 1 .. RecordsSeen}'
      BY <1>6, <2>3, <2>7
    <2>9. \A c \in Class :
            /\ IsInjective(type_ids'[c])
            /\ \A t : t \in ToSet(type_ids'[c])
                  <=> \E i \in 1 .. RecordsSeen' : t = records'[i].type /\ ClassOf(records'[i]) = c
      BY <1>6, <2>5, <2>7
    <2> QED BY <2>2, <2>4, <2>6, <2>8, <2>9 DEF IdsInv
  <1>11. BasesInv'
    BY <1>1, <1>3, <1>6 DEF BasesInv, KnownBases, Known
  <1>12. OrderInv'
    BY <1>6 DEF OrderInv
  <1>13. DirectInv'
    BY <1>1, <1>3, <1>6 DEF DirectInv
  <1>14. DerivedInv'
    <2>1. class_pc' # "done"
      BY <1>4
    <2> QED BY <1>1, <1>3, <2>1 DEF DerivedInv
  <1> QED BY <1>7, <1>10, <1>11, <1>12, <1>13, <1>14 DEF ClassInv

(* A base is a direct base, or a base of one.                              *)
LEMMA DirectStep ==
  ASSUME PlaceInv, NEW x \in Class, NEW d \in KnownBases(x)
  PROVE  \E y \in KnownDirectBases(x) : y = d \/ d \in KnownBases(y)
  <1> DEFINE Y == {y \in KnownBases(x) : y = d \/ d \in KnownBases(y)}
             below == [c \in Class |-> {e \in Class : c \in KnownBases(e)}]
  <1>1. /\ IsOrder(below) /\ KnownBases(x) \subseteq Class
        /\ \A c \in Class : \A b \in KnownBases(c) : KnownBases(b) \subseteq KnownBases(c)
    BY KnownFacts
  <1>2. PICK y \in Y : \A z \in Y : z \notin below[y]
    <2>1. Y \in SUBSET Class /\ d \in Y
      BY <1>1
    <2> HIDE DEF Y, below
    <2>2. Y # {}
      BY <2>1
    <2> QED BY <1>1, <2>1, <2>2, TopExists
  <1>3. y \in Class /\ y \in KnownBases(x) /\ (y = d \/ d \in KnownBases(y))
    BY <1>1, <1>2
  <1>4. ASSUME NEW e \in KnownBases(x), y \in program.bases[e] PROVE FALSE
    <2>1. e \in Class /\ y \in KnownBases(e)
      BY <1>1, <1>3, <1>4 DEF KnownBases
    <2>2. d \in KnownBases(e)
      BY <1>1, <1>3, <2>1
    <2>3. e \in Y /\ e \in below[y]
      BY <1>3, <2>1, <2>2
    <2> QED BY <1>2, <2>3
  <1>5. y \in KnownDirectBases(x)
    BY <1>3, <1>4 DEF KnownDirectBases
  <1> QED BY <1>3, <1>5

(* Before record n, every record of a chosen instantiation has given its   *)
(* class all its bases.                                                    *)
CompleteBefore(n, w, u) ==
    \A i \in 1 .. n - 1 :
        w[i] = u[ClassOf(records[i])]
          => KnownBases(ClassOf(records[i])) \subseteq transitive_bases[ClassOf(records[i])]

(* f leads from the bases that record r mentions to all those of its class.*)
Covers(f, r) == \A d \in KnownBases(ClassOf(r)) : \E b \in Proper(r) : d \in f[b]

(* What one record adds, if the instantiations come in order.              *)
LEMMA NoBaseMissing ==
  ASSUME PlaceInv, NEW w, IsArrangement(program, records, w), NEW u, IsChoice(u),
         NEW n \in 1 .. Len(records), w[n] = u[ClassOf(records[n])],
         NEW f, IsReach(f, transitive_bases), transitive_bases \in [Class -> SUBSET Class],
         CompleteBefore(n, w, u)
  PROVE  Covers(f, records[n])
  <1> DEFINE cls == ClassOf(records[n])
             k == w[n]
             above == [c \in Class |-> KnownBases(c)]
  <1> SUFFICES ASSUME NEW d \in KnownBases(cls)
               PROVE  \E b \in Proper(records[n]) : d \in f[b]
    BY DEF Covers
  <1>1. /\ Len(records) \in Nat \ {0} /\ cls \in Known /\ Known \subseteq Class /\ IsOrder(above)
        /\ \A c \in Class : c \notin KnownBases(c) /\ KnownBases(c) \subseteq Class
        /\ \A c \in Class : \A b \in KnownBases(c) : KnownBases(b) \subseteq KnownBases(c)
    BY KnownFacts
  <1>2. /\ w \in [1 .. Len(records) -> 1 .. Len(program.uses)]
        /\ Proper(records[n]) = ToSet(program.uses[k].list) \cap program.bases[cls]
        /\ \A i, j \in 1 .. Len(records) : i < j => w[i] <= w[j]
        /\ \A i \in 1 .. Len(program.uses) : \A c \in ToSet(program.uses[i].list) :
             \E m \in 1 .. Len(records) : w[m] = i /\ ClassOf(records[m]) = c
    BY DEF IsArrangement
  <1>3. /\ u \in [Known -> 1 .. Len(program.uses)]
        /\ \A c \in Known :
             /\ {c} \cup KnownDirectBases(c) \subseteq ToSet(program.uses[u[c]].list)
             /\ \A b \in KnownDirectBases(c) : u[b] <= u[c]
    BY DEF IsChoice
  <1> DEFINE X == {x \in {cls} \cup KnownBases(cls) : d \in KnownBases(x) /\ u[x] = k}
  <1>4. PICK x \in X : \A y \in X : y \notin above[x]
    <2>1. X \in SUBSET Class /\ cls \in X
      BY <1>1
    <2> HIDE DEF X, above, cls
    <2>2. X # {}
      BY <2>1
    <2> QED BY <1>1, <2>1, <2>2, TopExists
  <1>5. /\ x \in Class /\ x \in Known /\ d \in KnownBases(x) /\ u[x] = k
        /\ KnownBases(x) \subseteq KnownBases(cls)
    BY <1>1, <1>4 DEF KnownBases
  <1>6. PICK y \in KnownDirectBases(x) : y = d \/ d \in KnownBases(y)
    BY <1>5, DirectStep
  <1>7. /\ y \in KnownBases(x) /\ y \in KnownBases(cls) /\ y \in Known /\ y \in Class
        /\ y \in ToSet(program.uses[k].list) /\ u[y] <= k
    BY <1>1, <1>3, <1>5, <1>6 DEF KnownDirectBases, KnownBases
  <1>8. y \in Proper(records[n])
    BY <1>2, <1>7 DEF KnownBases
  <1>9. /\ \A m \in Class : m \in f[m]
        /\ \A m \in Class : \A l \in transitive_bases[m] : f[l] \subseteq f[m]
    BY DEF IsReach
  <1>10. CASE y = d
    BY <1>7, <1>8, <1>9, <1>10
  <1>11. CASE d \in KnownBases(y)
    <2>1. y \notin X
      BY <1>4, <1>5, <1>7
    <2>2. u[y] # k
      BY <1>7, <1>11, <2>1
    <2>3. u[y] \in 1 .. Len(program.uses) /\ k \in 1 .. Len(program.uses)
      BY <1>2, <1>3, <1>7
    <2>4. u[y] < k
      BY <1>7, <2>2, <2>3
    <2>5. PICK m \in 1 .. Len(records) : w[m] = u[y] /\ ClassOf(records[m]) = y
      BY <1>2, <1>3, <1>7, <2>3
    <2>6. m < n
      <3>1. m # n /\ ~ (w[n] <= w[m])
        BY <2>3, <2>4, <2>5
      <3> QED BY <1>2, <3>1
    <2>7. m \in 1 .. n - 1
      BY <1>1, <2>6
    <2>8. d \in transitive_bases[y]
      BY <1>11, <2>5, <2>7 DEF CompleteBefore
    <2>9. d \in Class /\ d \in f[d] /\ f[d] \subseteq f[y]
      BY <1>1, <1>5, <1>7, <1>9, <2>8
    <2> QED BY <1>8, <2>9
  <1> QED BY <1>6, <1>10, <1>11

LEMMA ClassStepBases == ClassInv /\ Classes!CollectBases => ClassInv'
  <1> SUFFICES ASSUME ClassInv, Classes!CollectBases PROVE ClassInv'
    OBVIOUS
  <1> DEFINE n == next_record
             cls == ClassOf(records[n])
             f == Classes!Reachable(transitive_bases)
             added == UNION {f[b] : b \in Proper(records[n])}
  <1>1. PlaceInv /\ IdsInv /\ BasesInv /\ OrderInv /\ DirectInv /\ DerivedInv
    BY DEF ClassInv
  <1>2. /\ class_pc = "bases" /\ n \in 1 .. Len(records) /\ n - 1 \in Nat
        /\ Len(records) \in Nat \ {0}
    BY <1>1, KnownFacts DEF PlaceInv, Classes!CollectBases
  <1>3. /\ UNCHANGED <<program, records, classes, type_ids, is_abstract, static_vptr,
                       direct_bases, direct_derived, transitive_derived>>
        /\ Classes!Advance(records, "direct")
        /\ transitive_bases' = [transitive_bases EXCEPT ![cls] = @ \cup added]
    BY DEF Classes!CollectBases, Classes!type_index, Classes!collect_transitive_bases, ClassOf, Proper
  <1>4. \/ class_pc' = "bases" /\ next_record' = n + 1 /\ next_record' <= Len(records)
        \/ class_pc' = "direct" /\ next_record' = 1 /\ n = Len(records)
    BY <1>2, <1>3, AdvanceIs
  <1>5. RecordsSeen = Len(records) /\ BasesSeen = n - 1 /\ ClassesSeen = 0
    BY <1>2 DEF RecordsSeen, BasesSeen, ClassesSeen
  <1>6. RecordsSeen' = Len(records) /\ BasesSeen' = n /\ ClassesSeen' = 0
    BY <1>2, <1>3, <1>4 DEF RecordsSeen, BasesSeen, ClassesSeen
  <1>7. /\ \A i \in 1 .. Len(records) : ClassOf(records[i]) \in Known
        /\ Known \subseteq Class
        /\ \A i \in 1 .. Len(records) :
             Proper(records[i]) \subseteq KnownBases(ClassOf(records[i]))
        /\ IsOrder([c \in Class |-> KnownBases(c)])
        /\ \A c \in Class : c \notin KnownBases(c) /\ KnownBases(c) \subseteq Class
        /\ \A c \in Class : \A b \in KnownBases(c) : KnownBases(b) \subseteq KnownBases(c)
    BY <1>1, KnownFacts
  <1>8. /\ transitive_bases \in [Class -> SUBSET Class]
        /\ \A c \in Class : transitive_bases[c] \subseteq KnownBases(c)
        /\ \A i \in 1 .. n - 1 : Proper(records[i]) \subseteq transitive_bases[ClassOf(records[i])]
    BY <1>1, <1>5 DEF BasesInv
  <1> DEFINE above == [c \in Class |-> KnownBases(c)]
  <1>9. IsReach(f, transitive_bases) /\ \A b \in Class : f[b] \subseteq {b} \cup KnownBases(b)
    <2>1. IsOrder(above) /\ \A c \in Class : transitive_bases[c] \subseteq above[c]
      BY <1>7, <1>8
    <2>2. \A c \in Class : above[c] = KnownBases(c)
      OBVIOUS
    <2> HIDE DEF above
    <2>3. IsReach(f, transitive_bases)
      BY <1>8, <2>1, ReachableIs
    <2> HIDE DEF f
    <2>4. \A b \in Class : f[b] \subseteq {b} \cup above[b]
      BY <1>8, <2>1, <2>3, ReachIsAbove
    <2> QED BY <2>2, <2>3, <2>4 DEF f
  <1> HIDE DEF f
  <1>10. cls \in Class /\ Proper(records[n]) \subseteq KnownBases(cls)
    BY <1>2, <1>7
  <1>11. Proper(records[n]) \subseteq added /\ added \subseteq KnownBases(cls)
    <2>1. \A b \in Proper(records[n]) : b \in Class /\ b \in f[b]
      BY <1>7, <1>9, <1>10 DEF IsReach
    <2>2. \A b \in Proper(records[n]) : f[b] \subseteq KnownBases(cls)
      BY <1>7, <1>9, <1>10, <2>1
    <2> QED BY <2>1, <2>2
  <1> HIDE DEF added
  <1>12. /\ transitive_bases' \in [Class -> SUBSET Class]
         /\ transitive_bases'[cls] = transitive_bases[cls] \cup added
         /\ \A c \in Class : /\ transitive_bases[c] \subseteq transitive_bases'[c]
                             /\ transitive_bases'[c] \subseteq KnownBases(c)
    <2> HIDE DEF cls
    <2> QED BY <1>3, <1>7, <1>8, <1>10, <1>11
  <1>13. Known' = Known /\ \A c : KnownBases(c)' = KnownBases(c)
    BY <1>3 DEF KnownBases, Known
  <1>14. \A i : i \in 1 .. n <=> i \in 1 .. n - 1 \/ i = n
    BY <1>2
  <1>15. BasesInv'
    <2>1. \A i \in 1 .. n : Proper(records[i]) \subseteq transitive_bases'[ClassOf(records[i])]
      <3>1. \A i \in 1 .. n - 1 : ClassOf(records[i]) \in Class
        BY <1>2, <1>7
      <3> QED BY <1>8, <1>11, <1>12, <1>14, <3>1
    <2>2. \A c \in Class : transitive_bases'[c] \subseteq KnownBases(c)'
      BY <1>12, <1>13
    <2>3. \A i \in 1 .. BasesSeen' : Proper(records'[i]) \subseteq transitive_bases'[ClassOf(records'[i])]
      BY <1>3, <1>6, <2>1
    <2> QED BY <1>12, <2>2, <2>3 DEF BasesInv
  <1>16. ASSUME NEW w, NEW u, IsArrangement(program, records, w), IsChoice(u),
                NEW i \in 1 .. n, w[i] = u[ClassOf(records[i])]
         PROVE  KnownBases(ClassOf(records[i])) \subseteq transitive_bases'[ClassOf(records[i])]
    <2>1. \A j \in 1 .. n - 1 :
            w[j] = u[ClassOf(records[j])]
              => KnownBases(ClassOf(records[j])) \subseteq transitive_bases[ClassOf(records[j])]
      BY <1>1, <1>5, <1>16 DEF OrderInv
    <2>2. CASE i \in 1 .. n - 1
      <3>1. ClassOf(records[i]) \in Class
        BY <1>2, <1>7, <2>2
      <3> QED BY <1>12, <1>16, <2>1, <2>2, <3>1
    <2>3. CASE i = n
      <3>0. /\ w[n] = u[ClassOf(records[n])] /\ n \in 1 .. Len(records)
            /\ IsArrangement(program, records, w) /\ IsChoice(u)
            /\ IsReach(f, transitive_bases) /\ transitive_bases \in [Class -> SUBSET Class]
        BY <1>2, <1>8, <1>9, <1>16, <2>3
      <3>1. CompleteBefore(n, w, u)
        BY <2>1 DEF CompleteBefore
      <3>2a. Covers(f, records[n])
        <4> HIDE DEF n, cls
        <4> QED BY <1>1, <3>0, <3>1, NoBaseMissing
      <3>2. KnownBases(cls) \subseteq added
        BY <3>2a DEF added, Covers
      <3> QED BY <1>12, <2>3, <3>2
    <2> QED BY <1>14, <2>2, <2>3
  <1>17. OrderInv'
    <2>1. \A u : IsChoice(u)' <=> IsChoice(u)
      <3>1. \A c : KnownDirectBases(c)' = KnownDirectBases(c)
        BY <1>3, <1>13 DEF KnownDirectBases
      <3> QED BY <1>3, <1>13, <3>1 DEF IsChoice
    <2> SUFFICES ASSUME NEW w, NEW u, IsArrangement(program, records, w)', IsChoice(u)',
                        NEW i \in 1 .. BasesSeen', w[i] = u[ClassOf(records[i])']
                 PROVE  KnownBases(ClassOf(records[i]))'
                          \subseteq transitive_bases'[ClassOf(records[i])']
      BY DEF OrderInv
    <2>2. IsArrangement(program, records, w) /\ IsChoice(u) /\ i \in 1 .. n
      BY <1>3, <1>6, <2>1
    <2>3. ClassOf(records[i])' = ClassOf(records[i])
      BY <1>3
    <2>4. KnownBases(ClassOf(records[i])) \subseteq transitive_bases'[ClassOf(records[i])]
      BY <1>16, <2>2, <2>3
    <2> QED BY <1>3, <1>13, <2>4 DEF KnownBases
  <1>18. PlaceInv'
    <2>1. class_pc' = "direct" => 1 <= Len(classes)
      <3>1. ToSet(classes) = {ClassOf(records[i]) : i \in 1 .. Len(records)} /\ classes \in Seq(Class)
        BY <1>1, <1>5 DEF IdsInv
      <3>2. cls \in ToSet(classes)
        BY <1>2, <3>1
      <3>3. classes # << >>
        BY <3>2 DEF ToSet
      <3> QED BY <3>1, <3>3
    <2> QED BY <1>1, <1>2, <1>3, <1>4, <2>1 DEF PlaceInv
  <1>19. IdsInv'
    BY <1>1, <1>3, <1>5, <1>6 DEF IdsInv
  <1>20. DirectInv'
    BY <1>1, <1>3, <1>6, <1>12 DEF DirectInv
  <1>21. DerivedInv'
    <2>1. class_pc' # "done"
      BY <1>4
    <2> QED BY <1>1, <1>3, <2>1 DEF DerivedInv
  <1> QED BY <1>15, <1>17, <1>18, <1>19, <1>20, <1>21 DEF ClassInv

(* Only the second loop over the records adds bases.                       *)
LEMMA OrderInvKept ==
  ASSUME OrderInv, program' = program, records' = records, transitive_bases' = transitive_bases,
         BasesSeen' = BasesSeen
  PROVE  OrderInv'
  <1>1. Known' = Known /\ \A c : KnownBases(c)' = KnownBases(c)
    BY DEF KnownBases, Known
  <1>2. \A c : KnownDirectBases(c)' = KnownDirectBases(c)
    BY <1>1 DEF KnownDirectBases
  <1>3. \A u : IsChoice(u)' <=> IsChoice(u)
    BY <1>1, <1>2 DEF IsChoice
  <1> SUFFICES ASSUME NEW w, NEW u, IsArrangement(program, records, w)', IsChoice(u)',
                      NEW i \in 1 .. BasesSeen', w[i] = u[ClassOf(records[i])']
               PROVE  KnownBases(ClassOf(records[i]))' \subseteq transitive_bases'[ClassOf(records[i])']
    BY DEF OrderInv
  <1>4. /\ IsArrangement(program, records, w) /\ IsChoice(u) /\ i \in 1 .. BasesSeen
        /\ ClassOf(records[i])' = ClassOf(records[i])
    BY <1>3
  <1>5. KnownBases(ClassOf(records[i])) \subseteq transitive_bases[ClassOf(records[i])]
    BY <1>4 DEF OrderInv
  <1> QED BY <1>1, <1>4, <1>5 DEF KnownBases

LEMMA ClassStepDirect == ClassInv /\ Classes!FindDirectBases => ClassInv'
  <1> SUFFICES ASSUME ClassInv, Classes!FindDirectBases PROVE ClassInv'
    OBVIOUS
  <1> DEFINE n == next_record
             cls == classes[n]
  <1>1. PlaceInv /\ IdsInv /\ BasesInv /\ OrderInv /\ DirectInv /\ DerivedInv
    BY DEF ClassInv
  <1>2. /\ class_pc = "direct" /\ n \in 1 .. Len(classes) /\ n - 1 \in Nat
        /\ Len(classes) \in Nat /\ DOMAIN classes = 1 .. Len(classes)
        /\ classes \in Seq(Class) /\ IsInjective(classes)
    BY <1>1 DEF PlaceInv, IdsInv, Classes!FindDirectBases
  <1>3. /\ UNCHANGED <<program, records, classes, type_ids, is_abstract, static_vptr,
                       transitive_bases, direct_derived, transitive_derived>>
        /\ Classes!Advance(classes, "derived")
    BY DEF Classes!FindDirectBases
  <1>4. PICK order \in Classes!SortedBases(cls) :
             direct_bases' = [direct_bases EXCEPT ![cls] = Classes!UnmarkedBases(order)]
    BY DEF Classes!FindDirectBases
  <1>5. \/ class_pc' = "direct" /\ next_record' = n + 1 /\ next_record' <= Len(classes)
        \/ class_pc' = "derived" /\ next_record' = 1 /\ n = Len(classes)
    <2>1. Len(classes) \in Nat /\ next_record \in Nat \ {0} /\ next_record <= Len(classes)
      BY <1>2
    <2>2. \/ class_pc' = class_pc /\ next_record' = next_record + 1 /\ next_record' <= Len(classes)
          \/ class_pc' = "derived" /\ next_record' = 1 /\ next_record = Len(classes)
      BY <1>3, <2>1, AdvanceIs
    <2> QED BY <1>2, <2>2
  <1>6. RecordsSeen = Len(records) /\ BasesSeen = Len(records) /\ ClassesSeen = n - 1
    BY <1>2 DEF RecordsSeen, BasesSeen, ClassesSeen
  <1>7. RecordsSeen' = Len(records) /\ BasesSeen' = Len(records) /\ ClassesSeen' = n
    <2>1. records' = records /\ classes' = classes
      BY <1>3
    <2>2. n \in Nat /\ n + 1 - 1 = n
      BY <1>2
    <2> QED BY <1>5, <2>1, <2>2 DEF RecordsSeen, BasesSeen, ClassesSeen
  <1>8. \A i \in 1 .. Len(classes) : classes[i] \in Class
    BY <1>2
  <1>9. IsDirect(cls, Classes!UnmarkedBases(order)) /\ transitive_bases \in [Class -> SUBSET Class]
    <2>1. cls \in Class /\ transitive_bases \in [Class -> SUBSET Class]
      BY <1>1, <1>2, <1>8 DEF BasesInv
    <2> HIDE DEF cls
    <2> QED BY <1>4, <2>1, UnmarkedIs
  <1> DEFINE D == Classes!UnmarkedBases(order)
  <1>11. /\ direct_bases' = [direct_bases EXCEPT ![cls] = D]
         /\ IsDirect(cls, D) /\ D \subseteq transitive_bases[cls]
    BY <1>4, <1>9 DEF IsDirect
  <1> HIDE DEF D
  <1>12. /\ direct_bases \in [Class -> SUBSET Class]
         /\ \A c \in Class : direct_bases[c] \subseteq transitive_bases[c]
         /\ \A i \in 1 .. n - 1 : IsDirect(classes[i], direct_bases[classes[i]])
    BY <1>1, <1>6 DEF DirectInv
  <1>13. \A i \in 1 .. n - 1 : classes[i] # cls
    BY <1>2 DEF IsInjective
  <1>14. /\ direct_bases' \in [Class -> SUBSET Class]
         /\ direct_bases'[cls] = D
         /\ \A c \in Class : c # cls => direct_bases'[c] = direct_bases[c]
         /\ \A c \in Class : direct_bases'[c] \subseteq transitive_bases[c]
    <2>1. cls \in Class
      BY <1>2, <1>8
    <2> HIDE DEF cls
    <2> QED BY <1>9, <1>11, <1>12, <2>1
  <1>15. DirectInv'
    <2>1. \A i : i \in 1 .. n <=> i \in 1 .. n - 1 \/ i = n
      BY <1>2
    <2>2. \A i \in 1 .. n - 1 : classes[i] \in Class
      BY <1>2, <1>8
    <2>3. \A i \in 1 .. n : IsDirect(classes[i], direct_bases'[classes[i]])
      BY <1>11, <1>12, <1>13, <1>14, <2>1, <2>2
    <2>4. \A i \in 1 .. ClassesSeen' : IsDirect(classes[i], direct_bases[classes[i]])'
      BY <1>3, <1>7, <2>3 DEF IsDirect
    <2>5. \A c \in Class : direct_bases'[c] \subseteq transitive_bases'[c]
      <3>1. transitive_bases' = transitive_bases
        BY <1>3
      <3> QED BY <1>14, <3>1
    <2> QED BY <1>14, <2>4, <2>5 DEF DirectInv
  <1>16. PlaceInv'
    <2>1. program' = program /\ records' = records /\ classes' = classes
      BY <1>3
    <2>2. program \in Programs /\ records = Classes!Registered(program)
      BY <1>1 DEF PlaceInv
    <2>3. program' \in Programs /\ records' = Classes!Registered(program')
      BY <2>1, <2>2
    <2>4. /\ class_pc' \in {"direct", "derived"} /\ next_record' \in Nat \ {0}
          /\ class_pc' = "direct" => next_record' <= Len(classes')
      <3>1. n \in Nat \ {0} /\ n + 1 \in Nat \ {0}
        BY <1>2
      <3>2. Len(classes') = Len(classes)
        BY <2>1
      <3> QED BY <1>5, <3>1, <3>2
    <2>5. class_pc' \notin {"register", "bases"}
      BY <2>4
    <2> QED BY <2>3, <2>4, <2>5 DEF PlaceInv
  <1>17. IdsInv'
    BY <1>1, <1>3, <1>6, <1>7 DEF IdsInv
  <1>18. Known' = Known /\ \A c : KnownBases(c)' = KnownBases(c)
    BY <1>3 DEF KnownBases, Known
  <1>19. BasesInv'
    <2>1. \A c \in Class : transitive_bases'[c] \subseteq KnownBases(c)'
      BY <1>1, <1>3, <1>18 DEF BasesInv
    <2> QED BY <1>1, <1>3, <1>6, <1>7, <2>1 DEF BasesInv
  <1>20. OrderInv'
    BY <1>1, <1>3, <1>6, <1>7, <1>18, OrderInvKept
  <1>21. DerivedInv'
    <2>1. class_pc' # "done"
      BY <1>5
    <2> QED BY <1>1, <1>3, <2>1 DEF DerivedInv
  <1> QED BY <1>15, <1>16, <1>17, <1>19, <1>20, <1>21 DEF ClassInv

LEMMA ClassStepDerived == ClassInv /\ Classes!CalculateDerived => ClassInv'
  <1> SUFFICES ASSUME ClassInv, Classes!CalculateDerived PROVE ClassInv'
    OBVIOUS
  <1> DEFINE known == ToSet(classes)
             derived == [b \in Class |-> {c \in known : b \in direct_bases[c]}]
             below == [c \in Class |-> {d \in Class : c \in KnownBases(d)}]
             f == Classes!Reachable(derived)
  <1>1. PlaceInv /\ IdsInv /\ BasesInv /\ OrderInv /\ DirectInv /\ DerivedInv
    BY DEF ClassInv
  <1>2. class_pc = "derived" /\ class_pc' = "done" /\ next_record' = next_record
    BY DEF Classes!CalculateDerived
  <1>3. UNCHANGED <<program, records, classes, type_ids, is_abstract, static_vptr,
                    transitive_bases, direct_bases>>
    BY DEF Classes!CalculateDerived
  <1>4. /\ direct_derived' =
             [b \in Class |-> Classes!Select(classes, {c \in Class : b \in direct_bases[c]})]
        /\ transitive_derived' = Classes!calculate_transitive_derived(direct_derived')
    BY DEF Classes!CalculateDerived
  <1>5. /\ RecordsSeen = Len(records) /\ BasesSeen = Len(records) /\ ClassesSeen = Len(classes)
        /\ RecordsSeen' = Len(records) /\ BasesSeen' = Len(records) /\ ClassesSeen' = Len(classes)
    <2>1. records' = records /\ classes' = classes
      BY <1>3
    <2> QED BY <1>2, <2>1 DEF RecordsSeen, BasesSeen, ClassesSeen
  <1>6. classes \in Seq(Class) /\ IsInjective(classes) /\ known \subseteq Class
    <2>1. classes \in Seq(Class) /\ IsInjective(classes)
      BY <1>1 DEF IdsInv
    <2> QED BY <2>1 DEF ToSet
  <1>7. \A b \in Class :
          /\ direct_derived'[b] \in Seq(Class)
          /\ ToSet(direct_derived'[b]) = derived[b]
          /\ IsInjective(direct_derived'[b])
    <2> TAKE b \in Class
    <2> DEFINE S == {c \in Class : b \in direct_bases[c]}
    <2>1. direct_derived'[b] = Classes!Select(classes, S)
      BY <1>4
    <2>2. known \cap S = derived[b]
      BY <1>6
    <2> HIDE DEF S, derived
    <2>3. /\ Classes!Select(classes, S) \in Seq(Class)
          /\ ToSet(Classes!Select(classes, S)) = known \cap S
          /\ IsInjective(Classes!Select(classes, S))
      BY <1>6, SelectIs
    <2> QED BY <2>1, <2>2, <2>3
  <1>8. direct_derived' \in [Class -> Seq(Class)]
    <2>1. direct_derived' = [b \in Class |-> direct_derived'[b]]
      BY <1>4
    <2> QED BY <1>7, <2>1
  <1>9. IsReach(f, derived) /\ derived \in [Class -> SUBSET Class]
    <2>1. IsOrder(below)
      BY <1>1, KnownFacts
    <2>2. derived \in [Class -> SUBSET Class]
      BY <1>6
    <2>3. \A b \in Class : derived[b] \subseteq below[b]
      <3>1. \A c \in Class : direct_bases[c] \subseteq KnownBases(c)
        BY <1>1 DEF BasesInv, DirectInv
      <3> QED BY <1>6, <3>1
    <2> HIDE DEF below, derived
    <2> QED BY <2>1, <2>2, <2>3, ReachableIs
  <1>10. \A c \in Class : transitive_derived'[c] = IF c \in known THEN f[c] ELSE {}
    <2>1. [b \in Class |-> Classes!ToSet(direct_derived'[b])] = derived
      <3>1. \A b \in Class : Classes!ToSet(direct_derived'[b]) = derived[b]
        BY <1>7, SameLibrary
      <3> QED BY <1>9, <3>1
    <2>2. Classes!ToSet(classes) = known
      BY SameLibrary
    <2> HIDE DEF known, derived
    <2> QED BY <1>4, <2>1, <2>2 DEF Classes!calculate_transitive_derived
  <1>11. transitive_derived' \in [Class -> SUBSET Class]
    <2>1. transitive_derived' = [c \in Class |-> transitive_derived'[c]]
      BY <1>4 DEF Classes!calculate_transitive_derived
    <2>2. \A c \in Class : f[c] \in SUBSET Class
      BY <1>9 DEF IsReach
    <2>3. \A c \in Class : transitive_derived'[c] \in SUBSET Class
      BY <1>10, <2>2
    <2> QED BY <2>1, <2>3
  <1>12. ASSUME NEW c \in known
         PROVE  /\ transitive_derived'[c] =
                     {c} \cup UNION {transitive_derived'[d] : d \in ToSet(direct_derived'[c])}
                /\ \A S \in SUBSET Class :
                     c \in S /\ (\A d \in S : ToSet(direct_derived'[d]) \subseteq S)
                       => transitive_derived'[c] \subseteq S
    <2>1. c \in Class /\ ToSet(direct_derived'[c]) = derived[c] /\ derived[c] \subseteq known
      BY <1>6, <1>7
    <2>2. transitive_derived'[c] = f[c] /\ \A d \in derived[c] : transitive_derived'[d] = f[d]
      BY <1>6, <1>10, <2>1
    <2>3. f[c] = {c} \cup UNION {f[d] : d \in derived[c]}
      BY <1>9, <2>1 DEF IsReach
    <2>4. UNION {transitive_derived'[d] : d \in derived[c]} = UNION {f[d] : d \in derived[c]}
      BY <2>2
    <2>5. ASSUME NEW S \in SUBSET Class, c \in S, \A d \in S : ToSet(direct_derived'[d]) \subseteq S
          PROVE  transitive_derived'[c] \subseteq S
      <3>1. \A d \in S : derived[d] \subseteq S
        BY <1>7, <2>5
      <3> HIDE DEF derived
      <3> QED BY <1>9, <2>1, <2>2, <2>5, <3>1 DEF IsReach
    <2> QED BY <2>1, <2>2, <2>3, <2>4, <2>5
  <1>13. DerivedInv'
    <2>1. classes' = classes /\ direct_bases' = direct_bases
      BY <1>3
    <2>2. \A b \in Class :
            /\ IsInjective(direct_derived'[b])
            /\ ToSet(direct_derived'[b]) = {c \in ToSet(classes') : b \in direct_bases'[c]}
      BY <1>7, <2>1
    <2>3. \A c \in Class \ ToSet(classes') : transitive_derived'[c] = {}
      BY <1>10, <2>1
    <2>4. \A c \in ToSet(classes') :
            /\ transitive_derived'[c] =
                 {c} \cup UNION {transitive_derived'[d] : d \in ToSet(direct_derived'[c])}
            /\ \A S \in SUBSET Class :
                 c \in S /\ (\A d \in S : ToSet(direct_derived'[d]) \subseteq S)
                   => transitive_derived'[c] \subseteq S
      BY <1>12, <2>1
    <2> HIDE DEF known, derived, f
    <2> QED BY <1>8, <1>11, <2>2, <2>3, <2>4 DEF DerivedInv
  <1>14. Known' = Known /\ \A c : KnownBases(c)' = KnownBases(c)
    BY <1>3 DEF KnownBases, Known
  <1>15. PlaceInv'
    <2>1. program' = program /\ records' = records
      BY <1>3
    <2>2. program' \in Programs /\ records' = Classes!Registered(program') /\ next_record \in Nat \ {0}
      BY <1>1, <2>1 DEF PlaceInv
    <2> QED BY <1>2, <2>2 DEF PlaceInv
  <1>16. IdsInv'
    BY <1>1, <1>3, <1>5 DEF IdsInv
  <1>17. BasesInv'
    <2>1. \A c \in Class : transitive_bases'[c] \subseteq KnownBases(c)'
      BY <1>1, <1>3, <1>14 DEF BasesInv
    <2> QED BY <1>1, <1>3, <1>5, <2>1 DEF BasesInv
  <1>18. OrderInv'
    BY <1>1, <1>3, <1>5, OrderInvKept
  <1>19. DirectInv'
    <2>1. transitive_bases' = transitive_bases /\ direct_bases' = direct_bases /\ classes' = classes
      BY <1>3
    <2> QED BY <1>1, <1>5, <2>1 DEF DirectInv, IsDirect
  <1> QED BY <1>13, <1>15, <1>16, <1>17, <1>18, <1>19 DEF ClassInv

LEMMA ClassStutter == ClassInv /\ UNCHANGED classVars => ClassInv'
  <1> SUFFICES ASSUME ClassInv, UNCHANGED classVars PROVE ClassInv'
    OBVIOUS
  <1>1. PlaceInv /\ IdsInv /\ BasesInv /\ OrderInv /\ DirectInv /\ DerivedInv
    BY DEF ClassInv
  <1>2. /\ UNCHANGED <<program, records, class_pc, next_record, classes>>
        /\ UNCHANGED <<type_ids, is_abstract, static_vptr, transitive_bases, direct_bases>>
        /\ UNCHANGED <<direct_derived, transitive_derived>>
    BY DEF classVars
  <1>3. RecordsSeen' = RecordsSeen /\ BasesSeen' = BasesSeen /\ ClassesSeen' = ClassesSeen
    BY <1>2 DEF RecordsSeen, BasesSeen, ClassesSeen
  <1>4. Known' = Known /\ \A c : KnownBases(c)' = KnownBases(c)
    BY <1>2 DEF KnownBases, Known
  <1>5. PlaceInv'
    <2>1. program' \in Programs /\ records' = Classes!Registered(program')
      BY <1>1, <1>2 DEF PlaceInv
    <2> QED BY <1>1, <1>2, <2>1 DEF PlaceInv
  <1>6. IdsInv'
    BY <1>1, <1>2, <1>3 DEF IdsInv
  <1>7. BasesInv'
    <2>1. \A c \in Class : transitive_bases'[c] \subseteq KnownBases(c)'
      BY <1>1, <1>2, <1>4 DEF BasesInv
    <2> QED BY <1>1, <1>2, <1>3, <2>1 DEF BasesInv
  <1>8. OrderInv'
    BY <1>1, <1>2, <1>3, OrderInvKept
  <1>9. DirectInv'
    BY <1>1, <1>2, <1>3 DEF DirectInv, IsDirect
  <1>10. DerivedInv'
    BY <1>1, <1>2 DEF DerivedInv
  <1> QED BY <1>5, <1>6, <1>7, <1>8, <1>9, <1>10 DEF ClassInv

-----------------------------------------------------------------------------
(* What the tables of augment_classes say when it is done.                 *)

LEMMA TrueIs ==
  ASSUME PlaceInv
  PROVE  /\ \A c : Classes!TrueBases(c) = KnownBases(c)
         /\ \A c : Classes!TrueDirectBases(c) = KnownDirectBases(c)
  <1>1. records \in Seq(RecordSet)
    BY KnownFacts
  <1>2. ToSet(records) = {records[i] : i \in 1 .. Len(records)}
    BY <1>1 DEF ToSet
  <1>3. {Classes!type_index(r.type) : r \in Classes!ToSet(records)} = Known
    <2>1. \A r : Classes!type_index(r.type) = ClassOf(r)
      BY DEF Classes!type_index, ClassOf
    <2>2. Classes!ToSet(records) = {records[i] : i \in 1 .. Len(records)}
      BY <1>2, SameLibrary
    <2> QED BY <2>1, <2>2 DEF Known
  <1>4. \A c : Classes!TrueBases(c) = KnownBases(c)
    BY <1>3 DEF Classes!TrueBases, KnownBases
  <1>5. \A c : Classes!TrueDirectBases(c) = KnownDirectBases(c)
    BY <1>4 DEF Classes!TrueDirectBases, KnownDirectBases
  <1> QED BY <1>4, <1>5

LEMMA EndFacts ==
  ASSUME ClassInv, class_pc = "done"
  PROVE  /\ PlaceInv
         /\ classes \in Seq(Class) /\ IsInjective(classes) /\ ToSet(classes) = Known
         /\ transitive_bases \in [Class -> SUBSET Class]
         /\ \A c \in Class : transitive_bases[c] \subseteq KnownBases(c)
         /\ direct_bases \in [Class -> SUBSET Class]
         /\ \A c \in Class : direct_bases[c] \subseteq transitive_bases[c]
         /\ \A c \in Known : IsDirect(c, direct_bases[c])
         /\ direct_derived \in [Class -> Seq(Class)]
         /\ \A b \in Class :
              /\ IsInjective(direct_derived[b])
              /\ ToSet(direct_derived[b]) = {c \in Known : b \in direct_bases[c]}
         /\ transitive_derived \in [Class -> SUBSET Class]
         /\ \A c \in Class \ Known : transitive_derived[c] = {}
         /\ \A c \in Known :
              /\ c \in transitive_derived[c]
              /\ \A d \in ToSet(direct_derived[c]) : transitive_derived[d] \subseteq transitive_derived[c]
              /\ \A S \in SUBSET Class :
                   c \in S /\ (\A d \in S : ToSet(direct_derived[d]) \subseteq S)
                     => transitive_derived[c] \subseteq S
  <1>1. PlaceInv /\ IdsInv /\ BasesInv /\ DirectInv /\ DerivedInv
    BY DEF ClassInv
  <1>2. RecordsSeen = Len(records) /\ BasesSeen = Len(records) /\ ClassesSeen = Len(classes)
    BY DEF RecordsSeen, BasesSeen, ClassesSeen
  <1>3. classes \in Seq(Class) /\ IsInjective(classes) /\ ToSet(classes) = Known
    BY <1>1, <1>2 DEF IdsInv, Known
  <1>4. \A c \in Known : IsDirect(c, direct_bases[c])
    <2>1. \A c \in ToSet(classes) : \E i \in 1 .. Len(classes) : c = classes[i]
      BY <1>3 DEF ToSet
    <2>2. \A i \in 1 .. Len(classes) : IsDirect(classes[i], direct_bases[classes[i]])
      BY <1>1, <1>2 DEF DirectInv
    <2> QED BY <1>3, <2>1, <2>2
  <1>5. /\ transitive_bases \in [Class -> SUBSET Class]
        /\ \A c \in Class : transitive_bases[c] \subseteq KnownBases(c)
    BY <1>1 DEF BasesInv
  <1>6. /\ direct_bases \in [Class -> SUBSET Class]
        /\ \A c \in Class : direct_bases[c] \subseteq transitive_bases[c]
    BY <1>1 DEF DirectInv
  <1>7. /\ direct_derived \in [Class -> Seq(Class)]
        /\ transitive_derived \in [Class -> SUBSET Class]
        /\ \A b \in Class :
              /\ IsInjective(direct_derived[b])
              /\ ToSet(direct_derived[b]) = {c \in ToSet(classes) : b \in direct_bases[c]}
        /\ \A c \in Class \ ToSet(classes) : transitive_derived[c] = {}
    BY <1>1 DEF DerivedInv
  <1>8. \A c \in ToSet(classes) :
              /\ transitive_derived[c] =
                   {c} \cup UNION {transitive_derived[d] : d \in ToSet(direct_derived[c])}
              /\ \A S \in SUBSET Class :
                   c \in S /\ (\A d \in S : ToSet(direct_derived[d]) \subseteq S)
                     => transitive_derived[c] \subseteq S
    BY <1>1 DEF DerivedInv
  <1>9. \A c \in ToSet(classes) :
              /\ c \in transitive_derived[c]
              /\ \A d \in ToSet(direct_derived[c]) : transitive_derived[d] \subseteq transitive_derived[c]
    <2> TAKE c \in ToSet(classes)
    <2>1. transitive_derived[c] =
                   {c} \cup UNION {transitive_derived[d] : d \in ToSet(direct_derived[c])}
      BY <1>8
    <2> QED BY <2>1
  <1> QED BY <1>1, <1>3, <1>4, <1>5, <1>6, <1>7, <1>8, <1>9

(* A class is derived from those below which it stands, and no other.      *)
LEMMA DerivedIsSound ==
  ASSUME ClassInv, class_pc = "done", NEW c \in Known, NEW d \in transitive_derived[c]
  PROVE  /\ d \in Known /\ (d = c \/ c \in KnownBases(d))
         /\ transitive_derived[d] \subseteq transitive_derived[c]
  <1> DEFINE S == {x \in Known : /\ x = c \/ c \in KnownBases(x)
                                 /\ transitive_derived[x] \subseteq transitive_derived[c]}
  <1>1. /\ c \in Class /\ Known \subseteq Class
        /\ \A x \in Class : \A b \in KnownBases(x) : KnownBases(b) \subseteq KnownBases(x)
        /\ \A x \in Class : KnownBases(x) \subseteq Class
    BY EndFacts, KnownFacts
  <1>2. ASSUME NEW x \in S, NEW y \in ToSet(direct_derived[x]) PROVE y \in S
    <2>1. x \in Class /\ x \in Known
      BY <1>1
    <2>2. y \in Known /\ y \in Class /\ x \in direct_bases[y]
      BY <1>1, <2>1, EndFacts
    <2>3. x \in KnownBases(y)
      BY <2>2, EndFacts
    <2>4. c \in KnownBases(y)
      BY <1>1, <2>2, <2>3
    <2>5. transitive_derived[y] \subseteq transitive_derived[x]
      BY <2>1, EndFacts
    <2>6. transitive_derived[x] \subseteq transitive_derived[c]
      OBVIOUS
    <2> QED BY <2>2, <2>4, <2>5, <2>6
  <1>3. S \in SUBSET Class /\ c \in S
    BY <1>1
  <1>4. \A x \in S : ToSet(direct_derived[x]) \subseteq S
    BY <1>2
  <1> HIDE DEF S
  <1>5. transitive_derived[c] \subseteq S
    BY <1>3, <1>4, EndFacts
  <1> QED BY <1>5 DEF S

(* Every class is listed with its direct bases.                            *)
Listing == \A c \in Known : \E i \in 1 .. Len(program.uses) :
               {c} \cup KnownDirectBases(c) \subseteq ToSet(program.uses[i].list)

LEMMA DirectAreFound ==
  ASSUME ClassInv, class_pc = "done", Listing, NEW c \in Known
  PROVE  KnownDirectBases(c) \subseteq direct_bases[c]
  <1>1. PlaceInv /\ BasesInv /\ BasesSeen = Len(records)
    BY DEF ClassInv, BasesSeen
  <1>2. PICK w : IsArrangement(program, records, w)
    <2>1. program \in Programs /\ records = Classes!Registered(program)
      BY <1>1 DEF PlaceInv
    <2> QED BY <2>1, RecordsAreArranged
  <1>3. PICK i \in 1 .. Len(program.uses) :
          {c} \cup KnownDirectBases(c) \subseteq ToSet(program.uses[i].list)
    BY DEF Listing
  <1>4. PICK n \in 1 .. Len(records) : w[n] = i /\ ClassOf(records[n]) = c
    BY <1>2, <1>3 DEF IsArrangement
  <1>5. Proper(records[n]) = ToSet(program.uses[i].list) \cap program.bases[c]
    BY <1>2, <1>4 DEF IsArrangement
  <1>6. Proper(records[n]) \subseteq transitive_bases[c]
    BY <1>1, <1>4 DEF BasesInv
  <1>7. KnownDirectBases(c) \subseteq transitive_bases[c]
    BY <1>3, <1>5, <1>6 DEF KnownDirectBases, KnownBases
  <1> SUFFICES ASSUME NEW b \in KnownDirectBases(c), b \notin direct_bases[c] PROVE FALSE
    OBVIOUS
  <1>8. IsDirect(c, direct_bases[c]) /\ c \in Class
    BY <1>1, EndFacts, KnownFacts
  <1>9. PICK e \in direct_bases[c] : b \in transitive_bases[e]
    BY <1>7, <1>8 DEF IsDirect
  <1>10. e \in KnownBases(c) /\ e \in Class
    BY <1>1, <1>8, <1>9, EndFacts, KnownFacts
  <1>11. b \in KnownBases(e)
    BY <1>9, <1>10, EndFacts
  <1> QED BY <1>10, <1>11 DEF KnownDirectBases, KnownBases

LEMMA DerivedIsComplete ==
  ASSUME ClassInv, class_pc = "done", Listing, NEW c \in Known, NEW d \in Known,
         c \in KnownBases(d)
  PROVE  d \in transitive_derived[c]
  <1> DEFINE B == {x \in Known : c \in KnownBases(x) /\ x \notin transitive_derived[c]}
             above == [x \in Class |-> KnownBases(x)]
  <1> SUFFICES ASSUME d \notin transitive_derived[c] PROVE FALSE
    OBVIOUS
  <1>1. PlaceInv /\ Known \subseteq Class /\ IsOrder(above)
        /\ \A x \in Class : KnownBases(x) \subseteq Known
    BY EndFacts, KnownFacts DEF KnownBases
  <1>2. PICK x \in B : \A y \in B : y \notin above[x]
    <2>1. B \in SUBSET Class /\ d \in B
      BY <1>1
    <2> HIDE DEF B, above
    <2>2. B # {}
      BY <2>1
    <2> QED BY <1>1, <2>1, <2>2, TopExists
  <1>3. x \in Known /\ x \in Class /\ c \in KnownBases(x) /\ x \notin transitive_derived[c]
        /\ \A y \in B : y \notin KnownBases(x)
    BY <1>1, <1>2
  <1>4. PICK y \in KnownDirectBases(x) : y = c \/ c \in KnownBases(y)
    BY <1>1, <1>3, DirectStep
  <1>5. y \in KnownBases(x) /\ y \in Known /\ y \in Class /\ y \in direct_bases[x]
    BY <1>1, <1>3, <1>4, DirectAreFound DEF KnownDirectBases
  <1>6. x \in ToSet(direct_derived[y])
    BY <1>3, <1>5, EndFacts
  <1>7. x \in transitive_derived[y]
    BY <1>3, <1>5, <1>6, EndFacts
  <1>8. CASE y = c
    BY <1>3, <1>7, <1>8
  <1>9. CASE c \in KnownBases(y)
    <2>1. y \in transitive_derived[c]
      BY <1>3, <1>5, <1>9
    <2>2. transitive_derived[y] \subseteq transitive_derived[c]
      BY <2>1, DerivedIsSound
    <2> QED BY <1>3, <1>7, <2>2
  <1> QED BY <1>4, <1>8, <1>9

LEMMA ChoiceIsListing ==
  ASSUME NEW u, IsChoice(u)
  PROVE  Listing
  BY DEF IsChoice, Listing

LEMMA BasesAreExact ==
  ASSUME ClassInv, class_pc = "done", NEW u, IsChoice(u), NEW c \in Known
  PROVE  transitive_bases[c] = KnownBases(c) /\ direct_bases[c] = KnownDirectBases(c)
  <1>1. PlaceInv /\ OrderInv /\ BasesSeen = Len(records) /\ Listing
    BY ChoiceIsListing DEF ClassInv, BasesSeen
  <1>2. PICK w : IsArrangement(program, records, w)
    <2>1. program \in Programs /\ records = Classes!Registered(program)
      BY <1>1 DEF PlaceInv
    <2> QED BY <2>1, RecordsAreArranged
  <1>3. ASSUME NEW x \in Known PROVE transitive_bases[x] = KnownBases(x)
    <2>1. u[x] \in 1 .. Len(program.uses) /\ x \in ToSet(program.uses[u[x]].list)
      BY <1>3 DEF IsChoice
    <2>2. PICK n \in 1 .. Len(records) : w[n] = u[x] /\ ClassOf(records[n]) = x
      BY <1>2, <2>1 DEF IsArrangement
    <2>3. KnownBases(x) \subseteq transitive_bases[x]
      BY <1>1, <1>2, <2>2 DEF OrderInv
    <2>4. x \in Class
      BY <1>1, <1>3, KnownFacts
    <2> QED BY <2>3, <2>4, EndFacts
  <1>4. /\ Known \subseteq Class
        /\ \A x \in Class : x \notin KnownBases(x) /\ KnownBases(x) \subseteq Class
        /\ \A x \in Class : \A b \in KnownBases(x) : KnownBases(b) \subseteq KnownBases(x)
    BY <1>1, KnownFacts
  <1>5. KnownDirectBases(c) \subseteq direct_bases[c]
    BY <1>1, DirectAreFound
  <1>6. ASSUME NEW b \in direct_bases[c] PROVE b \in KnownDirectBases(c)
    <2>1. b \in KnownBases(c) /\ b \in Class /\ b \in Known /\ c \in Class
      BY <1>4, <1>6, EndFacts DEF KnownBases
    <2>2. ASSUME NEW d \in KnownBases(c), b \in program.bases[d] PROVE FALSE
      <3>1. d \in Class /\ b \in KnownBases(d)
        BY <1>4, <2>1, <2>2 DEF KnownBases
      <3>2. PICK e \in KnownDirectBases(c) : e = d \/ d \in KnownBases(e)
        BY <1>1, <2>1, DirectStep
      <3>3. e \in direct_bases[c] /\ e \in KnownBases(c) /\ e \in Class /\ e \in Known
        BY <1>4, <1>5, <2>1, <3>2 DEF KnownDirectBases, KnownBases
      <3>4. b \in KnownBases(e)
        BY <1>4, <3>1, <3>2, <3>3
      <3>5. transitive_bases[e] = KnownBases(e) /\ transitive_bases[b] = KnownBases(b)
        BY <1>3, <2>1, <3>3
      <3>6. Cardinality(KnownBases(b)) >= Cardinality(KnownBases(e))
        BY <1>6, <3>3, <3>4, <3>5, EndFacts DEF IsDirect
      <3>7. KnownBases(b) \subseteq KnownBases(e) /\ KnownBases(b) # KnownBases(e)
        BY <1>4, <2>1, <3>3, <3>4
      <3>8. IsFiniteSet(KnownBases(e))
        BY <1>4, <3>3, ClassAssumption, FS_Subset
      <3>9. /\ Cardinality(KnownBases(b)) < Cardinality(KnownBases(e))
            /\ Cardinality(KnownBases(b)) \in Nat /\ Cardinality(KnownBases(e)) \in Nat
        BY <3>7, <3>8, FS_Subset, FS_CardinalityType
      <3> QED BY <3>6, <3>9
    <2> QED BY <2>1, <2>2 DEF KnownDirectBases
  <1> QED BY <1>3, <1>5, <1>6

LEMMA TogetherIs ==
  ASSUME ClassInv, class_pc = "done"
  PROVE  /\ Classes!Together => Listing
         /\ Classes!Orderly => \E u : IsChoice(u)
  <1>1. /\ PlaceInv /\ ToSet(classes) = Known
        /\ \A c : Classes!TrueDirectBases(c) = KnownDirectBases(c)
        /\ DOMAIN program.uses = 1 .. Len(program.uses)
    <2>1. PlaceInv /\ ToSet(classes) = Known
      BY EndFacts
    <2>2. program \in Programs
      BY <2>1 DEF PlaceInv
    <2> QED BY <2>1, <2>2, TrueIs, ProgramFacts
  <1>2. Classes!ToSet(classes) = Known
    BY <1>1, SameLibrary
  <1>3. \A c, use : Classes!ListedTogether(c, use)
                      <=> {c} \cup KnownDirectBases(c) \subseteq ToSet(use.list)
    BY <1>1, SameLibrary DEF Classes!ListedTogether
  <1>4. ASSUME Classes!Together PROVE Listing
    <2>1. Classes!ToSet(program.uses) = {program.uses[i] : i \in 1 .. Len(program.uses)}
      BY <1>1 DEF Classes!ToSet
    <2>2. ASSUME NEW c \in Known
          PROVE  \E i \in 1 .. Len(program.uses) :
                   {c} \cup KnownDirectBases(c) \subseteq ToSet(program.uses[i].list)
      <3>1. PICK use \in Classes!ToSet(program.uses) : Classes!ListedTogether(c, use)
        BY <1>2, <1>4 DEF Classes!Together
      <3>2. PICK i \in 1 .. Len(program.uses) : use = program.uses[i]
        BY <2>1, <3>1
      <3> QED BY <1>3, <3>1, <3>2
    <2> QED BY <2>2 DEF Listing
  <1>5. ASSUME Classes!Orderly PROVE \E u : IsChoice(u)
    <2>1. PICK u \in [Known -> 1 .. Len(program.uses)] :
            \A c \in Known :
              /\ Classes!ListedTogether(c, program.uses[u[c]])
              /\ \A b \in Classes!TrueDirectBases(c) : u[b] <= u[c]
      BY <1>1, <1>2, <1>5 DEF Classes!Orderly
    <2>2. IsChoice(u)
      BY <1>1, <1>3, <2>1 DEF IsChoice
    <2> QED BY <2>2
  <1> QED BY <1>4, <1>5

LEMMA SoundAtTheEnd == ClassInv => Classes!RelationsSound
  <1> SUFFICES ASSUME ClassInv, class_pc = "done", NEW c \in Classes!ToSet(classes)
               PROVE  /\ direct_bases[c] \subseteq transitive_bases[c]
                      /\ transitive_bases[c] \subseteq Classes!TrueBases(c)
                      /\ \A d \in transitive_derived[c] : d = c \/ c \in Classes!TrueBases(d)
    BY DEF Classes!RelationsSound
  <1>1. PlaceInv /\ c \in Known /\ c \in Class
    BY SameLibrary, EndFacts, KnownFacts
  <1>2. \A d : Classes!TrueBases(d) = KnownBases(d)
    BY <1>1, TrueIs
  <1> QED BY <1>1, <1>2, EndFacts, DerivedIsSound

LEMMA CompleteAtTheEnd == ClassInv => Classes!DerivedComplete
  <1> SUFFICES ASSUME ClassInv, class_pc = "done", Classes!Together,
                      NEW c \in Classes!ToSet(classes)
               PROVE  transitive_derived[c] =
                        {c} \cup {d \in Classes!ToSet(classes) : c \in Classes!TrueBases(d)}
    BY DEF Classes!DerivedComplete
  <1>1. PlaceInv /\ c \in Known /\ c \in Class /\ Classes!ToSet(classes) = Known /\ Listing
    BY SameLibrary, EndFacts, KnownFacts, TogetherIs
  <1>2. \A d : Classes!TrueBases(d) = KnownBases(d)
    BY <1>1, TrueIs
  <1>3. \A d \in Known : c \in KnownBases(d) => d \in transitive_derived[c]
    BY <1>1, DerivedIsComplete
  <1>4. c \in transitive_derived[c]
        /\ \A d \in transitive_derived[c] : d \in Known /\ (d = c \/ c \in KnownBases(d))
    BY <1>1, EndFacts, DerivedIsSound
  <1> QED BY <1>1, <1>2, <1>3, <1>4

LEMMA ExactAtTheEnd == ClassInv => Classes!BasesExact
  <1> SUFFICES ASSUME ClassInv, class_pc = "done", Classes!Orderly,
                      NEW c \in Classes!ToSet(classes)
               PROVE  /\ transitive_bases[c] = Classes!TrueBases(c)
                      /\ direct_bases[c] = Classes!TrueDirectBases(c)
    BY DEF Classes!BasesExact
  <1>1. PlaceInv /\ c \in Known /\ \E u : IsChoice(u)
    BY SameLibrary, EndFacts, TogetherIs
  <1> QED BY <1>1, TrueIs, BasesAreExact

LEMMA TypeIdsAtTheEnd == ClassInv => Classes!TypeIdsKept
  <1> SUFFICES ASSUME ClassInv, class_pc = "done", NEW c \in Classes!ToSet(classes)
               PROVE  Classes!ToSet(type_ids[c]) =
                        {r.type : r \in {x \in Classes!ToSet(records) :
                                            Classes!type_index(x.type) = c}}
    BY DEF Classes!TypeIdsKept
  <1>1. PlaceInv /\ IdsInv /\ RecordsSeen = Len(records) /\ c \in Class
    BY SameLibrary, EndFacts, KnownFacts DEF ClassInv, RecordsSeen
  <1>2. Classes!ToSet(records) = {records[i] : i \in 1 .. Len(records)}
    BY <1>1, KnownFacts DEF Classes!ToSet
  <1>3. \A x : Classes!type_index(x.type) = ClassOf(x)
    BY DEF Classes!type_index, ClassOf
  <1>4. \A t : t \in ToSet(type_ids[c])
                 <=> \E i \in 1 .. Len(records) : t = records[i].type /\ ClassOf(records[i]) = c
    BY <1>1 DEF IdsInv
  <1>5. Classes!ToSet(type_ids[c]) = ToSet(type_ids[c])
    BY SameLibrary
  <1> DEFINE R == {x \in Classes!ToSet(records) : Classes!type_index(x.type) = c}
  <1>6. \A t : t \in {r.type : r \in R}
                 <=> \E i \in 1 .. Len(records) : t = records[i].type /\ ClassOf(records[i]) = c
    <2>1. R = {x \in {records[i] : i \in 1 .. Len(records)} : ClassOf(x) = c}
      BY <1>2, <1>3
    <2> HIDE DEF R
    <2> QED BY <2>1
  <1> QED BY <1>4, <1>5, <1>6

LEMMA BasesAreKnown == ClassInv => Classes!BasesKnown
  <1> SUFFICES ASSUME ClassInv, class_pc = "bases", NEW i \in DOMAIN records, NEW b \in records[i].bases
               PROVE  Classes!type_index(b) \in Classes!ToSet(classes)
    BY DEF Classes!BasesKnown
  <1>1. PlaceInv /\ IdsInv /\ RecordsSeen = Len(records)
    BY DEF ClassInv, RecordsSeen
  <1>2. i \in 1 .. Len(records) /\ ToSet(classes) = Known
    BY <1>1, KnownFacts DEF IdsInv, Known
  <1>3. ClassOf(records[i]) \in Known /\ Proper(records[i]) \subseteq Known
    BY <1>1, <1>2, KnownFacts DEF KnownBases
  <1>4. b[1] = ClassOf(records[i]) \/ b[1] \in Proper(records[i])
    BY DEF ClassOf, Proper
  <1> QED BY <1>2, <1>3, <1>4, SameLibrary DEF Classes!type_index

-----------------------------------------------------------------------------
(* The passes in a row.                                                    *)

LEMMA MethodFacts ==
  ASSUME PlaceInv
  PROVE  /\ Len(methods) \in Nat /\ DOMAIN methods = 1 .. Len(methods)
         /\ \A m \in 1 .. Len(methods) :
              /\ methods[m].vp \in Seq(Class)
              /\ methods[m].specs \in Seq(Seq(Class))
         /\ Param = UNION {{<<m, i>> : i \in DOMAIN methods[m].vp} : m \in 1 .. Len(methods)}
  <1>1. HasMethods(program)
    BY ProgramsAssumption DEF PlaceInv
  <1>2. Len(methods) \in Nat /\ DOMAIN methods = 1 .. Len(methods)
    BY <1>1 DEF HasMethods, methods
  <1>3. \A m \in 1 .. Len(methods) : methods[m].vp \in Seq(Class) /\ methods[m].specs \in Seq(Seq(Class))
    BY <1>1, <1>2 DEF HasMethods, methods
  <1>4. Param = UNION {{<<m, i>> : i \in DOMAIN methods[m].vp} : m \in 1 .. Len(methods)}
    BY <1>1, <1>2 DEF HasMethods, methods
  <1> QED BY <1>2, <1>3, <1>4

(* What augment_methods hands over to assign_slots.                        *)
Handover ==
    [classes            |-> classes,
     transitive_bases   |-> transitive_bases,
     direct_bases       |-> direct_bases,
     direct_derived     |-> direct_derived,
     transitive_derived |-> transitive_derived,
     vp                 |-> [p \in Param |-> methods[p[1]].vp[p[2]]],
     used_by_vp         |-> [c \in Class |-> UsedByVp(c)]]

(* The passes run in their order; a method is passed over only when all its*)
(* classes are known, and only one with an unknown class ends the compiler.*)
PassInv ==
    /\ pass \in {"classes", "methods", "slots", "done", "aborted"}
    /\ pass = "classes" <=> class_pc # "done"
    /\ next_method \in 1 .. Len(methods) + 1
    /\ pass = "classes" => next_method = 1
    /\ \A m \in 1 .. next_method - 1 : ClassesOf(methods[m]) \subseteq ToSet(classes)
    /\ pass = "aborted" =>
         /\ next_method <= Len(methods)
         /\ ~ (ClassesOf(methods[next_method]) \subseteq ToSet(classes))
    /\ pass \in {"slots", "done"} => next_method = Len(methods) + 1 /\ lattice = Handover

CompilerInv == ClassInv /\ PassInv

LEMMA SlotsKeepLattice == Slots!Next => lattice' = lattice
  <1> SUFFICES ASSUME Slots!Next PROVE lattice' = lattice
    OBVIOUS
  <1>1. CASE Slots!NextRoot \/ Slots!RootDone \/ Slots!RootsDone
    BY <1>1 DEF Slots!NextRoot, Slots!RootDone, Slots!RootsDone
  <1>2. CASE Slots!EnterTree \/ Slots!AssignTreeSlot \/ Slots!LeaveTree
    BY <1>2 DEF Slots!EnterTree, Slots!AssignTreeSlot, Slots!LeaveTree
  <1>3. CASE Slots!EnterLattice \/ Slots!AssignLatticeSlot \/ Slots!LeaveLattice
    BY <1>3 DEF Slots!EnterLattice, Slots!AssignLatticeSlot, Slots!LeaveLattice
  <1>4. CASE Slots!AllocateVtbl \/ Slots!SlotsDone
    BY <1>4 DEF Slots!AllocateVtbl, Slots!SlotsDone
  <1> QED BY <1>1, <1>2, <1>3, <1>4 DEF Slots!Next

(* Nothing that augment_classes made changes after it.                     *)
LEMMA ClassVarsKept ==
  ASSUME UNCHANGED classVars
  PROVE  /\ methods' = methods /\ class_pc' = class_pc /\ ToSet(classes)' = ToSet(classes)
         /\ \A m : ClassesOf(methods[m])' = ClassesOf(methods[m])
         /\ Handover' = Handover
  <1>1. program' = program /\ classes' = classes /\ class_pc' = class_pc
    BY DEF classVars
  <1>2. methods' = methods
    BY <1>1 DEF methods
  <1>3. \A m : ClassesOf(methods[m])' = ClassesOf(methods[m])
    BY <1>1, <1>2 DEF ClassesOf, Covariant
  <1>4. \A c : UsedByVp(c)' = UsedByVp(c)
    BY <1>2 DEF UsedByVp, Parameters
  <1>5. /\ transitive_bases' = transitive_bases /\ direct_bases' = direct_bases
        /\ direct_derived' = direct_derived /\ transitive_derived' = transitive_derived
    BY DEF classVars
  <1>6. Handover' = Handover
    BY <1>1, <1>2, <1>4, <1>5 DEF Handover
  <1> QED BY <1>1, <1>2, <1>3, <1>6

LEMMA CompilerInit == Init => CompilerInv
  <1> SUFFICES ASSUME Init PROVE CompilerInv
    OBVIOUS
  <1>1. ClassInv /\ pass = "classes" /\ next_method = 1 /\ class_pc = "register"
    BY ClassInit DEF Init, Classes!Init
  <1>2. Len(methods) \in Nat
    BY <1>1, MethodFacts DEF ClassInv
  <1>3. PassInv
    BY <1>1, <1>2 DEF PassInv
  <1> QED BY <1>1, <1>3 DEF CompilerInv

LEMMA CompilerStep == CompilerInv /\ [Next]_vars => CompilerInv'
  <1> SUFFICES ASSUME CompilerInv, [Next]_vars PROVE CompilerInv'
    OBVIOUS
  <1>1. ClassInv /\ PassInv /\ Len(methods) \in Nat
    BY MethodFacts DEF CompilerInv, ClassInv
  <1>2. CASE AugmentClasses
    <2>1. pass = "classes" /\ Classes!Next
      BY <1>2 DEF AugmentClasses
    <2>2. ClassInv'
      BY <1>1, <2>1, ClassStepRegister, ClassStepBases, ClassStepDirect, ClassStepDerived DEF Classes!Next
    <2>3. program' = program
      BY <2>1 DEF Classes!Next, Classes!RegisterClass, Classes!CollectBases,
                  Classes!FindDirectBases, Classes!CalculateDerived
    <2>4. /\ pass' = IF class_pc' = "done" THEN "methods" ELSE pass
          /\ next_method' = next_method
      BY <1>2 DEF AugmentClasses
    <2>5. methods' = methods /\ next_method = 1
      BY <1>1, <2>1, <2>3 DEF methods, PassInv
    <2>6. pass' \in {"classes", "methods"} /\ (pass' = "classes" <=> class_pc' # "done")
      BY <2>1, <2>4
    <2>7. PassInv'
      BY <1>1, <2>4, <2>5, <2>6 DEF PassInv
    <2> QED BY <2>2, <2>7 DEF CompilerInv
  <1>3. CASE UNCHANGED classVars
    <2>1. ClassInv'
      BY <1>1, <1>3, ClassStutter
    <2>2. /\ methods' = methods /\ class_pc' = class_pc /\ ToSet(classes)' = ToSet(classes)
          /\ \A m : ClassesOf(methods[m])' = ClassesOf(methods[m])
          /\ Handover' = Handover
      BY <1>3, ClassVarsKept
    <2>3. CASE AugmentMethod
      <3>1. /\ pass = "methods" /\ pass' = pass /\ next_method' = next_method + 1
            /\ next_method <= Len(methods)
            /\ ClassesOf(methods[next_method]) \subseteq ToSet(classes)
        BY <2>3 DEF AugmentMethod
      <3>2. next_method \in Nat \ {0} /\ next_method' \in 1 .. Len(methods) + 1
        BY <1>1, <3>1 DEF PassInv
      <3>3. \A m \in 1 .. next_method' - 1 : m \in 1 .. next_method - 1 \/ m = next_method
        BY <3>1, <3>2
      <3>4. \A m \in 1 .. next_method' - 1 : ClassesOf(methods[m]) \subseteq ToSet(classes)
        BY <1>1, <3>1, <3>3 DEF PassInv
      <3>5. \A m \in 1 .. next_method' - 1 : (ClassesOf(methods[m]) \subseteq ToSet(classes))'
        BY <2>2, <3>4
      <3>6. PassInv'
        BY <1>1, <2>2, <3>1, <3>2, <3>5 DEF PassInv
      <3> QED BY <2>1, <3>6 DEF CompilerInv
    <2>4. CASE UnknownClass
      <3>1. /\ pass = "methods" /\ pass' = "aborted" /\ next_method' = next_method
            /\ next_method <= Len(methods)
            /\ ~ (ClassesOf(methods[next_method]) \subseteq ToSet(classes))
        BY <2>4 DEF UnknownClass
      <3>2. ~ (ClassesOf(methods[next_method]) \subseteq ToSet(classes))'
        BY <2>2, <3>1
      <3>3. \A m \in 1 .. next_method' - 1 : (ClassesOf(methods[m]) \subseteq ToSet(classes))'
        BY <1>1, <2>2, <3>1 DEF PassInv
      <3>4. ~ (ClassesOf(methods[next_method]) \subseteq ToSet(classes)) '
        BY <3>2
      <3>5. PassInv'
        BY <1>1, <2>2, <3>1, <3>3, <3>4 DEF PassInv
      <3> QED BY <2>1, <3>5 DEF CompilerInv
    <2>5. CASE LinkParameters
      <3>1. /\ pass = "methods" /\ pass' = "slots" /\ next_method' = next_method
            /\ next_method > Len(methods) /\ lattice' = Handover
        BY <2>5 DEF LinkParameters, Handover
      <3>2. \A m \in 1 .. next_method' - 1 : (ClassesOf(methods[m]) \subseteq ToSet(classes))'
        BY <1>1, <2>2, <3>1 DEF PassInv
      <3>3. next_method = Len(methods) + 1
        BY <1>1, <3>1 DEF PassInv
      <3>4. PassInv'
        BY <1>1, <2>2, <3>1, <3>2, <3>3 DEF PassInv
      <3> QED BY <2>1, <3>4 DEF CompilerInv
    <2>6. CASE AssignSlots
      <3>1. /\ pass = "slots" /\ pass' \in {"slots", "done"} /\ next_method' = next_method
            /\ lattice' = lattice
        BY <2>6, SlotsKeepLattice DEF AssignSlots
      <3>2. \A m \in 1 .. next_method' - 1 : (ClassesOf(methods[m]) \subseteq ToSet(classes))'
        BY <1>1, <2>2, <3>1 DEF PassInv
      <3>3. PassInv'
        BY <1>1, <2>2, <3>1, <3>2 DEF PassInv
      <3> QED BY <2>1, <3>3 DEF CompilerInv
    <2>7. CASE UNCHANGED vars
      <3>1. pass' = pass /\ next_method' = next_method /\ lattice' = lattice
        BY <2>7 DEF vars
      <3>2. \A m \in 1 .. next_method' - 1 : (ClassesOf(methods[m]) \subseteq ToSet(classes))'
        BY <1>1, <2>2, <3>1 DEF PassInv
      <3>3. PassInv'
        BY <1>1, <2>2, <3>1, <3>2 DEF PassInv
      <3> QED BY <2>1, <3>3 DEF CompilerInv
    <2>8. CASE AugmentClasses
      BY <1>2, <2>8
    <2> QED BY <2>3, <2>4, <2>5, <2>6, <2>7, <2>8 DEF Next
  <1>4. AugmentClasses \/ UNCHANGED classVars
    BY DEF Next, AugmentMethod, UnknownClass, LinkParameters, AssignSlots, vars
  <1> QED BY <1>2, <1>3, <1>4

(* The invariant on which everything about the compiler rests.             *)
LEMMA CompilerInvariant == Spec => []CompilerInv
  <1>1. Init => CompilerInv
    BY CompilerInit
  <1>2. CompilerInv /\ [Next]_vars => CompilerInv'
    BY CompilerStep
  <1> QED BY <1>1, <1>2, PTL DEF Spec

(* A class is known if and only if some instantiation lists it.            *)
LEMMA ListedIsKnown ==
  ASSUME PlaceInv
  PROVE  Listed = Known
  <1>1. /\ program \in Programs /\ records = Classes!Registered(program)
        /\ DOMAIN program.uses = 1 .. Len(program.uses)
    BY ProgramFacts DEF PlaceInv
  <1>2. PICK w : IsArrangement(program, records, w)
    BY <1>1, RecordsAreArranged
  <1>3. Listed = UNION {ToSet(program.uses[i].list) : i \in 1 .. Len(program.uses)}
    <2>1. ToSet(program.uses) = {program.uses[i] : i \in 1 .. Len(program.uses)}
      BY <1>1 DEF ToSet
    <2> QED BY <2>1 DEF Listed
  <1>4. \A i \in 1 .. Len(program.uses) : ToSet(program.uses[i].list) \subseteq Known
    BY KnownFacts
  <1>5. \A n \in 1 .. Len(records) :
          w[n] \in 1 .. Len(program.uses) /\ ClassOf(records[n]) \in ToSet(program.uses[w[n]].list)
    BY <1>2 DEF IsArrangement
  <1>6. Known \subseteq Listed
    BY <1>3, <1>5 DEF Known
  <1> QED BY <1>3, <1>4, <1>6

LEMMA MentionedIs ==
  ASSUME PlaceInv, ToSet(classes) = Known, NEW x
  PROVE  x \in Mentioned <=> (\E m \in 1 .. Len(methods) : x \in ClassesOf(methods[m]))
  <1>1. /\ DOMAIN methods = 1 .. Len(methods)
        /\ \A m \in 1 .. Len(methods) : methods[m].specs \in Seq(Seq(Class)) /\ methods[m].vp \in Seq(Class)
    BY MethodFacts
  <1>2. ToSet(methods) = {methods[m] : m \in 1 .. Len(methods)}
    BY <1>1 DEF ToSet
  <1>3. Listed = ToSet(classes)
    BY ListedIsKnown
  <1>4. ASSUME NEW m \in 1 .. Len(methods)
        PROVE  ToSet(<<methods[m].vp>> \o methods[m].specs) = {methods[m].vp} \cup ToSet(methods[m].specs)
    <2> DEFINE v == methods[m].vp
               s == methods[m].specs
               T == Seq(Class)
    <2>1. v \in T /\ s \in Seq(T)
      BY <1>1
    <2> HIDE DEF v, s, T
    <2>2. /\ Len(s) \in Nat /\ DOMAIN s = 1 .. Len(s)
          /\ <<v>> \o s \in Seq(T) /\ DOMAIN (<<v>> \o s) = 1 .. Len(s) + 1
          /\ \A i \in 1 .. Len(s) + 1 : (<<v>> \o s)[i] = IF i = 1 THEN v ELSE s[i - 1]
      BY <2>1
    <2>3. \A i \in 1 .. Len(s) : (<<v>> \o s)[i + 1] = s[i] /\ i + 1 \in 1 .. Len(s) + 1
      BY <2>2
    <2>4. (<<v>> \o s)[1] = v /\ 1 \in 1 .. Len(s) + 1
      BY <2>2
    <2>5. \A i \in 1 .. Len(s) + 1 : i # 1 => i - 1 \in 1 .. Len(s)
      BY <2>2
    <2>6. \A y : y \in ToSet(<<v>> \o s) <=> y = v \/ y \in ToSet(s)
      <3> DEFINE l == <<v>> \o s
      <3>1. \A y : y \in ToSet(l) <=> (\E i \in 1 .. Len(s) + 1 : y = l[i])
        BY <2>2 DEF ToSet
      <3>2. \A y : y \in ToSet(s) <=> (\E i \in 1 .. Len(s) : y = s[i])
        BY <2>2 DEF ToSet
      <3>3. l[1] = v /\ \A i \in 1 .. Len(s) : l[i + 1] = s[i] /\ i + 1 \in 1 .. Len(s) + 1
        BY <2>3, <2>4
      <3>4. \A i \in 1 .. Len(s) + 1 : i = 1 \/ (l[i] = s[i - 1] /\ i - 1 \in 1 .. Len(s))
        BY <2>2, <2>5
      <3> HIDE DEF l
      <3>5. ASSUME NEW y, y \in ToSet(l) PROVE y = v \/ y \in ToSet(s)
        <4>1. PICK i \in 1 .. Len(s) + 1 : y = l[i]
          BY <3>1, <3>5
        <4> QED BY <3>2, <3>3, <3>4, <4>1
      <3>6. ASSUME NEW y, y = v \/ y \in ToSet(s) PROVE y \in ToSet(l)
        <4>1. CASE y = v
          BY <2>4, <3>1, <3>3, <4>1
        <4>2. CASE y \in ToSet(s)
          <5>1. PICK i \in 1 .. Len(s) : y = s[i]
            BY <3>2, <4>2
          <5> QED BY <3>1, <3>3, <5>1
        <4> QED BY <3>6, <4>1, <4>2
      <3> QED BY <3>5, <3>6 DEF l
    <2>7. ToSet(<<v>> \o s) = {v} \cup ToSet(s)
      BY <2>6
    <2> QED BY <2>7 DEF v, s
  <1> DEFINE InMethod(y) == x \in ToSet(y.vp) \/ (\E s \in ToSet(y.specs) : x \in ToSet(s))
             InReturn(y) == y.return_type \in Listed /\ x \in ToSet(y.return_types)
  <1>5. \A y : x \in ClassesOf(y) <=> InMethod(y) \/ InReturn(y)
    <2> TAKE y
    <2>1. Covariant(y) <=> y.return_type \in Listed
      BY <1>3 DEF Covariant
    <2>2. x \in ClassesOf(y) <=>
            \/ x \in ToSet(y.vp) \/ x \in UNION {ToSet(s) : s \in ToSet(y.specs)}
            \/ Covariant(y) /\ x \in ToSet(y.return_types)
      <3> DEFINE A == ToSet(y.vp)
                 B == UNION {ToSet(s) : s \in ToSet(y.specs)}
                 R == ToSet(y.return_types)
      <3>1. ClassesOf(y) = A \cup B \cup (IF Covariant(y) THEN R ELSE {})
        BY DEF ClassesOf
      <3> HIDE DEF A, B, R
      <3>2. x \in ClassesOf(y) <=> x \in A \/ x \in B \/ (Covariant(y) /\ x \in R)
        <4>1. CASE Covariant(y)
          BY <3>1, <4>1
        <4>2. CASE ~ Covariant(y)
          BY <3>1, <4>2
        <4> QED BY <4>1, <4>2
      <3> QED BY <3>2 DEF A, B, R
    <2>3. x \in UNION {ToSet(s) : s \in ToSet(y.specs)} <=> (\E s \in ToSet(y.specs) : x \in ToSet(s))
      OBVIOUS
    <2> QED BY <2>1, <2>2, <2>3
  <1>6. x \in UNION {ToSet(c) : c \in UNION {ToSet(<<m.vp>> \o m.specs) : m \in ToSet(methods)}}
          <=> (\E m \in 1 .. Len(methods) : InMethod(methods[m]))
    <2> DEFINE V == UNION {ToSet(<<m.vp>> \o m.specs) : m \in ToSet(methods)}
    <2>1. \A c : c \in V <=> (\E m \in 1 .. Len(methods) :
                                c = methods[m].vp \/ c \in ToSet(methods[m].specs))
      <3>1. \A c : c \in V <=> (\E m \in 1 .. Len(methods) :
                                  c \in ToSet(<<methods[m].vp>> \o methods[m].specs))
        BY <1>2
      <3> HIDE DEF V
      <3> QED BY <1>4, <3>1
    <2>2. x \in UNION {ToSet(c) : c \in V} <=> (\E c \in V : x \in ToSet(c))
      OBVIOUS
    <2> HIDE DEF V
    <2>3. (\E c \in V : x \in ToSet(c)) <=> (\E m \in 1 .. Len(methods) : InMethod(methods[m]))
      BY <2>1
    <2> QED BY <2>2, <2>3 DEF V
  <1>7. x \in UNION {ToSet(m.return_types) : m \in {y \in ToSet(methods) : y.return_type \in Listed}}
          <=> (\E m \in 1 .. Len(methods) : InReturn(methods[m]))
    <2> DEFINE V == {y \in ToSet(methods) : y.return_type \in Listed}
    <2>1. \A y : y \in V <=> (\E m \in 1 .. Len(methods) : y = methods[m] /\ y.return_type \in Listed)
      BY <1>2
    <2>2. x \in UNION {ToSet(m.return_types) : m \in V} <=> (\E y \in V : x \in ToSet(y.return_types))
      OBVIOUS
    <2> HIDE DEF V
    <2>3. (\E y \in V : x \in ToSet(y.return_types))
            <=> (\E m \in 1 .. Len(methods) : InReturn(methods[m]))
      BY <2>1
    <2> QED BY <2>2, <2>3 DEF V
  <1>8. x \in Mentioned <=> \/ \E m \in 1 .. Len(methods) : InMethod(methods[m])
                            \/ \E m \in 1 .. Len(methods) : InReturn(methods[m])
    <2> DEFINE A == UNION {ToSet(c) : c \in UNION {ToSet(<<m.vp>> \o m.specs) : m \in ToSet(methods)}}
               B == UNION {ToSet(m.return_types) : m \in {y \in ToSet(methods) : y.return_type \in Listed}}
    <2>1. Mentioned = A \cup B
      BY DEF Mentioned
    <2>2. /\ x \in A <=> (\E m \in 1 .. Len(methods) : InMethod(methods[m]))
          /\ x \in B <=> (\E m \in 1 .. Len(methods) : InReturn(methods[m]))
      BY <1>6, <1>7
    <2> HIDE DEF A, B, InMethod, InReturn
    <2> QED BY <2>1, <2>2
  <1> HIDE DEF InMethod, InReturn
  <1> QED BY <1>5, <1>8

LEMMA UnknownIsDetected == CompilerInv => UnknownClassDetected
  <1> SUFFICES ASSUME CompilerInv PROVE UnknownClassDetected
    OBVIOUS
  <1>1. ClassInv /\ PassInv /\ PlaceInv /\ Len(methods) \in Nat
    BY MethodFacts DEF CompilerInv, ClassInv
  <1>2. pass = "classes" => Classes!BasesKnown
    BY <1>1, BasesAreKnown
  <1>3. ASSUME pass # "classes"
        PROVE  /\ ToSet(classes) = Known /\ Listed = Known
               /\ \A x : x \in Mentioned <=> (\E m \in 1 .. Len(methods) : x \in ClassesOf(methods[m]))
    <2>1. class_pc = "done"
      BY <1>1, <1>3 DEF PassInv
    <2>2. ToSet(classes) = Known
      BY <1>1, <2>1, EndFacts
    <2> QED BY <1>1, <2>2, ListedIsKnown, MentionedIs
  <1>4. ASSUME pass = "aborted" PROVE ~ (Mentioned \subseteq Listed)
    <2>1. next_method \in 1 .. Len(methods) /\ ~ (ClassesOf(methods[next_method]) \subseteq ToSet(classes))
      BY <1>1, <1>4 DEF PassInv
    <2>2. ClassesOf(methods[next_method]) \subseteq Mentioned
      BY <1>3, <1>4, <2>1
    <2> QED BY <1>3, <1>4, <2>1, <2>2
  <1>5. ASSUME pass \in {"slots", "done"} PROVE Mentioned \subseteq Listed
    <2>1. \A m \in 1 .. Len(methods) : ClassesOf(methods[m]) \subseteq ToSet(classes)
      BY <1>1, <1>5 DEF PassInv
    <2> QED BY <1>3, <1>5, <2>1
  <1> QED BY <1>2, <1>4, <1>5 DEF UnknownClassDetected

-----------------------------------------------------------------------------
(* What is handed over to assign_slots.                                    *)

LEMMA LibraryForSlots ==
  /\ \A s : Slots!ToSet(s) = ToSet(s) /\ Classes!ToSet(s) = ToSet(s)
  /\ \A s : Slots!IsInjective(s) <=> IsInjective(s)
  BY SameLibrary

LEMMA ParametersAre ==
  ASSUME PlaceInv
  PROVE  Parameters \in Seq(Param) /\ IsInjective(Parameters) /\ ToSet(Parameters) = Param
  <1> DEFINE ss == [m \in DOMAIN methods |-> [i \in DOMAIN methods[m].vp |-> <<m, i>>]]
             N == Len(methods)
             F == FlattenSeq(ss)
  <1>1. /\ N \in Nat /\ DOMAIN methods = 1 .. N
        /\ \A m \in 1 .. N : methods[m].vp \in Seq(Class)
        /\ Param = UNION {{<<m, i>> : i \in DOMAIN methods[m].vp} : m \in 1 .. N}
    BY MethodFacts
  <1>2. \A m \in 1 .. N : /\ Len(methods[m].vp) \in Nat
                          /\ DOMAIN methods[m].vp = 1 .. Len(methods[m].vp)
    BY <1>1
  <1>3. ss \in Seq(Seq(Param)) /\ DOMAIN ss = 1 .. N /\ Len(ss) = N
    <2>1. ASSUME NEW m \in 1 .. N PROVE ss[m] \in Seq(Param)
      <3> DEFINE k == Len(methods[m].vp)
      <3>1. k \in Nat /\ ss[m] = [i \in 1 .. k |-> <<m, i>>]
        BY <1>1, <1>2
      <3>2. \A i \in 1 .. k : <<m, i>> \in Param
        BY <1>1, <1>2
      <3> HIDE DEF k, ss
      <3>3. ss[m] \in [1 .. k -> Param]
        BY <3>1, <3>2
      <3> QED BY <3>1, <3>3
    <2> DEFINE T == Seq(Param)
    <2>2. \A m \in 1 .. N : ss[m] \in T
      BY <2>1
    <2>3. ss = [m \in 1 .. N |-> ss[m]] /\ DOMAIN ss = 1 .. N
      BY <1>1
    <2> HIDE DEF T, ss, N
    <2>4. ss \in [1 .. N -> T]
      BY <2>2, <2>3
    <2>5. ss \in Seq(T) /\ Len(ss) = N
      BY <1>1, <2>3, <2>4
    <2> QED BY <2>3, <2>5 DEF T
  <1>4. \A m \in 1 .. N : \A i \in 1 .. Len(methods[m].vp) : ss[m][i] = <<m, i>>
    BY <1>1, <1>2
  <1>5. \A m \in 1 .. N : DOMAIN ss[m] = 1 .. Len(methods[m].vp)
    BY <1>1, <1>2
  <1>6. Parameters = F
    BY DEF Parameters
  <1> HIDE DEF ss, N
  <1>7. F \in Seq(Param)
    BY <1>3, FlattenRange
  <1>8. PICK w, q : IsFlattening(F, ss, w, q)
    BY <1>3, FlattenPlaces
  <1> HIDE DEF F
  <1>9. Len(F) \in Nat /\ DOMAIN F = 1 .. Len(F)
    BY <1>7
  <1>10. \A n \in 1 .. Len(F) : w[n] \in 1 .. N /\ F[n] = <<w[n], q[n]>> /\ q[n] \in Nat
    <2> TAKE n \in 1 .. Len(F)
    <2>1. /\ w[n] \in 1 .. N /\ q[n] \in DOMAIN ss[w[n]] /\ F[n] = ss[w[n]][q[n]] /\ q[n] \in Nat
      BY <1>3, <1>8 DEF IsFlattening
    <2>2. q[n] \in 1 .. Len(methods[w[n]].vp)
      BY <1>5, <2>1
    <2> QED BY <1>4, <2>1, <2>2
  <1>11. IsInjective(F)
    <2>1. ASSUME NEW n \in 1 .. Len(F), NEW m \in 1 .. Len(F), n < m PROVE F[n] # F[m]
      <3>1. w[n] < w[m] \/ (w[n] = w[m] /\ q[n] < q[m])
        BY <1>8, <2>1 DEF IsFlattening
      <3>2. w[n] # w[m] \/ q[n] # q[m]
        BY <1>1, <1>10, <3>1
      <3> QED BY <1>10, <3>2
    <2>2. \A n, m \in 1 .. Len(F) : n # m => n < m \/ m < n
      BY <1>9
    <2> QED BY <1>9, <2>1, <2>2 DEF IsInjective
  <1>12. ASSUME NEW p \in Param PROVE p \in ToSet(F)
    <2>1. PICK m \in 1 .. N : \E i \in DOMAIN methods[m].vp : p = <<m, i>>
      BY <1>1
    <2>2. PICK i \in 1 .. Len(methods[m].vp) : p = <<m, i>>
      BY <1>2, <2>1
    <2>3. m \in 1 .. Len(ss) /\ i \in DOMAIN ss[m] /\ ss[m][i] = p
      BY <1>3, <1>4, <1>5, <2>2
    <2>4. PICK n \in 1 .. Len(F) : w[n] = m /\ q[n] = i
      BY <1>8, <2>3 DEF IsFlattening
    <2>5. F[n] = p
      BY <1>10, <2>2, <2>4
    <2> QED BY <1>9, <2>4, <2>5 DEF ToSet
  <1>13. ToSet(F) \subseteq Param
    BY <1>7, <1>9 DEF ToSet
  <1> QED BY <1>6, <1>7, <1>11, <1>12, <1>13

(* The class of a parameter, and the list of those of a class.             *)
ClassOfVp(p) == methods[p[1]].vp[p[2]]

LEMMA UsedByVpIs ==
  ASSUME PlaceInv, NEW c
  PROVE  /\ UsedByVp(c) \in Seq(Param) /\ IsInjective(UsedByVp(c))
         /\ ToSet(UsedByVp(c)) = {p \in Param : ClassOfVp(p) = c}
  <1> DEFINE S == {p \in Param : methods[p[1]].vp[p[2]] = c}
  <1>1. UsedByVp(c) = Classes!Select(Parameters, S)
    BY DEF UsedByVp
  <1>2. S = {p \in Param : ClassOfVp(p) = c}
    BY DEF ClassOfVp
  <1>3. Parameters \in Seq(Param) /\ IsInjective(Parameters) /\ ToSet(Parameters) = Param
    BY ParametersAre
  <1> HIDE DEF S
  <1>4. /\ Classes!Select(Parameters, S) \in Seq(Param)
        /\ ToSet(Classes!Select(Parameters, S)) = Param \cap S
        /\ IsInjective(Classes!Select(Parameters, S))
    BY <1>3, SelectIs
  <1> QED BY <1>1, <1>2, <1>4

LEMMA HandoverFields ==
  /\ Handover.classes = classes
  /\ Handover.transitive_bases = transitive_bases
  /\ Handover.direct_bases = direct_bases
  /\ Handover.direct_derived = direct_derived
  /\ Handover.transitive_derived = transitive_derived
  /\ Handover.used_by_vp = [c \in Class |-> UsedByVp(c)]
  /\ Handover.vp = [p \in Param |-> ClassOfVp(p)]
  BY DEF Handover, ClassOfVp

(* All methods have been passed over.                                      *)
AllKnown == \A m \in 1 .. Len(methods) : ClassesOf(methods[m]) \subseteq ToSet(classes)

LEMMA HandoverIsLattice ==
  ASSUME ClassInv, class_pc = "done", AllKnown
  PROVE  Slots!IsLattice(Handover)
  <1>1. /\ PlaceInv /\ ToSet(classes) = Known /\ Known \subseteq Class /\ classes \in Seq(Class)
        /\ transitive_bases \in [Class -> SUBSET Class]
        /\ direct_bases \in [Class -> SUBSET Class]
        /\ direct_derived \in [Class -> Seq(Class)]
        /\ transitive_derived \in [Class -> SUBSET Class]
    BY EndFacts, KnownFacts
  <1>2. direct_derived \in [Class -> Seq(Known)]
    <2>1. \A b \in Class : ToSet(direct_derived[b]) \subseteq Known
      BY EndFacts
    <2>2. ASSUME NEW b \in Class PROVE direct_derived[b] \in Seq(Known)
      <3> DEFINE s == direct_derived[b]
      <3>1. s \in Seq(Class) /\ ToSet(s) \subseteq Known
        BY <1>1, <2>1
      <3> HIDE DEF s
      <3>2. Len(s) \in Nat /\ DOMAIN s = 1 .. Len(s) /\ s = [i \in 1 .. Len(s) |-> s[i]]
        BY <3>1
      <3>3. \A i \in 1 .. Len(s) : s[i] \in Known
        BY <3>1, <3>2 DEF ToSet
      <3>4. s \in [1 .. Len(s) -> Known]
        BY <3>2, <3>3
      <3>5. s \in Seq(Known)
        BY <3>2, <3>4
      <3> QED BY <3>5 DEF s
    <2> DEFINE T == Seq(Known)
    <2>3. \A b \in Class : direct_derived[b] \in T
      BY <2>2
    <2>4. direct_derived = [b \in Class |-> direct_derived[b]]
      <3> DEFINE U == Seq(Class)
      <3>1. direct_derived \in [Class -> U]
        BY <1>1
      <3> HIDE DEF U
      <3> QED BY <3>1
    <2> HIDE DEF T
    <2>5. direct_derived \in [Class -> T]
      BY <2>3, <2>4
    <2> QED BY <2>5 DEF T
  <1>3. transitive_derived \in [Class -> SUBSET Known]
    <2>1. \A c \in Class : transitive_derived[c] \subseteq Known
      BY DerivedIsSound, EndFacts
    <2> QED BY <1>1, <2>1
  <1>4. [p \in Param |-> ClassOfVp(p)] \in [Param -> Known]
    <2>1. ASSUME NEW p \in Param PROVE ClassOfVp(p) \in Known
      <3>1. PICK m \in 1 .. Len(methods) : \E i \in DOMAIN methods[m].vp : p = <<m, i>>
        BY <1>1, MethodFacts
      <3>2. PICK i \in DOMAIN methods[m].vp : p = <<m, i>>
        BY <3>1
      <3>3. methods[m].vp \in Seq(Class) /\ i \in 1 .. Len(methods[m].vp)
        BY <1>1, <3>2, MethodFacts
      <3>4. ClassOfVp(p) = methods[m].vp[i]
        BY <3>2 DEF ClassOfVp
      <3>5. methods[m].vp[i] \in ToSet(methods[m].vp)
        BY <3>3 DEF ToSet
      <3>6. ToSet(methods[m].vp) \subseteq ClassesOf(methods[m])
        BY DEF ClassesOf
      <3> QED BY <1>1, <3>4, <3>5, <3>6 DEF AllKnown
    <2> QED BY <2>1
  <1>5. ASSUME NEW c \in Class
        PROVE  /\ UsedByVp(c) \in Seq(Param) /\ IsInjective(UsedByVp(c))
               /\ \A i \in DOMAIN UsedByVp(c) :
                    UsedByVp(c)[i] \in Param /\ ClassOfVp(UsedByVp(c)[i]) = c
    <2> DEFINE s == UsedByVp(c)
    <2>1. s \in Seq(Param) /\ IsInjective(s) /\ ToSet(s) = {p \in Param : ClassOfVp(p) = c}
      BY <1>1, UsedByVpIs
    <2> HIDE DEF s
    <2>2. \A i \in DOMAIN s : s[i] \in ToSet(s)
      BY <2>1 DEF ToSet
    <2>3. \A i \in DOMAIN s : s[i] \in Param /\ ClassOfVp(s[i]) = c
      BY <2>1, <2>2
    <2> QED BY <2>1, <2>3 DEF s
  <1>6. [c \in Class |-> UsedByVp(c)] \in [Class -> Seq(Param)]
    BY <1>5
  <1> DEFINE l == Handover
  <1>7. /\ l.classes \in Seq(Class) /\ Slots!ToSet(l.classes) = Known
        /\ l.transitive_bases \in [Class -> SUBSET Class]
        /\ l.direct_bases \in [Class -> SUBSET Class]
    BY <1>1, HandoverFields, LibraryForSlots
  <1>8. l.direct_derived \in [Class -> Seq(Known)]
    BY <1>2, HandoverFields
  <1>9. l.transitive_derived \in [Class -> SUBSET Known] /\ l.vp \in [Param -> Known]
    BY <1>3, <1>4, HandoverFields
  <1>10. l.used_by_vp \in [Class -> Seq(Param)]
    BY <1>6, HandoverFields
  <1>11. \A c \in Class :
           /\ Slots!IsInjective(l.used_by_vp[c])
           /\ \A i \in DOMAIN l.used_by_vp[c] : l.vp[l.used_by_vp[c][i]] = c
    <2> TAKE c \in Class
    <2>1. l.used_by_vp[c] = UsedByVp(c) /\ \A p \in Param : l.vp[p] = ClassOfVp(p)
      BY HandoverFields
    <2> HIDE DEF l
    <2> QED BY <1>5, <2>1, LibraryForSlots
  <1> HIDE DEF l
  <1>12. Slots!IsLattice(l)
    BY <1>7, <1>8, <1>9, <1>10, <1>11 DEF Slots!IsLattice
  <1> QED BY <1>12 DEF l

LEMMA HandoverIsClosed ==
  ASSUME ClassInv, class_pc = "done", NEW u, IsChoice(u)
  PROVE  Slots!IsClosed(Handover)
  <1>1. /\ PlaceInv /\ Slots!ToSet(Handover.classes) = Known
        /\ Handover.transitive_derived = transitive_derived
        /\ Handover.transitive_bases = transitive_bases
        /\ Handover.direct_derived = direct_derived
    BY EndFacts, HandoverFields, LibraryForSlots
  <1>2. /\ Known \subseteq Class
        /\ \A c \in Class : c \notin KnownBases(c)
        /\ \A c \in Class : \A b \in KnownBases(c) : KnownBases(b) \subseteq KnownBases(c)
    BY <1>1, KnownFacts
  <1>3. \A c \in Known : \A d \in transitive_derived[c] :
          d \in Known /\ (d = c \/ c \in KnownBases(d)) /\ transitive_derived[d] \subseteq transitive_derived[c]
    BY DerivedIsSound
  <1>4. \A c \in Known : c \in transitive_derived[c]
    BY EndFacts
  <1>5. \A c \in Known : \A d \in transitive_derived[c] :
          d # c => c \in transitive_bases[d] /\ c \notin transitive_derived[d]
    <2> SUFFICES ASSUME NEW c \in Known, NEW d \in transitive_derived[c], d # c
                 PROVE  c \in transitive_bases[d] /\ c \notin transitive_derived[d]
      OBVIOUS
    <2>1. d \in Known /\ c \in KnownBases(d)
      BY <1>3
    <2>2. transitive_bases[d] = KnownBases(d)
      BY <2>1, BasesAreExact
    <2>3. c \notin transitive_derived[d]
      <3>1. SUFFICES ASSUME c \in transitive_derived[d] PROVE FALSE
        OBVIOUS
      <3>2. d \in KnownBases(c)
        BY <1>3, <2>1, <3>1
      <3>3. d \in KnownBases(d)
        BY <1>2, <2>1, <3>2
      <3> QED BY <1>2, <2>1, <3>3
    <2> QED BY <2>1, <2>2, <2>3
  <1>6. \A c \in Known : ToSet(direct_derived[c]) \subseteq transitive_derived[c] \ {c}
    <2> SUFFICES ASSUME NEW c \in Known, NEW d \in ToSet(direct_derived[c])
                 PROVE  d \in transitive_derived[c] /\ d # c
      OBVIOUS
    <2>1. d \in Known /\ c \in direct_bases[d]
      BY <1>2, EndFacts
    <2>2. c \in KnownBases(d)
      BY <1>2, <2>1, EndFacts
    <2>3. d \in transitive_derived[c]
      BY <1>4, <2>1, EndFacts
    <2> QED BY <1>2, <2>1, <2>2, <2>3
  <1>7. \A c \in Class : Slots!ToSet(direct_derived[c]) = ToSet(direct_derived[c])
    BY LibraryForSlots
  <1> QED BY <1>1, <1>2, <1>3, <1>4, <1>5, <1>6, <1>7 DEF Slots!IsClosed

(* A root has no known base.                                               *)
LEMMA RootIs ==
  ASSUME ClassInv, class_pc = "done", Listing, NEW c \in Known, direct_bases[c] = {}
  PROVE  KnownBases(c) = {}
  <1>1. PlaceInv /\ c \in Class
    BY EndFacts, KnownFacts
  <1>2. KnownDirectBases(c) = {}
    BY DirectAreFound
  <1> QED BY <1>1, <1>2, DirectStep

(* No class below a has two direct bases.                                  *)
SingleBases(a) == \A d \in transitive_derived[a] : \A x, y \in direct_bases[d] : x = y

LEMMA TreeRootIs ==
  ASSUME ClassInv, class_pc = "done", NEW r \in Known, Slots!TreeRoot(Handover, r)
  PROVE  direct_bases[r] = {} /\ SingleBases(r)
  <1>1. /\ direct_bases[r] = {}
        /\ \A d \in transitive_derived[r] : Slots!Cardinality(direct_bases[d]) <= 1
    BY HandoverFields DEF Slots!TreeRoot, Slots!Root
  <1>2. ASSUME NEW d \in transitive_derived[r], NEW x \in direct_bases[d], NEW y \in direct_bases[d], x # y
        PROVE  FALSE
    <2> DEFINE S == direct_bases[d]
    <2>1. S \subseteq Class
      BY EndFacts, DerivedIsSound, KnownFacts
    <2> HIDE DEF S
    <2>2. IsFiniteSet(S)
      BY <2>1, ClassAssumption, FS_Subset
    <2>3. {x} \subseteq S /\ {x} # S
      BY <1>2 DEF S
    <2>4. Cardinality({x}) = 1
      BY FS_Singleton
    <2>5. Cardinality({x}) < Cardinality(S) /\ Cardinality(S) \in Nat
      BY <2>2, <2>3, FS_Subset, FS_CardinalityType
    <2>6. Cardinality(S) <= 1
      BY <1>1, SameLibrary DEF S
    <2> QED BY <2>4, <2>5, <2>6
  <1> QED BY <1>1, <1>2 DEF SingleBases

(* Two branches that are single-based share a class only at their roots.   *)
LEMMA BranchesApart ==
  ASSUME ClassInv, class_pc = "done", NEW u, IsChoice(u), NEW a \in Known, NEW b \in Known,
         SingleBases(a), a \notin transitive_derived[b],
         \A x \in transitive_derived[a] : x \notin direct_bases[b]
  PROVE  transitive_derived[a] \cap transitive_derived[b] = {}
  <1> DEFINE S == transitive_derived[a] \ transitive_derived[b]
  <1>1. /\ PlaceInv /\ Listing /\ Known \subseteq Class
        /\ \A x \in Known : transitive_derived[x] \subseteq Known
    BY EndFacts, KnownFacts, ChoiceIsListing, DerivedIsSound
  <1>2. ASSUME NEW x \in S, NEW y \in ToSet(direct_derived[x]) PROVE y \in S
    <2>1. x \in Known /\ x \in Class /\ y \in Known /\ y \in Class /\ x \in direct_bases[y]
      <3>1. x \in Known /\ x \in Class
        BY <1>1
      <3> QED BY <1>1, <3>1, EndFacts
    <2>2. y \in transitive_derived[x] /\ transitive_derived[x] \subseteq transitive_derived[a]
      <3>1. y \in transitive_derived[x]
        BY <2>1, EndFacts
      <3>2. transitive_derived[x] \subseteq transitive_derived[a]
        BY DerivedIsSound
      <3> QED BY <3>1, <3>2
    <2>3. SUFFICES ASSUME y \in transitive_derived[b] PROVE FALSE
      BY <2>2
    <2>4. y # b
      BY <2>1
    <2>5. b \in KnownBases(y)
      BY <2>3, <2>4, DerivedIsSound
    <2>6. PICK e \in KnownDirectBases(y) : e = b \/ b \in KnownBases(e)
      BY <1>1, <2>1, <2>5, DirectStep
    <2>7. e \in direct_bases[y]
      BY <1>1, <2>1, <2>6, DirectAreFound
    <2>8. e = x
      BY <2>1, <2>2, <2>7 DEF SingleBases
    <2>9. x \in transitive_derived[b]
      <3>1. CASE x = b
        BY <3>1, EndFacts
      <3>2. CASE b \in KnownBases(x)
        BY <1>1, <2>1, <3>2, DerivedIsComplete
      <3> QED BY <2>6, <2>8, <3>1, <3>2
    <2> QED BY <2>9
  <1>3. S \in SUBSET Class /\ a \in S
    BY <1>1, EndFacts
  <1>4. \A x \in S : ToSet(direct_derived[x]) \subseteq S
    BY <1>2
  <1> HIDE DEF S
  <1>5. transitive_derived[a] \subseteq S
    BY <1>3, <1>4, EndFacts
  <1> QED BY <1>5 DEF S

LEMMA HandoverIsApart ==
  ASSUME ClassInv, class_pc = "done", NEW u, IsChoice(u)
  PROVE  Slots!TreesApart(Handover)
  <1>1. /\ PlaceInv /\ Listing /\ Known \subseteq Class
        /\ classes \in Seq(Class) /\ IsInjective(classes) /\ ToSet(classes) = Known
        /\ Slots!ToSet(Handover.classes) = Known /\ Handover.classes = classes
        /\ Handover.transitive_derived = transitive_derived
        /\ Handover.direct_bases = direct_bases
        /\ Handover.direct_derived = direct_derived
    BY EndFacts, KnownFacts, ChoiceIsListing, HandoverFields, LibraryForSlots
  <1>2. /\ \A c \in Class : c \notin KnownBases(c)
        /\ \A c \in Class : \A b \in KnownBases(c) : KnownBases(b) \subseteq KnownBases(c)
    BY <1>1, KnownFacts
  <1>3. ASSUME NEW i \in DOMAIN classes, NEW j \in DOMAIN classes, i # j,
               Slots!TreeRoot(Handover, classes[i]), Slots!Root(Handover, classes[j])
        PROVE  transitive_derived[classes[i]] \cap transitive_derived[classes[j]] = {}
    <2> DEFINE r == classes[i]
               s == classes[j]
    <2>1. r \in Known /\ s \in Known /\ r # s
      BY <1>1, <1>3 DEF ToSet, IsInjective
    <2>2. direct_bases[r] = {} /\ SingleBases(r) /\ direct_bases[s] = {}
      BY <1>1, <1>3, <2>1, TreeRootIs DEF Slots!Root
    <2> HIDE DEF r, s
    <2>3. KnownBases(r) = {}
      BY <1>1, <2>1, <2>2, RootIs
    <2>4. r \notin transitive_derived[s]
      BY <2>1, <2>3, DerivedIsSound
    <2>5. \A x \in transitive_derived[r] : x \notin direct_bases[s]
      BY <2>2
    <2>6. transitive_derived[r] \cap transitive_derived[s] = {}
      BY <2>1, <2>2, <2>4, <2>5, BranchesApart
    <2> QED BY <2>6 DEF r, s
  <1>4. ASSUME NEW r \in Known, Slots!TreeRoot(Handover, r), NEW c \in transitive_derived[r],
               NEW i \in DOMAIN direct_derived[c], NEW j \in DOMAIN direct_derived[c], i # j
        PROVE  transitive_derived[direct_derived[c][i]]
                 \cap transitive_derived[direct_derived[c][j]] = {}
    <2> DEFINE a == direct_derived[c][i]
               b == direct_derived[c][j]
    <2>1. c \in Known /\ c \in Class /\ transitive_derived[c] \subseteq transitive_derived[r]
      BY <1>1, DerivedIsSound
    <2>2. a # b /\ a \in ToSet(direct_derived[c]) /\ b \in ToSet(direct_derived[c])
      <3>1. IsInjective(direct_derived[c])
        BY <2>1, EndFacts
      <3> QED BY <1>4, <3>1 DEF ToSet, IsInjective
    <2> HIDE DEF a, b
    <2>3. /\ a \in Known /\ a \in Class /\ c \in direct_bases[a]
          /\ b \in Known /\ b \in Class /\ c \in direct_bases[b]
      BY <1>1, <2>1, <2>2, EndFacts
    <2>4. c \in KnownBases(a) /\ c \in KnownBases(b)
      BY <2>3, EndFacts
    <2>5. /\ transitive_derived[a] \subseteq transitive_derived[c]
          /\ transitive_derived[b] \subseteq transitive_derived[c]
          /\ a \in transitive_derived[a] /\ b \in transitive_derived[b]
      BY <2>1, <2>2, <2>3, EndFacts
    <2>6. SingleBases(r)
      BY <1>4, TreeRootIs
    <2>7. SingleBases(a)
      BY <2>1, <2>5, <2>6 DEF SingleBases
    <2>8. ~ (c \in transitive_derived[a])
      <3> SUFFICES ASSUME c \in transitive_derived[a] PROVE FALSE
        OBVIOUS
      <3>1. c = a \/ a \in KnownBases(c)
        BY <2>3, DerivedIsSound
      <3>2. a \in KnownBases(a)
        BY <1>2, <2>3, <2>4, <3>1
      <3> QED BY <1>2, <2>3, <3>2
    <2>9. \A x \in transitive_derived[a] : x \notin direct_bases[b]
      <3> SUFFICES ASSUME NEW x \in transitive_derived[a], x \in direct_bases[b] PROVE FALSE
        OBVIOUS
      <3>1. b \in transitive_derived[r]
        BY <2>1, <2>5
      <3>2. x = c
        BY <2>3, <2>6, <3>1 DEF SingleBases
      <3> QED BY <2>8, <3>2
    <2>10. a \notin transitive_derived[b]
      <3> SUFFICES ASSUME a \in transitive_derived[b] PROVE FALSE
        OBVIOUS
      <3>1. b \in KnownBases(a)
        BY <2>2, <2>3, DerivedIsSound
      <3>2. PICK e \in KnownDirectBases(a) : e = b \/ b \in KnownBases(e)
        BY <1>1, <2>3, <3>1, DirectStep
      <3>3. e \in direct_bases[a]
        BY <1>1, <2>3, <3>2, DirectAreFound
      <3>4. e = c
        BY <2>1, <2>3, <2>5, <2>6, <3>3 DEF SingleBases
      <3>5. c = b \/ b \in KnownBases(c)
        BY <3>2, <3>4
      <3>6. b \in KnownBases(b)
        BY <1>2, <2>3, <2>4, <3>5
      <3> QED BY <1>2, <2>3, <3>6
    <2>11. transitive_derived[a] \cap transitive_derived[b] = {}
      BY <2>3, <2>7, <2>9, <2>10, BranchesApart
    <2> QED BY <2>11 DEF a, b
  <1>5. \A i, j \in DOMAIN Handover.classes :
          i # j /\ Slots!TreeRoot(Handover, Handover.classes[i]) /\ Slots!Root(Handover, Handover.classes[j])
            => Handover.transitive_derived[Handover.classes[i]]
                 \cap Handover.transitive_derived[Handover.classes[j]] = {}
    BY <1>1, <1>3
  <1>6. \A r \in Slots!ToSet(Handover.classes) : Slots!TreeRoot(Handover, r) =>
          \A c \in Handover.transitive_derived[r] :
            \A i, j \in DOMAIN Handover.direct_derived[c] :
              i # j => Handover.transitive_derived[Handover.direct_derived[c][i]]
                         \cap Handover.transitive_derived[Handover.direct_derived[c][j]] = {}
    BY <1>1, <1>4
  <1> QED BY <1>5, <1>6 DEF Slots!TreesApart

LEMMA HandoverIsReached ==
  ASSUME ClassInv, class_pc = "done", AllKnown, NEW u, IsChoice(u)
  PROVE  Slots!AllReached(Handover)
  <1>1. /\ PlaceInv /\ Listing /\ Known \subseteq Class /\ Slots!ToSet(Handover.classes) = Known
        /\ Handover.transitive_derived = transitive_derived
        /\ Handover.direct_bases = direct_bases
        /\ Handover.direct_derived = direct_derived
    BY EndFacts, KnownFacts, ChoiceIsListing, HandoverFields, LibraryForSlots
  <1>2. ASSUME NEW p \in Param
        PROVE  p \in Slots!ToSet(Handover.used_by_vp[Handover.vp[p]])
    <2>1. Handover.vp[p] = ClassOfVp(p)
      BY HandoverFields
    <2>2. Handover.vp[p] \in Class
      <3>1. Slots!IsLattice(Handover)
        BY HandoverIsLattice
      <3>2. Handover.vp \in [Param -> Known]
        BY <1>1, <3>1 DEF Slots!IsLattice
      <3> QED BY <1>1, <3>2
    <2>3. Handover.used_by_vp[Handover.vp[p]] = UsedByVp(ClassOfVp(p))
      BY <2>1, <2>2, HandoverFields
    <2>4. p \in ToSet(UsedByVp(ClassOfVp(p)))
      BY <1>1, UsedByVpIs
    <2> QED BY <2>3, <2>4, LibraryForSlots
  <1>3. ASSUME NEW c \in Known
        PROVE  \E r \in Known : direct_bases[r] = {} /\ c \in transitive_derived[r]
    <2> DEFINE X == {c} \cup KnownBases(c)
               above == [x \in Class |-> KnownBases(x)]
    <2>1. /\ IsOrder(above) /\ c \in Class
          /\ \A x \in Class : KnownBases(x) \subseteq Known /\ KnownBases(x) \subseteq Class
          /\ \A x \in Class : \A b \in KnownBases(x) : KnownBases(b) \subseteq KnownBases(x)
      BY <1>1, KnownFacts DEF KnownBases
    <2>2. PICK r \in X : \A y \in X : y \notin above[r]
      <3>1. X \in SUBSET Class /\ c \in X
        BY <2>1
      <3> HIDE DEF X, above
      <3>2. X # {}
        BY <3>1
      <3> QED BY <2>1, <3>1, <3>2, TopExists
    <2>3. r \in Class /\ r \in Known /\ KnownBases(r) = {}
      BY <2>1, <2>2
    <2>4. direct_bases[r] = {}
      BY <2>3, EndFacts
    <2>5. c \in transitive_derived[r]
      <3>1. CASE r = c
        BY <3>1, EndFacts
      <3>2. CASE r \in KnownBases(c)
        BY <1>1, <2>3, <3>2, DerivedIsComplete
      <3> QED BY <2>2, <3>1, <3>2
    <2> QED BY <2>3, <2>4, <2>5
  <1>4. ASSUME NEW c \in Known, NEW S \in SUBSET Known, c \in S,
               \A d \in S : Slots!ToSet(direct_derived[d]) \subseteq S
        PROVE  transitive_derived[c] \subseteq S
    <2>1. S \in SUBSET Class /\ \A d \in S : ToSet(direct_derived[d]) \subseteq S
      BY <1>1, <1>4, LibraryForSlots
    <2> QED BY <1>4, <2>1, EndFacts
  <1>5. \A c \in Known : \E r \in Known :
          Slots!Root(Handover, r) /\ c \in Handover.transitive_derived[r]
    BY <1>1, <1>3 DEF Slots!Root
  <1> QED BY <1>1, <1>2, <1>4, <1>5 DEF Slots!AllReached

LEMMA HandoverIsWellFormed ==
  ASSUME ClassInv, class_pc = "done", AllKnown, Classes!Orderly
  PROVE  Slots!WellFormed(Handover)
  <1>1. PICK u : IsChoice(u)
    BY TogetherIs
  <1>2. Slots!IsLattice(Handover)
    BY HandoverIsLattice
  <1>3. Slots!IsClosed(Handover)
    BY <1>1, HandoverIsClosed
  <1>4. Slots!TreesApart(Handover)
    BY <1>1, HandoverIsApart
  <1>5. Slots!AllReached(Handover)
    BY <1>1, HandoverIsReached
  <1> QED BY <1>2, <1>3, <1>4, <1>5 DEF Slots!WellFormed

LEMMA AfterTheMethods ==
  ASSUME CompilerInv, pass \in {"slots", "done"}
  PROVE  ClassInv /\ class_pc = "done" /\ AllKnown /\ lattice = Handover
  <1>1. ClassInv /\ PassInv /\ Len(methods) \in Nat
    BY MethodFacts DEF CompilerInv, ClassInv
  <1>2. class_pc = "done" /\ next_method = Len(methods) + 1 /\ lattice = Handover
    BY <1>1 DEF PassInv
  <1>3. next_method - 1 = Len(methods)
    BY <1>1, <1>2
  <1>4. AllKnown
    BY <1>1, <1>3 DEF PassInv, AllKnown
  <1> QED BY <1>1, <1>2, <1>4

LEMMA TablesTyped == CompilerInv => TypeOK
  <1> SUFFICES ASSUME CompilerInv PROVE TypeOK
    OBVIOUS
  <1>1. ClassInv /\ PassInv /\ PlaceInv /\ IdsInv /\ BasesInv /\ DirectInv /\ DerivedInv
    BY DEF CompilerInv, ClassInv
  <1>2. Classes!TypeOK
    <2>1. Classes!IsProgram(program)
      BY <1>1, ProgramsAssumption DEF PlaceInv
    <2>2. class_pc \in {"register", "bases", "direct", "derived", "done"} /\ next_record \in Nat \ {0}
      BY <1>1 DEF PlaceInv
    <2>3. classes \in Seq(Class) /\ IsInjective(classes) /\ type_ids \in [Class -> Seq(Ids)]
          /\ \A c \in Class : IsInjective(type_ids[c])
      BY <1>1 DEF IdsInv
    <2>4. Classes!ToSet(classes) \subseteq Class /\ Classes!IsInjective(classes)
      BY <2>3, SameLibrary DEF ToSet
    <2>5. ASSUME NEW c \in Class
          PROVE  Classes!ToSet(type_ids[c]) \subseteq Classes!TypeId /\ Classes!IsInjective(type_ids[c])
      <3> DEFINE s == type_ids[c]
                 T == Ids
      <3>1. s \in Seq(T) /\ IsInjective(s)
        BY <2>3
      <3>2. Classes!TypeId = T
        BY DEF Classes!TypeId, Ids
      <3> HIDE DEF s, T
      <3>3. ToSet(s) \subseteq T
        BY <3>1 DEF ToSet
      <3>4. Classes!ToSet(s) \subseteq T /\ Classes!IsInjective(s)
        BY <3>1, <3>3, SameLibrary
      <3> QED BY <3>2, <3>4 DEF s
    <2>6. is_abstract \in [Class -> BOOLEAN] /\ static_vptr \in [Class -> Classes!TypeId \cup {<<>>}]
      BY <1>1 DEF IdsInv, Ids, Classes!TypeId
    <2>7. transitive_bases \in [Class -> SUBSET Class] /\ direct_bases \in [Class -> SUBSET Class]
      BY <1>1 DEF BasesInv, DirectInv
    <2>8. direct_derived \in [Class -> Seq(Class)] /\ transitive_derived \in [Class -> SUBSET Class]
      BY <1>1 DEF DerivedInv
    <2>9. ASSUME NEW c \in Class PROVE Classes!ToSet(direct_derived[c]) \subseteq Class
      <3> DEFINE s == direct_derived[c]
      <3>1. s \in Seq(Class)
        BY <2>8
      <3> HIDE DEF s
      <3>2. ToSet(s) \subseteq Class
        BY <3>1 DEF ToSet
      <3>3. Classes!ToSet(s) \subseteq Class
        BY <3>2, SameLibrary
      <3> QED BY <3>3 DEF s
    <2> QED BY <2>1, <2>2, <2>4, <2>5, <2>6, <2>7, <2>8, <2>9 DEF Classes!TypeOK
  <1>3. ASSUME pass \in {"slots", "done"} PROVE Slots!IsLattice(lattice)
    BY <1>3, AfterTheMethods, HandoverIsLattice
  <1>4. /\ pass \in {"classes", "methods", "slots", "done", "aborted"}
        /\ next_method \in 1 .. Len(methods) + 1
    BY <1>1 DEF PassInv
  <1> QED BY <1>2, <1>3, <1>4 DEF TypeOK

-----------------------------------------------------------------------------
(* The tables of classes and what is handed over have their types.         *)
THEOREM TablesStayTyped == Spec => []TypeOK
  <1>1. CompilerInv => TypeOK
    BY TablesTyped
  <1> QED BY <1>1, CompilerInvariant, PTL

(* Every type id that some module registered for a class is kept, once.    *)
THEOREM NoTypeIdIsLost == Spec => []TypeIdsKept
  <1>1. CompilerInv => TypeIdsKept
    BY TypeIdsAtTheEnd DEF CompilerInv, TypeIdsKept
  <1> QED BY <1>1, CompilerInvariant, PTL

(* No relation between classes is invented, whatever was registered.       *)
THEOREM NoRelationIsInvented == Spec => []RelationsSound
  <1>1. CompilerInv => RelationsSound
    BY SoundAtTheEnd DEF CompilerInv, RelationsSound
  <1> QED BY <1>1, CompilerInvariant, PTL

(* If the instantiations of use_classes come in order, the compiler finds  *)
(* the bases that the program has, and which of them are direct.           *)
THEOREM BasesAreTrue == Spec => []BasesExact
  <1>1. CompilerInv => BasesExact
    BY ExactAtTheEnd DEF CompilerInv, BasesExact
  <1> QED BY <1>1, CompilerInvariant, PTL

(* If every class is listed with its direct bases, in whatever order, every*)
(* class is found among those derived from each of its bases.              *)
THEOREM NoDerivedIsMissing == Spec => []DerivedComplete
  <1>1. CompilerInv => DerivedComplete
    BY CompleteAtTheEnd DEF CompilerInv, DerivedComplete
  <1> QED BY <1>1, CompilerInvariant, PTL

(* A program is aborted if and only if it mentions a class that no         *)
(* instantiation lists.                                                    *)
THEOREM UnknownClassesStop == Spec => []UnknownClassDetected
  <1>1. CompilerInv => UnknownClassDetected
    BY UnknownIsDetected
  <1> QED BY <1>1, CompilerInvariant, PTL

(* If the instantiations come in order, assign_slots is given what its     *)
(* proofs assume of the lattice.                                           *)
THEOREM HandoverIsSound == Spec => []WellFormedHandover
  <1>1. CompilerInv => WellFormedHandover
    <2> SUFFICES ASSUME CompilerInv, pass = "slots", Classes!Orderly
                 PROVE  Slots!WellFormed(lattice)
      BY DEF WellFormedHandover
    <2> QED BY AfterTheMethods, HandoverIsWellFormed
  <1> QED BY <1>1, CompilerInvariant, PTL
=============================================================================
