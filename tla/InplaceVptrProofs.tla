------------------------ MODULE InplaceVptrProofs ------------------------
(* Proofs about inplace_vptr, for any classes and hierarchies.             *)
EXTENDS InplaceVptr, FoldProofs

-----------------------------------------------------------------------------
(* Recursion over a hierarchy: a function of the classes whose value at one*)
(* is computed from those at the bases of the class.                       *)

Grounded(D, deps) == \A S \in SUBSET D : S # {} => \E c \in S : deps[c] \cap S = {}

Computes(H, D, V, deps) == \A c \in D : \A g \in [deps[c] -> V] : H[c][g] \in V

IsComputed(f, D, deps, H) == \A c \in D : f[c] = H[c][[b \in deps[c] |-> f[b]]]

LEMMA HierarchyRecursion ==
  ASSUME NEW D, NEW V, NEW deps \in [D -> SUBSET D],
         Grounded(D, deps), NEW H, Computes(H, D, V, deps)
  PROVE  \E f \in [D -> V] : IsComputed(f, D, deps, H)
  <1> DEFINE Closed(R) == \A c \in D : \A g \in [deps[c] -> V] :
                            (\A b \in deps[c] : <<b, g[b]>> \in R) => <<c, H[c][g]>> \in R
             L == {x \in D \X V : \A R \in SUBSET (D \X V) : Closed(R) => x \in R}
             Bad == {c \in D : ~ \E v \in V : \A w \in V : <<c, w>> \in L <=> w = v}
  <1>0. /\ \A S \in SUBSET D : S # {} => \E c \in S : deps[c] \cap S = {}
        /\ \A c \in D : \A g \in [deps[c] -> V] : H[c][g] \in V
    BY DEF Grounded, Computes
  <1>1. \A R \in SUBSET (D \X V) : Closed(R) => L \subseteq R
    <2> HIDE DEF Closed
    <2> QED OBVIOUS
  <1>2. L \in SUBSET (D \X V)
    <2> HIDE DEF Closed
    <2> QED OBVIOUS
  <1>3. Closed(L)
    <2> SUFFICES ASSUME NEW c \in D, NEW g \in [deps[c] -> V],
                        \A b \in deps[c] : <<b, g[b]>> \in L
                 PROVE  <<c, H[c][g]>> \in L
      BY Zenon
    <2>1. <<c, H[c][g]>> \in D \X V
      BY <1>0
    <2>2. ASSUME NEW R \in SUBSET (D \X V), Closed(R) PROVE <<c, H[c][g]>> \in R
      <3>1. L \subseteq R
        <4> HIDE DEF L, Closed
        <4> QED BY <1>1, <2>2
      <3>2. \A b \in deps[c] : <<b, g[b]>> \in R
        <4> HIDE DEF L
        <4> QED BY <3>1
      <3> HIDE DEF L
      <3> QED BY <2>2, <3>2
    <2> HIDE DEF Closed
    <2> QED BY <2>1, <2>2
  <1>4. ASSUME NEW c \in D, deps[c] \cap Bad = {} PROVE c \notin Bad
    <2>1. \A b \in deps[c] : \E v \in V : \A w \in V : <<b, w>> \in L <=> w = v
      <3> HIDE DEF L
      <3> QED BY <1>4
    <2> HIDE DEF Bad
    <2> DEFINE g == [b \in deps[c] |-> CHOOSE v \in V : <<b, v>> \in L]
    <2>2. \A b \in deps[c] : g[b] \in V /\ \A w \in V : <<b, w>> \in L <=> w = g[b]
      <3> HIDE DEF L
      <3> QED BY <2>1
    <2>3. g \in [deps[c] -> V]
      BY <2>2
    <2> DEFINE h == H[c][g]
    <2> HIDE DEF g, L
    <2>4. h \in V
      BY <1>0, <2>3 DEF h
    <2>5. <<c, h>> \in L
      BY <1>3, <2>2, <2>3
    <2>6. ASSUME NEW w \in V, <<c, w>> \in L, w # h PROVE FALSE
      <3> DEFINE R == L \ {<<c, w>>}
      <3>1. R \in SUBSET (D \X V)
        BY <1>2
      <3>2. ASSUME NEW d \in D, NEW k \in [deps[d] -> V], \A b \in deps[d] : <<b, k[b]>> \in R
            PROVE  <<d, H[d][k]>> \in R
        <4>1. <<d, H[d][k]>> \in L
          BY <1>3, <3>2
        <4>2. ASSUME d = c PROVE k = g
          <5>1. \A b \in deps[c] : k[b] = g[b]
            BY <2>2, <3>2, <4>2
          <5>2. k \in [deps[c] -> V]
            BY <3>2, <4>2
          <5> QED BY <2>3, <5>1, <5>2
        <4> QED BY <2>6, <4>1, <4>2
      <3>3. Closed(R)
        <4> HIDE DEF R
        <4> QED BY <3>2
      <3> HIDE DEF Closed
      <3> QED BY <1>1, <2>6, <3>1, <3>3
    <2> HIDE DEF h
    <2> QED BY <2>4, <2>5, <2>6 DEF Bad
  <1>5. Bad = {}
    <2>1. Bad \in SUBSET D
      <3> HIDE DEF L
      <3> QED OBVIOUS
    <2>2. ASSUME NEW c \in Bad PROVE c \in D
      BY <2>1
    <2> HIDE DEF Bad
    <2> QED BY <1>0, <1>4, <2>1
  <1>6. \A c \in D : \E v \in V : \A w \in V : <<c, w>> \in L <=> w = v
    <2> HIDE DEF L
    <2> QED BY <1>5
  <1> DEFINE f == [c \in D |-> CHOOSE v \in V : <<c, v>> \in L]
  <1>7. \A c \in D : f[c] \in V /\ \A w \in V : <<c, w>> \in L <=> w = f[c]
    <2> HIDE DEF L
    <2> QED BY <1>6
  <1>8. f \in [D -> V]
    <2> HIDE DEF L
    <2> QED BY <1>7
  <1> HIDE DEF L, f
  <1>9. ASSUME NEW c \in D PROVE f[c] = H[c][[b \in deps[c] |-> f[b]]]
    <2> DEFINE g == [b \in deps[c] |-> f[b]]
    <2>1. g \in [deps[c] -> V] /\ \A b \in deps[c] : g[b] = f[b]
      BY <1>8
    <2> HIDE DEF g
    <2>2. \A b \in deps[c] : <<b, g[b]>> \in L
      BY <1>7, <2>1
    <2>3. H[c][g] \in V /\ <<c, H[c][g]>> \in L
      BY <1>0, <1>3, <2>1, <2>2
    <2>4. H[c][g] = f[c]
      BY <1>7, <2>3
    <2> QED BY <2>4 DEF g
  <1> QED BY <1>8, <1>9 DEF IsComputed

(* What is needed of the bases: a class is not among its own, at any       *)
(* distance, and the bases of a class are different ones.                  *)
IsHierarchy(B) ==
    /\ B \in [Class -> Seq(Class)]
    /\ \A S \in SUBSET Class : S # {} => \E c \in S : ToSet(B[c]) \cap S = {}
    /\ \A c \in Class : \A i, j \in DOMAIN B[c] : B[c][i] = B[c][j] => i = j

LEMMA BaseIsClass ==
  ASSUME NEW B \in [Class -> Seq(Class)], NEW c \in Class
  PROVE  /\ ToSet(B[c]) \in SUBSET Class
         /\ \A i \in DOMAIN B[c] : B[c][i] \in ToSet(B[c]) /\ B[c][i] \in Class
         /\ DOMAIN B[c] = 1 .. Len(B[c]) /\ Len(B[c]) \in Nat
         /\ B[c] # <<>> => 1 \in DOMAIN B[c]
  <1>1. B[c] \in Seq(Class)
    OBVIOUS
  <1> QED BY <1>1 DEF ToSet

LEMMA HierarchyInduction ==
  ASSUME NEW B, IsHierarchy(B), NEW S \in SUBSET Class,
         \A c \in Class : ToSet(B[c]) \subseteq S => c \in S
  PROVE  S = Class
  <1>1. SUFFICES ASSUME Class \ S # {} PROVE FALSE
    OBVIOUS
  <1>2. PICK c \in Class \ S : ToSet(B[c]) \cap (Class \ S) = {}
    BY <1>1 DEF IsHierarchy
  <1>3. ToSet(B[c]) \subseteq S
    BY <1>2, BaseIsClass DEF IsHierarchy
  <1> QED BY <1>2, <1>3

IsParts(B, f) == f = [c \in Class |-> {c} \cup UNION {f[b] : b \in ToSet(B[c])}]

LEMMA PartsExist ==
  ASSUME NEW B \in [Class -> Seq(Class)],
         \A S \in SUBSET Class : S # {} => \E c \in S : ToSet(B[c]) \cap S = {}
  PROVE  \E f \in [Class -> SUBSET Class] : IsParts(B, f)
  <1> DEFINE V == SUBSET Class
             deps == [c \in Class |-> ToSet(B[c])]
             H == [c \in Class |-> [g \in [deps[c] -> V] |->
                     {c} \cup UNION {g[b] : b \in ToSet(B[c])}]]
  <1>1. deps \in [Class -> SUBSET Class]
    BY BaseIsClass
  <1>2. Computes(H, Class, V, deps)
    BY DEF Computes
  <1>3. Grounded(Class, deps)
    BY DEF Grounded
  <1>4. PICK f \in [Class -> V] : IsComputed(f, Class, deps, H)
    <2> HIDE DEF H, deps, V
    <2> QED BY <1>1, <1>2, <1>3, HierarchyRecursion
  <1>5. ASSUME NEW c \in Class
        PROVE  f[c] = {c} \cup UNION {f[b] : b \in ToSet(B[c])}
    <2> DEFINE g == [b \in ToSet(B[c]) |-> f[b]]
    <2>1. g \in [ToSet(B[c]) -> V]
      BY BaseIsClass
    <2>3. f[c] = H[c][g]
      <3> HIDE DEF H
      <3> QED BY <1>4 DEF IsComputed
    <2>2. f[c] = {c} \cup UNION {g[b] : b \in ToSet(B[c])}
      <3> HIDE DEF g
      <3> QED BY <2>1, <2>3
    <2> QED BY <2>2
  <1>6. IsParts(B, f)
    BY <1>5 DEF IsParts
  <1> QED BY <1>6

LEMMA ProgramHierarchy ==
  ASSUME NEW p \in Programs
  PROVE  IsHierarchy(p.bases) /\ p.object \in Class
  <1> DEFINE B == p.bases
             parts == CHOOSE f : IsParts(B, f)
  <1>1. IsProgram(p)
    BY ProgramsAssumption
  <1>2. /\ B \in [Class -> Seq(Class)]
        /\ p.object \in Class
        /\ \A S \in SUBSET Class : S # {} => \E c \in S : ToSet(B[c]) \cap S = {}
        /\ \A c \in Class : \A i, j \in DOMAIN B[c] : i # j => B[c][i] \notin parts[B[c][j]]
    BY <1>1 DEF IsProgram, IsParts
  <1> HIDE DEF B
  <1>3. IsParts(B, parts)
    BY <1>2, PartsExist
  <1>4. \A c \in Class : c \in parts[c]
    <2> HIDE DEF parts
    <2> QED BY <1>3 DEF IsParts
  <1>5. ASSUME NEW c \in Class, NEW i \in DOMAIN B[c], NEW j \in DOMAIN B[c], B[c][i] = B[c][j]
        PROVE  i = j
    <2>1. B[c][j] \in Class
      BY <1>2, BaseIsClass
    <2>2. B[c][i] \in parts[B[c][j]]
      <3> HIDE DEF parts
      <3> QED BY <1>4, <1>5, <2>1
    <2> HIDE DEF parts
    <2> QED BY <1>2, <2>2
  <1>6. IsHierarchy(B)
    BY <1>2, <1>5 DEF IsHierarchy
  <1> QED BY <1>2, <1>6 DEF B

-----------------------------------------------------------------------------
(* The subobjects of root classes are the paths that end at a root class.  *)

IsPath(B, t) ==
    /\ t \in Seq(Class) /\ t # <<>>
    /\ \A i \in 1 .. Len(t) - 1 : t[i + 1] \in ToSet(B[t[i]])

IsRoots(B, f) ==
    f = [c \in Class |->
           IF B[c] = <<>> THEN {<<c>>}
           ELSE UNION {{<<c>> \o r : r \in f[b]} : b \in ToSet(B[c])}]

LEMMA RootsExist ==
  ASSUME NEW B, IsHierarchy(B)
  PROVE  \E f \in [Class -> SUBSET Seq(Class)] : IsRoots(B, f)
  <1> DEFINE V == SUBSET Seq(Class)
             deps == [c \in Class |-> ToSet(B[c])]
             H == [c \in Class |-> [g \in [deps[c] -> V] |->
                     IF B[c] = <<>> THEN {<<c>>}
                     ELSE UNION {{<<c>> \o r : r \in g[b]} : b \in ToSet(B[c])}]]
  <1>0. B \in [Class -> Seq(Class)]
    BY DEF IsHierarchy
  <1>1. deps \in [Class -> SUBSET Class]
    BY <1>0, BaseIsClass
  <1>6. ASSUME NEW c \in Class, NEW g \in [deps[c] -> V] PROVE H[c][g] \in V
    <2>1. <<c>> \in Seq(Class)
      OBVIOUS
    <2>2. ASSUME NEW b \in ToSet(B[c]), NEW r \in g[b] PROVE <<c>> \o r \in Seq(Class)
      <3>1. r \in Seq(Class)
        OBVIOUS
      <3> QED BY <2>1, <3>1
    <2> DEFINE R == UNION {{<<c>> \o r : r \in g[b]} : b \in ToSet(B[c])}
    <2>3. R \subseteq Seq(Class)
      BY <2>2
    <2>4. {<<c>>} \subseteq Seq(Class)
      BY <2>1
    <2>5. H[c][g] = IF B[c] = <<>> THEN {<<c>>} ELSE R
      OBVIOUS
    <2> HIDE DEF R, H
    <2> QED BY <2>3, <2>4, <2>5
  <1>2. Computes(H, Class, V, deps)
    <2> HIDE DEF H, deps, V
    <2> QED BY <1>6 DEF Computes
  <1>3. Grounded(Class, deps)
    BY DEF IsHierarchy, Grounded
  <1>4. PICK f \in [Class -> V] : IsComputed(f, Class, deps, H)
    <2> HIDE DEF H, deps, V
    <2> QED BY <1>1, <1>2, <1>3, HierarchyRecursion
  <1>5. ASSUME NEW c \in Class
        PROVE  f[c] = IF B[c] = <<>> THEN {<<c>>}
                      ELSE UNION {{<<c>> \o r : r \in f[b]} : b \in ToSet(B[c])}
    <2> DEFINE g == [b \in ToSet(B[c]) |-> f[b]]
    <2>1. g \in [ToSet(B[c]) -> V]
      BY <1>0, BaseIsClass
    <2>4. f[c] = H[c][g]
      <3> HIDE DEF H
      <3> QED BY <1>4 DEF IsComputed
    <2>2. f[c] = IF B[c] = <<>> THEN {<<c>>}
                 ELSE UNION {{<<c>> \o r : r \in g[b]} : b \in ToSet(B[c])}
      <3> HIDE DEF g
      <3> QED BY <2>1, <2>4
    <2>3. \A b \in ToSet(B[c]) : g[b] = f[b]
      OBVIOUS
    <2> HIDE DEF g
    <2> QED BY <2>2, <2>3
  <1>7. IsRoots(B, f)
    BY <1>5 DEF IsRoots
  <1> QED BY <1>7

LEMMA RootsTyped ==
  ASSUME NEW B, IsHierarchy(B), NEW f, IsRoots(B, f)
  PROVE  f \in [Class -> SUBSET Seq(Class)]
  <1> DEFINE S == {c \in Class : f[c] \in SUBSET Seq(Class)}
  <1>1. ASSUME NEW c \in Class, ToSet(B[c]) \subseteq S PROVE f[c] \in SUBSET Seq(Class)
    <2>1. f[c] = IF B[c] = <<>> THEN {<<c>>}
                 ELSE UNION {{<<c>> \o r : r \in f[b]} : b \in ToSet(B[c])}
      BY DEF IsRoots
    <2>2. <<c>> \in Seq(Class)
      OBVIOUS
    <2>3. ASSUME NEW b \in ToSet(B[c]), NEW r \in f[b] PROVE <<c>> \o r \in Seq(Class)
      <3>1. r \in Seq(Class)
        BY <1>1
      <3> QED BY <2>2, <3>1
    <2> DEFINE R == UNION {{<<c>> \o r : r \in f[b]} : b \in ToSet(B[c])}
    <2>4. R \subseteq Seq(Class)
      BY <2>3
    <2>5. f[c] = IF B[c] = <<>> THEN {<<c>>} ELSE R
      BY <2>1
    <2> HIDE DEF R
    <2> QED BY <2>2, <2>4, <2>5
  <1>2. S = Class
    <2>1. \A c \in Class : ToSet(B[c]) \subseteq S => c \in S
      <3> SUFFICES ASSUME NEW c \in Class, ToSet(B[c]) \subseteq S PROVE c \in S
        OBVIOUS
      <3>1. f[c] \in SUBSET Seq(Class)
        <4> HIDE DEF S
        <4> QED BY <1>1
      <3> QED BY <3>1
    <2>2. S \in SUBSET Class
      OBVIOUS
    <2> HIDE DEF S
    <2> QED BY <2>1, <2>2, HierarchyInduction
  <1>3. \A c \in Class : f[c] \in SUBSET Seq(Class)
    BY <1>2
  <1>4. f = [c \in Class |-> f[c]]
    BY DEF IsRoots
  <1> QED BY <1>3, <1>4

LEMMA ConsIs ==
  ASSUME NEW T, NEW c \in T, NEW r \in Seq(T)
  PROVE  /\ <<c>> \o r \in Seq(T) /\ Len(<<c>> \o r) = Len(r) + 1
         /\ <<c>> \o r # <<>>
         /\ (<<c>> \o r)[1] = c
         /\ \A i \in 1 .. Len(r) : (<<c>> \o r)[i + 1] = r[i]
  <1>1. <<c>> \in Seq(T) /\ Len(<<c>>) = 1 /\ Len(r) \in Nat
    OBVIOUS
  <1>2. /\ <<c>> \o r \in Seq(T) /\ Len(<<c>> \o r) = Len(<<c>>) + Len(r)
        /\ \A i \in 1 .. Len(<<c>>) + Len(r) :
             (<<c>> \o r)[i] = IF i <= Len(<<c>>) THEN <<c>>[i] ELSE r[i - Len(<<c>>)]
    BY <1>1
  <1> DEFINE t == <<c>> \o r
  <1>3. /\ t \in Seq(T) /\ Len(t) = Len(r) + 1
        /\ \A i \in 1 .. Len(r) + 1 : t[i] = IF i <= 1 THEN <<c>>[i] ELSE r[i - 1]
    <2>1. Len(<<c>>) + Len(r) = Len(r) + 1
      BY <1>1
    <2> QED BY <1>1, <1>2, <2>1
  <1> HIDE DEF t
  <1>4. t[1] = c
    BY <1>1, <1>3
  <1>5. \A i \in 1 .. Len(r) : t[i + 1] = r[i]
    <2> SUFFICES ASSUME NEW i \in 1 .. Len(r) PROVE t[i + 1] = r[i]
      OBVIOUS
    <2>1. i + 1 \in 1 .. Len(r) + 1 /\ ~ (i + 1 <= 1) /\ (i + 1) - 1 = i
      BY <1>1
    <2> QED BY <1>3, <2>1
  <1>6. t # <<>>
    BY <1>1, <1>3
  <1> QED BY <1>3, <1>4, <1>5, <1>6 DEF t

LEMMA PathOfBase ==
  ASSUME NEW B \in [Class -> Seq(Class)], NEW c \in Class, NEW r, IsPath(B, r),
         r[1] \in ToSet(B[c])
  PROVE  /\ IsPath(B, <<c>> \o r) /\ (<<c>> \o r)[1] = c
         /\ (<<c>> \o r)[Len(<<c>> \o r)] = r[Len(r)]
  <1> DEFINE t == <<c>> \o r
  <1>1. r \in Seq(Class) /\ r # <<>> /\ Len(r) \in Nat \ {0}
    BY DEF IsPath
  <1>2. /\ t \in Seq(Class) /\ Len(t) = Len(r) + 1 /\ t # <<>> /\ t[1] = c
        /\ \A i \in 1 .. Len(r) : t[i + 1] = r[i]
    BY <1>1, ConsIs
  <1> HIDE DEF t
  <1>3. ASSUME NEW i \in 1 .. Len(t) - 1 PROVE t[i + 1] \in ToSet(B[t[i]])
    <2>1. i \in 1 .. Len(r) /\ t[i + 1] = r[i]
      BY <1>1, <1>2
    <2>2. CASE i = 1
      BY <1>2, <2>1, <2>2
    <2>3. CASE i # 1
      <3>1. i - 1 \in 1 .. Len(r) - 1 /\ i - 1 \in 1 .. Len(r) /\ (i - 1) + 1 = i
        BY <1>1, <2>1, <2>3
      <3>2. r[(i - 1) + 1] \in ToSet(B[r[i - 1]]) /\ t[(i - 1) + 1] = r[i - 1]
        BY <1>2, <3>1 DEF IsPath
      <3> QED BY <2>1, <3>1, <3>2
    <2> QED BY <2>2, <2>3
  <1>4. t[Len(t)] = r[Len(r)]
    <2>1. Len(r) \in 1 .. Len(r)
      BY <1>1
    <2> QED BY <1>2, <2>1
  <1>5. IsPath(B, t)
    BY <1>2, <1>3 DEF IsPath
  <1>6. IsPath(B, t) /\ t[1] = c /\ t[Len(t)] = r[Len(r)]
    BY <1>2, <1>4, <1>5
  <1> QED BY <1>6 DEF t

LEMMA PathToBase ==
  ASSUME NEW B \in [Class -> Seq(Class)], NEW t, IsPath(B, t), Len(t) # 1
  PROVE  \E r : /\ IsPath(B, r) /\ r[1] \in ToSet(B[t[1]]) /\ t = <<t[1]>> \o r
                /\ r[Len(r)] = t[Len(t)]
  <1>0. t \in Seq(Class) /\ t # <<>>
    BY DEF IsPath
  <1>1. t \in Seq(Class) /\ Len(t) \in Nat /\ Len(t) > 1 /\ t[1] \in Class
    <2>1. Len(t) \in Nat /\ Len(t) # 0
      BY <1>0
    <2>5. \A n \in Nat : n # 0 /\ n # 1 => n > 1
      OBVIOUS
    <2>2. Len(t) > 1
      BY <2>1, <2>5
    <2>3. 1 \in 1 .. Len(t)
      BY <2>1
    <2>4. t[1] \in Class
      BY <1>0, <2>3
    <2> QED BY <1>0, <2>1, <2>2, <2>4
  <1> DEFINE n == Len(t) - 1
             r == [i \in 1 .. n |-> t[i + 1]]
  <1>2. n \in Nat /\ n >= 1 /\ n + 1 = Len(t)
    BY <1>1
  <1>3. r \in Seq(Class) /\ Len(r) = n /\ \A i \in 1 .. n : r[i] = t[i + 1]
    <2>1. \A i \in 1 .. n : t[i + 1] \in Class
      BY <1>1, <1>2
    <2> HIDE DEF n
    <2>2. r \in [1 .. n -> Class]
      BY <2>1
    <2> QED BY <1>2, <2>2
  <1> HIDE DEF n, r
  <1>4. r # <<>> /\ r[1] \in ToSet(B[t[1]]) /\ r[Len(r)] = t[Len(t)]
    <2>1. 1 \in 1 .. Len(t) - 1 /\ n \in 1 .. n /\ 1 \in 1 .. n
      BY <1>2 DEF n
    <2>2. t[1 + 1] \in ToSet(B[t[1]])
      BY <2>1 DEF IsPath
    <2> QED BY <1>2, <1>3, <2>1, <2>2
  <1>5. ASSUME NEW i \in 1 .. Len(r) - 1 PROVE r[i + 1] \in ToSet(B[r[i]])
    <2>1. i + 1 \in 1 .. Len(t) - 1 /\ i \in 1 .. n /\ i + 1 \in 1 .. n
      BY <1>2, <1>3 DEF n
    <2>2. t[(i + 1) + 1] \in ToSet(B[t[i + 1]])
      BY <2>1 DEF IsPath
    <2> QED BY <1>3, <2>1, <2>2
  <1>6. IsPath(B, r)
    BY <1>3, <1>4, <1>5 DEF IsPath
  <1>7. t = <<t[1]>> \o r
    <2> DEFINE u == <<t[1]>> \o r
    <2>1. /\ u \in Seq(Class) /\ Len(u) = Len(r) + 1 /\ u[1] = t[1]
          /\ \A i \in 1 .. Len(r) : u[i + 1] = r[i]
      BY <1>1, <1>3, ConsIs
    <2> HIDE DEF u
    <2>2. ASSUME NEW i \in 1 .. Len(t) PROVE u[i] = t[i]
      <3>1. CASE i = 1
        BY <2>1, <3>1
      <3>2. CASE i # 1
        <4>1. i - 1 \in 1 .. n /\ (i - 1) + 1 = i
          BY <1>2, <3>2
        <4>2. u[(i - 1) + 1] = t[(i - 1) + 1]
          BY <1>3, <2>1, <4>1
        <4> QED BY <4>1, <4>2
      <3> QED BY <3>1, <3>2
    <2>3. Len(u) = Len(t)
      BY <1>2, <1>3, <2>1
    <2>4. u = t
      BY <1>1, <2>1, <2>2, <2>3, SeqEqual
    <2> QED BY <2>4 DEF u
  <1> QED BY <1>4, <1>6, <1>7

RootPath(B, c, t) == IsPath(B, t) /\ t[1] = c /\ B[t[Len(t)]] = <<>>

LEMMA OneClassPath ==
  ASSUME NEW B \in [Class -> Seq(Class)], NEW t, IsPath(B, t), Len(t) = 1
  PROVE  t = <<t[1]>>
  <1>1. t \in Seq(Class)
    BY DEF IsPath
  <1> QED BY <1>1

LEMMA RootsArePaths ==
  ASSUME NEW B, IsHierarchy(B), NEW f \in [Class -> SUBSET Seq(Class)], IsRoots(B, f)
  PROVE  \A c \in Class : \A t : t \in f[c] <=> RootPath(B, c, t)
  <1> DEFINE S == {c \in Class : \A t \in Seq(Class) : t \in f[c] <=> RootPath(B, c, t)}
  <1>0. B \in [Class -> Seq(Class)]
    BY DEF IsHierarchy
  <1>1. ASSUME NEW c \in Class, ToSet(B[c]) \subseteq S, NEW t \in Seq(Class)
        PROVE  t \in f[c] <=> RootPath(B, c, t)
    <2>1. f[c] = IF B[c] = <<>> THEN {<<c>>}
                 ELSE UNION {{<<c>> \o r : r \in f[b]} : b \in ToSet(B[c])}
      BY DEF IsRoots
    <2>2. CASE B[c] = <<>>
      <3>1. IsPath(B, <<c>>) /\ <<c>>[1] = c /\ <<c>>[Len(<<c>>)] = c
        BY DEF IsPath
      <3>2. ASSUME RootPath(B, c, t) PROVE t = <<c>>
        <4>1. Len(t) = 1
          <5>1. SUFFICES ASSUME Len(t) # 1 PROVE FALSE
            OBVIOUS
          <5>2. \E r : r[1] \in ToSet(B[t[1]])
            BY <1>0, <3>2, <5>1, PathToBase DEF RootPath
          <5> QED BY <2>2, <3>2, <5>2 DEF RootPath, ToSet
        <4> QED BY <1>0, <3>2, <4>1, OneClassPath DEF RootPath
      <3> QED BY <2>1, <2>2, <3>1, <3>2 DEF RootPath
    <2>3. CASE B[c] # <<>>
      <3>1. ASSUME t \in f[c] PROVE RootPath(B, c, t)
        <4>1. PICK b \in ToSet(B[c]) : \E r \in f[b] : t = <<c>> \o r
          BY <2>1, <2>3, <3>1
        <4>2. PICK r \in f[b] : t = <<c>> \o r
          BY <4>1
        <4>3. b \in Class /\ b \in S /\ r \in Seq(Class)
          BY <1>0, <1>1, BaseIsClass
        <4>4. RootPath(B, b, r)
          BY <4>3
        <4>6. IsPath(B, r) /\ r[1] \in ToSet(B[c])
          BY <4>4 DEF RootPath
        <4>7. /\ IsPath(B, <<c>> \o r) /\ (<<c>> \o r)[1] = c
              /\ (<<c>> \o r)[Len(<<c>> \o r)] = r[Len(r)]
          BY <1>0, <4>6, PathOfBase
        <4>5. IsPath(B, t) /\ t[1] = c /\ t[Len(t)] = r[Len(r)]
          BY <4>2, <4>7
        <4> QED BY <4>4, <4>5 DEF RootPath
      <3>2. ASSUME RootPath(B, c, t) PROVE t \in f[c]
        <4>1. Len(t) # 1
          BY <2>3, <3>2 DEF RootPath
        <4>2. PICK r : /\ IsPath(B, r) /\ r[1] \in ToSet(B[t[1]]) /\ t = <<t[1]>> \o r
                       /\ r[Len(r)] = t[Len(t)]
          BY <1>0, <3>2, <4>1, PathToBase DEF RootPath
        <4>3. r[1] \in ToSet(B[c]) /\ r[1] \in S /\ r \in Seq(Class)
          BY <1>1, <3>2, <4>2 DEF RootPath, IsPath
        <4>4. RootPath(B, r[1], r)
          BY <3>2, <4>2 DEF RootPath
        <4>5. r \in f[r[1]] /\ t = <<c>> \o r
          BY <3>2, <4>2, <4>3, <4>4 DEF RootPath
        <4>6. t \in {<<c>> \o x : x \in f[r[1]]}
          BY <4>5
        <4>7. f[c] = UNION {{<<c>> \o x : x \in f[b]} : b \in ToSet(B[c])}
          BY <2>1, <2>3
        <4> HIDE DEF S
        <4> QED BY ONLY <4>3, <4>6, <4>7
      <3> QED BY <3>1, <3>2
    <2> QED BY <2>2, <2>3
  <1>2. S = Class
    <2>1. \A c \in Class : ToSet(B[c]) \subseteq S => c \in S
      <3> SUFFICES ASSUME NEW c \in Class, ToSet(B[c]) \subseteq S PROVE c \in S
        OBVIOUS
      <3>1. \A t \in Seq(Class) : t \in f[c] <=> RootPath(B, c, t)
        <4> HIDE DEF S
        <4> QED BY <1>1
      <3> QED BY <3>1
    <2>2. S \in SUBSET Class
      OBVIOUS
    <2> HIDE DEF S
    <2> QED BY <2>1, <2>2, HierarchyInduction
  <1>3. \A c \in Class : f[c] \in SUBSET Seq(Class)
    OBVIOUS
  <1> QED BY <1>2, <1>3 DEF RootPath, IsPath

-----------------------------------------------------------------------------
(* The steps of a construction.                                            *)

Step == [op : {"inplace_vptr", "body"}, sub : Seq(Class)]

InplaceStep(t) == [op |-> "inplace_vptr", sub |-> t]

BodyStep(t) == [op |-> "body", sub |-> t]

LEMMA InplaceStepIs ==
  \A t : InplaceStep(t).op = "inplace_vptr" /\ InplaceStep(t).sub = t
  BY DEF InplaceStep

(* The step of a base, as a step of the class.                             *)
StepOfBase(c, x) == [x EXCEPT !.sub = <<c>> \o @]

Rows(B, c, g) ==
    [i \in DOMAIN B[c] |-> [k \in DOMAIN g[B[c][i]] |-> StepOfBase(c, g[B[c][i]][k])]]

StepsOf(B, c, g) == FlattenSeq(Rows(B, c, g)) \o <<InplaceStep(<<c>>), BodyStep(<<c>>)>>

IsSteps(B, f) == f = [c \in Class |-> StepsOf(B, c, f)]

LEMMA LongerSub ==
  ASSUME NEW o, NEW t, NEW c
  PROVE  [[op |-> o, sub |-> t] EXCEPT !.sub = <<c>> \o @] = [op |-> o, sub |-> <<c>> \o t]
  <1> DEFINE u == <<c>> \o t
  <1>1. [[op |-> o, sub |-> t] EXCEPT !.sub = <<c>> \o @] = [[op |-> o, sub |-> t] EXCEPT !.sub = u]
    OBVIOUS
  <1> HIDE DEF u
  <1>2. [[op |-> o, sub |-> t] EXCEPT !.sub = u] = [op |-> o, sub |-> u]
    OBVIOUS
  <1> QED BY <1>1, <1>2 DEF u

LEMMA StepOfBaseIs ==
  ASSUME NEW c \in Class, NEW x \in Step
  PROVE  /\ StepOfBase(c, x) \in Step
         /\ StepOfBase(c, x).op = x.op /\ StepOfBase(c, x).sub = <<c>> \o x.sub
  <1>1. x.sub \in Seq(Class) /\ x.op \in {"inplace_vptr", "body"}
    BY DEF Step
  <1>2. <<c>> \o x.sub \in Seq(Class)
    BY <1>1, ConsIs
  <1>3. StepOfBase(c, x) = [op |-> x.op, sub |-> <<c>> \o x.sub]
    <2>1. PICK o, t : x = [op |-> o, sub |-> t]
      BY DEF Step
    <2>2. StepOfBase(c, x) = [op |-> o, sub |-> <<c>> \o t]
      BY <2>1, LongerSub DEF StepOfBase
    <2>3. x.op = o /\ x.sub = t
      BY <2>1
    <2> QED BY <2>2, <2>3
  <1> QED BY <1>1, <1>2, <1>3 DEF Step

LEMMA StepsType ==
  ASSUME NEW B \in [Class -> Seq(Class)], NEW c \in Class, NEW g \in [ToSet(B[c]) -> Seq(Step)]
  PROVE  /\ Rows(B, c, g) \in Seq(Seq(Step)) /\ Len(Rows(B, c, g)) = Len(B[c])
         /\ FlattenSeq(Rows(B, c, g)) \in Seq(Step)
         /\ StepsOf(B, c, g) \in Seq(Step)
         /\ Len(StepsOf(B, c, g)) = Len(FlattenSeq(Rows(B, c, g))) + 2
         /\ \A i \in 1 .. Len(FlattenSeq(Rows(B, c, g))) :
              StepsOf(B, c, g)[i] = FlattenSeq(Rows(B, c, g))[i]
         /\ StepsOf(B, c, g)[Len(FlattenSeq(Rows(B, c, g))) + 1] = InplaceStep(<<c>>)
         /\ StepsOf(B, c, g)[Len(FlattenSeq(Rows(B, c, g))) + 2] = BodyStep(<<c>>)
  <1> DEFINE ss == Rows(B, c, g)
             F == FlattenSeq(ss)
             z == <<InplaceStep(<<c>>), BodyStep(<<c>>)>>
             R == F \o z
  <1>1. DOMAIN B[c] = 1 .. Len(B[c]) /\ Len(B[c]) \in Nat
        /\ \A i \in DOMAIN B[c] : B[c][i] \in ToSet(B[c])
    BY BaseIsClass
  <1>2. ASSUME NEW i \in 1 .. Len(B[c])
        PROVE  [k \in DOMAIN g[B[c][i]] |-> StepOfBase(c, g[B[c][i]][k])] \in Seq(Step)
    <2>1. g[B[c][i]] \in Seq(Step)
      BY <1>1
    <2> DEFINE h == g[B[c][i]]
    <2> HIDE DEF h
    <2>2. h \in Seq(Step)
      BY <2>1 DEF h
    <2>3. DOMAIN h = 1 .. Len(h) /\ Len(h) \in Nat
      BY <2>2
    <2>7. \A k \in 1 .. Len(h) : h[k] \in Step
      BY <2>2
    <2>4. \A k \in 1 .. Len(h) : StepOfBase(c, h[k]) \in Step
      BY <2>7, StepOfBaseIs
    <2>5. [k \in 1 .. Len(h) |-> StepOfBase(c, h[k])] \in Seq(Step)
      BY <2>3, <2>4
    <2>6. [k \in DOMAIN h |-> StepOfBase(c, h[k])] \in Seq(Step)
      BY <2>3, <2>5
    <2> QED BY <2>6 DEF h
  <1>3. ss \in Seq(Seq(Step)) /\ Len(ss) = Len(B[c])
    <2>1. ss = [i \in 1 .. Len(B[c]) |->
                  [k \in DOMAIN g[B[c][i]] |-> StepOfBase(c, g[B[c][i]][k])]]
      BY <1>1 DEF Rows
    <2>2. ss \in [1 .. Len(B[c]) -> Seq(Step)]
      BY <1>2, <2>1
    <2> DEFINE n == Len(B[c])
    <2>3. n \in Nat /\ ss \in [1 .. n -> Seq(Step)]
      BY <1>1, <2>2
    <2> HIDE DEF ss, n
    <2>4. ss \in Seq(Seq(Step)) /\ Len(ss) = n
      BY <2>3
    <2> QED BY <2>4 DEF n
  <1>4. F \in Seq(Step)
    <2> HIDE DEF ss
    <2> QED BY <1>3, FlattenRange
  <1>5. InplaceStep(<<c>>) \in Step /\ BodyStep(<<c>>) \in Step
    BY DEF Step, InplaceStep, BodyStep
  <1>6. z \in Seq(Step) /\ Len(z) = 2 /\ z[1] = InplaceStep(<<c>>) /\ z[2] = BodyStep(<<c>>)
    BY <1>5
  <1> HIDE DEF F, z
  <1>7. /\ R \in Seq(Step) /\ Len(R) = Len(F) + Len(z)
        /\ \A i \in 1 .. Len(F) + Len(z) :
             R[i] = IF i <= Len(F) THEN F[i] ELSE z[i - Len(F)]
    BY <1>4, <1>6, ConcatProperties
  <1> HIDE DEF R
  <1>8. Len(F) \in Nat
    BY <1>4
  <1>9. Len(R) = Len(F) + 2
    BY <1>6, <1>7
  <1>10. \A i \in 1 .. Len(F) : R[i] = F[i]
    BY <1>6, <1>7, <1>8
  <1>11. R[Len(F) + 1] = z[1] /\ R[Len(F) + 2] = z[2]
    <2>1. /\ Len(F) + 1 \in 1 .. Len(F) + 2 /\ ~ (Len(F) + 1 <= Len(F))
          /\ (Len(F) + 1) - Len(F) = 1
          /\ Len(F) + 2 \in 1 .. Len(F) + 2 /\ ~ (Len(F) + 2 <= Len(F))
          /\ (Len(F) + 2) - Len(F) = 2
      BY <1>8
    <2> QED BY <1>6, <1>7, <2>1
  <1>12. R = StepsOf(B, c, g)
    BY DEF R, F, z, StepsOf
  <1> HIDE DEF ss
  <1>13. /\ F \in Seq(Step) /\ R \in Seq(Step) /\ Len(R) = Len(F) + 2
         /\ \A i \in 1 .. Len(F) : R[i] = F[i]
         /\ R[Len(F) + 1] = InplaceStep(<<c>>) /\ R[Len(F) + 2] = BodyStep(<<c>>)
    BY <1>4, <1>6, <1>7, <1>9, <1>10, <1>11
  <1>14. F = FlattenSeq(Rows(B, c, g))
    BY DEF F, ss
  <1> QED BY <1>3, <1>12, <1>13, <1>14 DEF ss

LEMMA StepsExist ==
  ASSUME NEW B, IsHierarchy(B)
  PROVE  \E f \in [Class -> Seq(Step)] : IsSteps(B, f)
  <1> DEFINE V == Seq(Step)
             deps == [c \in Class |-> ToSet(B[c])]
             H == [c \in Class |-> [g \in [deps[c] -> V] |-> StepsOf(B, c, g)]]
  <1>0. B \in [Class -> Seq(Class)]
    BY DEF IsHierarchy
  <1>1. deps \in [Class -> SUBSET Class]
    BY <1>0, BaseIsClass
  <1>2. Computes(H, Class, V, deps)
    <2>1. ASSUME NEW c \in Class, NEW g \in [deps[c] -> V] PROVE H[c][g] \in V
      BY <1>0, StepsType
    <2> HIDE DEF H, deps, V
    <2> QED BY <2>1 DEF Computes
  <1>3. Grounded(Class, deps)
    BY DEF IsHierarchy, Grounded
  <1>4. PICK f \in [Class -> V] : IsComputed(f, Class, deps, H)
    <2> HIDE DEF H, deps, V
    <2> QED BY <1>1, <1>2, <1>3, HierarchyRecursion
  <1>5. ASSUME NEW c \in Class PROVE f[c] = StepsOf(B, c, f)
    <2> DEFINE g == [b \in ToSet(B[c]) |-> f[b]]
    <2>1. g \in [ToSet(B[c]) -> V]
      BY <1>0, BaseIsClass
    <2>2. f[c] = H[c][g]
      <3> HIDE DEF H
      <3> QED BY <1>4 DEF IsComputed
    <2>3. H[c][g] = StepsOf(B, c, g)
      <3> HIDE DEF g
      <3> QED BY <2>1
    <2>4. Rows(B, c, g) = Rows(B, c, f)
      <3>1. \A i \in DOMAIN B[c] : g[B[c][i]] = f[B[c][i]]
        BY <1>0, BaseIsClass
      <3> HIDE DEF g
      <3> QED BY <3>1 DEF Rows
    <2> QED BY <2>2, <2>3, <2>4 DEF StepsOf
  <1>6. IsSteps(B, f)
    BY <1>5 DEF IsSteps
  <1> QED BY <1>6

Prefix(s, t) == Len(s) <= Len(t) /\ \A i \in 1 .. Len(s) : t[i] = s[i]

(* Every subobject is constructed; the larger one after the smaller, and a *)
(* body after the inplace_vptr of its subobject; the whole class is last.  *)
Covering(B, c, s) ==
    \A t : IsPath(B, t) /\ t[1] = c => \E k \in 1 .. Len(s) : s[k] = InplaceStep(t)

InsideFirst(s) ==
    \A i, j \in 1 .. Len(s) :
        i # j /\ Prefix(s[j].sub, s[i].sub) /\ (s[i].op = "inplace_vptr" \/ s[j].sub # s[i].sub)
          => i < j

GoodSteps(B, c, s) ==
    /\ s \in Seq(Step) /\ Len(s) >= 2 /\ s[Len(s)] = BodyStep(<<c>>)
    /\ \A k \in 1 .. Len(s) : IsPath(B, s[k].sub) /\ s[k].sub[1] = c
    /\ Covering(B, c, s)
    /\ InsideFirst(s)

LEMMA PrefixOfCons ==
  ASSUME NEW c \in Class, NEW s \in Seq(Class), NEW t \in Seq(Class),
         Prefix(<<c>> \o s, <<c>> \o t)
  PROVE  Prefix(s, t)
  <1> DEFINE u == <<c>> \o s
             v == <<c>> \o t
  <1>1. /\ Len(u) = Len(s) + 1 /\ Len(v) = Len(t) + 1
        /\ \A i \in 1 .. Len(s) : u[i + 1] = s[i]
        /\ \A i \in 1 .. Len(t) : v[i + 1] = t[i]
    BY ConsIs
  <1>2. Prefix(u, v) /\ Len(s) \in Nat /\ Len(t) \in Nat
    OBVIOUS
  <1> HIDE DEF u, v
  <1>3. Len(s) <= Len(t)
    BY <1>1, <1>2 DEF Prefix
  <1>4. ASSUME NEW i \in 1 .. Len(s) PROVE t[i] = s[i]
    <2>1. i + 1 \in 1 .. Len(u) /\ i \in 1 .. Len(t)
      BY <1>1, <1>2, <1>3
    <2>2. v[i + 1] = u[i + 1]
      BY <1>2, <2>1 DEF Prefix
    <2> QED BY <1>1, <2>1, <2>2
  <1> QED BY <1>3, <1>4 DEF Prefix

(* The rows of the bases, one after the other: two places of which the     *)
(* second has the smaller sub are in the same row.                         *)
LEMMA StepsOfBases ==
  ASSUME NEW B, IsHierarchy(B), NEW c \in Class, NEW g \in [ToSet(B[c]) -> Seq(Step)],
         \A b \in ToSet(B[c]) : GoodSteps(B, b, g[b])
  PROVE  LET F == FlattenSeq(Rows(B, c, g))
         IN /\ \A k \in 1 .. Len(F) : /\ IsPath(B, F[k].sub) /\ F[k].sub[1] = c
                                      /\ Len(F[k].sub) >= 2
            /\ \A t : IsPath(B, t) /\ t[1] = c /\ Len(t) # 1
                        => \E k \in 1 .. Len(F) : F[k] = InplaceStep(t)
            /\ InsideFirst(F)
  <1> DEFINE ss == Rows(B, c, g)
             F == FlattenSeq(ss)
             base(n, w) == B[c][w[n]]
  <1>0. B \in [Class -> Seq(Class)]
    BY DEF IsHierarchy
  <1>1. ss \in Seq(Seq(Step)) /\ Len(ss) = Len(B[c]) /\ F \in Seq(Step)
    BY <1>0, StepsType
  <1>2. DOMAIN B[c] = 1 .. Len(B[c]) /\ Len(B[c]) \in Nat
        /\ \A i \in DOMAIN B[c] : B[c][i] \in ToSet(B[c]) /\ B[c][i] \in Class
    BY <1>0, BaseIsClass
  <1>3. ASSUME NEW i \in 1 .. Len(B[c])
        PROVE  /\ DOMAIN ss[i] = 1 .. Len(g[B[c][i]])
               /\ \A k \in 1 .. Len(g[B[c][i]]) : ss[i][k] = StepOfBase(c, g[B[c][i]][k])
    <2>1. g[B[c][i]] \in Seq(Step)
      BY <1>2
    <2>2. DOMAIN g[B[c][i]] = 1 .. Len(g[B[c][i]])
      BY <2>1
    <2>3. ss[i] = [k \in 1 .. Len(g[B[c][i]]) |-> StepOfBase(c, g[B[c][i]][k])]
      BY <1>2, <2>2 DEF Rows
    <2> HIDE DEF ss
    <2> QED BY <2>3
  <1>4. PICK w, q : IsFlattening(F, ss, w, q)
    <2> HIDE DEF ss
    <2> QED BY <1>1, FlattenPlaces
  <1> HIDE DEF F, ss
  <1>5. /\ \A n \in 1 .. Len(F) : /\ w[n] \in 1 .. Len(B[c]) /\ q[n] \in DOMAIN ss[w[n]]
                                  /\ q[n] \in Nat /\ F[n] = ss[w[n]][q[n]]
        /\ \A n, m \in 1 .. Len(F) : n < m => w[n] < w[m] \/ (w[n] = w[m] /\ q[n] < q[m])
        /\ \A i \in 1 .. Len(B[c]) : \A k \in DOMAIN ss[i] :
             \E n \in 1 .. Len(F) : w[n] = i /\ q[n] = k
    BY <1>1, <1>4 DEF IsFlattening
  <1> DEFINE G(n) == g[B[c][w[n]]][q[n]]
  <1>6. ASSUME NEW n \in 1 .. Len(F)
        PROVE  /\ w[n] \in DOMAIN B[c] /\ B[c][w[n]] \in ToSet(B[c])
               /\ q[n] \in 1 .. Len(g[B[c][w[n]]])
               /\ G(n) \in Step /\ G(n).sub \in Seq(Class)
               /\ IsPath(B, G(n).sub) /\ G(n).sub[1] = B[c][w[n]]
               /\ F[n].op = G(n).op /\ F[n].sub = <<c>> \o G(n).sub
    <2>1. w[n] \in DOMAIN B[c] /\ w[n] \in 1 .. Len(B[c]) /\ B[c][w[n]] \in ToSet(B[c])
      BY <1>2, <1>5
    <2>2. q[n] \in 1 .. Len(g[B[c][w[n]]]) /\ F[n] = StepOfBase(c, G(n))
      <3>1. q[n] \in DOMAIN ss[w[n]] /\ F[n] = ss[w[n]][q[n]]
        BY <1>5
      <3>2. /\ DOMAIN ss[w[n]] = 1 .. Len(g[B[c][w[n]]])
            /\ \A k \in 1 .. Len(g[B[c][w[n]]]) : ss[w[n]][k] = StepOfBase(c, g[B[c][w[n]]][k])
        BY <1>3, <2>1
      <3> QED BY ONLY <3>1, <3>2
    <2>3. GoodSteps(B, B[c][w[n]], g[B[c][w[n]]])
      BY <2>1
    <2>4. G(n) \in Step /\ IsPath(B, G(n).sub) /\ G(n).sub[1] = B[c][w[n]]
      <3> DEFINE h == g[B[c][w[n]]]
                 k == q[n]
      <3>0. GoodSteps(B, B[c][w[n]], h) /\ k \in 1 .. Len(h)
        BY <2>2, <2>3
      <3>1. h \in Seq(Step) /\ k \in 1 .. Len(h)
            /\ \A l \in 1 .. Len(h) : IsPath(B, h[l].sub) /\ h[l].sub[1] = B[c][w[n]]
        <4> HIDE DEF h, k
        <4> QED BY ONLY <3>0 DEF GoodSteps
      <3> HIDE DEF h, k
      <3>2. h[k] \in Step /\ IsPath(B, h[k].sub) /\ h[k].sub[1] = B[c][w[n]]
        BY <3>1
      <3> QED BY <3>2 DEF h, k
    <2>5. G(n).sub \in Seq(Class)
      BY <2>4 DEF Step
    <2>6. F[n].op = G(n).op /\ F[n].sub = <<c>> \o G(n).sub
      <3> HIDE DEF G
      <3> QED BY <2>2, <2>4, StepOfBaseIs
    <2> QED BY <2>1, <2>2, <2>4, <2>5, <2>6
  <1>7. ASSUME NEW k \in 1 .. Len(F)
        PROVE  IsPath(B, F[k].sub) /\ F[k].sub[1] = c /\ Len(F[k].sub) >= 2
    <2> DEFINE r == G(k).sub
    <2>1. IsPath(B, r) /\ r[1] \in ToSet(B[c]) /\ F[k].sub = <<c>> \o r /\ r \in Seq(Class)
      BY <1>6
    <2> HIDE DEF r, G
    <2>7. IsPath(B, r) /\ r[1] \in ToSet(B[c])
      BY <2>1
    <2>8. /\ IsPath(B, <<c>> \o r) /\ (<<c>> \o r)[1] = c
          /\ (<<c>> \o r)[Len(<<c>> \o r)] = r[Len(r)]
      BY <1>0, <2>7, PathOfBase
    <2>5. IsPath(B, <<c>> \o r) /\ (<<c>> \o r)[1] = c
      BY <2>8
    <2>6. Len(<<c>> \o r) = Len(r) + 1
      BY <2>1, ConsIs
    <2>2. IsPath(B, <<c>> \o r) /\ (<<c>> \o r)[1] = c /\ Len(<<c>> \o r) = Len(r) + 1
      BY <2>5, <2>6
    <2>3. Len(r) \in Nat /\ Len(r) # 0
      BY <2>1 DEF IsPath
    <2>4. Len(r) + 1 >= 2
      BY <2>3
    <2> QED BY <2>1, <2>2, <2>4
  <1>8. ASSUME NEW t, IsPath(B, t), t[1] = c, Len(t) # 1
        PROVE  \E k \in 1 .. Len(F) : F[k] = InplaceStep(t)
    <2>1. PICK r : IsPath(B, r) /\ r[1] \in ToSet(B[t[1]]) /\ t = <<t[1]>> \o r
      BY <1>0, <1>8, PathToBase
    <2>2. PICK i \in 1 .. Len(B[c]) : r[1] = B[c][i]
      BY <1>2, <1>8, <2>1 DEF ToSet
    <2>3. GoodSteps(B, r[1], g[r[1]]) /\ g[r[1]] \in Seq(Step)
      BY <1>8, <2>1
    <2>4. PICK k \in 1 .. Len(g[r[1]]) : g[r[1]][k] = InplaceStep(r)
      BY <2>1, <2>3 DEF GoodSteps, Covering
    <2>5. k \in DOMAIN ss[i]
      BY <1>3, <2>2, <2>4
    <2>6. PICK n \in 1 .. Len(F) : w[n] = i /\ q[n] = k
      BY <1>5, <2>5
    <2>10. G(n) = InplaceStep(r)
      BY <2>2, <2>4, <2>6
    <2>11. G(n).op = "inplace_vptr" /\ G(n).sub = r
      BY <2>10 DEF InplaceStep
    <2>12. F[n].op = G(n).op /\ F[n].sub = <<c>> \o G(n).sub
      BY <1>6
    <2>7. F[n].op = "inplace_vptr" /\ F[n].sub = t
      <3> HIDE DEF G
      <3> QED BY <1>8, <2>1, <2>11, <2>12
    <2>8. F[n] \in Step
      BY <1>1
    <2>9. F[n] = InplaceStep(t)
      BY <2>7, <2>8 DEF InplaceStep, Step
    <2> QED BY <2>9
  <1>9. ASSUME NEW i \in 1 .. Len(F), NEW j \in 1 .. Len(F), i # j,
               Prefix(F[j].sub, F[i].sub),
               F[i].op = "inplace_vptr" \/ F[j].sub # F[i].sub
        PROVE  i < j
    <2> DEFINE u == G(i).sub
               v == G(j).sub
    <2>1. /\ u \in Seq(Class) /\ v \in Seq(Class)
          /\ F[i].sub = <<c>> \o u /\ F[j].sub = <<c>> \o v
          /\ u[1] = B[c][w[i]] /\ v[1] = B[c][w[j]]
          /\ IsPath(B, u) /\ IsPath(B, v)
          /\ F[i].op = G(i).op
          /\ w[i] \in DOMAIN B[c] /\ w[j] \in DOMAIN B[c]
          /\ B[c][w[i]] \in ToSet(B[c])
          /\ q[i] \in 1 .. Len(g[B[c][w[i]]]) /\ q[j] \in 1 .. Len(g[B[c][w[j]]])
      BY <1>6
    <2> HIDE DEF G, u, v
    <2>2. Prefix(v, u)
      BY <1>9, <2>1, PrefixOfCons
    <2>3. v[1] = u[1]
      <3>1. 1 \in 1 .. Len(v)
        <4>1. Len(v) \in Nat /\ Len(v) # 0
          BY <2>1 DEF IsPath
        <4> QED BY <4>1
      <3> QED BY <2>2, <3>1 DEF Prefix
    <2>4. w[i] = w[j]
      BY <2>1, <2>3 DEF IsHierarchy
    <2>5. q[i] # q[j]
      <3>1. SUFFICES ASSUME q[i] = q[j] PROVE FALSE
        OBVIOUS
      <3>2. i < j \/ j < i
        BY <1>1, <1>9
      <3>3. w[i] \in Nat /\ q[i] \in Nat
        BY <1>5
      <3> QED BY <1>5, <2>4, <3>1, <3>2, <3>3
    <2> DEFINE h == g[B[c][w[i]]]
    <2>6. InsideFirst(h) /\ q[i] \in 1 .. Len(h) /\ q[j] \in 1 .. Len(h)
      BY <2>1, <2>4 DEF GoodSteps
    <2>7. h[q[i]].sub = u /\ h[q[j]].sub = v /\ h[q[i]].op = F[i].op
      BY <2>1, <2>4 DEF G, u, v
    <2>8. F[i].op = "inplace_vptr" \/ v # u
      BY <1>9, <2>1
    <2> HIDE DEF h
    <2>9. q[i] < q[j]
      BY <2>2, <2>5, <2>6, <2>7, <2>8 DEF InsideFirst
    <2>10. ~ (j < i)
      <3>1. SUFFICES ASSUME j < i PROVE FALSE
        OBVIOUS
      <3>2. w[j] < w[i] \/ q[j] < q[i]
        BY <1>5, <3>1
      <3>3. w[i] \in Nat /\ q[i] \in Nat /\ q[j] \in Nat
        BY <1>5
      <3> QED BY <2>4, <2>9, <3>2, <3>3
    <2> QED BY <1>1, <1>9, <2>10
  <1>10. InsideFirst(F)
    BY <1>9 DEF InsideFirst
  <1> QED BY <1>7, <1>8, <1>10 DEF F, ss

LEMMA StepsOfClass ==
  ASSUME NEW B, IsHierarchy(B), NEW c \in Class, NEW g \in [ToSet(B[c]) -> Seq(Step)],
         \A b \in ToSet(B[c]) : GoodSteps(B, b, g[b])
  PROVE  GoodSteps(B, c, StepsOf(B, c, g))
  <1> DEFINE F == FlattenSeq(Rows(B, c, g))
             s == StepsOf(B, c, g)
             n == Len(F)
  <1>0. B \in [Class -> Seq(Class)]
    BY DEF IsHierarchy
  <1>1. /\ F \in Seq(Step) /\ s \in Seq(Step) /\ Len(s) = n + 2
        /\ \A i \in 1 .. n : s[i] = F[i]
        /\ s[n + 1] = InplaceStep(<<c>>) /\ s[n + 2] = BodyStep(<<c>>)
    BY <1>0, StepsType
  <1>2. /\ \A k \in 1 .. n : IsPath(B, F[k].sub) /\ F[k].sub[1] = c /\ Len(F[k].sub) >= 2
        /\ \A t : IsPath(B, t) /\ t[1] = c /\ Len(t) # 1 => \E k \in 1 .. n : F[k] = InplaceStep(t)
        /\ InsideFirst(F)
    BY StepsOfBases
  <1> HIDE DEF F, s
  <1>3. n \in Nat
    BY <1>1
  <1> HIDE DEF n
  <1>4. \A i \in 1 .. Len(s) : i \in 1 .. n \/ i = n + 1 \/ i = n + 2
    BY <1>1, <1>3
  <1>5. IsPath(B, <<c>>) /\ <<c>>[1] = c /\ <<c>> \in Seq(Class) /\ Len(<<c>>) = 1
    BY DEF IsPath
  <1>6. s[n + 1].sub = <<c>> /\ s[n + 1].op = "inplace_vptr"
        /\ s[n + 2].sub = <<c>> /\ s[n + 2].op = "body"
    BY <1>1 DEF InplaceStep, BodyStep
  <1>7. ASSUME NEW k \in 1 .. Len(s) PROVE IsPath(B, s[k].sub) /\ s[k].sub[1] = c
    <2>1. CASE k \in 1 .. n
      BY <1>1, <1>2, <2>1
    <2>2. CASE k = n + 1 \/ k = n + 2
      BY <1>5, <1>6, <2>2
    <2> QED BY <1>4, <2>1, <2>2
  <1>8. Covering(B, c, s)
    <2> SUFFICES ASSUME NEW t, IsPath(B, t), t[1] = c
                 PROVE  \E k \in 1 .. Len(s) : s[k] = InplaceStep(t)
      BY DEF Covering
    <2>1. CASE Len(t) = 1
      <3>1. t = <<c>>
        BY <1>0, <2>1, OneClassPath
      <3>2. n + 1 \in 1 .. Len(s)
        BY <1>1, <1>3
      <3> QED BY <1>1, <3>1, <3>2
    <2>2. CASE Len(t) # 1
      <3>1. PICK k \in 1 .. n : F[k] = InplaceStep(t)
        BY <1>2, <2>2
      <3>2. k \in 1 .. Len(s)
        BY <1>1, <1>3
      <3> QED BY <1>1, <3>1, <3>2
    <2> QED BY <2>1, <2>2
  <1>9. ASSUME NEW i \in 1 .. Len(s), NEW j \in 1 .. Len(s), i # j,
               Prefix(s[j].sub, s[i].sub),
               s[i].op = "inplace_vptr" \/ s[j].sub # s[i].sub
        PROVE  i < j
    <2>1. CASE i \in 1 .. n /\ j \in 1 .. n
      <3>1. s[i] = F[i] /\ s[j] = F[j]
        BY <1>1, <2>1
      <3>2. Prefix(F[j].sub, F[i].sub) /\ (F[i].op = "inplace_vptr" \/ F[j].sub # F[i].sub)
        BY <1>9, <3>1
      <3> QED BY <1>2, <1>9, <2>1, <3>2 DEF InsideFirst, n
    <2>2. CASE i \in 1 .. n /\ j \notin 1 .. n
      BY <1>3, <1>4, <2>2
    <2>3. CASE i \notin 1 .. n
      <3>1. s[i].sub = <<c>> /\ (i = n + 1 \/ i = n + 2)
        BY <1>4, <1>6, <2>3
      <3>2. j \notin 1 .. n
        <4>1. SUFFICES ASSUME j \in 1 .. n PROVE FALSE
          OBVIOUS
        <4>2. Len(s[j].sub) >= 2 /\ s[j].sub \in Seq(Class)
          BY <1>1, <1>2, <4>1 DEF IsPath
        <4>3. Len(s[j].sub) <= 1 /\ Len(s[j].sub) \in Nat
          BY <1>5, <1>9, <3>1, <4>2 DEF Prefix
        <4> QED BY <4>2, <4>3
      <3>3. j = n + 1 \/ j = n + 2
        BY <1>4, <3>2
      <3>4. s[j].sub = s[i].sub
        BY <1>6, <3>1, <3>3
      <3>5. i # n + 2
        BY <1>6, <1>9, <3>4
      <3> QED BY <1>3, <1>9, <3>1, <3>3, <3>5
    <2> QED BY <2>1, <2>2, <2>3
  <1>10. InsideFirst(s)
    BY <1>9 DEF InsideFirst
  <1>11. Len(s) >= 2 /\ s[Len(s)] = BodyStep(<<c>>)
    BY <1>1, <1>3
  <1>12. GoodSteps(B, c, s)
    BY <1>1, <1>7, <1>8, <1>10, <1>11 DEF GoodSteps
  <1> QED BY <1>12 DEF s

LEMMA StepsAreGood ==
  ASSUME NEW B, IsHierarchy(B), NEW f, IsSteps(B, f)
  PROVE  \A c \in Class : GoodSteps(B, c, f[c])
  <1> DEFINE S == {c \in Class : GoodSteps(B, c, f[c])}
  <1>0. B \in [Class -> Seq(Class)]
    BY DEF IsHierarchy
  <1>1. ASSUME NEW c \in Class, ToSet(B[c]) \subseteq S PROVE GoodSteps(B, c, f[c])
    <2> DEFINE g == [b \in ToSet(B[c]) |-> f[b]]
    <2>0. ToSet(B[c]) \in SUBSET Class /\ \A i \in DOMAIN B[c] : B[c][i] \in ToSet(B[c])
      BY <1>0, BaseIsClass
    <2>1. g \in [ToSet(B[c]) -> Seq(Step)]
      BY <1>1 DEF GoodSteps
    <2>2. \A b \in ToSet(B[c]) : g[b] = f[b]
      OBVIOUS
    <2> HIDE DEF g
    <2>3. \A b \in ToSet(B[c]) : GoodSteps(B, b, g[b])
      BY <1>1, <2>2
    <2>4. GoodSteps(B, c, StepsOf(B, c, g))
      BY <2>1, <2>3, StepsOfClass
    <2>5. Rows(B, c, g) = Rows(B, c, f)
      BY <2>0, <2>2 DEF Rows
    <2>6. f[c] = StepsOf(B, c, f)
      BY DEF IsSteps
    <2> QED BY <2>4, <2>5, <2>6 DEF StepsOf
  <1>2. S = Class
    <2>1. \A c \in Class : ToSet(B[c]) \subseteq S => c \in S
      <3> SUFFICES ASSUME NEW c \in Class, ToSet(B[c]) \subseteq S PROVE c \in S
        OBVIOUS
      <3>1. GoodSteps(B, c, f[c])
        <4> HIDE DEF S
        <4> QED BY <1>1
      <3> QED BY <3>1
    <2>2. S \in SUBSET Class
      OBVIOUS
    <2> HIDE DEF S
    <2> QED BY <2>1, <2>2, HierarchyInduction
  <1> QED BY <1>2

-----------------------------------------------------------------------------
(* The subobjects of root classes in a subobject are those that it is a    *)
(* prefix of.                                                              *)

RootsInside(B, f, s) == {s \o Tail(r) : r \in f[s[Len(s)]]}

LEMMA TailIs ==
  ASSUME NEW r \in Seq(Class), r # <<>>
  PROVE  /\ Tail(r) \in Seq(Class) /\ Len(Tail(r)) = Len(r) - 1
         /\ \A i \in 1 .. Len(r) - 1 : Tail(r)[i] = r[i + 1]
  OBVIOUS

(* A path goes on with another that starts where it ends.                  *)
IsRest(B, s, r) == IsPath(B, r) /\ r[1] = s[Len(s)]

IsJoin(B, s, r, t) ==
    /\ IsPath(B, t) /\ Prefix(s, t)
    /\ t[Len(t)] = r[Len(r)] /\ t[1] = s[1]

IsSplit(B, s, r, t) == IsRest(B, s, r) /\ IsJoin(B, s, r, t) /\ t = s \o Tail(r)

LEMMA JoinedPath ==
  ASSUME NEW B \in [Class -> Seq(Class)], NEW s, IsPath(B, s), NEW r, IsRest(B, s, r)
  PROVE  IsJoin(B, s, r, s \o Tail(r))
  <1> DEFINE u == Tail(r)
             t == s \o Tail(r)
             n == Len(s)
             m == Len(r)
  <1>1. s \in Seq(Class) /\ r \in Seq(Class) /\ n \in Nat \ {0} /\ m \in Nat \ {0}
        /\ r # <<>> /\ s # <<>>
    BY DEF IsPath, IsRest
  <1>2. u \in Seq(Class) /\ Len(u) = m - 1 /\ \A i \in 1 .. m - 1 : u[i] = r[i + 1]
    BY <1>1, TailIs
  <1>3. /\ t \in Seq(Class) /\ Len(t) = Len(s) + Len(u)
        /\ \A i \in 1 .. Len(s) + Len(u) : t[i] = IF i <= Len(s) THEN s[i] ELSE u[i - Len(s)]
    <2> HIDE DEF u
    <2>1. t = s \o u
      BY DEF u
    <2> HIDE DEF t
    <2> QED BY <1>1, <1>2, <2>1, ConcatProperties
  <1>4. r[1] = s[n]
    BY DEF IsRest
  <1>5. \A i \in 1 .. n - 1 : s[i + 1] \in ToSet(B[s[i]])
    BY DEF IsPath
  <1>6. \A i \in 1 .. m - 1 : r[i + 1] \in ToSet(B[r[i]])
    BY DEF IsPath, IsRest
  <1>7. Len(s) = n
    OBVIOUS
  <1> HIDE DEF t, u, n, m
  <1>8. Len(t) = n + m - 1 /\ n + (m - 1) = n + m - 1
    BY <1>1, <1>2, <1>3, <1>7
  <1>9. ASSUME NEW i \in 1 .. n PROVE t[i] = s[i]
    <2>1. i \in 1 .. n + (m - 1) /\ i <= n
      BY <1>1
    <2> QED BY <1>2, <1>3, <1>7, <2>1
  <1>10. ASSUME NEW i \in 1 .. m PROVE t[n + i - 1] = r[i]
    <2>1. CASE i = 1
      <3>1. n + i - 1 = n /\ n \in 1 .. n
        BY <1>1, <2>1
      <3> QED BY <1>4, <1>9, <2>1, <3>1
    <2>2. CASE i # 1
      <3>1. /\ n + i - 1 \in 1 .. n + (m - 1) /\ ~ (n + i - 1 <= n)
            /\ (n + i - 1) - n = i - 1 /\ i - 1 \in 1 .. m - 1 /\ (i - 1) + 1 = i
        BY <1>1, <2>2
      <3>2. t[n + i - 1] = u[(n + i - 1) - n]
        BY <1>2, <1>3, <1>7, <3>1
      <3>3. u[i - 1] = r[(i - 1) + 1]
        BY <1>2, <3>1
      <3> QED BY <3>1, <3>2, <3>3
    <2> QED BY <2>1, <2>2
  <1>11. ASSUME NEW i \in 1 .. Len(t) - 1 PROVE t[i + 1] \in ToSet(B[t[i]])
    <2>1. CASE i + 1 <= n
      <3>1. i \in 1 .. n - 1 /\ i \in 1 .. n /\ i + 1 \in 1 .. n
        BY <1>1, <1>8, <2>1
      <3> QED BY <1>5, <1>9, <3>1
    <2>2. CASE ~ (i + 1 <= n)
      <3> DEFINE j == i - n + 1
      <3>1. /\ j \in 1 .. m - 1 /\ j \in 1 .. m /\ j + 1 \in 1 .. m
            /\ n + j - 1 = i /\ n + (j + 1) - 1 = i + 1
        BY <1>1, <1>8, <2>2
      <3> HIDE DEF j
      <3>2. t[i] = r[j] /\ t[i + 1] = r[j + 1]
        <4>1. t[n + j - 1] = r[j]
          BY <1>10, <3>1
        <4>2. t[n + (j + 1) - 1] = r[j + 1]
          BY <1>10, <3>1
        <4> QED BY <3>1, <4>1, <4>2
      <3> QED BY <1>6, <3>1, <3>2
    <2> QED BY <2>1, <2>2
  <1>12. t[Len(t)] = r[m]
    <2>1. m \in 1 .. m
      BY <1>1
    <2> QED BY <1>8, <1>10, <2>1
  <1>13. t[1] = s[1]
    <2>1. 1 \in 1 .. n
      BY <1>1
    <2> QED BY <1>9, <2>1
  <1>14. t # <<>>
    BY <1>1, <1>3, <1>8
  <1>15. IsPath(B, t)
    BY <1>3, <1>11, <1>14 DEF IsPath
  <1>16. Prefix(s, t)
    <2>1. Len(s) <= Len(t)
      BY <1>1, <1>7, <1>8
    <2> QED BY <1>7, <1>9, <2>1 DEF Prefix
  <1>17. IsJoin(B, s, r, t)
    BY <1>12, <1>13, <1>15, <1>16 DEF m, IsJoin
  <1> QED BY <1>17 DEF t

(* The rest of a path, from the end of a prefix.                           *)
LEMMA RestOfPath ==
  ASSUME NEW B \in [Class -> Seq(Class)], NEW s, IsPath(B, s), NEW t, IsPath(B, t),
         Prefix(s, t)
  PROVE  \E r : IsSplit(B, s, r, t)
  <1> DEFINE n == Len(s)
             m == Len(t) - n + 1
             r == [i \in 1 .. m |-> t[n + i - 1]]
  <1>1. /\ s \in Seq(Class) /\ t \in Seq(Class) /\ Len(s) \in Nat \ {0} /\ Len(t) \in Nat \ {0}
        /\ n \in Nat \ {0} /\ s # <<>> /\ t # <<>>
    BY DEF IsPath
  <1>2. Len(s) <= Len(t) /\ \A i \in 1 .. Len(s) : t[i] = s[i]
    BY DEF Prefix
  <1>3. Len(s) = n
    OBVIOUS
  <1> HIDE DEF n
  <1>4. m \in Nat \ {0} /\ n + m - 1 = Len(t)
    BY <1>1, <1>2, <1>3
  <1>5. \A i \in 1 .. m : n + i - 1 \in 1 .. Len(t)
    BY <1>1, <1>4
  <1> HIDE DEF m
  <1>6. r \in Seq(Class) /\ Len(r) = m /\ \A i \in 1 .. m : r[i] = t[n + i - 1]
    <2>1. \A i \in 1 .. m : t[n + i - 1] \in Class
      BY <1>1, <1>5
    <2>2. r \in [1 .. m -> Class]
      BY <2>1
    <2> QED BY <1>4, <2>2
  <1> HIDE DEF r
  <1>7. ASSUME NEW i \in 1 .. Len(r) - 1 PROVE r[i + 1] \in ToSet(B[r[i]])
    <2>1. /\ n + i - 1 \in 1 .. Len(t) - 1 /\ (n + i - 1) + 1 = n + (i + 1) - 1
          /\ i \in 1 .. m /\ i + 1 \in 1 .. m
      BY <1>1, <1>4, <1>6
    <2>2. t[(n + i - 1) + 1] \in ToSet(B[t[n + i - 1]])
      BY <2>1 DEF IsPath
    <2>3. r[i] = t[n + i - 1] /\ r[i + 1] = t[n + (i + 1) - 1]
      BY <1>6, <2>1
    <2> QED BY <2>1, <2>2, <2>3
  <1>8. r # <<>>
    BY <1>4, <1>6
  <1>9. IsPath(B, r)
    BY <1>6, <1>7, <1>8 DEF IsPath
  <1>10. r[1] = s[Len(s)]
    <2>1. 1 \in 1 .. m /\ n + 1 - 1 = n /\ n \in 1 .. n
      BY <1>1, <1>4
    <2> QED BY <1>2, <1>3, <1>6, <2>1
  <1>11. r[Len(r)] = t[Len(t)]
    <2>1. m \in 1 .. m
      BY <1>4
    <2> QED BY <1>4, <1>6, <2>1
  <1> DEFINE v == s \o Tail(r)
             w == Tail(r)
  <1>12. w \in Seq(Class) /\ Len(w) = m - 1 /\ \A i \in 1 .. m - 1 : w[i] = r[i + 1]
    BY <1>6, <1>8, TailIs
  <1>13. /\ v \in Seq(Class) /\ Len(v) = Len(s) + Len(w)
         /\ \A i \in 1 .. Len(s) + Len(w) : v[i] = IF i <= Len(s) THEN s[i] ELSE w[i - Len(s)]
    <2> HIDE DEF w
    <2>1. v = s \o w
      BY DEF w
    <2> HIDE DEF v
    <2> QED BY <1>1, <1>12, <2>1, ConcatProperties
  <1> HIDE DEF v, w
  <1>14. Len(v) = Len(t)
    BY <1>1, <1>3, <1>4, <1>12, <1>13
  <1>15. ASSUME NEW i \in 1 .. Len(v) PROVE v[i] = t[i]
    <2>1. CASE i <= n
      <3>1. i \in 1 .. n
        BY <1>1, <1>14, <2>1
      <3>2. v[i] = s[i]
        BY <1>3, <1>13, <2>1
      <3> QED BY <1>2, <1>3, <3>1, <3>2
    <2>2. CASE ~ (i <= n)
      <3> DEFINE j == i - n
      <3>1. j \in 1 .. m - 1 /\ j + 1 \in 1 .. m /\ n + (j + 1) - 1 = i
        BY <1>1, <1>4, <1>14, <2>2
      <3>2. v[i] = w[j]
        BY <1>3, <1>13, <2>2
      <3> HIDE DEF j
      <3>3. w[j] = r[j + 1]
        BY <1>12, <3>1
      <3>4. r[j + 1] = t[n + (j + 1) - 1]
        BY <1>6, <3>1
      <3> QED BY <3>1, <3>2, <3>3, <3>4
    <2> QED BY <2>1, <2>2
  <1>16. v = t
    BY <1>1, <1>13, <1>14, <1>15, SeqEqual
  <1>17. t[1] = s[1]
    <2>1. 1 \in 1 .. Len(s)
      BY <1>1
    <2> QED BY <1>2, <2>1
  <1>18. IsRest(B, s, r) /\ IsJoin(B, s, r, t)
    BY <1>9, <1>10, <1>11, <1>17 DEF IsRest, IsJoin
  <1> QED BY <1>16, <1>18 DEF v, IsSplit

LEMMA RootsInsideAre ==
  ASSUME NEW B, IsHierarchy(B), NEW f \in [Class -> SUBSET Seq(Class)], IsRoots(B, f),
         NEW s, IsPath(B, s)
  PROVE  \A t : t \in RootsInside(B, f, s) <=> t \in f[s[1]] /\ Prefix(s, t)
  <1>0. B \in [Class -> Seq(Class)]
    BY DEF IsHierarchy
  <1>1. s[Len(s)] \in Class /\ s[1] \in Class
    <2>1. s \in Seq(Class) /\ Len(s) \in Nat /\ Len(s) # 0
      BY DEF IsPath
    <2>2. Len(s) \in 1 .. Len(s) /\ 1 \in 1 .. Len(s)
      BY <2>1
    <2> QED BY <2>1, <2>2
  <1>2. \A c \in Class : \A t : t \in f[c] <=> RootPath(B, c, t)
    BY RootsArePaths
  <1>3. ASSUME NEW r \in f[s[Len(s)]]
        PROVE  s \o Tail(r) \in f[s[1]] /\ Prefix(s, s \o Tail(r))
    <2>1. RootPath(B, s[Len(s)], r)
      BY <1>1, <1>2
    <2>2. IsRest(B, s, r) /\ B[r[Len(r)]] = <<>>
      BY <2>1 DEF RootPath, IsRest
    <2>3. IsJoin(B, s, r, s \o Tail(r))
      BY <1>0, <2>2, JoinedPath
    <2>4. RootPath(B, s[1], s \o Tail(r)) /\ Prefix(s, s \o Tail(r))
      BY <2>2, <2>3 DEF RootPath, IsJoin
    <2> QED BY <1>1, <1>2, <2>4
  <1>4. ASSUME NEW t \in f[s[1]], Prefix(s, t) PROVE \E r \in f[s[Len(s)]] : t = s \o Tail(r)
    <2>1. RootPath(B, s[1], t)
      BY <1>1, <1>2
    <2>2. IsPath(B, t) /\ B[t[Len(t)]] = <<>>
      BY <2>1 DEF RootPath
    <2>3. PICK r : IsSplit(B, s, r, t)
      BY <1>0, <1>4, <2>2, RestOfPath
    <2>4. RootPath(B, s[Len(s)], r) /\ t = s \o Tail(r)
      BY <2>2, <2>3 DEF RootPath, IsSplit, IsRest, IsJoin
    <2> QED BY <1>1, <1>2, <2>4
  <1> QED BY <1>3, <1>4 DEF RootsInside

(* The first of the roots in a class.                                      *)
IsFirst(B, f) ==
    f = [c \in Class |-> IF B[c] = <<>> THEN <<c>> ELSE <<c>> \o f[B[c][1]]]

LEMMA FirstExists ==
  ASSUME NEW B, IsHierarchy(B)
  PROVE  \E f \in [Class -> Seq(Class)] : IsFirst(B, f)
  <1> DEFINE V == Seq(Class)
             deps == [c \in Class |-> ToSet(B[c])]
             H == [c \in Class |-> [g \in [deps[c] -> V] |->
                     IF B[c] = <<>> THEN <<c>> ELSE <<c>> \o g[B[c][1]]]]
  <1>0. B \in [Class -> Seq(Class)]
    BY DEF IsHierarchy
  <1>1. deps \in [Class -> SUBSET Class]
    BY <1>0, BaseIsClass
  <1>2. ASSUME NEW c \in Class PROVE B[c] # <<>> => B[c][1] \in ToSet(B[c]) /\ B[c][1] \in Class
    BY <1>0, BaseIsClass
  <1>3. ASSUME NEW c \in Class, NEW g \in [deps[c] -> V] PROVE H[c][g] \in V
    <2>1. CASE B[c] = <<>>
      BY <2>1
    <2>2. CASE B[c] # <<>>
      <3>1. g[B[c][1]] \in Seq(Class)
        BY <1>2, <2>2
      <3> DEFINE r == g[B[c][1]]
      <3>2. H[c][g] = <<c>> \o r
        BY <2>2
      <3> HIDE DEF r, H
      <3>3. r \in Seq(Class)
        BY <3>1 DEF r
      <3>4. <<c>> \o r \in Seq(Class)
        BY <3>3, ConsIs
      <3> QED BY <3>2, <3>4
    <2> QED BY <2>1, <2>2
  <1>4. Computes(H, Class, V, deps)
    <2> HIDE DEF H, deps, V
    <2> QED BY <1>3 DEF Computes
  <1>5. Grounded(Class, deps)
    BY DEF IsHierarchy, Grounded
  <1>6. PICK f \in [Class -> V] : IsComputed(f, Class, deps, H)
    <2> HIDE DEF H, deps, V
    <2> QED BY <1>1, <1>4, <1>5, HierarchyRecursion
  <1>7. ASSUME NEW c \in Class
        PROVE  f[c] = IF B[c] = <<>> THEN <<c>> ELSE <<c>> \o f[B[c][1]]
    <2> DEFINE g == [b \in ToSet(B[c]) |-> f[b]]
    <2>1. g \in [ToSet(B[c]) -> V]
      BY <1>0, BaseIsClass
    <2>2. f[c] = H[c][g]
      <3> HIDE DEF H
      <3> QED BY <1>6 DEF IsComputed
    <2>3. f[c] = IF B[c] = <<>> THEN <<c>> ELSE <<c>> \o g[B[c][1]]
      <3> HIDE DEF g
      <3> QED BY <2>1, <2>2
    <2>4. B[c] # <<>> => g[B[c][1]] = f[B[c][1]]
      BY <1>2
    <2> HIDE DEF g
    <2> QED BY <2>3, <2>4
  <1>8. IsFirst(B, f)
    BY <1>7 DEF IsFirst
  <1> QED BY <1>8

LEMMA FirstIsRoot ==
  ASSUME NEW B, IsHierarchy(B), NEW f \in [Class -> SUBSET Seq(Class)], IsRoots(B, f),
         NEW first, IsFirst(B, first)
  PROVE  \A c \in Class : first[c] \in f[c]
  <1> DEFINE S == {c \in Class : first[c] \in f[c]}
  <1>0. B \in [Class -> Seq(Class)]
    BY DEF IsHierarchy
  <1>1. ASSUME NEW c \in Class, ToSet(B[c]) \subseteq S PROVE first[c] \in f[c]
    <2>1. first[c] = IF B[c] = <<>> THEN <<c>> ELSE <<c>> \o first[B[c][1]]
      BY DEF IsFirst
    <2>2. f[c] = IF B[c] = <<>> THEN {<<c>>}
                 ELSE UNION {{<<c>> \o r : r \in f[b]} : b \in ToSet(B[c])}
      BY DEF IsRoots
    <2>3. CASE B[c] = <<>>
      BY <2>1, <2>2, <2>3
    <2>4. CASE B[c] # <<>>
      <3>1. B[c][1] \in ToSet(B[c])
        BY <1>0, <2>4, BaseIsClass
      <3>2. first[B[c][1]] \in f[B[c][1]]
        BY <1>1, <3>1
      <3> DEFINE r == first[B[c][1]]
                 b == B[c][1]
      <3>3. first[c] = <<c>> \o r /\ r \in f[b] /\ b \in ToSet(B[c])
        BY <2>1, <2>4, <3>1, <3>2
      <3>4. f[c] = UNION {{<<c>> \o x : x \in f[y]} : y \in ToSet(B[c])}
        BY <2>2, <2>4
      <3> HIDE DEF r, b
      <3>5. <<c>> \o r \in {<<c>> \o x : x \in f[b]}
        BY <3>3
      <3>6. <<c>> \o r \in UNION {{<<c>> \o x : x \in f[y]} : y \in ToSet(B[c])}
        BY <3>3, <3>5
      <3> QED BY <3>3, <3>4, <3>6
    <2> QED BY <2>3, <2>4
  <1>2. S = Class
    <2>1. \A c \in Class : ToSet(B[c]) \subseteq S => c \in S
      <3> SUFFICES ASSUME NEW c \in Class, ToSet(B[c]) \subseteq S PROVE c \in S
        OBVIOUS
      <3>1. first[c] \in f[c]
        <4> HIDE DEF S
        <4> QED BY <1>1
      <3> QED BY <3>1
    <2>2. S \in SUBSET Class
      OBVIOUS
    <2> HIDE DEF S
    <2> QED BY <2>1, <2>2, HierarchyInduction
  <1> QED BY <1>2

-----------------------------------------------------------------------------
(* The operators of the module, for a program.                             *)

LEMMA OperatorsAre ==
  ASSUME program \in Programs
  PROVE  /\ IsHierarchy(bases) /\ bases \in [Class -> Seq(Class)] /\ program.object \in Class
         /\ GoodSteps(bases, program.object, Steps)
         /\ \A c \in Class : \A t : t \in RootsIn(c) <=> RootPath(bases, c, t)
         /\ \A s : IsPath(bases, s) =>
              \A t : t \in Roots(s) <=> t \in RootsIn(s[1]) /\ Prefix(s, t)
         /\ \A s : IsPath(bases, s) =>
              \E t \in Roots(s) : boost_openmethod_vptr(s) = vptr[t]
  <1>1. PICK p \in Programs : p = program
    OBVIOUS
  <1>2. PICK B : B = p.bases
    OBVIOUS
  <1>3. IsHierarchy(B) /\ p.object \in Class
    BY <1>2, ProgramHierarchy
  <1>4. bases = B /\ program.object = p.object
    BY <1>1, <1>2 DEF bases
  <1>5. PICK f : f = CHOOSE g : IsRoots(B, g)
    OBVIOUS
  <1>6. f \in [Class -> SUBSET Seq(Class)] /\ IsRoots(B, f)
    <2>1. IsRoots(B, f)
      BY <1>3, <1>5, RootsExist
    <2> QED BY <1>3, <2>1, RootsTyped
  <1>7. \A c : RootsIn(c) = f[c]
    BY <1>4, <1>5 DEF RootsIn, IsRoots
  <1>8. \A c \in Class : \A t : t \in RootsIn(c) <=> RootPath(B, c, t)
    BY <1>3, <1>6, <1>7, RootsArePaths
  <1>9. GoodSteps(B, p.object, Steps)
    <2>1. PICK g : g = CHOOSE h : IsSteps(B, h)
      OBVIOUS
    <2>2. IsSteps(B, g)
      BY <1>3, <2>1, StepsExist
    <2>3. Steps = g[p.object]
      <3>1. Steps = (CHOOSE h : IsSteps(bases, h))[program.object]
        BY DEF Steps, IsSteps, StepsOf, Rows, StepOfBase, InplaceStep, BodyStep
      <3> QED BY <1>4, <2>1, <3>1
    <2>4. GoodSteps(B, p.object, g[p.object])
      BY <1>3, <2>2, StepsAreGood
    <2> QED BY <2>3, <2>4
  <1>10. ASSUME NEW s, IsPath(B, s) PROVE Roots(s) = RootsInside(B, f, s)
    BY <1>7 DEF Roots, RootsInside, Last
  <1>11. ASSUME NEW s, IsPath(B, s), NEW t
         PROVE  t \in Roots(s) <=> t \in RootsIn(s[1]) /\ Prefix(s, t)
    <2>1. t \in RootsInside(B, f, s) <=> t \in f[s[1]] /\ Prefix(s, t)
      BY <1>3, <1>6, <1>11, RootsInsideAre
    <2> QED BY <1>7, <1>10, <1>11, <2>1
  <1>12. ASSUME NEW s, IsPath(B, s)
         PROVE  \E t \in Roots(s) : boost_openmethod_vptr(s) = vptr[t]
    <2>1. PICK g : g = CHOOSE h : IsFirst(B, h)
      OBVIOUS
    <2>2. IsFirst(B, g)
      BY <1>3, <2>1, FirstExists
    <2>3. s[Len(s)] \in Class
      <3>1. s \in Seq(Class) /\ Len(s) \in Nat /\ Len(s) # 0
        BY <1>12 DEF IsPath
      <3>2. Len(s) \in 1 .. Len(s)
        BY <3>1
      <3> QED BY <3>1, <3>2
    <2>4. g[s[Len(s)]] \in f[s[Len(s)]]
      BY <1>3, <1>6, <2>2, <2>3, FirstIsRoot
    <2>5. boost_openmethod_vptr(s) = vptr[s \o Tail(g[s[Len(s)]])]
      BY <1>4, <2>1 DEF boost_openmethod_vptr, IsFirst, Last
    <2>6. s \o Tail(g[s[Len(s)]]) \in RootsInside(B, f, s)
      BY <2>4 DEF RootsInside
    <2> QED BY <1>10, <1>12, <2>5, <2>6
  <1>13. B \in [Class -> Seq(Class)]
    BY <1>3 DEF IsHierarchy
  <1> QED BY <1>3, <1>4, <1>8, <1>9, <1>11, <1>12, <1>13

-----------------------------------------------------------------------------
(* What a pointer is expected to be, by the steps that are done.           *)

UpTo(r, n) == SubSeq(r, 1, n)

Done(S, k, t) == \E i \in 1 .. k : S[i].op = "inplace_vptr" /\ S[i].sub = t

Depths(S, k, r) == {n \in DOMAIN r : Done(S, k, UpTo(r, n))}

ExpectedOf(S, k, r) == IF Depths(S, k, r) = {} THEN Null ELSE r[Min(Depths(S, k, r))]

LEMMA PrefixesOf ==
  ASSUME NEW B \in [Class -> Seq(Class)], NEW r, IsPath(B, r), NEW n \in DOMAIN r
  PROVE  /\ IsPath(B, UpTo(r, n)) /\ Len(UpTo(r, n)) = n
         /\ UpTo(r, n)[1] = r[1]
         /\ UpTo(r, n) \in Seq(Class)
         /\ \A i \in 1 .. n : UpTo(r, n)[i] = r[i]
  <1> DEFINE s == UpTo(r, n)
  <1>1. r \in Seq(Class) /\ Len(r) \in Nat /\ n \in 1 .. Len(r)
    BY DEF IsPath
  <1>2. s \in Seq(Class) /\ Len(s) = n /\ \A i \in 1 .. n : s[i] = r[i]
    BY <1>1 DEF UpTo
  <1> HIDE DEF s
  <1>3. s # <<>> /\ s[1] = r[1]
    BY <1>1, <1>2
  <1>4. ASSUME NEW i \in 1 .. Len(s) - 1 PROVE s[i + 1] \in ToSet(B[s[i]])
    <2>0. i \in 1 .. n - 1
      BY <1>2
    <2>1. i \in 1 .. Len(r) - 1 /\ i \in 1 .. n /\ i + 1 \in 1 .. n
      <3>1. Len(r) \in Nat /\ n \in 1 .. Len(r)
        BY <1>1
      <3> QED BY ONLY <2>0, <3>1
    <2>2. r[i + 1] \in ToSet(B[r[i]])
      BY <2>1 DEF IsPath
    <2> QED BY <1>2, <2>1, <2>2
  <1>5. IsPath(B, s)
    BY <1>2, <1>3, <1>4 DEF IsPath
  <1> QED BY <1>2, <1>3, <1>5 DEF s

LEMMA PrefixIsSubSeq ==
  ASSUME NEW s \in Seq(Class), s # <<>>, NEW r \in Seq(Class), Prefix(s, r)
  PROVE  Len(s) \in DOMAIN r /\ UpTo(r, Len(s)) = s
  <1> DEFINE n == Len(s)
             t == UpTo(r, n)
  <1>1. n \in Nat /\ n # 0 /\ n <= Len(r) /\ Len(r) \in Nat /\ \A i \in 1 .. n : r[i] = s[i]
    BY DEF Prefix
  <1>2. Len(s) = n
    OBVIOUS
  <1> HIDE DEF n
  <1>3. n \in 1 .. Len(r)
    BY <1>1
  <1>4. t \in Seq(Class) /\ Len(t) = n /\ \A i \in 1 .. n : t[i] = r[i]
    BY <1>3 DEF UpTo
  <1> HIDE DEF t
  <1>5. t = s
    BY <1>1, <1>2, <1>4, SeqEqual
  <1> QED BY <1>2, <1>3, <1>5 DEF t

LEMMA SubSeqIsPrefix ==
  ASSUME NEW B \in [Class -> Seq(Class)], NEW r, IsPath(B, r), NEW n \in DOMAIN r,
         NEW m \in DOMAIN r, m <= n
  PROVE  /\ Prefix(UpTo(r, m), UpTo(r, n)) /\ Prefix(UpTo(r, n), r)
         /\ m # n => UpTo(r, m) # UpTo(r, n)
  <1>1. /\ Len(UpTo(r, n)) = n /\ \A i \in 1 .. n : UpTo(r, n)[i] = r[i]
        /\ Len(UpTo(r, m)) = m /\ \A i \in 1 .. m : UpTo(r, m)[i] = r[i]
    BY PrefixesOf
  <1>2. r \in Seq(Class) /\ DOMAIN r = 1 .. Len(r) /\ Len(r) \in Nat
    BY DEF IsPath
  <1>3. n <= Len(r) /\ \A i \in 1 .. m : i \in 1 .. n
    BY <1>2
  <1> DEFINE s == UpTo(r, m)
             t == UpTo(r, n)
  <1> HIDE DEF s, t
  <1>4. /\ Len(s) = m /\ Len(t) = n
        /\ \A i \in 1 .. m : s[i] = t[i]
        /\ \A i \in 1 .. n : t[i] = r[i]
    BY <1>1, <1>3 DEF s, t
  <1>5. Prefix(s, t) /\ Prefix(t, r)
    BY <1>1, <1>3, <1>4 DEF Prefix, s, t
  <1> QED BY <1>4, <1>5 DEF s, t

(* The pointer is that of the outermost subobject done.                    *)
LEMMA ExpectedIs ==
  ASSUME NEW S, NEW k, NEW r \in Seq(Class), NEW n \in DOMAIN r, Done(S, k, UpTo(r, n)),
         \A m \in DOMAIN r : m < n => ~ Done(S, k, UpTo(r, m))
  PROVE  ExpectedOf(S, k, r) = r[n]
  <1> DEFINE D == Depths(S, k, r)
  <1>1. DOMAIN r = 1 .. Len(r) /\ Len(r) \in Nat
    OBVIOUS
  <1>2. n \in D /\ D \subseteq 1 .. Len(r) /\ \A m \in D : n <= m
    BY <1>1 DEF Depths
  <1> HIDE DEF D
  <1>3. Min(D) = n
    <2>1. Min(D) \in D /\ \A m \in D : Min(D) <= m
      <3>1. \E x \in D : \A m \in D : x <= m
        BY <1>2
      <3> QED BY <3>1 DEF Min
    <2>2. Min(D) <= n /\ n <= Min(D) /\ Min(D) \in Nat /\ n \in Nat
      BY <1>2, <2>1
    <2> QED BY <2>2
  <1>4. D # {}
    BY <1>2
  <1> QED BY <1>3, <1>4 DEF ExpectedOf, D

LEMMA ExpectedNull ==
  ASSUME NEW S, NEW k, NEW r, \A m \in DOMAIN r : ~ Done(S, k, UpTo(r, m))
  PROVE  ExpectedOf(S, k, r) = Null
  BY DEF ExpectedOf, Depths

LEMMA ExpectedSame ==
  ASSUME NEW S, NEW k, NEW l, NEW r,
         \A m \in DOMAIN r : Done(S, k, UpTo(r, m)) <=> Done(S, l, UpTo(r, m))
  PROVE  ExpectedOf(S, k, r) = ExpectedOf(S, l, r)
  <1>1. Depths(S, k, r) = Depths(S, l, r)
    BY DEF Depths
  <1> QED BY <1>1 DEF ExpectedOf

(* Before a step of the subobject that leads to depth n on the way to a    *)
(* root, nothing of a larger subobject is done, and after an inplace_vptr  *)
(* everything of the smaller ones is.                                      *)
LEMMA OrderOnPath ==
  ASSUME NEW B \in [Class -> Seq(Class)], NEW o, NEW S, GoodSteps(B, o, S),
         NEW r, IsPath(B, r), r[1] = o, NEW n \in DOMAIN r, NEW k \in 1 .. Len(S),
         S[k].sub = UpTo(r, n)
  PROVE  /\ \A m \in DOMAIN r : m < n => ~ Done(S, k, UpTo(r, m))
         /\ \A m \in DOMAIN r : n < m => Done(S, k - 1, UpTo(r, m))
         /\ S[k].op = "body" => Done(S, k - 1, UpTo(r, n))
         /\ S[k].op = "inplace_vptr" => ~ Done(S, k - 1, UpTo(r, n))
  <1>1. Len(S) \in Nat /\ InsideFirst(S) /\ S \in Seq(Step) /\ Covering(B, o, S)
    BY DEF GoodSteps
  <1>2. DOMAIN r = 1 .. Len(r) /\ Len(r) \in Nat
    BY DEF IsPath
  <1>3. ASSUME NEW m \in DOMAIN r, m < n, Done(S, k, UpTo(r, m)) PROVE FALSE
    <2>1. PICK j \in 1 .. k : S[j].sub = UpTo(r, m)
      BY <1>3 DEF Done
    <2>2. j \in 1 .. Len(S)
      BY <1>1
    <2>5. m <= n /\ m # n
      BY <1>2, <1>3
    <2>6. Prefix(UpTo(r, m), UpTo(r, n)) /\ UpTo(r, m) # UpTo(r, n)
      BY <2>5, SubSeqIsPrefix
    <2>3. Prefix(S[j].sub, S[k].sub) /\ S[j].sub # S[k].sub
      BY <2>1, <2>6
    <2>4. k < j
      BY <1>1, <2>2, <2>3 DEF InsideFirst
    <2> QED BY <2>4
  <1>4. ASSUME NEW m \in DOMAIN r PROVE \E i \in 1 .. Len(S) : S[i] = InplaceStep(UpTo(r, m))
    <2>1. IsPath(B, UpTo(r, m)) /\ UpTo(r, m)[1] = o
      BY PrefixesOf
    <2> QED BY <1>1, <2>1 DEF Covering
  <1>5. ASSUME NEW m \in DOMAIN r, n < m PROVE Done(S, k - 1, UpTo(r, m))
    <2>1. PICK i \in 1 .. Len(S) : S[i] = InplaceStep(UpTo(r, m))
      BY <1>4
    <2>2. S[i].op = "inplace_vptr" /\ S[i].sub = UpTo(r, m)
      BY <2>1, InplaceStepIs
    <2>3. Prefix(S[k].sub, S[i].sub) /\ S[k].sub # S[i].sub
      BY <1>2, <1>5, <2>2, SubSeqIsPrefix
    <2>4. i < k
      BY <1>1, <2>3 DEF InsideFirst
    <2>5. i \in 1 .. k - 1
      BY <2>4
    <2> QED BY <2>2, <2>5 DEF Done
  <1>6. Prefix(UpTo(r, n), UpTo(r, n))
    BY <1>2, SubSeqIsPrefix
  <1>7. ASSUME S[k].op = "body" PROVE Done(S, k - 1, UpTo(r, n))
    <2>1. PICK i \in 1 .. Len(S) : S[i] = InplaceStep(UpTo(r, n))
      BY <1>4
    <2>2. S[i].op = "inplace_vptr" /\ S[i].sub = UpTo(r, n)
      BY <2>1, InplaceStepIs
    <2>3. i # k /\ Prefix(S[k].sub, S[i].sub)
      BY <1>6, <1>7, <2>2
    <2>4. i < k
      BY <1>1, <2>2, <2>3 DEF InsideFirst
    <2>5. i \in 1 .. k - 1
      BY <2>4
    <2> QED BY <2>2, <2>5 DEF Done
  <1>8. ASSUME S[k].op = "inplace_vptr", Done(S, k - 1, UpTo(r, n)) PROVE FALSE
    <2>1. PICK j \in 1 .. k - 1 : S[j].sub = UpTo(r, n)
      BY <1>8 DEF Done
    <2>2. j \in 1 .. Len(S) /\ j # k /\ j < k
      BY <1>1
    <2>3. Prefix(S[j].sub, S[k].sub)
      BY <1>6, <2>1
    <2>4. k < j
      BY <1>1, <1>8, <2>2, <2>3 DEF InsideFirst
    <2> QED BY <2>2, <2>4
  <1> QED BY <1>3, <1>5, <1>7, <1>8

-----------------------------------------------------------------------------
(* The pointers after some updates, one after the other.                   *)

Updated(v, L) == FoldLeft(LAMBDA w, u : update_vptr(w, u.to, u.sub), v, L)

AreUpdates(L, n, T) ==
    /\ DOMAIN L = 1 .. n
    /\ \A k \in 1 .. n : \A w \in T : update_vptr(w, L[k].to, L[k].sub) \in T

Updating(f, v, L, n) ==
    /\ f[0] = v /\ Updated(v, L) = f[n]
    /\ \A k \in 1 .. n : f[k] = update_vptr(f[k - 1], L[k].to, L[k].sub)

LEMMA FoldedUpdates ==
  ASSUME NEW T, NEW v \in T, NEW L, NEW n \in Nat, AreUpdates(L, n, T)
  PROVE  \E f \in [0 .. n -> T] : Updating(f, v, L, n)
  <1> DEFINE Op(w, k) == update_vptr(w, L[k].to, L[k].sub)
             F == CHOOSE f : f = [u \in SUBSET DOMAIN L |->
                                    IF u = {} THEN v ELSE Op(f[u \ {Max(u)}], Max(u))]
             step == [k \in 1 .. n |-> [w \in T |-> Op(w, k)]]
  <1>0. DOMAIN L = 1 .. n
    BY DEF AreUpdates
  <1>1. Updated(v, L) = F[1 .. n]
    BY <1>0 DEF Updated, FoldLeft, MapThenFoldSet
  <1>2. \A k \in 1 .. n : \A w \in T : Op(w, k) \in T
    BY DEF AreUpdates
  <1> HIDE DEF Op
  <1>3. step \in [1 .. n -> [T -> T]]
    BY <1>2
  <1>4. PICK st : st = step
    OBVIOUS
  <1>5. st \in [1 .. n -> [T -> T]]
    <2> HIDE DEF step
    <2> QED BY <1>3, <1>4
  <1>6. PICK fold \in [SUBSET (1 .. n) -> T] : IsFold(fold, n, v, st)
    BY <1>5, FoldExists
  <1>7. fold = [u \in SUBSET DOMAIN L |-> IF u = {} THEN v ELSE Op(fold[u \ {Max(u)}], Max(u))]
    <2>1. ASSUME NEW u \in SUBSET (1 .. n)
          PROVE  fold[u] = IF u = {} THEN v ELSE Op(fold[u \ {Max(u)}], Max(u))
      <3>1. CASE u = {}
        BY <1>6, <3>1 DEF IsFold
      <3>2. ASSUME u # {} PROVE fold[u] = Op(fold[u \ {Max(u)}], Max(u))
        <4>1. u \in SUBSET Nat /\ \A m \in u : m <= n
          OBVIOUS
        <4>2. Max(u) \in u
          BY <3>2, <4>1, GreatestOfNat
        <4>3. fold[u] = st[Max(u)][fold[u \ {Max(u)}]]
          BY <1>6, <3>2 DEF IsFold
        <4>4. Max(u) \in 1 .. n /\ u \ {Max(u)} \in SUBSET (1 .. n)
          BY <4>2
        <4>5. fold[u \ {Max(u)}] \in T
          BY <4>4
        <4> QED BY <1>4, <4>3, <4>4, <4>5
      <3> QED BY <3>1, <3>2
    <2> QED BY <1>0, <2>1
  <1>8. F = [u \in SUBSET DOMAIN L |-> IF u = {} THEN v ELSE Op(F[u \ {Max(u)}], Max(u))]
    BY <1>7
  <1> HIDE DEF F
  <1>9. ASSUME NEW k \in 1 .. n PROVE F[1 .. k] = Op(F[1 .. k - 1], k)
    <2>1. k \in Nat \ {0}
      OBVIOUS
    <2>2. Max(1 .. k) = k
      BY <2>1, MaxOfInterval
    <2>6. k \in 1 .. k
      BY <2>1
    <2>7. \A i : i \in (1 .. k) \ {k} <=> i \in 1 .. k - 1
      BY <2>1
    <2>3. (1 .. k) \ {k} = 1 .. k - 1 /\ 1 .. k # {}
      BY <2>6, <2>7
    <2>5. (1 .. k) \in SUBSET DOMAIN L
      BY <1>0
    <2>4. F[1 .. k] = Op(F[(1 .. k) \ {Max(1 .. k)}], Max(1 .. k))
      BY <1>8, <2>3, <2>5
    <2> QED BY <2>2, <2>3, <2>4
  <1>10. F[1 .. 0] = v
    <2>1. 1 .. 0 = {} /\ {} \in SUBSET DOMAIN L
      OBVIOUS
    <2>2. F[{}] = v
      BY <1>8, <2>1
    <2> QED BY <2>1, <2>2
  <1> DEFINE f == [k \in 0 .. n |-> F[1 .. k]]
             S == {k \in 0 .. n : F[1 .. k] \in T}
  <1>11. \A k \in 0 .. n : F[1 .. k] \in T
    <2>1. 0 \in S
      BY <1>10
    <2>2. \A k \in 1 .. n : k - 1 \in S => k \in S
      BY <1>2, <1>9
    <2>3. 0 .. n \subseteq S
      <3> HIDE DEF S
      <3> QED BY <2>1, <2>2, InductionTo
    <2> QED BY <2>3
  <1>12. f \in [0 .. n -> T]
    BY <1>11
  <1>13. f[0] = v /\ \A k \in 1 .. n : f[k] = Op(f[k - 1], k)
    BY <1>9, <1>10
  <1>14. Updated(v, L) = f[n]
    BY <1>1
  <1> HIDE DEF f
  <1>15. Updating(f, v, L, n)
    BY <1>13, <1>14 DEF Op, Updating
  <1> QED BY <1>12, <1>15

PtrType == [RootsIn(program.object) -> Class \cup {Null}]

GoesTo(s, b, t) == Prefix(s, t) /\ Len(s) + 1 <= Len(t) /\ t[Len(s) + 1] = b

(* A path to a base of the class at the end of a path.                     *)
LEMMA PathOn ==
  ASSUME NEW B \in [Class -> Seq(Class)], NEW s, IsPath(B, s), NEW b \in ToSet(B[s[Len(s)]])
  PROVE  /\ IsPath(B, Append(s, b)) /\ Append(s, b)[1] = s[1]
         /\ \A t \in Seq(Class) : Prefix(Append(s, b), t) <=> GoesTo(s, b, t)
  <1> DEFINE n == Len(s)
             u == Append(s, b)
  <1>1. s \in Seq(Class) /\ n \in Nat /\ n # 0
    BY DEF IsPath
  <1>0. n \in 1 .. n /\ 1 \in 1 .. n
    BY <1>1
  <1>2. b \in Class
    <2>1. s[Len(s)] \in Class
      BY <1>0, <1>1
    <2> QED BY <2>1, BaseIsClass
  <1>3. /\ u \in Seq(Class) /\ Len(u) = n + 1 /\ u[n + 1] = b
        /\ \A i \in 1 .. n : u[i] = s[i]
    BY <1>1, <1>2
  <1>4. Len(s) = n /\ b \in ToSet(B[s[n]])
    OBVIOUS
  <1> HIDE DEF n, u
  <1>5. ASSUME NEW i \in 1 .. Len(u) - 1 PROVE u[i + 1] \in ToSet(B[u[i]])
    <2>1. i \in 1 .. n
      BY <1>1, <1>3
    <2>2. CASE i = n
      BY <1>3, <1>4, <2>1, <2>2
    <2>3. CASE i # n
      <3>1. i \in 1 .. Len(s) - 1 /\ i + 1 \in 1 .. n
        BY <1>1, <1>4, <2>1, <2>3
      <3>2. s[i + 1] \in ToSet(B[s[i]])
        BY <3>1 DEF IsPath
      <3> QED BY <1>3, <2>1, <3>1, <3>2
    <2> QED BY <2>2, <2>3
  <1>6. u # <<>>
    BY <1>1, <1>3
  <1>7. IsPath(B, u) /\ u[1] = s[1]
    BY <1>0, <1>3, <1>5, <1>6 DEF IsPath
  <1>8. ASSUME NEW t \in Seq(Class)
        PROVE  Prefix(u, t) <=> GoesTo(s, b, t)
    <2>0. Len(t) \in Nat
      OBVIOUS
    <2>1. ASSUME Prefix(u, t)
          PROVE  Prefix(s, t) /\ Len(s) + 1 <= Len(t) /\ t[Len(s) + 1] = b
      <3>1. n + 1 <= Len(t) /\ \A i \in 1 .. n + 1 : t[i] = u[i]
        BY <1>3, <2>1 DEF Prefix
      <3>2. n <= Len(t) /\ n + 1 \in 1 .. n + 1 /\ \A i \in 1 .. n : i \in 1 .. n + 1
        BY <1>1, <2>0, <3>1
      <3>3. Prefix(s, t)
        BY <1>3, <1>4, <3>1, <3>2 DEF Prefix
      <3> QED BY <1>3, <1>4, <3>1, <3>2, <3>3
    <2>2. ASSUME Prefix(s, t), Len(s) + 1 <= Len(t), t[Len(s) + 1] = b PROVE Prefix(u, t)
      <3>1. ASSUME NEW i \in 1 .. n + 1 PROVE t[i] = u[i]
        <4>1. i \in 1 .. n \/ i = n + 1
          BY <1>1
        <4>2. \A j \in 1 .. n : t[j] = s[j]
          BY <1>4, <2>2 DEF Prefix
        <4> QED BY <1>3, <1>4, <2>2, <4>1, <4>2
      <3> QED BY <1>3, <1>4, <2>2, <3>1 DEF Prefix
    <2> QED BY <2>1, <2>2 DEF GoesTo
  <1> QED BY <1>7, <1>8 DEF u

(* Where a path to a root goes after one of its prefixes.                  *)
LEMMA PathBeyond ==
  ASSUME NEW B \in [Class -> Seq(Class)], NEW s, IsPath(B, s), NEW r, IsPath(B, r),
         B[r[Len(r)]] = <<>>, Prefix(s, r)
  PROVE  /\ B[s[Len(s)]] = <<>> => r = s
         /\ B[s[Len(s)]] # <<>> => /\ Len(s) + 1 \in DOMAIN r
                                   /\ r[Len(s) + 1] \in ToSet(B[s[Len(s)]])
  <1>1. s \in Seq(Class) /\ r \in Seq(Class) /\ Len(s) \in Nat /\ Len(s) # 0
        /\ Len(r) \in Nat /\ DOMAIN r = 1 .. Len(r) /\ s # <<>>
    BY DEF IsPath
  <1>2. Len(s) <= Len(r) /\ \A i \in 1 .. Len(s) : r[i] = s[i]
    BY DEF Prefix
  <1>3. Len(s) \in 1 .. Len(s)
    BY <1>1
  <1>4. r[Len(s)] = s[Len(s)]
    BY <1>2, <1>3
  <1>5. CASE Len(s) = Len(r)
    <2>1. r = s
      BY <1>1, <1>2, <1>5, SeqEqual
    <2> QED BY <1>4, <1>5, <2>1
  <1>6. CASE Len(s) # Len(r)
    <2>1. Len(s) \in 1 .. Len(r) - 1 /\ Len(s) + 1 \in 1 .. Len(r)
      BY <1>1, <1>2, <1>6
    <2>2. r[Len(s) + 1] \in ToSet(B[s[Len(s)]])
      BY <1>4, <2>1 DEF IsPath
    <2>3. B[s[Len(s)]] # <<>>
      BY <2>2 DEF ToSet
    <2> QED BY <1>1, <2>1, <2>2, <2>3
  <1> QED BY <1>5, <1>6

LEMMA UpdateIs ==
  ASSUME program \in Programs, NEW v \in PtrType, NEW to \in Class,
         NEW s, IsPath(bases, s), s[1] = program.object
  PROVE  /\ update_vptr(v, to, s) \in PtrType
         /\ \A r \in RootsIn(program.object) :
              update_vptr(v, to, s)[r] = IF Prefix(s, r) THEN to ELSE v[r]
  <1>1. \A r : r \in Roots(s) <=> r \in RootsIn(program.object) /\ Prefix(s, r)
    BY OperatorsAre
  <1>2. DOMAIN v = RootsIn(program.object)
    BY DEF PtrType
  <1>3. update_vptr(v, to, s) = [r \in RootsIn(program.object) |->
                                   IF r \in Roots(s) THEN to ELSE v[r]]
    BY <1>2 DEF update_vptr
  <1>4. \A r \in RootsIn(program.object) : v[r] \in Class \cup {Null}
    BY DEF PtrType
  <1> QED BY <1>1, <1>3, <1>4 DEF PtrType

LEMMA ResetFold ==
  ASSUME program \in Programs, NEW v, v \in PtrType,
         NEW s, IsPath(bases, s), s[1] = program.object,
         bases[s[Len(s)]] # <<>>
  PROVE  LET d == bases[s[Len(s)]]
             n == Len(d)
         IN \E f \in [0 .. n -> PtrType] :
              /\ f[0] = v /\ Reset(v, s) = f[n]
              /\ \A k \in 1 .. n : \A r \in RootsIn(program.object) :
                   f[k][r] = IF Prefix(Append(s, d[IF k > 2 THEN 2 ELSE k]), r) THEN d[k]
                             ELSE f[k - 1][r]
  <1>1. bases \in [Class -> Seq(Class)]
    BY OperatorsAre
  <1>2. PICK B : B = bases
    OBVIOUS
  <1>3. s[Len(s)] \in Class
    <2>1. s \in Seq(Class) /\ Len(s) \in Nat /\ Len(s) # 0
      BY DEF IsPath
    <2>2. Len(s) \in 1 .. Len(s)
      BY <2>1
    <2> QED BY <2>1, <2>2
  <1>4. PICK d : d = bases[s[Len(s)]]
    OBVIOUS
  <1>5. PICK n : n = Len(d)
    OBVIOUS
  <1>6. d \in Seq(Class) /\ n \in Nat /\ DOMAIN d = 1 .. n /\ \A k \in 1 .. n : d[k] \in Class
    BY <1>1, <1>3, <1>4, <1>5
  <1>7. \A k \in 1 .. n : (IF k > 2 THEN 2 ELSE k) \in 1 .. n
    BY <1>6
  <1>8. PICK L : L = UpdatedBases(s)
    OBVIOUS
  <1>9. /\ DOMAIN L = 1 .. n
        /\ \A k \in 1 .. n : L[k].to = d[k] /\ L[k].sub = Append(s, d[IF k > 2 THEN 2 ELSE k])
    BY <1>4, <1>6, <1>8 DEF UpdatedBases, Last
  <1>10. ASSUME NEW k \in 1 .. n
         PROVE  IsPath(bases, L[k].sub) /\ L[k].sub[1] = program.object
    <2>1. PICK b : b = d[IF k > 2 THEN 2 ELSE k]
      OBVIOUS
    <2>2. b \in ToSet(B[s[Len(s)]])
      BY <1>2, <1>4, <1>6, <1>7, <2>1 DEF ToSet
    <2>3. IsPath(B, Append(s, b)) /\ Append(s, b)[1] = s[1]
      BY <1>1, <1>2, <2>2, PathOn
    <2> QED BY <1>2, <1>9, <2>1, <2>3
  <1>11. PICK T : T = PtrType
    OBVIOUS
  <1>12. ASSUME NEW k \in 1 .. n, NEW w \in T
         PROVE  /\ update_vptr(w, L[k].to, L[k].sub) \in T
                /\ \A r \in RootsIn(program.object) :
                     update_vptr(w, L[k].to, L[k].sub)[r] =
                       IF Prefix(L[k].sub, r) THEN L[k].to ELSE w[r]
    <2>1. L[k].to \in Class
      BY <1>6, <1>9
    <2> QED BY <1>10, <1>11, <2>1, UpdateIs
  <1>13. PICK f \in [0 .. n -> T] : Updating(f, v, L, n)
    <2>1. AreUpdates(L, n, T)
      BY <1>9, <1>12 DEF AreUpdates
    <2>2. v \in T
      BY <1>11
    <2> QED BY <1>6, <2>1, <2>2, FoldedUpdates
  <1>14. f[0] = v /\ Reset(v, s) = f[n]
    <2>1. Reset(v, s) = Updated(v, L)
      BY <1>8 DEF Reset, Last, Updated
    <2> QED BY <1>13, <2>1 DEF Updating
  <1>15. ASSUME NEW k \in 1 .. n, NEW r \in RootsIn(program.object)
         PROVE  f[k][r] = IF Prefix(Append(s, d[IF k > 2 THEN 2 ELSE k]), r) THEN d[k]
                          ELSE f[k - 1][r]
    <2>1. k - 1 \in 0 .. n
      BY <1>6
    <2>2. PICK w \in T : w = f[k - 1]
      BY <2>1
    <2>3. f[k] = update_vptr(w, L[k].to, L[k].sub)
      BY <1>13, <2>2 DEF Updating
    <2>4. f[k][r] = IF Prefix(L[k].sub, r) THEN L[k].to ELSE w[r]
      BY <1>12, <2>3
    <2> QED BY <1>9, <2>2, <2>4
  <1> QED BY <1>4, <1>5, <1>11, <1>14, <1>15

(* A destructor resets the pointer of a root class, and sets the others in *)
(* the subobject to those of its bases.                                    *)
LEMMA ResetTyped ==
  ASSUME program \in Programs, NEW v, v \in PtrType,
         NEW s, IsPath(bases, s), s[1] = program.object
  PROVE  Reset(v, s) \in PtrType
  <1>1. CASE bases[s[Len(s)]] = <<>>
    <2>1. Reset(v, s) = [v EXCEPT ![s] = Null]
      BY <1>1 DEF Reset, Last
    <2> QED BY <2>1 DEF PtrType
  <1>2. CASE bases[s[Len(s)]] # <<>>
    <2>1. PICK n : n = Len(bases[s[Len(s)]])
      OBVIOUS
    <2>2. n \in Nat
      <3>1. s[Len(s)] \in Class
        <4>1. s \in Seq(Class) /\ Len(s) \in Nat /\ Len(s) # 0
          BY DEF IsPath
        <4>2. Len(s) \in 1 .. Len(s)
          BY <4>1
        <4> QED BY <4>1, <4>2
      <3>2. bases[s[Len(s)]] \in Seq(Class)
        BY <3>1, OperatorsAre
      <3> QED BY <2>1, <3>2
    <2>3. PICK f \in [0 .. n -> PtrType] : Reset(v, s) = f[n]
      BY <1>2, <2>1, ResetFold
    <2> QED BY <2>2, <2>3
  <1> QED BY <1>1, <1>2

LEMMA ResetIs ==
  ASSUME program \in Programs, NEW v, v \in PtrType,
         NEW s, IsPath(bases, s), s[1] = program.object,
         Len(bases[s[Len(s)]]) <= 2,
         NEW r \in RootsIn(program.object)
  PROVE  Reset(v, s)[r] = IF ~ Prefix(s, r) THEN v[r]
                          ELSE IF r = s THEN Null
                          ELSE r[Len(s) + 1]
  <1>1. IsHierarchy(bases) /\ bases \in [Class -> Seq(Class)] /\ RootPath(bases, program.object, r)
    BY OperatorsAre
  <1>2. PICK B : B = bases
    OBVIOUS
  <1>3. IsPath(B, r) /\ B[r[Len(r)]] = <<>> /\ IsPath(B, s) /\ r \in Seq(Class)
    BY <1>1, <1>2 DEF RootPath, IsPath
  <1>4. s \in Seq(Class) /\ Len(s) \in Nat /\ Len(s) # 0 /\ s[Len(s)] \in Class
    <2>1. s \in Seq(Class) /\ Len(s) \in Nat /\ Len(s) # 0
      BY DEF IsPath
    <2>2. Len(s) \in 1 .. Len(s)
      BY <2>1
    <2> QED BY <2>1, <2>2
  <1>5. Prefix(s, r) =>
          /\ B[s[Len(s)]] = <<>> => r = s
          /\ B[s[Len(s)]] # <<>> => /\ Len(s) + 1 \in DOMAIN r
                                    /\ r[Len(s) + 1] \in ToSet(B[s[Len(s)]])
    <2> SUFFICES ASSUME Prefix(s, r)
                 PROVE  /\ B[s[Len(s)]] = <<>> => r = s
                        /\ B[s[Len(s)]] # <<>> => /\ Len(s) + 1 \in DOMAIN r
                                                  /\ r[Len(s) + 1] \in ToSet(B[s[Len(s)]])
      OBVIOUS
    <2>1. B \in [Class -> Seq(Class)]
      BY <1>1, <1>2
    <2> QED BY <1>3, <2>1, PathBeyond
  <1>6. CASE bases[s[Len(s)]] = <<>>
    <2>1. Reset(v, s) = [v EXCEPT ![s] = Null]
      BY <1>6 DEF Reset, Last
    <2>2. Prefix(s, s)
      BY DEF Prefix
    <2>3. Prefix(s, r) <=> r = s
      BY <1>2, <1>5, <1>6, <2>2
    <2> QED BY <2>1, <2>3 DEF PtrType
  <1>7. CASE bases[s[Len(s)]] # <<>>
    <2>1. PICK d : d = bases[s[Len(s)]]
      OBVIOUS
    <2>2. PICK n : n = Len(d)
      OBVIOUS
    <2>3. d \in Seq(Class) /\ n \in {1, 2} /\ DOMAIN d = 1 .. n
      <3>1. d \in Seq(Class)
        BY <1>1, <1>4, <2>1
      <3>2. n \in Nat /\ n # 0 /\ n <= 2 /\ DOMAIN d = 1 .. n
        BY <1>7, <2>1, <2>2, <3>1
      <3> QED BY <3>1, <3>2
    <2>4. PICK f \in [0 .. n -> PtrType] :
            /\ f[0] = v /\ Reset(v, s) = f[n]
            /\ \A k \in 1 .. n : \A x \in RootsIn(program.object) :
                 f[k][x] = IF Prefix(Append(s, d[IF k > 2 THEN 2 ELSE k]), x) THEN d[k]
                           ELSE f[k - 1][x]
      BY <1>7, <2>1, <2>2, ResetFold
    <2> DEFINE In(k) == Prefix(s, r) /\ Len(s) + 1 <= Len(r) /\ r[Len(s) + 1] = d[k]
    <2>5. ASSUME NEW k \in 1 .. n PROVE f[k][r] = IF In(k) THEN d[k] ELSE f[k - 1][r]
      <3>1. (IF k > 2 THEN 2 ELSE k) = k
        BY <2>3
      <3>2. f[k][r] = IF Prefix(Append(s, d[k]), r) THEN d[k] ELSE f[k - 1][r]
        BY <2>4, <3>1
      <3>3. PICK b : b = d[k]
        OBVIOUS
      <3>4. b \in ToSet(B[s[Len(s)]])
        BY <1>2, <2>1, <2>3, <3>3 DEF ToSet
      <3>5. Prefix(Append(s, b), r) <=> Prefix(s, r) /\ Len(s) + 1 <= Len(r) /\ r[Len(s) + 1] = b
        <4>1. B \in [Class -> Seq(Class)]
          BY <1>1, <1>2
        <4>2. IsPath(B, s)
          BY <1>3
        <4>3. \A t \in Seq(Class) : Prefix(Append(s, b), t) <=> GoesTo(s, b, t)
          BY <3>4, <4>1, <4>2, PathOn
        <4> QED BY <1>3, <4>3 DEF GoesTo
      <3> QED BY <3>2, <3>3, <3>5
    <2>6. CASE ~ Prefix(s, r)
      <3>1. \A k \in 1 .. n : f[k][r] = f[k - 1][r]
        BY <2>5, <2>6
      <3>2. CASE n = 1
        <4>1. f[1][r] = f[1 - 1][r] /\ 1 - 1 = 0
          BY <3>1, <3>2
        <4> QED BY <2>4, <2>6, <3>2, <4>1
      <3>3. CASE n = 2
        <4>1. f[1][r] = f[1 - 1][r] /\ 1 - 1 = 0 /\ f[2][r] = f[2 - 1][r] /\ 2 - 1 = 1
          BY <3>1, <3>3
        <4> QED BY <2>4, <2>6, <3>3, <4>1
      <3> QED BY <2>3, <3>2, <3>3
    <2>7. CASE Prefix(s, r)
      <3> DEFINE b == r[Len(s) + 1]
      <3>1. Len(s) + 1 <= Len(r) /\ b \in ToSet(d)
        <4>1. Len(s) + 1 \in DOMAIN r /\ b \in ToSet(d)
          BY <1>2, <1>5, <1>7, <2>1, <2>7
        <4>2. DOMAIN r = 1 .. Len(r) /\ Len(r) \in Nat
          BY <1>3
        <4> QED BY <1>4, <4>1, <4>2
      <3>2. r # s
        BY <1>4, <3>1
      <3>3. PICK i \in 1 .. n : b = d[i]
        BY <2>3, <3>1 DEF ToSet
      <3>4. In(i) /\ f[i][r] = b
        BY <2>5, <2>7, <3>1, <3>3
      <3>5. f[n][r] = b
        <4>1. CASE i = n
          BY <3>4, <4>1
        <4>2. CASE i # n
          <5>1. i = 1 /\ n = 2
            BY <2>3, <4>2
          <5>2. f[2][r] = IF In(2) THEN d[2] ELSE f[2 - 1][r]
            BY <2>5, <5>1
          <5>3. In(2) => d[2] = b
            OBVIOUS
          <5>4. 2 - 1 = 1
            OBVIOUS
          <5> QED BY <3>4, <5>1, <5>2, <5>3, <5>4
        <4> QED BY <4>1, <4>2
      <3> QED BY <2>4, <2>7, <3>2, <3>5
    <2> QED BY <2>6, <2>7
  <1> QED BY <1>6, <1>7

-----------------------------------------------------------------------------
(* The invariant.                                                          *)

InplaceTypeOK ==
    /\ program \in Programs
    /\ phase \in {"constructing", "alive", "destroying", "gone"}
    /\ built \in 0 .. Len(Steps)
    /\ phase = "constructing" => built < Len(Steps)
    /\ phase = "alive" => built = Len(Steps)
    /\ phase = "destroying" => built # 0
    /\ vptr \in PtrType

(* The destructor for three bases is wrong, so nothing is known after it.  *)
FollowsWhileDefined ==
    AtMostTwoBases \/ phase \in {"constructing", "alive"} => PointersFollowConstruction

InplaceInv == InplaceTypeOK /\ FollowsWhileDefined

LEMMA ExpectedMeans ==
  \A r : Expected(r) = ExpectedOf(Steps, built, r)
  BY DEF Expected, ExpectedOf, Depths, Done, UpTo

LEMMA StepFacts ==
  ASSUME program \in Programs
  PROVE  /\ Len(Steps) \in Nat /\ Len(Steps) >= 2
         /\ \A k \in 1 .. Len(Steps) :
              /\ Steps[k] \in Step /\ Steps[k].op \in {"inplace_vptr", "body"}
              /\ IsPath(bases, Steps[k].sub) /\ Steps[k].sub[1] = program.object
         /\ Steps[Len(Steps)] = BodyStep(<<program.object>>)
  <1>1. GoodSteps(bases, program.object, Steps)
    BY OperatorsAre
  <1>2. Steps \in Seq(Step) /\ Len(Steps) >= 2
    BY <1>1 DEF GoodSteps
  <1>3. Len(Steps) \in Nat /\ \A k \in 1 .. Len(Steps) : Steps[k] \in Step
    BY <1>2
  <1>4. \A x \in Step : x.op \in {"inplace_vptr", "body"}
    BY DEF Step
  <1> QED BY <1>1, <1>2, <1>3, <1>4 DEF GoodSteps

LEMMA DoneStep ==
  ASSUME NEW S, NEW k \in Nat \ {0}, NEW t
  PROVE  Done(S, k, t) <=> Done(S, k - 1, t) \/ (S[k].op = "inplace_vptr" /\ S[k].sub = t)
  <1>1. \A i : i \in 1 .. k <=> i \in 1 .. k - 1 \/ i = k
    OBVIOUS
  <1> QED BY <1>1 DEF Done

(* What a step of construction changes in what is expected of a pointer.   *)
LEMMA ExpectedStep ==
  ASSUME program \in Programs, NEW k \in 1 .. Len(Steps), NEW r \in RootsIn(program.object)
  PROVE  LET s == Steps[k].sub
         IN /\ Steps[k].op = "body" \/ ~ Prefix(s, r)
                 => ExpectedOf(Steps, k, r) = ExpectedOf(Steps, k - 1, r)
            /\ Prefix(s, r) => ExpectedOf(Steps, k, r) = s[Len(s)]
            /\ Steps[k].op = "inplace_vptr" /\ Prefix(s, r)
                 => ExpectedOf(Steps, k - 1, r) = IF r = s THEN Null ELSE r[Len(s) + 1]
  <1>1. PICK S : S = Steps
    OBVIOUS
  <1>2. PICK B : B = bases
    OBVIOUS
  <1>3. PICK o : o = program.object
    OBVIOUS
  <1>4. PICK s : s = S[k].sub
    OBVIOUS
  <1>5. /\ B \in [Class -> Seq(Class)] /\ GoodSteps(B, o, S)
        /\ IsPath(B, r) /\ r[1] = o /\ B[r[Len(r)]] = <<>>
    BY <1>1, <1>2, <1>3, OperatorsAre DEF RootPath
  <1>6. /\ k \in Nat \ {0} /\ k \in 1 .. Len(S) /\ S[k].op \in {"inplace_vptr", "body"}
        /\ IsPath(B, s) /\ s[1] = o
    BY <1>1, <1>2, <1>3, <1>4, StepFacts
  <1>7. /\ r \in Seq(Class) /\ DOMAIN r = 1 .. Len(r) /\ Len(r) \in Nat
        /\ s \in Seq(Class) /\ s # <<>> /\ Len(s) \in Nat /\ Len(s) # 0
    <2>1. r \in Seq(Class) /\ s \in Seq(Class) /\ s # <<>>
      BY <1>5, <1>6 DEF IsPath
    <2> QED BY ONLY <2>1
  <1>8. ASSUME S[k].op = "body" \/ ~ Prefix(s, r)
        PROVE  ExpectedOf(S, k, r) = ExpectedOf(S, k - 1, r)
    <2>1. ASSUME NEW m \in DOMAIN r
          PROVE  Done(S, k, UpTo(r, m)) <=> Done(S, k - 1, UpTo(r, m))
      <3>1. Done(S, k, UpTo(r, m))
              <=> Done(S, k - 1, UpTo(r, m)) \/ (S[k].op = "inplace_vptr" /\ s = UpTo(r, m))
        BY <1>4, <1>6, DoneStep
      <3>2. m <= m
        BY <1>7
      <3>3. Prefix(UpTo(r, m), r)
        BY <1>5, <3>2, SubSeqIsPrefix
      <3>4. ~ (S[k].op = "inplace_vptr" /\ s = UpTo(r, m))
        BY <1>8, <3>3
      <3> QED BY <3>1, <3>4
    <2> QED BY <2>1, ExpectedSame
  <1>9. ASSUME Prefix(s, r)
        PROVE  /\ ExpectedOf(S, k, r) = s[Len(s)]
               /\ S[k].op = "inplace_vptr"
                    => ExpectedOf(S, k - 1, r) = IF r = s THEN Null ELSE r[Len(s) + 1]
    <2>1. PICK n : n = Len(s)
      OBVIOUS
    <2>2. n \in DOMAIN r /\ UpTo(r, n) = s
      BY <1>7, <1>9, <2>1, PrefixIsSubSeq
    <2>3. /\ \A m \in DOMAIN r : m < n => ~ Done(S, k, UpTo(r, m))
          /\ \A m \in DOMAIN r : n < m => Done(S, k - 1, UpTo(r, m))
          /\ S[k].op = "body" => Done(S, k - 1, UpTo(r, n))
          /\ S[k].op = "inplace_vptr" => ~ Done(S, k - 1, UpTo(r, n))
      <3>1. S[k].sub = UpTo(r, n)
        BY <1>4, <2>2
      <3> QED BY <1>5, <1>6, <2>2, <3>1, OrderOnPath
    <2>4. \A t : Done(S, k, t)
                   <=> Done(S, k - 1, t) \/ (S[k].op = "inplace_vptr" /\ S[k].sub = t)
      BY <1>6, DoneStep
    <2>5. Done(S, k, UpTo(r, n))
      BY <1>4, <1>6, <2>2, <2>3, <2>4
    <2>6. ExpectedOf(S, k, r) = r[n]
      BY <1>7, <2>2, <2>3, <2>5, ExpectedIs
    <2>7. r[n] = s[Len(s)]
      <3>1. n \in 1 .. Len(s)
        BY <1>7, <2>1
      <3> QED BY <1>9, <2>1, <3>1 DEF Prefix
    <2>8. ASSUME S[k].op = "inplace_vptr"
          PROVE  ExpectedOf(S, k - 1, r) = IF r = s THEN Null ELSE r[Len(s) + 1]
      <3>1. \A m \in DOMAIN r : m < n + 1 => ~ Done(S, k - 1, UpTo(r, m))
        <4> SUFFICES ASSUME NEW m \in DOMAIN r, m < n + 1 PROVE ~ Done(S, k - 1, UpTo(r, m))
          OBVIOUS
        <4>1. m < n \/ m = n
          BY <1>7, <2>1
        <4> QED BY <2>3, <2>4, <2>8, <4>1
      <3>2. CASE r = s
        <4>1. \A m \in DOMAIN r : m < n + 1
          BY <1>7, <2>1, <3>2
        <4>2. ExpectedOf(S, k - 1, r) = Null
          BY <3>1, <4>1, ExpectedNull
        <4> QED BY <3>2, <4>2
      <3>3. CASE r # s
        <4>1. n + 1 \in DOMAIN r
          <5>1. SUFFICES ASSUME n + 1 \notin DOMAIN r PROVE FALSE
            OBVIOUS
          <5>2. Len(r) = n
            BY <1>7, <2>1, <2>2, <5>1
          <5>3. \A i \in 1 .. n : r[i] = s[i]
            BY <1>9, <2>1 DEF Prefix
          <5>4. r = s
            BY <1>7, <2>1, <5>2, <5>3, SeqEqual
          <5> QED BY <3>3, <5>4
        <4>2. Done(S, k - 1, UpTo(r, n + 1))
          <5>1. n < n + 1
            BY <1>7, <2>1
          <5> QED BY <2>3, <4>1, <5>1
        <4>3. ExpectedOf(S, k - 1, r) = r[n + 1]
          BY <1>7, <3>1, <4>1, <4>2, ExpectedIs
        <4> QED BY <2>1, <3>3, <4>3
      <3> QED BY <3>2, <3>3
    <2> QED BY <2>6, <2>7, <2>8
  <1> QED BY <1>1, <1>4, <1>8, <1>9

LEMMA SameProgram ==
  ASSUME program' = program
  PROVE  Steps' = Steps /\ PtrType' = PtrType /\ RootsIn(program.object)' = RootsIn(program.object)
         /\ AtMostTwoBases' = AtMostTwoBases
  BY DEF Steps, PtrType, RootsIn, AtMostTwoBases, bases

LEMMA InplaceInit == Init => InplaceInv
  <1> SUFFICES ASSUME Init PROVE InplaceInv
    OBVIOUS
  <1>1. program \in Programs /\ phase = "constructing" /\ built = 0
        /\ vptr = [r \in RootsIn(program.object) |-> Null]
    BY DEF Init
  <1>2. Len(Steps) \in Nat /\ Len(Steps) >= 2
    BY <1>1, StepFacts
  <1>3. InplaceTypeOK
    BY <1>1, <1>2 DEF InplaceTypeOK, PtrType
  <1>4. ASSUME NEW r PROVE Expected(r) = Null
    <2>1. PICK S : S = Steps
      OBVIOUS
    <2>2. \A m \in DOMAIN r : ~ Done(S, 0, UpTo(r, m))
      BY DEF Done
    <2>3. ExpectedOf(S, 0, r) = Null
      BY <2>2, ExpectedNull
    <2> QED BY <1>1, <2>1, <2>3, ExpectedMeans
  <1>5. FollowsWhileDefined
    BY <1>1, <1>4 DEF FollowsWhileDefined, PointersFollowConstruction
  <1> QED BY <1>3, <1>5 DEF InplaceInv

(* What the pointers are after a step, when they were right before.        *)
LEMMA InplaceConstruct == InplaceInv /\ Construct => InplaceInv'
  <1> SUFFICES ASSUME InplaceInv, Construct PROVE InplaceInv'
    OBVIOUS
  <1>1. /\ program \in Programs /\ phase = "constructing" /\ built \in 0 .. Len(Steps)
        /\ built < Len(Steps) /\ vptr \in PtrType /\ PointersFollowConstruction
    BY DEF InplaceInv, InplaceTypeOK, FollowsWhileDefined, Construct
  <1>2. PICK k : k = built + 1
    OBVIOUS
  <1>3. /\ built' = k /\ program' = program /\ phase' \in {"constructing", "alive"}
        /\ phase' = "alive" <=> k = Len(Steps)
        /\ vptr' = IF Steps[k].op = "inplace_vptr"
                   THEN update_vptr(vptr, Last(Steps[k].sub), Steps[k].sub) ELSE vptr
    BY <1>1, <1>2 DEF Construct
  <1>4. /\ Steps' = Steps /\ PtrType' = PtrType
        /\ RootsIn(program.object)' = RootsIn(program.object)
    BY <1>3, SameProgram
  <1>5. Len(Steps) \in Nat /\ k \in 1 .. Len(Steps) /\ k - 1 = built
    BY <1>1, <1>2, StepFacts
  <1>6. PICK s : s = Steps[k].sub
    OBVIOUS
  <1>7. /\ Steps[k].op \in {"inplace_vptr", "body"} /\ IsPath(bases, s) /\ s[1] = program.object
        /\ s[Len(s)] \in Class
    <2>1. Steps[k].op \in {"inplace_vptr", "body"} /\ IsPath(bases, s) /\ s[1] = program.object
      BY <1>1, <1>5, <1>6, StepFacts
    <2>2. s \in Seq(Class) /\ Len(s) \in Nat /\ Len(s) # 0
      BY <2>1 DEF IsPath
    <2>3. Len(s) \in 1 .. Len(s)
      BY <2>2
    <2> QED BY <2>1, <2>2, <2>3
  <1>8. /\ vptr' \in PtrType
        /\ \A r \in RootsIn(program.object) :
             vptr'[r] = IF Steps[k].op = "inplace_vptr" /\ Prefix(s, r) THEN s[Len(s)]
                        ELSE vptr[r]
    <2>1. PICK v : v = vptr
      OBVIOUS
    <2>2. PICK to : to = s[Len(s)]
      OBVIOUS
    <2>3. /\ update_vptr(v, to, s) \in PtrType
          /\ \A r \in RootsIn(program.object) :
               update_vptr(v, to, s)[r] = IF Prefix(s, r) THEN to ELSE v[r]
      <3>1. v \in PtrType /\ to \in Class
        BY <1>1, <1>7, <2>1, <2>2
      <3> QED BY <1>1, <1>7, <3>1, UpdateIs
    <2>4. vptr' = IF Steps[k].op = "inplace_vptr" THEN update_vptr(v, to, s) ELSE v
      BY <1>3, <1>6, <2>1, <2>2 DEF Last
    <2> QED BY <1>1, <2>1, <2>2, <2>3, <2>4
  <1>9. ASSUME NEW r \in RootsIn(program.object) PROVE vptr'[r] = ExpectedOf(Steps, k, r)
    <2>1. vptr[r] = ExpectedOf(Steps, k - 1, r)
      BY <1>1, <1>5, ExpectedMeans DEF PointersFollowConstruction, PtrType
    <2>2. /\ Steps[k].op = "body" \/ ~ Prefix(s, r)
               => ExpectedOf(Steps, k, r) = ExpectedOf(Steps, k - 1, r)
          /\ Prefix(s, r) => ExpectedOf(Steps, k, r) = s[Len(s)]
      BY <1>1, <1>5, <1>6, ExpectedStep
    <2> QED BY <1>7, <1>8, <2>1, <2>2
  <1>10. PointersFollowConstruction'
    <2>1. ASSUME NEW r \in RootsIn(program.object) PROVE vptr'[r] = Expected(r)'
      <3>1. Expected(r)' = ExpectedOf(Steps, k, r)
        <4>1. Expected(r)' = ExpectedOf(Steps', built', r)
          BY DEF Expected, ExpectedOf, Depths, Done, UpTo
        <4> QED BY <1>3, <1>4, <4>1
      <3> QED BY <1>9, <3>1
    <2>2. DOMAIN vptr' = RootsIn(program.object)
      BY <1>8 DEF PtrType
    <2> QED BY <2>1, <2>2 DEF PointersFollowConstruction
  <1>11. InplaceTypeOK'
    BY <1>1, <1>3, <1>4, <1>5, <1>8 DEF InplaceTypeOK
  <1> QED BY <1>10, <1>11 DEF InplaceInv, FollowsWhileDefined

(* Pointers and steps stay, and so does what is expected.                  *)
LEMMA FollowsSame ==
  ASSUME InplaceInv, UNCHANGED <<program, built, vptr>>
  PROVE  PointersFollowConstruction' <=> PointersFollowConstruction
  <1>1. Steps' = Steps
    BY SameProgram
  <1>2. \A r : Expected(r)' = ExpectedOf(Steps', built', r)
    BY DEF Expected, ExpectedOf, Depths, Done, UpTo
  <1>3. \A r : Expected(r)' = Expected(r)
    BY <1>1, <1>2, ExpectedMeans
  <1> QED BY <1>3 DEF PointersFollowConstruction

LEMMA InplaceThrow == InplaceInv /\ (Throw \/ Destroy) => InplaceInv'
  <1> SUFFICES ASSUME InplaceInv, Throw \/ Destroy PROVE InplaceInv'
    OBVIOUS
  <1>1. UNCHANGED <<program, built, vptr>> /\ phase' = "destroying"
        /\ phase \in {"constructing", "alive"} /\ program \in Programs /\ built \in 0 .. Len(Steps)
    BY DEF Throw, Destroy, InplaceInv, InplaceTypeOK
  <1>2. Steps' = Steps /\ PtrType' = PtrType
    BY <1>1, SameProgram
  <1>3. Len(Steps) \in Nat /\ Len(Steps) >= 2
    BY <1>1, StepFacts
  <1>4. built # 0
    <2>1. CASE Destroy
      BY <1>3, <2>1 DEF Destroy, InplaceInv, InplaceTypeOK
    <2>2. CASE Throw
      <3>1. SUFFICES ASSUME built = 0 PROVE FALSE
        OBVIOUS
      <3>2. Steps[1].op = "body" /\ 1 \in 1 .. Len(Steps)
        BY <1>3, <2>2, <3>1 DEF Throw
      <3>3. PICK B : B = bases
        OBVIOUS
      <3>4. PICK S : S = Steps
        OBVIOUS
      <3>5. PICK o : o = program.object
        OBVIOUS
      <3>6. GoodSteps(B, o, S) /\ 1 \in 1 .. Len(S) /\ S[1].op = "body"
        BY <1>1, <3>2, <3>3, <3>4, <3>5, OperatorsAre
      <3>7. PICK i \in 1 .. Len(S) : S[i] = InplaceStep(S[1].sub)
        BY <3>6 DEF GoodSteps, Covering
      <3>8. S[i].op = "inplace_vptr" /\ S[i].sub = S[1].sub
        BY <3>7, InplaceStepIs
      <3>9. i # 1 /\ Prefix(S[1].sub, S[i].sub)
        <4>1. S[1].sub \in Seq(Class)
          BY <3>6 DEF GoodSteps, IsPath
        <4> QED BY <3>6, <3>8, <4>1 DEF Prefix
      <3>10. i < 1
        BY <3>6, <3>8, <3>9 DEF GoodSteps, InsideFirst
      <3> QED BY <3>10
    <2> QED BY <2>1, <2>2
  <1>5. InplaceTypeOK'
    BY <1>1, <1>2, <1>4 DEF InplaceInv, InplaceTypeOK
  <1>6. FollowsWhileDefined'
    <2>1. PointersFollowConstruction
      BY <1>1 DEF InplaceInv, FollowsWhileDefined
    <2>2. PointersFollowConstruction'
      BY <1>1, <2>1, FollowsSame
    <2> QED BY <2>2 DEF FollowsWhileDefined
  <1> QED BY <1>5, <1>6 DEF InplaceInv

LEMMA InplaceDestruct == InplaceInv /\ Destruct => InplaceInv'
  <1> SUFFICES ASSUME InplaceInv, Destruct PROVE InplaceInv'
    OBVIOUS
  <1>1. /\ program \in Programs /\ phase = "destroying" /\ built \in 0 .. Len(Steps)
        /\ built # 0 /\ vptr \in PtrType
        /\ AtMostTwoBases => PointersFollowConstruction
    BY DEF InplaceInv, InplaceTypeOK, FollowsWhileDefined, Destruct
  <1>2. PICK k : k = built
    OBVIOUS
  <1>3. /\ built' = k - 1 /\ program' = program /\ phase' \in {"destroying", "gone"}
        /\ phase' = "gone" <=> k - 1 = 0
        /\ vptr' = IF Steps[k].op = "inplace_vptr" THEN Reset(vptr, Steps[k].sub) ELSE vptr
    BY <1>1, <1>2 DEF Destruct
  <1>4. /\ Steps' = Steps /\ PtrType' = PtrType /\ AtMostTwoBases' = AtMostTwoBases
    BY <1>3, SameProgram
  <1>5. Len(Steps) \in Nat /\ k \in 1 .. Len(Steps) /\ k - 1 \in 0 .. Len(Steps)
    BY <1>1, <1>2, StepFacts
  <1>6. PICK s : s = Steps[k].sub
    OBVIOUS
  <1>7. /\ Steps[k].op \in {"inplace_vptr", "body"} /\ IsPath(bases, s) /\ s[1] = program.object
        /\ s[Len(s)] \in Class
    <2>1. Steps[k].op \in {"inplace_vptr", "body"} /\ IsPath(bases, s) /\ s[1] = program.object
      BY <1>1, <1>5, <1>6, StepFacts
    <2>2. s \in Seq(Class) /\ Len(s) \in Nat /\ Len(s) # 0
      BY <2>1 DEF IsPath
    <2>3. Len(s) \in 1 .. Len(s)
      BY <2>2
    <2> QED BY <2>1, <2>2, <2>3
  <1>8. PICK v : v = vptr
    OBVIOUS
  <1>9. vptr' = IF Steps[k].op = "inplace_vptr" THEN Reset(v, s) ELSE v
    BY <1>3, <1>6, <1>8
  <1>10. vptr' \in PtrType
    <2>1. v \in PtrType
      BY <1>1, <1>8
    <2>2. Reset(v, s) \in PtrType
      BY <1>1, <1>7, <2>1, ResetTyped
    <2> QED BY <1>9, <2>1, <2>2
  <1>11. InplaceTypeOK'
    BY <1>1, <1>3, <1>4, <1>5, <1>10 DEF InplaceTypeOK
  <1>12. ASSUME AtMostTwoBases, NEW r \in RootsIn(program.object)
         PROVE  vptr'[r] = ExpectedOf(Steps, k - 1, r)
    <2>1. vptr[r] = ExpectedOf(Steps, k, r)
      BY <1>1, <1>2, <1>12, ExpectedMeans DEF PointersFollowConstruction, PtrType
    <2>2. /\ Steps[k].op = "body" \/ ~ Prefix(s, r)
               => ExpectedOf(Steps, k, r) = ExpectedOf(Steps, k - 1, r)
          /\ Steps[k].op = "inplace_vptr" /\ Prefix(s, r)
               => ExpectedOf(Steps, k - 1, r) = IF r = s THEN Null ELSE r[Len(s) + 1]
      BY <1>1, <1>5, <1>6, ExpectedStep
    <2>3. Reset(v, s)[r] = IF ~ Prefix(s, r) THEN v[r]
                           ELSE IF r = s THEN Null ELSE r[Len(s) + 1]
      <3>1. v \in PtrType
        BY <1>1, <1>8
      <3>2. Len(bases[s[Len(s)]]) <= 2
        BY <1>7, <1>12 DEF AtMostTwoBases
      <3> QED BY <1>1, <1>7, <3>1, <3>2, ResetIs
    <2>4. CASE Steps[k].op = "body"
      BY <1>3, <2>1, <2>2, <2>4
    <2>5. CASE Steps[k].op = "inplace_vptr"
      BY <1>8, <1>9, <2>1, <2>2, <2>3, <2>5
    <2> QED BY <1>7, <2>4, <2>5
  <1>13. ASSUME AtMostTwoBases PROVE PointersFollowConstruction'
    <2>1. ASSUME NEW r \in RootsIn(program.object) PROVE vptr'[r] = Expected(r)'
      <3>1. Expected(r)' = ExpectedOf(Steps, k - 1, r)
        <4>1. Expected(r)' = ExpectedOf(Steps', built', r)
          BY DEF Expected, ExpectedOf, Depths, Done, UpTo
        <4> QED BY <1>3, <1>4, <4>1
      <3> QED BY <1>12, <1>13, <3>1
    <2>2. DOMAIN vptr' = RootsIn(program.object)
      BY <1>10 DEF PtrType
    <2> QED BY <2>1, <2>2 DEF PointersFollowConstruction
  <1> QED BY <1>3, <1>4, <1>11, <1>13 DEF InplaceInv, FollowsWhileDefined

LEMMA InplaceNext == InplaceInv /\ [Next]_vars => InplaceInv'
  <1> SUFFICES ASSUME InplaceInv, [Next]_vars PROVE InplaceInv'
    OBVIOUS
  <1>1. CASE UNCHANGED vars
    <2>1. UNCHANGED <<program, built, vptr>> /\ phase' = phase
      BY <1>1 DEF vars
    <2>2. Steps' = Steps /\ PtrType' = PtrType /\ AtMostTwoBases' = AtMostTwoBases
      BY <2>1, SameProgram
    <2>3. PointersFollowConstruction' <=> PointersFollowConstruction
      BY <2>1, FollowsSame
    <2>4. InplaceTypeOK'
      BY <2>1, <2>2 DEF InplaceInv, InplaceTypeOK
    <2> QED BY <2>1, <2>2, <2>3, <2>4 DEF InplaceInv, FollowsWhileDefined
  <1> QED BY <1>1, InplaceConstruct, InplaceThrow, InplaceDestruct DEF Next

LEMMA RunningIs ==
  ASSUME InplaceInv, Running.op = "body"
  PROVE  \E k \in 1 .. Len(Steps) :
           /\ Running = Steps[k]
           /\ built = k \/ built = k - 1
           /\ phase # "gone"
  <1>1. /\ built \in 0 .. Len(Steps) /\ program \in Programs
        /\ phase \in {"constructing", "alive", "destroying", "gone"}
        /\ phase = "constructing" => built < Len(Steps)
        /\ phase = "alive" => built = Len(Steps)
        /\ phase = "destroying" => built # 0
    BY DEF InplaceInv, InplaceTypeOK
  <1>2. Len(Steps) \in Nat /\ Len(Steps) >= 2
    BY <1>1, StepFacts
  <1>3. CASE phase = "constructing"
    <2>1. Running = Steps[built + 1]
      BY <1>3 DEF Running
    <2>2. built + 1 \in 1 .. Len(Steps) /\ built = (built + 1) - 1
      BY <1>1, <1>2, <1>3
    <2> QED BY <1>3, <2>1, <2>2
  <1>4. CASE phase = "alive" \/ phase = "destroying"
    <2>1. Running = Steps[built]
      BY <1>4 DEF Running
    <2>2. built \in 1 .. Len(Steps)
      BY <1>1, <1>2, <1>4
    <2> QED BY <1>4, <2>1, <2>2
  <1>5. CASE phase = "gone"
    <2>1. Running = [op |-> "none", sub |-> <<>>]
      BY <1>5 DEF Running
    <2> QED BY <2>1
  <1> QED BY <1>1, <1>3, <1>4, <1>5

LEMMA BodiesSee == InplaceInv => BodiesSeeTheirClass
  <1> SUFFICES ASSUME InplaceInv, Running.op = "body", AtMostTwoBases \/ phase # "destroying"
               PROVE  /\ boost_openmethod_vptr(Running.sub) = Last(Running.sub)
                      /\ \A r \in Roots(Running.sub) : vptr[r] = Last(Running.sub)
    BY DEF BodiesSeeTheirClass
  <1>1. PICK k \in 1 .. Len(Steps) :
          Running = Steps[k] /\ (built = k \/ built = k - 1) /\ phase # "gone"
    BY RunningIs
  <1>2. PICK s : s = Steps[k].sub
    OBVIOUS
  <1>3. program \in Programs /\ vptr \in PtrType /\ PointersFollowConstruction
    BY <1>1 DEF InplaceInv, InplaceTypeOK, FollowsWhileDefined
  <1>4. Running.sub = s /\ Steps[k].op = "body" /\ IsPath(bases, s) /\ s[1] = program.object
    BY <1>1, <1>2, <1>3, StepFacts
  <1>5. ASSUME NEW r \in Roots(s) PROVE vptr[r] = s[Len(s)]
    <2>1. r \in RootsIn(program.object) /\ Prefix(s, r)
      BY <1>3, <1>4, OperatorsAre
    <2>2. /\ Steps[k].op = "body" \/ ~ Prefix(s, r)
               => ExpectedOf(Steps, k, r) = ExpectedOf(Steps, k - 1, r)
          /\ Prefix(s, r) => ExpectedOf(Steps, k, r) = s[Len(s)]
      BY <1>2, <1>3, <2>1, ExpectedStep
    <2>3. vptr[r] = ExpectedOf(Steps, built, r)
      BY <1>3, <2>1, ExpectedMeans DEF PointersFollowConstruction, PtrType
    <2> QED BY <1>1, <1>4, <2>1, <2>2, <2>3
  <1>6. \E r \in Roots(s) : boost_openmethod_vptr(s) = vptr[r]
    BY <1>3, <1>4, OperatorsAre
  <1> QED BY <1>4, <1>5, <1>6 DEF Last

-----------------------------------------------------------------------------
(* Construction and destruction keep what the pointers mean, for any       *)
(* hierarchy: while an object is constructed and until it is destroyed with*)
(* any number of bases, and to the end if no class has more than two.      *)
THEOREM InplaceInvariant == Spec => []InplaceInv
  <1>1. Init => InplaceInv
    BY InplaceInit
  <1>2. InplaceInv /\ [Next]_vars => InplaceInv'
    BY InplaceNext
  <1> QED BY <1>1, <1>2, PTL DEF Spec

(* The destructor of inplace_vptr leaves every pointer to the class of the *)
(* subobject that is still complete around it, if no class has more than   *)
(* two bases: this is what the model says of inplace_vptr.hpp for any      *)
(* hierarchy, also when a constructor throws.                              *)
THEOREM PointersAlwaysFollow == Spec => []PointersFollowConstructionUpToTwo
  <1>1. InplaceInv => PointersFollowConstructionUpToTwo
    BY DEF InplaceInv, FollowsWhileDefined, PointersFollowConstructionUpToTwo
  <1> QED BY <1>1, InplaceInvariant, PTL

(* A call from the body of a constructor or destructor gets the overriders *)
(* for the class of the body, through any of the bases of the object.      *)
THEOREM BodiesAlwaysSeeTheirClass == Spec => []BodiesSeeTheirClass
  <1> QED BY BodiesSee, InplaceInvariant, PTL
=============================================================================
