--------------------------- MODULE RegistryProofs ---------------------------
(* Proofs about static_list, for any set of nodes; about registries, for   *)
(* any classes, records, type ids and calls; and, last, about virtual_ptrs:*)
(* for any programs, objects and pointers, whatever the registry does      *)
(* meanwhile.                                                              *)
EXTENDS SmartVirtualPtr, FoldProofs

-----------------------------------------------------------------------------
(* The list.                                                               *)

(* What Linked says of a sequence, by position.                            *)
LEMMA LinkedFacts ==
  ASSUME NEW s \in Seq(Node), Linked(s)
  PROVE  /\ Len(s) \in Nat /\ DOMAIN s = 1 .. Len(s)
         /\ \A i \in 1 .. Len(s) : s[i] \in Node
         /\ \A i, j \in 1 .. Len(s) : s[i] = s[j] => i = j
         /\ Len(s) = 0 => first = Null /\ s = <<>>
         /\ Len(s) # 0 => /\ first = s[1] /\ first \in Node
                          /\ prev[s[1]] = s[Len(s)]
                          /\ next[s[Len(s)]] = Null
         /\ \A i \in 2 .. Len(s) : prev[s[i]] = s[i - 1]
         /\ \A i \in 1 .. Len(s) - 1 : next[s[i]] = s[i + 1]
  <1>1. Len(s) \in Nat /\ DOMAIN s = 1 .. Len(s)
    OBVIOUS
  <1>2. \A i \in 1 .. Len(s) : s[i] \in Node
    OBVIOUS
  <1>3. Len(s) = 0 <=> s = <<>>
    OBVIOUS
  <1>4. Len(s) # 0 => 1 \in DOMAIN s /\ Len(s) \in DOMAIN s
    BY <1>1
  <1>5. Len(s) = 0 => first = Null /\ s = <<>>
    BY <1>3 DEF Linked
  <1>6. Len(s) # 0 => first = s[1] /\ first \in Node
    BY <1>2, <1>3, <1>4 DEF Linked
  <1>7. Len(s) # 0 => prev[s[1]] = s[Len(s)] /\ next[s[Len(s)]] = Null
    BY <1>4 DEF Linked
  <1>8. \A i \in 2 .. Len(s) : prev[s[i]] = s[i - 1]
    BY <1>1 DEF Linked
  <1>9. \A i \in 1 .. Len(s) - 1 : next[s[i]] = s[i + 1]
    BY <1>1 DEF Linked
  <1> QED BY <1>1, <1>2, <1>5, <1>6, <1>7, <1>8, <1>9 DEF Linked

(* A node is in the list exactly when it has a prev pointer.               *)
LEMMA PrevTells ==
  ASSUME NEW s \in Seq(Node), Linked(s), NEW n \in Node
  PROVE  /\ prev[n] # Null <=> \E i \in 1 .. Len(s) : s[i] = n
         /\ first = Null <=> Len(s) = 0
  <1>1. ASSUME NEW i \in 1 .. Len(s) PROVE prev[s[i]] # Null
    <2>1. CASE i = 1
      BY <2>1, LinkedFacts, NullAssumption
    <2>2. CASE i # 1
      <3>1. i \in 2 .. Len(s) /\ i - 1 \in 1 .. Len(s)
        BY <2>2, LinkedFacts
      <3> QED BY <3>1, LinkedFacts, NullAssumption
    <2> QED BY <2>1, <2>2
  <1>2. (\A i \in 1 .. Len(s) : s[i] # n) => prev[n] = Null
    BY DEF Linked
  <1> QED BY <1>1, <1>2, LinkedFacts, NullAssumption

(* push_back adds the node at the end.                                     *)
LEMMA PushBackAppends ==
  ASSUME NEW s \in Seq(Node), Linked(s), NEW n \in Node, push_back(n)
  PROVE  Append(s, n) \in Seq(Node) /\ Linked(Append(s, n))'
  <1> DEFINE t == Append(s, n)
  <1>1. /\ t \in Seq(Node) /\ Len(t) = Len(s) + 1 /\ t # <<>>
        /\ \A i \in 1 .. Len(s) : t[i] = s[i]
        /\ t[Len(s) + 1] = n
        /\ DOMAIN t = 1 .. Len(s) + 1 /\ DOMAIN s = 1 .. Len(s) /\ Len(s) \in Nat
    OBVIOUS
  <1> HIDE DEF t
  <1>2. \A i \in 1 .. Len(s) : s[i] # n
    BY PrevTells DEF push_back
  <1>3. \A i, j \in DOMAIN t : t[i] = t[j] => i = j
    BY <1>1, <1>2 DEF Linked
  <1>4. CASE first = Null
    <2>1. Len(s) = 0
      BY <1>4, PrevTells
    <2>2. s = <<>>
      BY <2>1, LinkedFacts
    <2>3. first' = n /\ prev' = [prev EXCEPT ![n] = n] /\ next' = next
      BY <1>4 DEF push_back
    <2> QED BY <1>1, <1>3, <2>1, <2>2, <2>3 DEF Linked, push_back
  <1>5. CASE first # Null
    <2>1. Len(s) # 0 /\ Len(s) \in 1 .. Len(s) /\ 1 \in 1 .. Len(s)
      BY <1>5, <1>1, PrevTells
    <2> DEFINE last == s[Len(s)]
    <2>2. first = s[1] /\ prev[first] = last /\ last \in Node /\ first \in Node
      BY <2>1, LinkedFacts
    <2>3. /\ first' = first
          /\ prev' = [prev EXCEPT ![n] = last, ![first] = n]
          /\ next' = [next EXCEPT ![last] = n]
      BY <1>5, <2>2 DEF push_back
    <2>4. prev' \in [Node -> Node \cup {Null}] /\ next' \in [Node -> Node \cup {Null}]
      BY <2>2, <2>3 DEF Linked
    <2>5. first # n /\ last # n
      BY <1>2, <1>1, <2>1, <2>2
    <2>6. \A i \in DOMAIN t : prev'[t[i]] = IF i = 1 THEN t[Len(t)] ELSE t[i - 1]
      <3> SUFFICES ASSUME NEW i \in 1 .. Len(s) + 1
                   PROVE  prev'[t[i]] = IF i = 1 THEN t[Len(t)] ELSE t[i - 1]
        BY <1>1
      <3>1. CASE i = 1
        BY <3>1, <1>1, <2>1, <2>2, <2>3, <2>5, LinkedFacts DEF Linked
      <3>2. CASE i = Len(s) + 1
        BY <3>2, <1>1, <2>1, <2>2, <2>3, <2>5 DEF Linked
      <3>3. CASE i # 1 /\ i # Len(s) + 1
        <4>0. i \in 2 .. Len(s) /\ i - 1 \in 1 .. Len(s)
          BY <3>3, <1>1
        <4>1. t[i] = s[i] /\ s[i] # n /\ s[i] # first /\ s[i] \in Node
          BY <3>3, <1>1, <1>2, <2>1, <2>2, LinkedFacts
        <4>2. prev[s[i]] = s[i - 1] /\ t[i - 1] = s[i - 1]
          BY <4>0, <1>1, LinkedFacts
        <4> QED BY <3>3, <4>1, <4>2, <2>2, <2>3 DEF Linked
      <3> QED BY <3>1, <3>2, <3>3
    <2>7. \A i \in DOMAIN t : next'[t[i]] = IF i = Len(t) THEN Null ELSE t[i + 1]
      <3> SUFFICES ASSUME NEW i \in 1 .. Len(s) + 1
                   PROVE  next'[t[i]] = IF i = Len(t) THEN Null ELSE t[i + 1]
        BY <1>1
      <3>1. CASE i = Len(s) + 1
        BY <3>1, <1>1, <2>1, <2>2, <2>3, <2>5 DEF Linked, push_back
      <3>2. CASE i = Len(s)
        BY <3>2, <1>1, <2>1, <2>2, <2>3, SMTT(30) DEF Linked
      <3>3. CASE i # Len(s) /\ i # Len(s) + 1
        <4>a. Len(s) \in Nat
          OBVIOUS
        <4>0. i \in 1 .. Len(s) - 1 /\ i \in 1 .. Len(s) /\ i + 1 \in 1 .. Len(s)
          BY <3>3, <4>a
        <4>b. s[i] # last /\ s[i] \in Node
          BY <3>3, <4>0, <2>1, LinkedFacts
        <4>1. t[i] = s[i] /\ s[i] # last /\ s[i] \in Node /\ t[i + 1] = s[i + 1]
          BY <4>0, <4>b, <1>1
        <4>2. next[s[i]] = s[i + 1]
          BY <4>0, LinkedFacts
        <4> QED BY <3>3, <4>1, <4>2, <1>1, <2>2, <2>3 DEF Linked
      <3> QED BY <3>1, <3>2, <3>3
    <2>8. \A m \in Node : (\A i \in DOMAIN t : t[i] # m) => prev'[m] = Null /\ next'[m] = Null
      <3> SUFFICES ASSUME NEW m \in Node, \A i \in DOMAIN t : t[i] # m
                   PROVE  prev'[m] = Null /\ next'[m] = Null
        OBVIOUS
      <3>1. m # n /\ \A i \in DOMAIN s : s[i] # m
        BY <1>1
      <3>2. m # first /\ m # last
        BY <3>1, <1>1, <2>1, <2>2
      <3> QED BY <3>1, <3>2, <2>2, <2>3 DEF Linked
    <2>9. first' = t[1]
      BY <1>1, <2>1, <2>2, <2>3
    <2> QED BY <1>1, <1>3, <2>4, <2>6, <2>7, <2>8, <2>9 DEF Linked
  <1> QED BY <1>1, <1>4, <1>5

(* The positions of a sequence without one element.                        *)
LEMMA WithoutFacts ==
  ASSUME NEW s \in Seq(Node), NEW k \in 1 .. Len(s)
  PROVE  LET t == Without(s, k)
         IN /\ t \in Seq(Node) /\ Len(t) = Len(s) - 1 /\ DOMAIN t = 1 .. Len(s) - 1
            /\ \A i \in 1 .. Len(s) - 1 : i < k => t[i] = s[i]
            /\ \A i \in 1 .. Len(s) - 1 : i >= k => t[i] = s[i + 1]
            /\ t = <<>> <=> Len(s) = 1
  <1> DEFINE t == Without(s, k)
  <1>1. Len(s) \in Nat \ {0} /\ Len(s) - 1 \in Nat /\ \A i \in 1 .. Len(s) : s[i] \in Node
    OBVIOUS
  <1>2. \A i \in 1 .. Len(s) - 1 : i \in 1 .. Len(s) /\ i + 1 \in 1 .. Len(s)
    BY <1>1
  <1>3. t \in [1 .. Len(s) - 1 -> Node]
    BY <1>1, <1>2 DEF Without
  <1>4. t \in Seq(Node) /\ Len(t) = Len(s) - 1 /\ DOMAIN t = 1 .. Len(s) - 1
    BY <1>1, <1>3
  <1>5. t = <<>> <=> Len(s) = 1
    <2> HIDE DEF t
    <2> QED BY <1>1, <1>4
  <1>6. \A i \in 1 .. Len(s) - 1 : (i < k => t[i] = s[i]) /\ (i >= k => t[i] = s[i + 1])
    BY <1>1 DEF Without
  <1> QED BY <1>4, <1>5, <1>6

(* remove takes the node out and keeps the order of the others.            *)
LEMMA RemoveDrops ==
  ASSUME NEW s \in Seq(Node), Linked(s), NEW n \in Node, remove(n)
  PROVE  \E k \in 1 .. Len(s) : s[k] = n /\ Linked(Without(s, k))'
  <1>1. PICK k \in 1 .. Len(s) : s[k] = n
    BY PrevTells DEF remove
  <1> DEFINE L == Len(s)
             t == Without(s, k)
  <1>2. /\ L \in Nat \ {0} /\ k \in 1 .. L
        /\ t \in Seq(Node) /\ Len(t) = L - 1 /\ DOMAIN t = 1 .. L - 1
        /\ \A i \in 1 .. L - 1 : i < k => t[i] = s[i]
        /\ \A i \in 1 .. L - 1 : i >= k => t[i] = s[i + 1]
        /\ t = <<>> <=> L = 1
    BY WithoutFacts
  <1>3. /\ first = s[1] /\ first \in Node
        /\ prev[s[1]] = s[L]
        /\ next[s[L]] = Null
        /\ \A i \in 1 .. L : s[i] \in Node
        /\ \A i, j \in 1 .. L : s[i] = s[j] => i = j
        /\ \A i \in 2 .. L : prev[s[i]] = s[i - 1]
        /\ \A i \in 1 .. L - 1 : next[s[i]] = s[i + 1]
    BY <1>2, LinkedFacts
  <1>4. /\ prev \in [Node -> Node \cup {Null}]
        /\ next \in [Node -> Node \cup {Null}]
        /\ \A m \in Node : (\A i \in 1 .. L : s[i] # m) => prev[m] = Null /\ next[m] = Null
    BY <1>2, LinkedFacts DEF Linked
  <1> HIDE DEF L, t
  <1>5. (k = L <=> n = prev[first]) /\ (k = 1 <=> n = first) /\ prev[first] = s[L] /\ s[L] \in Node
    <2>1. 1 \in 1 .. L /\ L \in 1 .. L /\ k \in 1 .. L
      BY <1>2
    <2> QED BY <2>1, <1>1, <1>3
  <1> DEFINE at(i) == IF i < k THEN i ELSE i + 1
  <1>a. \A i \in 1 .. L - 1 : at(i) \in 1 .. L /\ at(i) # k /\ t[i] = s[at(i)]
    <2>1. \A i \in 1 .. L - 1 : at(i) \in 1 .. L /\ at(i) # k
      BY <1>2
    <2>2. \A i \in 1 .. L - 1 : t[i] = s[at(i)]
      BY <1>2
    <2> QED BY <2>1, <2>2
  <1>b. \A i, j \in 1 .. L - 1 : at(i) = at(j) => i = j
    BY <1>2
  <1> HIDE DEF at
  <1>6. \A i, j \in 1 .. L - 1 : t[i] = t[j] => i = j
    <2> SUFFICES ASSUME NEW i \in 1 .. L - 1, NEW j \in 1 .. L - 1, t[i] = t[j]
                 PROVE  i = j
      OBVIOUS
    <2>1. /\ at(i) \in 1 .. L /\ at(j) \in 1 .. L
          /\ s[at(i)] = s[at(j)]
      BY <1>a
    <2>2. at(i) = at(j)
      BY <1>3, <2>1
    <2> QED BY <1>b, <2>2
  <1>7. \A i \in 1 .. L - 1 : t[i] # n /\ t[i] \in Node
    <2>1. k \in 1 .. L
      BY <1>2
    <2> QED BY <2>1, <1>1, <1>3, <1>a
  <1>8. \A m \in Node : m # n /\ (\A i \in 1 .. L - 1 : t[i] # m) => prev[m] = Null /\ next[m] = Null
    <2> SUFFICES ASSUME NEW m \in Node, m # n, \A i \in 1 .. L - 1 : t[i] # m
                 PROVE  \A i \in 1 .. L : s[i] # m
      BY <1>4
    <2> SUFFICES ASSUME NEW i \in 1 .. L PROVE s[i] # m
      OBVIOUS
    <2>1. CASE i < k
      BY <2>1, <1>2
    <2>2. CASE i = k
      BY <2>2, <1>1
    <2>3. CASE i > k
      <3>1. i - 1 \in 1 .. L - 1 /\ i - 1 >= k /\ (i - 1) + 1 = i
        BY <2>3, <1>2
      <3> QED BY <3>1, <1>2
    <2> QED BY <2>1, <2>2, <2>3, <1>2
  (* The pointers to n move to its neighbours, going around the ends.      *)
  <1> DEFINE succ == IF k = L THEN s[1] ELSE s[k + 1]
  <1>9. ASSUME L # 1
        PROVE  /\ succ \in Node /\ succ # n /\ prev[n] \in Node /\ prev[n] # n
               /\ prev[n] = IF k = 1 THEN s[L] ELSE s[k - 1]
               /\ next[n] = IF k = L THEN Null ELSE s[k + 1]
    <2>1. 1 \in 1 .. L /\ L \in 1 .. L
      BY <1>2
    <2>2. k # 1 => k \in 2 .. L /\ k - 1 \in 1 .. L
      BY <1>2
    <2>3. k # L => k + 1 \in 1 .. L /\ k \in 1 .. L - 1
      BY <1>2
    <2>4. succ \in Node /\ succ # n
      BY <1>1, <1>2, <1>3, <1>9, <2>1, <2>3
    <2>5. prev[n] = IF k = 1 THEN s[L] ELSE s[k - 1]
      BY <1>1, <1>3, <2>2
    <2>6. next[n] = IF k = L THEN Null ELSE s[k + 1]
      BY <1>1, <1>3, <2>3
    <2>7. prev[n] \in Node /\ prev[n] # n
      BY <1>1, <1>2, <1>3, <1>9, <2>1, <2>2, <2>5
    <2> QED BY <2>4, <2>5, <2>6, <2>7
  <1>10. ASSUME L # 1
         PROVE  /\ prev' = [prev EXCEPT ![n] = Null, ![succ] = prev[n]]
                /\ next' = [next EXCEPT ![n] = Null,
                                        ![prev[n]] = IF k = 1 THEN next[prev[n]] ELSE next[n]]
                /\ first' = IF k = 1 THEN s[2] ELSE s[1]
    <2>1. CASE n = prev[first]
      <3>1. k = L /\ k # 1 /\ n # first /\ first = succ /\ next[n] = Null
        BY <2>1, <1>3, <1>5, <1>9, <1>10
      <3> QED BY <2>1, <3>1, <1>3, <1>9, <1>10 DEF remove
    <2>2. CASE n # prev[first] /\ n = first
      <3>1. k # L /\ k = 1 /\ next[n] = succ /\ next[n] = s[2] /\ prev[n] = prev[first]
        BY <2>2, <1>2, <1>5, <1>9, <1>10
      <3>2. next' = [next EXCEPT ![n] = Null] /\ next[prev[n]] = next'[prev[n]]
        BY <2>2, <3>1, <1>4, <1>9, <1>10 DEF remove
      <3>3. first' = next[n] /\ prev' = [prev EXCEPT ![n] = Null, ![succ] = prev[n]]
        BY <2>2, <3>1, <1>4, <1>9, <1>10 DEF remove
      <3>4. next' = [next EXCEPT ![n] = Null, ![prev[n]] = next[prev[n]]]
        BY <3>2, <1>4, <1>9, <1>10
      <3> QED BY <3>1, <3>3, <3>4
    <2>3. CASE n # prev[first] /\ n # first
      <3>1. k # L /\ k # 1 /\ next[n] = succ
        BY <2>3, <1>5, <1>9, <1>10
      <3> QED BY <2>3, <3>1, <1>3, <1>9, <1>10 DEF remove
    <2> QED BY <2>1, <2>2, <2>3
  <1>11. ASSUME L = 1
         PROVE  first' = Null /\ prev' = [prev EXCEPT ![n] = Null]
                              /\ next' = [next EXCEPT ![n] = Null]
    <2>1. k = L /\ k = 1
      BY <1>2, <1>11
    <2> QED BY <2>1, <1>5 DEF remove
  <1> HIDE DEF succ
  <1>12. /\ prev' \in [Node -> Node \cup {Null}] /\ next' \in [Node -> Node \cup {Null}]
         /\ \A m \in Node : (\A i \in DOMAIN t : t[i] # m) => prev'[m] = Null /\ next'[m] = Null
    <2>1. CASE L = 1
      <3>1. \A m \in Node : m # n => prev'[m] = prev[m] /\ next'[m] = next[m]
        BY <2>1, <1>4, <1>11
      <3>2. prev'[n] = Null /\ next'[n] = Null
        BY <2>1, <1>4, <1>11
      <3>3. prev' \in [Node -> Node \cup {Null}] /\ next' \in [Node -> Node \cup {Null}]
        BY <2>1, <1>4, <1>11
      <3> QED BY <3>1, <3>2, <3>3, <1>2, <1>8
    <2>2. CASE L # 1
      <3>1. prev' \in [Node -> Node \cup {Null}] /\ next' \in [Node -> Node \cup {Null}]
        BY <2>2, <1>4, <1>9, <1>10
      <3>2. prev'[n] = Null /\ next'[n] = Null
        BY <2>2, <1>4, <1>9, <1>10
      <3>3. ASSUME NEW m \in Node, m # n, \A i \in 1 .. L - 1 : t[i] # m
            PROVE  prev'[m] = Null /\ next'[m] = Null
        <4>1. prev[m] = Null /\ next[m] = Null
          BY <3>3, <1>8
        <4>2. \E i \in 1 .. L - 1 : t[i] = succ
          <5>1. CASE k = L
            BY <5>1, <2>2, <1>2 DEF succ
          <5>2. CASE k # L
            BY <5>2, <2>2, <1>2 DEF succ
          <5> QED BY <5>1, <5>2
        <4>3. \E i \in 1 .. L - 1 : t[i] = prev[n]
          <5>1. CASE k = 1
            BY <5>1, <2>2, <1>2, <1>9
          <5>2. CASE k # 1
            BY <5>2, <2>2, <1>2, <1>9
          <5> QED BY <5>1, <5>2
        <4>4. m # succ /\ m # prev[n]
          BY <3>3, <4>2, <4>3
        <4> QED BY <2>2, <3>3, <4>1, <4>4, <1>4, <1>9, <1>10
      <3> QED BY <3>1, <3>2, <3>3, <1>2
    <2> QED BY <2>1, <2>2
  <1>13. ASSUME L # 1, NEW i \in 1 .. L - 1
         PROVE  prev'[t[i]] = IF i = 1 THEN t[L - 1] ELSE t[i - 1]
    <2>0. /\ i \in 1 .. L /\ i + 1 \in 1 .. L /\ L - 1 \in 1 .. L - 1 /\ 1 \in 1 .. L
          /\ L \in 1 .. L /\ (k + 1 \in 1 .. L \/ k = L)
      BY <1>2, <1>13
    <2>1. prev'[t[i]] = IF t[i] = succ THEN prev[n] ELSE prev[t[i]]
      BY <1>4, <1>7, <1>9, <1>10, <1>13
    <2>2. CASE i = 1
      <3>1. CASE k = 1
        <4>1. t[1] = s[2] /\ succ = s[2] /\ prev[n] = s[L] /\ t[L - 1] = s[L]
          BY <3>1, <2>0, <1>2, <1>9, <1>13 DEF succ
        <4> QED BY <2>1, <2>2, <4>1
      <3>2. CASE k = L /\ k # 1
        <4>1. t[1] = s[1] /\ succ = s[1] /\ prev[n] = s[L - 1] /\ t[L - 1] = s[L - 1]
          BY <3>2, <2>0, <1>2, <1>9, <1>13 DEF succ
        <4> QED BY <2>1, <2>2, <4>1
      <3>3. CASE k # L /\ k # 1
        <4>1. t[1] = s[1] /\ succ = s[k + 1] /\ t[L - 1] = s[L]
          BY <3>3, <2>0, <1>2, <1>13 DEF succ
        <4>2. s[1] # s[k + 1]
          BY <3>3, <2>0, <1>2, <1>3
        <4> QED BY <2>1, <2>2, <4>1, <4>2, <1>3
      <3> QED BY <3>1, <3>2, <3>3
    <2>3. CASE i # 1 /\ i < k
      <3>1. i \in 2 .. L /\ i - 1 \in 1 .. L - 1 /\ i - 1 < k
        BY <2>3, <1>2
      <3>2. t[i] = s[i] /\ t[i - 1] = s[i - 1] /\ prev[s[i]] = s[i - 1]
        BY <2>3, <3>1, <1>2, <1>3
      <3>3. s[i] # succ
        BY <2>0, <2>3, <1>2, <1>3 DEF succ
      <3> QED BY <2>1, <2>3, <3>2, <3>3
    <2>4. CASE i # 1 /\ i = k
      <3>1. i - 1 \in 1 .. L - 1 /\ i - 1 < k /\ k # L
        BY <2>4, <1>2
      <3>2. t[i] = succ /\ prev[n] = s[k - 1] /\ t[i - 1] = s[k - 1]
        BY <2>4, <3>1, <1>2, <1>9, <1>13 DEF succ
      <3> QED BY <2>1, <2>4, <3>2
    <2>5. CASE i # 1 /\ i > k
      <3>1. i + 1 \in 2 .. L /\ i - 1 \in 1 .. L - 1 /\ i - 1 >= k /\ k # L /\ (i - 1) + 1 = i
            /\ (i + 1) - 1 = i
        BY <2>5, <1>2
      <3>2. t[i] = s[i + 1] /\ t[i - 1] = s[i] /\ prev[s[i + 1]] = s[i]
        BY <2>5, <3>1, <1>2, <1>3, SMTT(30)
      <3>3. s[i + 1] # succ
        BY <2>0, <2>5, <3>1, <1>2, <1>3 DEF succ
      <3> QED BY <2>1, <2>5, <3>2, <3>3
    <2> QED BY <2>2, <2>3, <2>4, <2>5, <1>2
  <1>14. ASSUME L # 1, NEW i \in 1 .. L - 1
         PROVE  next'[t[i]] = IF i = L - 1 THEN Null ELSE t[i + 1]
    <2>0. /\ i \in 1 .. L /\ i + 1 \in 1 .. L /\ L - 1 \in 1 .. L /\ L \in 1 .. L
          /\ k # 1 => k - 1 \in 1 .. L
      BY <1>2, <1>14
    <2>1. next'[t[i]] = IF k # 1 /\ t[i] = s[k - 1] THEN next[n] ELSE next[t[i]]
      BY <1>4, <1>7, <1>9, <1>10, <1>14
    <2>2. CASE i < k - 1
      <3>1. t[i] = s[i] /\ t[i + 1] = s[i + 1] /\ i # L - 1 /\ i + 1 \in 1 .. L - 1
        BY <2>2, <1>2
      <3>2. k # 1 /\ s[i] # s[k - 1] /\ next[s[i]] = s[i + 1]
        BY <2>0, <2>2, <1>2, <1>3
      <3> QED BY <2>1, <3>1, <3>2
    <2>3. CASE i = k - 1
      <3>1. t[i] = s[k - 1] /\ k # 1 /\ (i = L - 1 <=> k = L)
        BY <2>3, <1>2
      <3>2. i # L - 1 => t[i + 1] = s[k + 1]
        BY <2>3, <1>2
      <3> QED BY <2>1, <3>1, <3>2, <1>9, <1>14
    <2>4. CASE i >= k
      <3>1. t[i] = s[i + 1] /\ k # L
        BY <2>4, <1>2
      <3>2. k # 1 => s[i + 1] # s[k - 1]
        BY <2>0, <2>4, <1>2, <1>3
      <3>3. CASE i = L - 1
        BY <2>1, <3>1, <3>2, <3>3, <1>2, <1>3
      <3>4. CASE i # L - 1
        <4>1. i + 1 \in 1 .. L - 1 /\ i + 1 >= k
          BY <2>4, <3>4, <1>2
        <4>2. t[i + 1] = s[(i + 1) + 1] /\ next[s[i + 1]] = s[(i + 1) + 1]
          BY <4>1, <1>2, <1>3
        <4> QED BY <2>1, <3>1, <3>2, <3>4, <4>2
      <3> QED BY <3>3, <3>4
    <2> QED BY <2>2, <2>3, <2>4, <1>2
  <1>15. first' = IF t = <<>> THEN Null ELSE t[1]
    <2>1. CASE L = 1
      BY <2>1, <1>2, <1>11
    <2>2. CASE L # 1
      <3>1. 1 \in 1 .. L - 1 /\ t # <<>>
        BY <2>2, <1>2
      <3>2. t[1] = IF k = 1 THEN s[2] ELSE s[1]
        BY <3>1, <1>2
      <3> QED BY <2>2, <3>1, <3>2, <1>10
    <2> QED BY <2>1, <2>2
  <1>16. ASSUME NEW i \in 1 .. L - 1 PROVE L # 1
    BY <1>2
  <1>17. \A i \in DOMAIN t : /\ prev'[t[i]] = IF i = 1 THEN t[Len(t)] ELSE t[i - 1]
                             /\ next'[t[i]] = IF i = Len(t) THEN Null ELSE t[i + 1]
    BY <1>2, <1>13, <1>14, <1>16
  <1>18. Linked(t)'
    <2> USE DEF t
    <2>1. t' = t
      OBVIOUS
    <2> HIDE DEF t
    <2> QED BY <2>1, <1>2, <1>6, <1>12, <1>15, <1>17 DEF Linked
  <1> QED BY <1>1, <1>18 DEF t


-----------------------------------------------------------------------------
(* clear follows the next pointers, and meets all the nodes: a node at the *)
(* first position not met would have a predecessor that is met.            *)
LEMMA AllMet ==
  ASSUME NEW s \in Seq(Node), Linked(s), NEW k \in 1 .. Len(s)
  PROVE  Met(s[k])
  <1>1. SUFFICES ASSUME NEW S \in SUBSET Node, first # Null => first \in S, Closed(S), s[k] \notin S
                 PROVE  FALSE
    BY DEF Met
  <1> DEFINE Out == {i \in 1 .. Len(s) : s[i] \notin S}
  <1>2. Out \subseteq Nat /\ Out # {}
    BY <1>1
  <1>3. \E x \in Out : \A y \in Out : ~ (<<y, x>> \in OpToRel(<, Nat))
    <2> HIDE DEF Out
    <2> QED BY <1>2, WFMin, NatLessThanWellFounded
  <1>4. PICK i \in Out : \A j \in Out : ~ (j < i)
    BY <1>2, <1>3 DEF OpToRel
  <1>5. i # 1
    <2>1. Len(s) # 0
      OBVIOUS
    <2>2. s[1] \in S
      BY <1>1, <2>1, LinkedFacts, NullAssumption
    <2> QED BY <2>2
  <1>6. i - 1 \in 1 .. Len(s) - 1 /\ i - 1 \in 1 .. Len(s) /\ i - 1 < i /\ (i - 1) + 1 = i
    BY <1>5
  <1>7. s[i - 1] \in S
    BY <1>4, <1>6
  <1>8. next[s[i - 1]] = s[i] /\ s[i] \in Node
    BY <1>6, LinkedFacts
  <1>9. s[i] \in S
    BY <1>1, <1>7, <1>8, NullAssumption DEF Closed
  <1> QED BY <1>9

(* clear empties the list and leaves no pointer behind.                    *)
LEMMA ClearEmpties ==
  ASSUME NEW s \in Seq(Node), Linked(s), clear
  PROVE  Linked(<<>>)'
  <1>1. \A i \in 1 .. Len(s) : Met(s[i])
    BY AllMet
  <1>2. \A n \in Node : prev'[n] = Null /\ next'[n] = Null
    <2> SUFFICES ASSUME NEW n \in Node PROVE prev'[n] = Null /\ next'[n] = Null
      OBVIOUS
    <2>1. CASE Met(n)
      BY <2>1 DEF clear
    <2>2. CASE ~ Met(n)
      <3>1. \A i \in DOMAIN s : s[i] # n
        BY <2>2, <1>1, LinkedFacts
      <3>2. prev[n] = Null /\ next[n] = Null
        BY <3>1 DEF Linked
      <3> QED BY <2>2, <3>2 DEF clear
    <2> QED BY <2>1, <2>2
  <1>3. prev' \in [Node -> Node \cup {Null}] /\ next' \in [Node -> Node \cup {Null}]
    <2>1. prev' = [n \in Node |-> prev'[n]] /\ next' = [n \in Node |-> next'[n]]
      BY DEF clear
    <2> QED BY <1>2, <2>1
  <1> QED BY <1>2, <1>3 DEF Linked, clear

(* Whatever nodes come and go, in whatever order, the pointers of the nodes*)
(* are those of a sequence without repetitions, and a node outside the list*)
(* has null pointers, so that it can be pushed again.                      *)
THEOREM StaysLinked == SpecList => []IsList
  <1>1. InitList => IsList
    <2>1. InitList => Linked(<<>>)
      BY DEF InitList, Linked
    <2>2. <<>> \in Seq(Node)
      OBVIOUS
    <2> QED BY <2>1, <2>2 DEF IsList
  <1>2. IsList /\ [NextList]_listVars => IsList'
    <2> SUFFICES ASSUME IsList, [NextList]_listVars PROVE IsList'
      OBVIOUS
    <2>1. PICK s \in Seq(Node) : Linked(s)
      BY DEF IsList
    <2>2. CASE clear
      <3>1. Linked(<<>>)'
        BY <2>1, <2>2, ClearEmpties
      <3>2. <<>> \in Seq(Node)
        OBVIOUS
      <3> QED BY <3>1, <3>2 DEF IsList
    <2>3. ASSUME NEW n \in Node, push_back(n) PROVE IsList'
      <3>1. Append(s, n) \in Seq(Node) /\ Linked(Append(s, n))'
        BY <2>1, <2>3, PushBackAppends
      <3> QED BY <3>1 DEF IsList
    <2>4. ASSUME NEW n \in Node, remove(n) PROVE IsList'
      <3>1. PICK k \in 1 .. Len(s) : Linked(Without(s, k))'
        BY <2>1, <2>4, RemoveDrops
      <3> DEFINE t == Without(s, k)
      <3>2. t \in Seq(Node) /\ t' = t
        BY WithoutFacts
      <3>3. Linked(t)'
        BY <3>1
      <3> HIDE DEF t
      <3> QED BY <3>2, <3>3 DEF IsList
    <2>5. CASE UNCHANGED listVars
      BY <2>1, <2>5 DEF IsList, Linked, listVars
    <2> QED BY <2>2, <2>3, <2>4, <2>5 DEF NextList
  <1> QED BY <1>1, <1>2, PTL DEF SpecList

-----------------------------------------------------------------------------
(* The registry.                                                           *)

(* Only constructors and destructors of records touch the list: a registry *)
(* is a list, whatever initialize and finalize do in between.              *)
LEMMA RegistryIsList == Spec => SpecList
  <1>1. Init => InitList
    BY DEF Init
  <1>2. [Next]_vars => [NextList]_listVars
    <2> SUFFICES ASSUME [Next]_vars PROVE [NextList]_listVars
      OBVIOUS
    <2>1. ASSUME NEW r \in Node, Register(r) PROVE NextList
      BY <2>1 DEF Register, NextList
    <2>2. ASSUME NEW r \in Node, Unregister(r) PROVE NextList
      BY <2>2 DEF Unregister, NextList
    <2>3. CASE Initialize
      BY <2>3 DEF Initialize
    <2>4. ASSUME NEW m \in Multipliers, HashAttempt(m) PROVE UNCHANGED listVars
      BY <2>4 DEF HashAttempt
    <2>5. CASE Finalize
      BY <2>5 DEF Finalize
    <2>6. CASE UNCHANGED vars
      BY <2>6 DEF vars
    <2> QED BY <2>1, <2>2, <2>3, <2>4, <2>5, <2>6 DEF Next
  <1> QED BY <1>1, <1>2, PTL DEF Spec, SpecList

(* However records are registered and removed, between calls of initialize *)
(* and finalize, the list of records is well linked.                       *)
THEOREM RegistryLinked == Spec => []IsList
  BY RegistryIsList, StaysLinked, PTL

-----------------------------------------------------------------------------
(* An element in front of a sequence.                                      *)
LEMMA ConsIs ==
  ASSUME NEW T, NEW x \in T, NEW t \in Seq(T)
  PROVE  /\ <<x>> \o t \in Seq(T) /\ Len(<<x>> \o t) = Len(t) + 1
         /\ (<<x>> \o t)[1] = x
         /\ \A j \in 2 .. Len(t) + 1 : (<<x>> \o t)[j] = t[j - 1]
  <1> DEFINE h == <<x>>
  <1>1. h \in Seq(T) /\ Len(h) = 1 /\ h[1] = x
    OBVIOUS
  <1> HIDE DEF h
  <1>2. /\ h \o t \in Seq(T) /\ Len(h \o t) = Len(t) + 1
        /\ \A j \in 1 .. Len(t) + 1 : (h \o t)[j] = IF j <= 1 THEN h[j] ELSE t[j - 1]
    <2>1. /\ h \o t \in Seq(T) /\ Len(h \o t) = Len(h) + Len(t)
          /\ \A j \in 1 .. Len(h) + Len(t) : (h \o t)[j] = IF j <= Len(h) THEN h[j] ELSE t[j - Len(h)]
      BY <1>1, ConcatProperties
    <2>2. Len(t) \in Nat
      OBVIOUS
    <2> QED BY <1>1, <2>1, <2>2
  <1>3. 1 \in 1 .. Len(t) + 1
    OBVIOUS
  <1> QED BY <1>1, <1>2, <1>3 DEF h

(* The loop over the list meets the nodes of its sequence, in order.       *)
LEMMA RestOf ==
  ASSUME NEW s \in Seq(Node), NEW i \in 1 .. Len(s)
  PROVE  /\ SubSeq(s, i, Len(s)) = <<s[i]>> \o SubSeq(s, i + 1, Len(s))
         /\ SubSeq(s, i, Len(s)) \in Seq(Node)
         /\ SubSeq(s, Len(s) + 1, Len(s)) = <<>>
         /\ SubSeq(s, 1, Len(s)) = s
  <1> DEFINE L == Len(s)
             Rest(k) == SubSeq(s, k, L)
  <1>1. L \in Nat /\ i \in Nat /\ i >= 1 /\ i <= L
    OBVIOUS
  <1>2. \A k \in 1 .. L + 1 : /\ Rest(k) \in Seq(Node) /\ Len(Rest(k)) = L - k + 1
                              /\ \A j \in 1 .. L - k + 1 : Rest(k)[j] = s[k + j - 1]
    <2> SUFFICES ASSUME NEW k \in 1 .. L + 1
                 PROVE /\ Rest(k) \in Seq(Node) /\ Len(Rest(k)) = L - k + 1
                       /\ \A j \in 1 .. L - k + 1 : Rest(k)[j] = s[k + j - 1]
      OBVIOUS
    <2>1. \A j \in k .. L : s[j] \in Node
      OBVIOUS
    <2> QED BY <2>1, SubSeqProperties
  <1>3. Rest(i) = <<s[i]>> \o Rest(i + 1)
    <2>1. i \in 1 .. L + 1 /\ i + 1 \in 1 .. L + 1
      BY <1>1
    <2>2. /\ Rest(i) \in Seq(Node) /\ Len(Rest(i)) = L - i + 1
          /\ \A j \in 1 .. L - i + 1 : Rest(i)[j] = s[i + j - 1]
      BY <1>2, <2>1
    <2>3. /\ Rest(i + 1) \in Seq(Node) /\ Len(Rest(i + 1)) = L - i
          /\ \A j \in 1 .. L - i : Rest(i + 1)[j] = s[i + j]
      <3> HIDE DEF Rest, L
      <3>1. L - (i + 1) + 1 = L - i /\ \A j \in 1 .. L - i : (i + 1) + j - 1 = i + j
        BY <1>1
      <3> QED BY <1>2, <2>1, <3>1
    <2>4. s[i] \in Node
      OBVIOUS
    <2> HIDE DEF Rest, L
    <2>a. /\ <<s[i]>> \o Rest(i + 1) \in Seq(Node)
          /\ Len(<<s[i]>> \o Rest(i + 1)) = (L - i) + 1
          /\ (<<s[i]>> \o Rest(i + 1))[1] = s[i]
          /\ \A j \in 2 .. (L - i) + 1 : (<<s[i]>> \o Rest(i + 1))[j] = Rest(i + 1)[j - 1]
      BY <2>3, <2>4, ConsIs
    <2>b. \A j \in 2 .. (L - i) + 1 : j - 1 \in 1 .. L - i /\ i + (j - 1) = i + j - 1
      BY <1>1
    <2>5. /\ <<s[i]>> \o Rest(i + 1) \in Seq(Node)
          /\ Len(<<s[i]>> \o Rest(i + 1)) = L - i + 1
          /\ \A j \in 1 .. L - i + 1 : (<<s[i]>> \o Rest(i + 1))[j] = s[i + j - 1]
      BY <1>1, <2>3, <2>a, <2>b
    <2> QED BY <1>1, <2>2, <2>5, SeqEqual
  <1>4. Rest(L + 1) = <<>>
    <2>1. Rest(L + 1) \in Seq(Node) /\ Len(Rest(L + 1)) = 0
      BY <1>1, <1>2
    <2> HIDE DEF Rest, L
    <2> QED BY <2>1
  <1>5. Rest(1) = s
    <2>1. Rest(1) \in Seq(Node) /\ Len(Rest(1)) = L /\ \A j \in 1 .. L : Rest(1)[j] = s[j]
      BY <1>1, <1>2
    <2> HIDE DEF Rest
    <2> QED BY <2>1, SeqEqual
  <1> QED BY <1>1, <1>2, <1>3, <1>4, <1>5

(* The recursion over the next pointers.                                   *)
IsLoop(f) == f = [n \in Node \cup {Null} |-> IF n = Null THEN <<>> ELSE <<n>> \o f[next[n]]]

(* There is a function that satisfies it, when the list is well linked.    *)
LEMMA LoopExists ==
  ASSUME NEW s \in Seq(Node), Linked(s)
  PROVE  \E f : IsLoop(f)
  <1> DEFINE L == Len(s)
             Place(n) == CHOOSE i \in 1 .. L : s[i] = n
             In(n) == \E i \in 1 .. L : s[i] = n
             g == [n \in Node \cup {Null} |->
                     IF n = Null THEN <<>>
                     ELSE IF In(n) THEN SubSeq(s, Place(n), L) ELSE <<n>>]
  <1>1. /\ L \in Nat
        /\ \A i \in 1 .. L : s[i] \in Node /\ s[i] # Null
        /\ \A i, j \in 1 .. L : s[i] = s[j] => i = j
        /\ L # 0 => next[s[L]] = Null
        /\ \A i \in 1 .. L - 1 : next[s[i]] = s[i + 1]
    BY LinkedFacts, NullAssumption
  <1>2. \A i \in 1 .. L : Place(s[i]) = i /\ In(s[i])
    BY <1>1
  <1>3. \A i \in 1 .. L : g[s[i]] = SubSeq(s, i, L)
    BY <1>1, <1>2
  <1>4. g[Null] = <<>>
    OBVIOUS
  <1>5. ASSUME NEW n \in Node
        PROVE  g[n] = <<n>> \o g[next[n]]
    <2>1. CASE In(n)
      <3>1. PICK i \in 1 .. L : s[i] = n
        BY <2>1
      <3>2. g[n] = <<n>> \o SubSeq(s, i + 1, L)
        BY <1>3, <3>1, RestOf
      <3>3. CASE i = L
        <4>1. SubSeq(s, i + 1, L) = <<>> /\ next[n] = Null
          BY <1>1, <3>1, <3>3, RestOf
        <4> QED BY <1>4, <3>2, <4>1
      <3>4. CASE i # L
        <4>1. i \in 1 .. L - 1 /\ i + 1 \in 1 .. L
          BY <1>1, <3>1, <3>4
        <4>2. next[n] = s[i + 1]
          BY <1>1, <3>1, <4>1
        <4> HIDE DEF g
        <4> QED BY <1>3, <3>2, <4>1, <4>2
      <3> QED BY <3>3, <3>4
    <2>2. CASE ~ In(n)
      <3>1. n # Null /\ g[n] = <<n>>
        BY <2>2, NullAssumption
      <3>2. next[n] = Null
        BY <2>2, <1>1 DEF Linked
      <3>3. <<n>> \o <<>> = <<n>>
        OBVIOUS
      <3> HIDE DEF g
      <3> QED BY <1>4, <3>1, <3>2, <3>3
    <2> QED BY <2>1, <2>2
  <1>6. g = [n \in Node \cup {Null} |-> IF n = Null THEN <<>> ELSE <<n>> \o g[next[n]]]
    <2>1. g = [n \in Node \cup {Null} |-> g[n]]
      OBVIOUS
    <2> HIDE DEF g
    <2>2. \A n \in Node \cup {Null} : g[n] = IF n = Null THEN <<>> ELSE <<n>> \o g[next[n]]
      BY <1>4, <1>5
    <2> QED BY <2>1, <2>2
  <1> HIDE DEF g
  <1> QED BY <1>6 DEF IsLoop

(* The loop meets the records of the list, in its order.                   *)
LEMMA RecordsAre ==
  ASSUME NEW s \in Seq(Node), Linked(s)
  PROVE  Records = s
  <1> DEFINE L == Len(s)
             f == CHOOSE f : IsLoop(f)
  <1>1. IsLoop(f)
    BY LoopExists
  <1>2. Records = f[first]
    BY DEF Records, IsLoop
  <1> HIDE DEF f
  <1>3. /\ L \in Nat
        /\ \A i \in 1 .. L : s[i] \in Node /\ s[i] # Null
        /\ L = 0 => first = Null /\ s = <<>>
        /\ L # 0 => first = s[1] /\ next[s[L]] = Null
        /\ \A i \in 1 .. L - 1 : next[s[i]] = s[i + 1]
    BY LinkedFacts, NullAssumption
  <1>4. f[Null] = <<>> /\ \A n \in Node : f[n] = <<n>> \o f[next[n]]
    BY <1>1, NullAssumption DEF IsLoop
  <1> DEFINE S == {k \in 0 .. L : k # 0 => f[s[L - k + 1]] = SubSeq(s, L - k + 1, L)}
  <1>5. 0 \in S
    BY <1>3
  <1>6. ASSUME NEW k \in 1 .. L, k - 1 \in S PROVE k \in S
    <2> DEFINE i == L - k + 1
    <2>1. i \in 1 .. L /\ k \in 0 .. L /\ i + 1 = L - (k - 1) + 1
      BY <1>3, <1>6
    <2>2. SubSeq(s, i, L) = <<s[i]>> \o SubSeq(s, i + 1, L)
      BY <2>1, RestOf
    <2>3. f[s[i]] = <<s[i]>> \o f[next[s[i]]]
      BY <1>3, <1>4, <2>1
    <2>4. CASE k = 1
      <3>1. i = L /\ L # 0
        BY <2>1, <2>4
      <3>2. next[s[i]] = Null
        BY <1>3, <3>1
      <3>3. SubSeq(s, i + 1, L) = <<>>
        BY <2>1, <3>1, RestOf
      <3>4. f[s[i]] = SubSeq(s, i, L)
        BY <1>4, <2>2, <2>3, <3>2, <3>3
      <3> QED BY <2>1, <3>4
    <2>5. CASE k # 1
      <3>1. i \in 1 .. L - 1 /\ k - 1 # 0
        BY <1>3, <2>1, <2>5
      <3>2. next[s[i]] = s[i + 1]
        BY <1>3, <3>1
      <3>3. f[s[i + 1]] = SubSeq(s, i + 1, L)
        BY <1>6, <2>1, <3>1
      <3>4. f[s[i]] = SubSeq(s, i, L)
        BY <2>2, <2>3, <3>2, <3>3
      <3> QED BY <2>1, <3>4
    <2> QED BY <2>4, <2>5
  <1>7. 0 .. L \subseteq S
    <2> HIDE DEF S
    <2> QED BY <1>3, <1>5, <1>6, InductionTo
  <1>8. CASE L = 0
    BY <1>2, <1>3, <1>4, <1>8
  <1>9. CASE L # 0
    <2>1. L \in 0 .. L /\ L - L + 1 = 1 /\ 1 \in 1 .. L
      BY <1>3, <1>9
    <2>2. f[s[1]] = SubSeq(s, 1, L)
      BY <1>7, <1>9, <2>1
    <2>3. SubSeq(s, 1, L) = s
      BY <2>1, RestOf
    <2> QED BY <1>2, <1>3, <1>9, <2>2, <2>3
  <1> QED BY <1>8, <1>9

(* Only the members of the list are met.                                   *)
LEMMA RecordsOfList ==
  ASSUME IsList
  PROVE  Records \in Seq(Node) /\ Linked(Records)
  <1>1. PICK s \in Seq(Node) : Linked(s)
    BY DEF IsList
  <1>2. Records = s
    BY <1>1, RecordsAre
  <1> QED BY <1>1, <1>2

-----------------------------------------------------------------------------
(* The records of a class, the variable that it gets, and the type ids.    *)
LEMMA RecordsOfClass ==
  ASSUME IsList, NEW c
  PROVE  /\ RecordsOf(c) \in Seq(Node)
         /\ \A r : r \in ToSet(RecordsOf(c)) <=> r \in ToSet(Records) /\ ClassOf[r] = c
  <1> DEFINE s == Records
             ss == [i \in DOMAIN s |-> IF ClassOf[s[i]] = c THEN <<s[i]>> ELSE <<>>]
  <1>1. s \in Seq(Node) /\ DOMAIN s = 1 .. Len(s) /\ Len(s) \in Nat
    BY RecordsOfList
  <1>2. RecordsOf(c) = FlattenSeq(ss)
    BY DEF RecordsOf
  <1> HIDE DEF s
  <1>3. \A i \in 1 .. Len(s) : s[i] \in Node
    BY <1>1
  <1>4. ss \in Seq(Seq(Node)) /\ DOMAIN ss = 1 .. Len(s)
    <2>1. \A i \in 1 .. Len(s) : ss[i] \in Seq(Node)
      BY <1>1, <1>3
    <2>2. ss \in [1 .. Len(s) -> Seq(Node)]
      BY <1>1, <2>1
    <2> DEFINE T == Seq(Node)
    <2> HIDE DEF ss, T
    <2>3. ss \in [1 .. Len(s) -> T]
      BY <2>2 DEF T
    <2>4. ss \in Seq(T)
      BY <1>1, <2>3
    <2> QED BY <2>3, <2>4 DEF T
  <1>5. \A i \in 1 .. Len(s) : \A r : r \in ToSet(ss[i]) <=> ClassOf[s[i]] = c /\ r = s[i]
    <2> SUFFICES ASSUME NEW i \in 1 .. Len(s), NEW r
                 PROVE  r \in ToSet(ss[i]) <=> ClassOf[s[i]] = c /\ r = s[i]
      OBVIOUS
    <2>1. CASE ClassOf[s[i]] = c
      <3>1. ss[i] = <<s[i]>>
        BY <1>1, <2>1
      <3> QED BY <2>1, <3>1 DEF ToSet
    <2>2. CASE ClassOf[s[i]] # c
      <3>1. ss[i] = <<>>
        BY <1>1, <2>2
      <3> QED BY <2>2, <3>1 DEF ToSet
    <2> QED BY <2>1, <2>2
  <1> HIDE DEF ss
  <1>6. /\ FlattenSeq(ss) \in Seq(Node)
        /\ \A r : r \in ToSet(FlattenSeq(ss)) <=> \E i \in 1 .. Len(s) : r \in ToSet(ss[i])
    BY <1>4, FlattenRange
  <1>7. \A r : r \in ToSet(s) <=> \E i \in 1 .. Len(s) : r = s[i]
    BY <1>1 DEF ToSet
  <1>8. \A r : r \in ToSet(FlattenSeq(ss)) <=> r \in ToSet(s) /\ ClassOf[r] = c
    <2> SUFFICES ASSUME NEW r
                 PROVE  r \in ToSet(FlattenSeq(ss)) <=> r \in ToSet(s) /\ ClassOf[r] = c
      OBVIOUS
    <2>1. r \in ToSet(FlattenSeq(ss)) <=> \E i \in 1 .. Len(s) : r \in ToSet(ss[i])
      BY <1>6
    <2>2. (\E i \in 1 .. Len(s) : r \in ToSet(ss[i]))
            <=> (\E i \in 1 .. Len(s) : ClassOf[s[i]] = c /\ r = s[i])
      BY <1>5
    <2>3. r \in ToSet(s) <=> \E i \in 1 .. Len(s) : r = s[i]
      BY <1>7
    <2> QED BY <2>1, <2>2, <2>3
  <1> QED BY <1>2, <1>6, <1>8 DEF s

(* The static_vptr of a class object is that of a record of the class.     *)
LEMMA VariableIs ==
  ASSUME IsList, NEW c \in Registered
  PROVE  \E r \in ToSet(Records) : ClassOf[r] = c /\ VariableOf(c) = StaticOf(r)
  <1>1. PICK r \in ToSet(Records) : ClassOf[r] = c
    BY DEF Registered
  <1> DEFINE t == RecordsOf(c)
  <1>2. t \in Seq(Node) /\ r \in ToSet(t)
    BY <1>1, RecordsOfClass
  <1>3. t[1] \in ToSet(t)
    <2> HIDE DEF t
    <2>1. Len(t) \in Nat /\ DOMAIN t = 1 .. Len(t) /\ DOMAIN t # {}
      BY <1>2 DEF ToSet
    <2> QED BY <2>1 DEF ToSet
  <1>4. t[1] \in ToSet(Records) /\ ClassOf[t[1]] = c
    BY <1>3, RecordsOfClass
  <1> QED BY <1>4 DEF VariableOf

(* The type ids of the class objects are those of the records.             *)
LEMMA TypesAre ==
  ASSUME IsList
  PROVE  /\ Len(Types) \in Nat /\ DOMAIN Types = 1 .. Len(Types)
         /\ \A t : t \in ToSet(Types) <=> \E r \in ToSet(Records) : t = TypeOf[r]
         /\ \A i \in DOMAIN Types : Types[i] \in 0 .. Pow2[Width] - 2
  <1> DEFINE s == Records
             IsFirst(i) == \A j \in 1 .. i - 1 : ClassOf[s[j]] # ClassOf[s[i]]
             ss == [i \in DOMAIN s |-> IF IsFirst(i) THEN RecordsOf(ClassOf[s[i]]) ELSE <<>>]
             ordered == FlattenSeq(ss)
             types == [i \in DOMAIN ordered |-> TypeOf[ordered[i]]]
  <1>1. Types = types
    BY DEF Types
  <1>2. s \in Seq(Node) /\ DOMAIN s = 1 .. Len(s) /\ Len(s) \in Nat
    BY RecordsOfList
  <1>3. \A c : /\ RecordsOf(c) \in Seq(Node)
               /\ \A r : r \in ToSet(RecordsOf(c)) <=> r \in ToSet(s) /\ ClassOf[r] = c
    BY RecordsOfClass
  <1> HIDE DEF s
  <1>4. ss \in Seq(Seq(Node)) /\ DOMAIN ss = 1 .. Len(s)
    <2> DEFINE T == Seq(Node)
    <2>1. \A i \in 1 .. Len(s) : ss[i] \in T
      <3>1. <<>> \in Seq(Node)
        OBVIOUS
      <3> HIDE DEF IsFirst
      <3> QED BY <1>2, <1>3, <3>1
    <2>2. ss = [i \in 1 .. Len(s) |-> ss[i]]
      BY <1>2
    <2> HIDE DEF ss, T
    <2>3. ss \in [1 .. Len(s) -> T]
      BY <2>1, <2>2
    <2>4. ss \in Seq(T)
      BY <1>2, <2>3
    <2> QED BY <2>3, <2>4 DEF T
  <1>5. \A r : (\E i \in 1 .. Len(s) : r \in ToSet(ss[i])) <=> r \in ToSet(s)
    <2>1. ASSUME NEW r, NEW i \in 1 .. Len(s), r \in ToSet(ss[i]) PROVE r \in ToSet(s)
      <3>1. CASE IsFirst(i)
        <4>1. ss[i] = RecordsOf(ClassOf[s[i]])
          BY <1>2, <3>1
        <4> QED BY <1>3, <2>1, <4>1
      <3>2. CASE ~ IsFirst(i)
        <4>1. ss[i] = <<>>
          BY <1>2, <3>2
        <4> QED BY <2>1, <4>1 DEF ToSet
      <3> QED BY <3>1, <3>2
    <2>2. ASSUME NEW r \in ToSet(s) PROVE \E i \in 1 .. Len(s) : r \in ToSet(ss[i])
      <3> DEFINE P == {i \in 1 .. Len(s) : ClassOf[s[i]] = ClassOf[r]}
      <3>1. P \in SUBSET Nat /\ P # {}
        BY <1>2 DEF ToSet
      <3>2. PICK i \in P : \A j \in P : i <= j
        BY <3>1, LeastOfNat
      <3>3. IsFirst(i)
        BY <1>2, <3>2
      <3>4. ss[i] = RecordsOf(ClassOf[r])
        BY <1>2, <3>2, <3>3
      <3> QED BY <1>3, <3>2, <3>4
    <2> QED BY <2>1, <2>2
  <1> HIDE DEF ss
  <1>6. ordered \in Seq(Node) /\ \A r : r \in ToSet(ordered) <=> r \in ToSet(s)
    BY <1>4, <1>5, FlattenRange
  <1> HIDE DEF ordered
  <1>7. /\ Len(ordered) \in Nat /\ DOMAIN ordered = 1 .. Len(ordered)
        /\ \A i \in DOMAIN ordered : ordered[i] \in Node
    BY <1>6
  <1>8. types \in Seq(0 .. Pow2[Width] - 2)
    BY <1>7, RecordsAssumption
  <1>9. Len(types) = Len(ordered) /\ DOMAIN types = 1 .. Len(ordered)
    BY <1>7
  <1>10. \A t : t \in ToSet(types) <=> \E r \in ToSet(ordered) : t = TypeOf[r]
    BY <1>7 DEF ToSet
  <1>11. \A i \in DOMAIN types : types[i] \in 0 .. Pow2[Width] - 2
    BY <1>7, RecordsAssumption
  <1> HIDE DEF types
  <1> QED BY <1>1, <1>6, <1>7, <1>9, <1>10, <1>11 DEF s

-----------------------------------------------------------------------------
(* Powers of two, and the indexes of a hash.                               *)
LEMMA Pow2Is ==
  /\ Pow2 \in [Nat -> Nat \ {0}]
  /\ Pow2[0] = 1
  /\ \A n \in Nat : Pow2[n + 1] = 2 * Pow2[n]
  <1> DEFINE T == Nat \ {0}
             step == [n \in Nat |-> [x \in T |-> 2 * x]]
             IsPow(f) == f = [n \in Nat |-> IF n = 0 THEN 1 ELSE 2 * f[n - 1]]
  <1>1. 1 \in T /\ step \in [Nat -> [T -> T]]
    OBVIOUS
  <1>2. PICK g \in [Nat -> T] : IsRecursion(g, 1, step)
    <2> HIDE DEF T, step
    <2> QED BY <1>1, NatRecursion
  <1>3. g[0] = 1 /\ \A n \in Nat : g[n + 1] = 2 * g[n]
    BY <1>2 DEF IsRecursion
  <1>4. IsPow(g)
    <2>1. \A n \in Nat : g[n] = IF n = 0 THEN 1 ELSE 2 * g[n - 1]
      <3> SUFFICES ASSUME NEW n \in Nat, n # 0 PROVE g[n] = 2 * g[n - 1]
        BY <1>3
      <3>1. n - 1 \in Nat /\ (n - 1) + 1 = n
        OBVIOUS
      <3>2. g[(n - 1) + 1] = 2 * g[n - 1]
        BY <1>3, <3>1
      <3> QED BY <3>1, <3>2
    <2>2. g = [n \in Nat |-> g[n]]
      BY <1>2
    <2> QED BY <2>1, <2>2
  <1>5. IsPow(Pow2)
    <2>1. Pow2 = CHOOSE f : IsPow(f)
      BY DEF Pow2
    <2> HIDE DEF IsPow
    <2> QED BY <1>4, <2>1
  <1>6. Pow2[0] = 1 /\ \A n \in Nat : Pow2[n + 1] = 2 * Pow2[n]
    <2>1. \A n \in Nat : Pow2[n] = IF n = 0 THEN 1 ELSE 2 * Pow2[n - 1]
      BY <1>5
    <2>2. \A n \in Nat : n + 1 \in Nat /\ n + 1 # 0 /\ (n + 1) - 1 = n
      OBVIOUS
    <2>3. 0 \in Nat
      OBVIOUS
    <2> HIDE DEF IsPow
    <2> QED BY <2>1, <2>2, <2>3
  <1>7. DOMAIN Pow2 = Nat /\ Pow2 = [n \in Nat |-> Pow2[n]]
    BY <1>5
  <1> DEFINE S == {n \in Nat : Pow2[n] \in Nat \ {0}}
  <1>8. Nat \subseteq S
    <2>1. 0 \in S
      BY <1>6
    <2>2. \A n \in Nat : n \in S => n + 1 \in S
      BY <1>6
    <2> HIDE DEF S
    <2> QED BY <2>1, <2>2, InductionSet
  <1> QED BY <1>6, <1>7, <1>8

(* Shifts add up.                                                          *)
LEMMA Pow2Product ==
  ASSUME NEW a \in Nat, NEW b \in Nat
  PROVE  Pow2[a + b] = Pow2[a] * Pow2[b]
  <1> DEFINE S == {n \in Nat : Pow2[a + n] = Pow2[a] * Pow2[n]}
  <1>1. 0 \in S
    BY Pow2Is
  <1>2. ASSUME NEW n \in Nat, n \in S PROVE n + 1 \in S
    <2>1. Pow2[a + (n + 1)] = 2 * Pow2[a + n]
      <3>1. a + n \in Nat /\ a + (n + 1) = (a + n) + 1
        OBVIOUS
      <3> QED BY <3>1, Pow2Is
    <2>2. Pow2[n + 1] = 2 * Pow2[n]
      BY Pow2Is
    <2>3. Pow2[a] \in Nat /\ Pow2[n] \in Nat
      BY Pow2Is
    <2>4. Pow2[a + n] = Pow2[a] * Pow2[n]
      BY <1>2
    <2>5. 2 * (Pow2[a] * Pow2[n]) = Pow2[a] * (2 * Pow2[n])
      BY <2>3
    <2> QED BY <2>1, <2>2, <2>4, <2>5
  <1>3. Nat \subseteq S
    <2> HIDE DEF S
    <2> QED BY <1>1, <1>2, InductionSet
  <1> QED BY <1>3

(* The high bits of a product are an index of the table.                   *)
LEMMA IndexFits ==
  ASSUME NEW m \in Nat, NEW t \in Nat, NEW M \in Nat, M <= Width
  PROVE  Index(m, Width - M, t) \in 0 .. Pow2[M] - 1
  <1> DEFINE x == (m * t) % Pow2[Width]
             y == Pow2[Width - M]
             z == Pow2[M]
  <1>1. Width \in Nat /\ Width - M \in Nat /\ (Width - M) + M = Width
    BY HashAssumption
  <1>2. y \in Nat \ {0} /\ z \in Nat \ {0} /\ Pow2[Width] \in Nat \ {0} /\ Pow2[Width] = y * z
    BY <1>1, Pow2Is, Pow2Product
  <1>3. m * t \in Nat
    OBVIOUS
  <1>4. x \in 0 .. y * z - 1
    BY <1>2, <1>3, DivisionHas
  <1> HIDE DEF x, y, z
  <1>5. x \in Nat /\ x < y * z
    <2>1. y * z \in Nat
      BY <1>2
    <2> QED BY <1>4, <2>1
  <1>6. x \div y \in Nat /\ x % y \in 0 .. y - 1 /\ x = (x \div y) * y + (x % y)
    BY <1>2, <1>5, DivisionHas
  <1> DEFINE q == x \div y
             r == x % y
  <1> HIDE DEF q, r
  <1>7. q \in Nat /\ r \in Nat /\ q * y <= x
    <2>1. q \in Nat /\ r \in Nat /\ x = q * y + r
      BY <1>2, <1>6 DEF q, r
    <2>2. q * y \in Nat
      BY <1>2, <2>1
    <2> QED BY <2>1, <2>2, <1>5
  <1>8. q < z
    <2> SUFFICES ASSUME z <= q PROVE FALSE
      BY <1>2, <1>7
    <2>1. PICK d \in Nat : q = z + d
      <3>1. q - z \in Nat /\ q = z + (q - z)
        BY <1>2, <1>7
      <3> QED BY <3>1
    <2>2. q * y = y * z + d * y /\ d * y \in Nat /\ y * z \in Nat
      BY <1>2, <2>1
    <2> QED BY <1>5, <1>7, <2>2
  <1>9. Index(m, Width - M, t) = q
    BY DEF Index, q, x, y
  <1> QED BY <1>2, <1>7, <1>8, <1>9 DEF z

-----------------------------------------------------------------------------
(* The life of a registry.                                                 *)

(* The classes, and the type ids, of the last initialize.                  *)
KnownClasses == {ClassOf[r] : r \in known}
KnownTypes   == {TypeOf[r] : r \in known}

(* The records at the last initialize, those that have gone and those that *)
(* are there.                                                              *)
ListInv ==
    /\ IsList
    /\ ToSet(Records) \subseteq config.records
    /\ known \ gone \subseteq ToSet(Records)
    /\ initialized \/ phase = "hashing" => runs # 0
    /\ phase = "hashing" =>
         known = ToSet(Records) /\ gone = {} /\ config.policy = "vptr_vector+hash"

(* The size of the table, the shift and the bounds belong together.        *)
IsTable(M) ==
    /\ M \in 0 .. Width
    /\ hash.shift = Width - M
    /\ DOMAIN hash.control = 0 .. Pow2[M] - 1
    /\ hash.max_value \in 0 .. Pow2[M] - 1

(* While the search runs, its type ids are those of the list, and the size *)
(* is that of its pass.                                                    *)
HashInv ==
    /\ hash = [mult |-> hash.mult, shift |-> hash.shift, min_value |-> hash.min_value,
               max_value |-> hash.max_value, control |-> hash.control]
    /\ search = [types |-> search.types, pass |-> search.pass, attempts |-> search.attempts,
                 M |-> search.M]
    /\ hash.mult \in Nat /\ hash.shift \in 0 .. Width
    /\ phase = "hashing" =>
         /\ search.types = Types
         /\ search.M = FirstM(Cardinality(Registered)) + search.pass
         /\ IsTable(search.M)

(* V has the variables that the last initialize wrote.  One is left alone  *)
(* as long as a record that it belongs to is there.                        *)
StillThere(V, c) == \E q \in known \ gone : ClassOf[q] = c /\ StaticOf(q) = V[c]

StaticsKept(V) ==
    /\ \A c \in KnownClasses :
         /\ \E r \in known : ClassOf[r] = c /\ StaticOf(r) = V[c]
         /\ StillThere(V, c) => static_vptr[V[c]] = Current(c)
    /\ phase = "hashing" => \A c \in KnownClasses : V[c] = VariableOf(c)

(* What the last initialize stored for a class, and where: the vector, the *)
(* map, when it was empty before, and the vector behind the hash.          *)
NewPointer(V, c) == IF config.indirect THEN Address(V[c]) ELSE Current(c)

VectorStores(V) ==
    initialized => \A r \in known : /\ TypeOf[r] \in DOMAIN vptrs
                                    /\ vptrs[TypeOf[r]] = NewPointer(V, ClassOf[r])

MapStores(V) ==
    /\ runs = 0 => DOMAIN vptrs = {}
    /\ initialized /\ runs = 1 =>
         /\ DOMAIN vptrs = KnownTypes
         /\ \A r \in known : vptrs[TypeOf[r]] = NewPointer(V, ClassOf[r])

(* A map that is never cleared, but stores the addresses of variables that *)
(* classes have for good.                                                  *)
MapLasts ==
    config.indirect /\ config.shared =>
      /\ \A t \in DOMAIN vptrs : vptrs[t] = Address(ClassOfType(t))
      /\ initialized => \A r \in known : TypeOf[r] \in DOMAIN vptrs

HashStores(V) ==
    Ready =>
      /\ \E M : IsTable(M)
      /\ DOMAIN vptrs = 0 .. hash.max_value
      /\ \A i \in DOMAIN hash.control : hash.control[i] \in KnownTypes \cup {NoType}
      /\ \A r \in known :
           /\ HashIndex(TypeOf[r]) \in hash.min_value .. hash.max_value
           /\ hash.control[HashIndex(TypeOf[r])] = TypeOf[r]
           /\ vptrs[HashIndex(TypeOf[r])] = NewPointer(V, ClassOf[r])

Stored(V) ==
    /\ config.policy = "vptr_vector" => VectorStores(V)
    /\ config.policy = "vptr_map" => MapStores(V) /\ MapLasts
    /\ config.policy = "vptr_vector+hash" => HashStores(V)

LifeInv == TypeOK /\ ListInv /\ HashInv /\ \E V : StaticsKept(V) /\ Stored(V)

-----------------------------------------------------------------------------
(* Records come and go.                                                    *)
LinkedRecords == \A s \in Seq(Node) : Linked(s) => Records = s

LEMMA RecordsThen == LinkedRecords'
  <1>1. LinkedRecords
    BY RecordsAre DEF LinkedRecords
  <1> QED BY <1>1, PTL

(* What a registration and a removal make of the list.                     *)
LEMMA AfterPush ==
  ASSUME IsList, NEW n \in Node, push_back(n)
  PROVE  /\ IsList' /\ ToSet(Records)' = ToSet(Records) \cup {n}
         /\ Records' = Append(Records, n)
  <1>1. PICK s \in Seq(Node) : Linked(s) /\ Records = s
    BY RecordsOfList
  <1>2. Append(s, n) \in Seq(Node) /\ Linked(Append(s, n))'
    BY <1>1, PushBackAppends
  <1>3. \A t \in Seq(Node) : Linked(t)' => Records' = t
    BY RecordsThen DEF LinkedRecords
  <1> DEFINE a == Append(s, n)
  <1>4. a \in Seq(Node) /\ Linked(a)'
    BY <1>2
  <1> HIDE DEF a
  <1>5. Records' = a
    BY <1>3, <1>4
  <1>6. ToSet(a) = ToSet(s) \cup {n}
    <2>1. /\ Len(s) \in Nat /\ DOMAIN s = 1 .. Len(s) /\ DOMAIN a = 1 .. Len(s) + 1
          /\ \A i \in 1 .. Len(s) : a[i] = s[i]
          /\ a[Len(s) + 1] = n
      BY <1>1 DEF a
    <2> QED BY <2>1 DEF ToSet
  <1>7. IsList'
    BY <1>4 DEF IsList
  <1>8. ToSet(Records)' = ToSet(Records')
    OBVIOUS
  <1> QED BY <1>5, <1>6, <1>1, <1>7, <1>8 DEF a

LEMMA AfterRemove ==
  ASSUME IsList, NEW n \in Node, remove(n)
  PROVE  /\ IsList' /\ ToSet(Records)' = ToSet(Records) \ {n}
         /\ \E k \in 1 .. Len(Records) : Records[k] = n /\ Records' = Without(Records, k)
  <1>1. PICK s \in Seq(Node) : Linked(s) /\ Records = s
    BY RecordsOfList
  <1>2. PICK k \in 1 .. Len(s) : s[k] = n /\ Linked(Without(s, k))'
    BY <1>1, RemoveDrops
  <1>3. \A t \in Seq(Node) : Linked(t)' => Records' = t
    BY RecordsThen DEF LinkedRecords
  <1> DEFINE a == Without(s, k)
  <1>4. /\ a \in Seq(Node) /\ DOMAIN a = 1 .. Len(s) - 1
        /\ \A i \in 1 .. Len(s) - 1 : i < k => a[i] = s[i]
        /\ \A i \in 1 .. Len(s) - 1 : i >= k => a[i] = s[i + 1]
    BY <1>1, WithoutFacts
  <1>5. Linked(a)'
    BY <1>2
  <1> HIDE DEF a
  <1>6. Records' = a
    BY <1>3, <1>4, <1>5
  <1>7. /\ Len(s) \in Nat /\ DOMAIN s = 1 .. Len(s)
        /\ \A i, j \in 1 .. Len(s) : s[i] = s[j] => i = j
    BY <1>1, LinkedFacts
  <1>8. ToSet(a) = ToSet(s) \ {n}
    <2>1. ASSUME NEW x \in ToSet(a) PROVE x \in ToSet(s) \ {n}
      <3>1. PICK i \in 1 .. Len(s) - 1 : x = a[i]
        BY <1>4, <2>1 DEF ToSet
      <3> DEFINE j == IF i < k THEN i ELSE i + 1
      <3>2. j \in 1 .. Len(s) /\ j # k
        BY <1>2, <1>7, <3>1
      <3>3. x = s[j]
        BY <1>4, <1>7, <3>1
      <3> HIDE DEF j
      <3> QED BY <1>2, <1>7, <3>2, <3>3 DEF ToSet
    <2>2. ASSUME NEW x \in ToSet(s), x # n PROVE x \in ToSet(a)
      <3>1. PICK j \in 1 .. Len(s) : x = s[j]
        BY <1>7, <2>2 DEF ToSet
      <3>2. j # k
        BY <1>2, <2>2, <3>1
      <3> DEFINE i == IF j < k THEN j ELSE j - 1
      <3>3. i \in 1 .. Len(s) - 1 /\ (i < k => i = j) /\ (i >= k => i + 1 = j)
        BY <1>2, <1>7, <3>1, <3>2
      <3>4. x = a[i]
        BY <1>2, <1>4, <1>7, <3>1, <3>3
      <3> HIDE DEF i
      <3> QED BY <1>4, <3>3, <3>4 DEF ToSet
    <2> QED BY <2>1, <2>2
  <1>9. IsList'
    BY <1>4, <1>5 DEF IsList
  <1>10. ToSet(Records)' = ToSet(Records')
    OBVIOUS
  <1>11. \E j \in 1 .. Len(s) : s[j] = n /\ Records' = Without(s, j)
    BY <1>2, <1>6 DEF a
  <1> QED BY <1>6, <1>8, <1>1, <1>9, <1>10, <1>11

(* What depends on the list only.                                          *)
LEMMA ListKept ==
  ASSUME UNCHANGED listVars, config' = config
  PROVE  /\ Records' = Records /\ ToSet(Records)' = ToSet(Records)
         /\ Registered' = Registered /\ Types' = Types
         /\ \A c : VariableOf(c)' = VariableOf(c)
         /\ IsList => IsList'
  <1>1. Records' = Records
    BY DEF Records, listVars
  <1>2. ToSet(Records)' = ToSet(Records) /\ Registered' = Registered
    BY <1>1 DEF Registered, ToSet
  <1>3. \A c : RecordsOf(c)' = RecordsOf(c)
    BY <1>1 DEF RecordsOf
  <1>4. Types' = Types
    BY <1>1, <1>3 DEF Types
  <1>5. \A c : VariableOf(c)' = VariableOf(c)
    BY <1>3 DEF VariableOf, StaticOf
  <1>6. IsList => IsList'
    BY DEF IsList, Linked, listVars
  <1> QED BY <1>1, <1>2, <1>4, <1>5, <1>6

-----------------------------------------------------------------------------
(* The steps.                                                              *)
LEMMA WidthIs == Width \in Nat /\ Pow2[Width] \in Nat \ {0} /\ 0 \in 0 .. Pow2[Width] - 1
  BY HashAssumption, Pow2Is

(* The steps, one by one.                                                  *)
LEMMA InitLife ==
  ASSUME Init
  PROVE  LifeInv
  <1>1. IsList
    <2>1. Linked(<<>>) /\ <<>> \in Seq(Node)
      BY DEF Init, InitList, Linked
    <2> QED BY <2>1 DEF IsList
  <1>2. ToSet(Records) = {}
    <2>1. Linked(<<>>) /\ <<>> \in Seq(Node)
      BY DEF Init, InitList, Linked
    <2>2. Records = <<>>
      BY <2>1, RecordsAre
    <2> QED BY <2>2 DEF ToSet
  <1>3. TypeOK
    <2>1. /\ search.pass = 0 /\ search.attempts = 0 /\ hash.min_value = 0 /\ hash.max_value = 0
          /\ config \in Configs /\ phase = "idle" /\ initialized = FALSE /\ epoch = 0 /\ runs = 0
          /\ vptrs = <<>> /\ outcome = "success" /\ known = {} /\ gone = {}
          /\ static_vptr = [s \in Static |-> NullTable]
      BY DEF Init, InitHash
    <2>2. /\ search.pass \in 0 .. Passes - 1 /\ search.attempts \in 0 .. MaxAttempts - 1
          /\ epoch \in 0 .. MaxEpoch /\ runs \in 0 .. epoch
      BY <2>1, HashAssumption, RecordsAssumption DEF Passes
    <2>3. hash.min_value \in 0 .. Pow2[Width] - 1 /\ hash.max_value \in 0 .. Pow2[Width] - 1
      BY <2>1, WidthIs
    <2>4. DOMAIN vptrs = {}
      BY <2>1
    <2>5. static_vptr \in [Static -> Table]
      BY <2>1 DEF Table
    <2> QED BY <2>1, <2>2, <2>3, <2>4, <2>5 DEF TypeOK
  <1>4. ListInv
    BY <1>1, <1>2 DEF ListInv, Init
  <1>5. HashInv
    BY WidthIs DEF HashInv, Init, InitHash
  <1>6. StaticsKept(<<>>)
    BY DEF StaticsKept, Init, KnownClasses
  <1>7. Stored(<<>>)
    BY DEF Stored, VectorStores, MapStores, MapLasts, HashStores, Ready, Init
  <1> QED BY <1>3, <1>4, <1>5, <1>6, <1>7 DEF LifeInv

LEMMA RegisterKeeps ==
  ASSUME LifeInv, NEW r \in Node, Register(r)
  PROVE  LifeInv'
  <1>1. TypeOK /\ ListInv /\ HashInv
    BY DEF LifeInv
  <1>2. PICK V : StaticsKept(V) /\ Stored(V)
    BY DEF LifeInv
  <1>3. IsList' /\ ToSet(Records)' = ToSet(Records) \cup {r}
    BY <1>1, AfterPush DEF Register, ListInv
  <1>4. TypeOK'
    <2>1. static_vptr' \in [Static -> Table]
      <3>1. NullTable \in Table
        BY DEF Table
      <3> QED BY <1>1, <3>1 DEF TypeOK, Register
    <2> QED BY <1>1, <2>1 DEF TypeOK, Register, hashVars
  <1>5. ListInv'
    BY <1>1, <1>3 DEF ListInv, Register
  <1>6. HashInv'
    BY <1>1 DEF HashInv, Register, hashVars
  <1>7. StaticsKept(V)'
    <2>1. KnownClasses' = KnownClasses /\ phase' = "idle"
      BY DEF KnownClasses, Register
    <2>2. ASSUME NEW c \in KnownClasses, StillThere(V, c)' PROVE static_vptr'[V[c]] = Current(c)'
      <3>1. PICK q \in known \ gone : ClassOf[q] = c /\ StaticOf(q) = V[c]
        BY <2>2 DEF StillThere, StaticOf, Register
      <3>2. Exists(V[c])
        BY <1>1, <3>1 DEF Exists, ListInv
      <3>3. static_vptr[V[c]] = Current(c)
        BY <1>2, <3>1 DEF StaticsKept, StillThere
      <3>4. static_vptr'[V[c]] = static_vptr[V[c]]
        BY <1>1, <3>2 DEF Register, TypeOK
      <3> QED BY <3>3, <3>4 DEF Current, Register
    <2> QED BY <1>2, <2>1, <2>2 DEF StaticsKept, StaticOf, Register
  <1>8. Stored(V)'
    BY <1>2 DEF Stored, VectorStores, MapStores, MapLasts, HashStores, Ready, Register, hashVars, NewPointer,
                Address, Current, KnownTypes, IsTable, HashIndex
  <1> QED BY <1>4, <1>5, <1>6, <1>7, <1>8 DEF LifeInv

LEMMA UnregisterKeeps ==
  ASSUME LifeInv, NEW r \in Node, Unregister(r)
  PROVE  LifeInv'
  <1>1. TypeOK /\ ListInv /\ HashInv
    BY DEF LifeInv
  <1>2. PICK V : StaticsKept(V) /\ Stored(V)
    BY DEF LifeInv
  <1>3. IsList' /\ ToSet(Records)' = ToSet(Records) \ {r}
    BY <1>1, AfterRemove DEF Unregister, ListInv
  <1>4. TypeOK'
    BY <1>1 DEF TypeOK, Unregister, hashVars
  <1>5. ListInv'
    BY <1>1, <1>3 DEF ListInv, Unregister
  <1>6. HashInv'
    BY <1>1 DEF HashInv, Unregister, hashVars
  <1>7. StaticsKept(V)'
    <2>1. KnownClasses' = KnownClasses /\ phase' = "idle"
      BY DEF KnownClasses, Unregister
    <2>2. \A c : StillThere(V, c)' => StillThere(V, c)
      BY DEF StillThere, StaticOf, Unregister
    <2> QED BY <1>2, <2>1, <2>2 DEF StaticsKept, StaticOf, Unregister, Current
  <1>8. Stored(V)'
    BY <1>2 DEF Stored, VectorStores, MapStores, MapLasts, HashStores, Ready, Unregister, hashVars, NewPointer,
                Address, Current, KnownTypes, IsTable, HashIndex
  <1> QED BY <1>4, <1>5, <1>6, <1>7, <1>8 DEF LifeInv

LEMMA FinalizeKeeps ==
  ASSUME LifeInv, Finalize
  PROVE  LifeInv'
  <1>1. TypeOK /\ ListInv /\ HashInv
    BY DEF LifeInv
  <1>2. PICK V : StaticsKept(V) /\ Stored(V)
    BY DEF LifeInv
  <1>3. IsList' /\ ToSet(Records)' = ToSet(Records)
    BY <1>1, ListKept DEF Finalize, ListInv
  <1>4. /\ hash'.mult = hash.mult /\ hash'.min_value = hash.min_value
        /\ hash'.max_value = hash.max_value
        /\ hash' = [mult |-> hash'.mult, shift |-> hash'.shift, min_value |-> hash'.min_value,
                    max_value |-> hash'.max_value, control |-> hash'.control]
    <2>1. CASE config.policy = "vptr_vector+hash"
      <3>1. hash' = [hash EXCEPT !.control = <<>>]
        BY <2>1 DEF Finalize
      <3> QED BY <1>1, <3>1 DEF HashInv
    <2>2. CASE config.policy # "vptr_vector+hash"
      BY <1>1, <2>2 DEF HashInv, Finalize
    <2> QED BY <2>1, <2>2
  <1>5. TypeOK'
    <2>1. epoch \in Nat /\ 0 \in 0 .. epoch
      BY <1>1 DEF TypeOK
    <2>2. DOMAIN vptrs' = {}
      BY DEF Finalize
    <2> QED BY <1>1, <1>4, <2>1, <2>2 DEF TypeOK, Finalize
  <1>6. ListInv'
    BY <1>1, <1>3 DEF ListInv, Finalize
  <1>7. HashInv'
    BY <1>1, <1>4 DEF HashInv, Finalize
  <1>8. StaticsKept(V)'
    <2>1. KnownClasses' = KnownClasses /\ phase' = "idle"
      BY DEF KnownClasses, Finalize
    <2>2. \A c : StillThere(V, c)' => StillThere(V, c)
      BY DEF StillThere, StaticOf, Finalize
    <2> QED BY <1>2, <2>1, <2>2 DEF StaticsKept, StaticOf, Finalize, Current
  <1>9. Stored(V)'
    BY DEF Stored, VectorStores, MapStores, MapLasts, HashStores, Ready, Finalize
  <1> QED BY <1>5, <1>6, <1>7, <1>8, <1>9 DEF LifeInv

(* The v-table of a class leads to it, whoever it shares its variable with.*)
LEMMA VariablesDiffer ==
  ASSUME IsList, NEW c \in Registered, NEW d \in Registered, VariableOf(c) = VariableOf(d)
  PROVE  c = d
  <1>1. PICK q \in ToSet(Records) : ClassOf[q] = c /\ VariableOf(c) = StaticOf(q)
    BY VariableIs
  <1>2. PICK r \in ToSet(Records) : ClassOf[r] = d /\ VariableOf(d) = StaticOf(r)
    BY VariableIs
  <1> QED BY <1>1, <1>2 DEF StaticOf

LEMMA RecordsInStatic ==
  ASSUME IsList
  PROVE  /\ ToSet(Records) \subseteq Node /\ Registered \subseteq Class
         /\ \A c \in Registered : VariableOf(c) \in Static
  <1>1. ToSet(Records) \subseteq Node
    BY RecordsOfList DEF ToSet
  <1>2. \A r \in ToSet(Records) : ClassOf[r] \in Class /\ StaticOf(r) \in Static
    BY <1>1, RecordsAssumption DEF StaticOf, Static
  <1>3. Registered \subseteq Class
    BY <1>2 DEF Registered
  <1>4. \A c \in Registered : VariableOf(c) \in Static
    BY <1>2, VariableIs
  <1> QED BY <1>1, <1>3, <1>4

(* A type id has one record.                                               *)
LEMMA TypesDiffer ==
  ASSUME NEW r \in Node
  PROVE  ClassOfType(TypeOf[r]) = ClassOf[r]
  <1>1. \A q \in Node : TypeOf[q] = TypeOf[r] <=> q = r
    BY RecordsAssumption
  <1> QED BY <1>1 DEF ClassOfType

(* Each class gets its new v-table, in a variable of its own.              *)
LEMMA StaticsAre ==
  ASSUME IsList, TypeOK, epoch + 1 <= MaxEpoch
  PROVE  /\ StaticsWritten \in [Static -> Table]
         /\ \A c \in Registered :
              StaticsWritten[VariableOf(c)] = [class |-> c, epoch |-> epoch + 1]
  <1>1. \A c \in Registered : VariableOf(c) \in Static /\ c \in Class
    BY RecordsInStatic
  <1>2. ASSUME NEW c \in Registered
        PROVE  (CHOOSE d \in Registered : VariableOf(d) = VariableOf(c)) = c
    BY VariablesDiffer
  <1>3. epoch + 1 \in 1 .. MaxEpoch
    BY RecordsAssumption DEF TypeOK
  <1>4. ASSUME NEW c \in Registered
        PROVE  StaticsWritten[VariableOf(c)] = [class |-> c, epoch |-> epoch + 1]
    <2>1. StaticsWritten[VariableOf(c)]
            = [class |-> CHOOSE d \in Registered : VariableOf(d) = VariableOf(c), epoch |-> epoch + 1]
      BY <1>1 DEF StaticsWritten
    <2> QED BY <1>2, <2>1
  <1>5. StaticsWritten \in [Static -> Table]
    <2>1. ASSUME NEW s \in Static PROVE StaticsWritten[s] \in Table
      <3>1. CASE \E c \in Registered : VariableOf(c) = s
        <4>1. PICK c \in Registered : VariableOf(c) = s
          BY <3>1
        <4>2. StaticsWritten[s] = [class |-> c, epoch |-> epoch + 1]
          BY <1>4, <4>1
        <4> QED BY <1>1, <1>3, <4>2 DEF Table
      <3>2. CASE ~ \E c \in Registered : VariableOf(c) = s
        <4>1. StaticsWritten[s] = static_vptr[s]
          BY <3>2 DEF StaticsWritten
        <4> QED BY <4>1 DEF TypeOK
      <3> QED BY <3>1, <3>2
    <2>2. StaticsWritten = [s \in Static |-> StaticsWritten[s]]
      BY DEF StaticsWritten
    <2> HIDE DEF Table
    <2> QED BY <2>1, <2>2
  <1> QED BY <1>4, <1>5

(* What the policies store is what the variables of the classes have.      *)
LEMMA PointersTyped ==
  ASSUME IsList, NEW vptr \in [Static -> Table], NEW c \in Registered
  PROVE  Pointer(c, vptr) \in IF config.indirect THEN [var : Static] \cup {NullTable} ELSE Table
  <1>1. VariableOf(c) \in Static
    BY RecordsInStatic
  <1> QED BY <1>1 DEF Pointer, Address

(* The vector, when the indices of the type ids differ and fit.            *)
LEMMA FilledIs ==
  ASSUME IsList, NEW size \in Nat, NEW at, NEW vptr \in [Static -> Table],
         \A t \in DOMAIN at : t \in ToSet(Types) /\ at[t] \in 0 .. size - 1,
         \A t, u \in DOMAIN at : at[t] = at[u] => t = u,
         \A i \in DOMAIN vptrs :
           vptrs[i] \in IF config.indirect THEN [var : Static] \cup {NullTable} ELSE Table
  PROVE  LET filled == Filled(Resized(size), at, vptr)
         IN /\ DOMAIN filled = 0 .. size - 1
            /\ \A t \in DOMAIN at : filled[at[t]] = Pointer(ClassOfType(t), vptr)
            /\ \A i \in 0 .. size - 1 :
                 filled[i] \in IF config.indirect THEN [var : Static] \cup {NullTable} ELSE Table
  <1> DEFINE filled == Filled(Resized(size), at, vptr)
             Entries == IF config.indirect THEN [var : Static] \cup {NullTable} ELSE Table
  <1>1. DOMAIN filled = 0 .. size - 1
    BY DEF Filled, Resized
  <1>2. ASSUME NEW t \in DOMAIN at
        PROVE  filled[at[t]] = Pointer(ClassOfType(t), vptr)
    <2>1. at[t] \in 0 .. size - 1
      OBVIOUS
    <2>2. (CHOOSE u \in DOMAIN at : at[u] = at[t]) = t
      OBVIOUS
    <2> QED BY <2>1, <2>2 DEF Filled, Resized
  <1>3. ASSUME NEW i \in 0 .. size - 1
        PROVE  filled[i] \in Entries
    <2>1. CASE \E t \in DOMAIN at : at[t] = i
      <3>1. PICK t \in DOMAIN at : at[t] = i
        BY <2>1
      <3>2. PICK r \in ToSet(Records) : t = TypeOf[r]
        BY TypesAre
      <3>3. r \in Node /\ ClassOf[r] \in Registered
        BY RecordsInStatic DEF Registered
      <3>4. filled[i] = Pointer(ClassOf[r], vptr)
        BY <1>2, <3>1, <3>2, <3>3, TypesDiffer
      <3> HIDE DEF filled
      <3> QED BY <3>3, <3>4, PointersTyped
    <2>2. CASE ~ \E t \in DOMAIN at : at[t] = i
      <3>1. filled[i] = IF i \in DOMAIN vptrs THEN vptrs[i] ELSE NullTable
        BY <2>2 DEF Filled, Resized
      <3>2. NullTable \in Entries
        BY DEF Table
      <3> HIDE DEF filled
      <3> QED BY <3>1, <3>2
    <2> QED BY <2>1, <2>2
  <1> QED BY <1>1, <1>2, <1>3

(* The size of the table stays below that of a word.                       *)
LEMMA SizesFit ==
  ASSUME IsList, NEW k \in 0 .. Passes - 1
  PROVE  /\ FirstM(Cardinality(Registered)) \in Nat
         /\ FirstM(Cardinality(Registered)) + k \in 1 .. Width
  <1> DEFINE N == Cardinality(Registered)
  <1>1. N \in 0 .. Cardinality(Class)
    <2>1. Registered \subseteq Class /\ IsFiniteSet(Class)
      BY RecordsInStatic, SizeAssumption
    <2>2. N \in Nat /\ N <= Cardinality(Class)
      BY <2>1, FS_Subset, FS_CardinalityType
    <2>3. Cardinality(Class) \in Nat
      BY <2>1, FS_CardinalityType
    <2> QED BY <2>2, <2>3
  <1>2. FirstM(N) + Passes - 1 <= Width
    <2> HIDE DEF N
    <2> QED BY <1>1, SizeAssumption
  <1>3. FirstM(N) \in Nat \ {0}
    <2> DEFINE size == (N * 5) \div 4
               S == {n \in 1 .. Width : Pow2[n] <= size}
    <2>1. IsFiniteSet(S)
      <3>1. IsFiniteSet(1 .. Width)
        BY WidthIs, FS_Interval
      <3> QED BY <3>1, FS_Subset
    <2>2. Cardinality(S) \in Nat
      BY <2>1, FS_CardinalityType
    <2>3. FirstM(N) = 1 + Cardinality(S)
      BY DEF FirstM
    <2> HIDE DEF S
    <2> QED BY <2>2, <2>3
  <1> HIDE DEF N
  <1>4. k \in Nat /\ k <= Passes - 1 /\ Passes = 4
    BY DEF Passes
  <1>5. FirstM(N) + k \in 1 .. Width
    BY <1>2, <1>3, <1>4, WidthIs
  <1> QED BY <1>3, <1>5 DEF N

(* What the head of the loop over the sizes establishes.                   *)
LEMMA PassStarts ==
  ASSUME HashInv, NEW M \in 0 .. Width, hash' = StartPass(hash, M) \/ (\E h : hash' = StartPass(h, M) /\
     h = [mult |-> h.mult, shift |-> h.shift, min_value |-> h.min_value, max_value |-> h.max_value,
          control |-> h.control] /\ h.mult \in Nat)
  PROVE  /\ hash' = [mult |-> hash'.mult, shift |-> hash'.shift, min_value |-> hash'.min_value,
                     max_value |-> hash'.max_value, control |-> hash'.control]
         /\ hash'.mult \in Nat /\ hash'.shift \in 0 .. Width
         /\ IsTable(M)'
         /\ hash'.min_value \in 0 .. Pow2[Width] - 1 /\ hash'.max_value \in 0 .. Pow2[Width] - 1
  <1>1. PICK h : /\ hash' = StartPass(h, M) /\ h.mult \in Nat
                 /\ h = [mult |-> h.mult, shift |-> h.shift, min_value |-> h.min_value,
                         max_value |-> h.max_value, control |-> h.control]
    BY DEF HashInv
  <1>2. /\ hash'.mult = h.mult /\ hash'.shift = Width - M /\ hash'.min_value = Pow2[Width] - 1
        /\ hash'.max_value = 0 /\ hash'.control = [i \in 0 .. Pow2[M] - 1 |-> NoType]
        /\ hash' = [mult |-> hash'.mult, shift |-> hash'.shift, min_value |-> hash'.min_value,
                    max_value |-> hash'.max_value, control |-> hash'.control]
    BY <1>1 DEF StartPass
  <1>3. Pow2[M] \in Nat \ {0} /\ 0 \in 0 .. Pow2[M] - 1
    BY WidthIs, Pow2Is
  <1>4. Pow2[Width] - 1 \in 0 .. Pow2[Width] - 1 /\ 0 \in 0 .. Pow2[Width] - 1
    BY WidthIs
  <1>5. DOMAIN hash'.control = 0 .. Pow2[M] - 1
    BY <1>2
  <1>6. Width - M \in 0 .. Width
    BY WidthIs
  <1> QED BY <1>1, <1>2, <1>3, <1>4, <1>5, <1>6 DEF IsTable

(* What an initialize writes is for the records that are there.            *)
LEMMA InitializeKeeps ==
  ASSUME LifeInv, Initialize
  PROVE  LifeInv'
  <1> DEFINE W == [c \in Class |-> VariableOf(c)]
             written == StaticsWritten
             types == ToSet(Types)
  <1>1. TypeOK /\ ListInv /\ HashInv /\ IsList
    BY DEF LifeInv, ListInv
  <1>2. PICK V : StaticsKept(V) /\ Stored(V)
    BY DEF LifeInv
  <1>3. /\ phase = "idle" /\ epoch < MaxEpoch /\ epoch' = epoch + 1 /\ static_vptr' = written
        /\ known' = ToSet(Records) /\ gone' = {} /\ runs' = runs + 1 /\ config' = config
        /\ UNCHANGED listVars
    BY DEF Initialize
  <1>4. /\ Records' = Records /\ ToSet(Records)' = ToSet(Records) /\ Registered' = Registered
        /\ Types' = Types /\ IsList' /\ \A c : VariableOf(c)' = VariableOf(c)
    BY <1>1, <1>3, ListKept
  <1>5. /\ epoch \in Nat /\ runs \in 0 .. epoch /\ MaxEpoch \in Nat /\ epoch + 1 <= MaxEpoch
        /\ runs' \in 0 .. epoch' /\ epoch' \in 0 .. MaxEpoch /\ runs' # 0
    BY <1>1, <1>3, RecordsAssumption DEF TypeOK
  <1>6. /\ written \in [Static -> Table]
        /\ \A c \in Registered : written[VariableOf(c)] = [class |-> c, epoch |-> epoch + 1]
    BY <1>1, <1>5, StaticsAre
  <1>7. ToSet(Records) \subseteq Node /\ Registered \subseteq Class
    BY <1>1, RecordsInStatic
  <1>8. KnownClasses' = Registered /\ KnownTypes' = types
    BY <1>1, <1>3, TypesAre DEF KnownClasses, KnownTypes, Registered
  <1>9. StaticsKept(W)'
    <2>1. W' = W /\ \A c \in Registered : W[c] = VariableOf(c)
      <3>1. \A c \in Class : VariableOf(c)' = VariableOf(c)
        BY <1>4
      <3>2. W' = [c \in Class |-> VariableOf(c)']
        OBVIOUS
      <3> QED BY <1>7, <3>1, <3>2
    <2> HIDE DEF W
    <2>2. ASSUME NEW c \in Registered
          PROVE  /\ \E r \in known' : ClassOf[r] = c /\ StaticOf(r)' = W[c]
                 /\ static_vptr'[W[c]] = Current(c)'
                 /\ W[c] = VariableOf(c)'
      <3>1. PICK r \in ToSet(Records) : ClassOf[r] = c /\ VariableOf(c) = StaticOf(r)
        BY <1>1, VariableIs
      <3>2. StaticOf(r)' = StaticOf(r)
        BY <1>3 DEF StaticOf
      <3>3. static_vptr'[W[c]] = [class |-> c, epoch |-> epoch + 1]
        BY <1>3, <1>6, <2>1
      <3> QED BY <1>3, <1>4, <2>1, <3>1, <3>2, <3>3 DEF Current
    <2> QED BY <1>8, <2>1, <2>2 DEF StaticsKept
  <1>10. /\ search' = [types |-> search'.types, pass |-> search'.pass,
                       attempts |-> search'.attempts, M |-> search'.M]
         /\ hash' = [mult |-> hash'.mult, shift |-> hash'.shift, min_value |-> hash'.min_value,
                     max_value |-> hash'.max_value, control |-> hash'.control]
         /\ hash'.mult \in Nat /\ hash'.shift \in 0 .. Width
         /\ search'.pass \in 0 .. Passes - 1 /\ search'.attempts \in 0 .. MaxAttempts - 1
         /\ hash'.min_value \in 0 .. Pow2[Width] - 1 /\ hash'.max_value \in 0 .. Pow2[Width] - 1
         /\ phase' = "hashing" =>
              /\ config.policy = "vptr_vector+hash"
              /\ search'.types = Types
              /\ search'.M = FirstM(Cardinality(Registered)) + search'.pass
              /\ IsTable(search.M)'
    <2>1. CASE config.policy = "vptr_vector+hash"
      <3>0. PICK M : M = FirstM(Cardinality(Registered))
        OBVIOUS
      <3>1. search' = [types |-> Types, pass |-> 0, attempts |-> 0, M |-> M] /\ hash' = StartPass(hash, M)
        BY <2>1, <3>0 DEF Initialize, StartSearch
      <3>2. M \in 0 .. Width /\ M + 0 = M
        <4>1. 0 \in 0 .. Passes - 1
          BY DEF Passes
        <4> QED BY <1>1, <3>0, <4>1, SizesFit, WidthIs
      <3>3. 0 \in 0 .. Passes - 1 /\ 0 \in 0 .. MaxAttempts - 1
        BY HashAssumption DEF Passes
      <3>4. /\ hash' = [mult |-> hash'.mult, shift |-> hash'.shift, min_value |-> hash'.min_value,
                        max_value |-> hash'.max_value, control |-> hash'.control]
            /\ hash'.mult \in Nat /\ hash'.shift \in 0 .. Width
            /\ IsTable(M)'
            /\ hash'.min_value \in 0 .. Pow2[Width] - 1 /\ hash'.max_value \in 0 .. Pow2[Width] - 1
        BY <1>1, <3>1, <3>2, PassStarts
      <3>5. /\ search'.types = Types /\ search'.pass = 0 /\ search'.attempts = 0 /\ search'.M = M
            /\ search' = [types |-> search'.types, pass |-> search'.pass,
                       attempts |-> search'.attempts, M |-> search'.M]
        BY <3>1
      <3>6. IsTable(search.M)'
        BY <3>4, <3>5 DEF IsTable
      <3> QED BY <2>1, <3>2, <3>3, <3>0, <3>4, <3>5, <3>6
    <2>2. CASE config.policy # "vptr_vector+hash"
      <3>1. UNCHANGED <<hash, search>> /\ phase' = "idle"
        BY <1>3, <2>2 DEF Initialize, hashVars
      <3> QED BY <1>1, <3>1 DEF HashInv, TypeOK
    <2> QED BY <2>1, <2>2
  <1> DEFINE Entries == IF config.indirect THEN [var : Static] \cup {NullTable} ELSE Table
             Old == \A i \in DOMAIN vptrs : vptrs[i] \in Entries
  <1>11. Old
    BY <1>1 DEF TypeOK
  <1>12. \A r \in ToSet(Records) :
           /\ TypeOf[r] \in types /\ ClassOf[r] \in Registered /\ ClassOf[r] \in Class
           /\ Pointer(ClassOfType(TypeOf[r]), written) = NewPointer(W, ClassOf[r])'
           /\ Pointer(ClassOfType(TypeOf[r]), written) \in Entries
    <2> SUFFICES ASSUME NEW r \in ToSet(Records)
                 PROVE  /\ TypeOf[r] \in types /\ ClassOf[r] \in Registered /\ ClassOf[r] \in Class
                        /\ Pointer(ClassOfType(TypeOf[r]), written) = NewPointer(W, ClassOf[r])'
                        /\ Pointer(ClassOfType(TypeOf[r]), written) \in Entries
      OBVIOUS
    <2>1. TypeOf[r] \in types /\ ClassOf[r] \in Registered /\ ClassOf[r] \in Class /\ r \in Node
      BY <1>1, <1>7, TypesAre DEF Registered
    <2>2. ClassOfType(TypeOf[r]) = ClassOf[r]
      BY <2>1, TypesDiffer
    <2>3. Pointer(ClassOf[r], written) \in Entries
      BY <1>1, <1>6, <2>1, PointersTyped
    <2>4. W'[ClassOf[r]] = VariableOf(ClassOf[r])
      BY <1>4, <2>1
    <2>5. Pointer(ClassOf[r], written) = NewPointer(W, ClassOf[r])'
      BY <1>3, <1>6, <2>1, <2>4 DEF Pointer, NewPointer, Current, Address
    <2> QED BY <2>1, <2>2, <2>3, <2>5
  <1> HIDE DEF written, W, Entries
  <1>13. CASE config.policy = "vptr_vector+hash"
    <2>1. phase' = "hashing" /\ UNCHANGED <<vptrs, initialized, outcome>>
      BY <1>13 DEF Initialize
    <2>2. TypeOK'
      <3>1. \A i \in DOMAIN vptrs' :
               vptrs'[i] \in IF config'.indirect THEN [var : Static] \cup {NullTable} ELSE Table
        BY <1>3, <1>11, <2>1 DEF Entries
      <3>2. known' \subseteq config'.records /\ gone' \subseteq known'
        BY <1>1, <1>3 DEF ListInv
      <3> QED BY <1>1, <1>3, <1>5, <1>6, <1>10, <2>1, <3>1, <3>2 DEF TypeOK, written
    <2>3. ListInv'
      BY <1>1, <1>3, <1>4, <1>5, <1>10, <2>1 DEF ListInv
    <2>4. HashInv'
      BY <1>4, <1>10 DEF HashInv
    <2>5. Stored(W)'
      BY <1>3, <1>13, <2>1 DEF Stored, HashStores, Ready
    <2> QED BY <1>9, <2>2, <2>3, <2>4, <2>5 DEF LifeInv
  <1>14. CASE config.policy = "vptr_vector"
    <2> DEFINE size == LastType(types) + 1
               at == [t \in types |-> t]
    <2>1. /\ vptrs' = Filled(Resized(size), at, written) /\ initialized' = TRUE /\ outcome' = "success"
          /\ phase' = "idle"
      BY <1>3, <1>14 DEF Initialize, Succeed, written
    <2>2. size \in Nat /\ \A t \in types : t \in 0 .. size - 1
      <3> DEFINE S == types \cup {0}
      <3>1. \A t \in types : t \in 0 .. Pow2[Width] - 2
        BY <1>1, TypesAre DEF ToSet
      <3>2. S \in SUBSET Nat /\ S # {} /\ Pow2[Width] \in Nat /\ \A t \in S : t <= Pow2[Width]
        BY <3>1, WidthIs
      <3> HIDE DEF types
      <3>3. Max(S) \in S /\ \A t \in S : t <= Max(S)
        <4> HIDE DEF S
        <4> QED BY <3>2, GreatestOfNat
      <3>4. size = Max(S) + 1
        BY DEF LastType
      <3>5. \A t \in types : t \in S
        OBVIOUS
      <3> HIDE DEF S, size
      <3>6. Max(S) \in Nat /\ \A t \in S : t \in Nat
        BY <3>2, <3>3
      <3>7. size \in Nat /\ size - 1 = Max(S)
        BY <3>4, <3>6
      <3> QED BY <3>3, <3>5, <3>6, <3>7
    <2>3. /\ DOMAIN vptrs' = 0 .. size - 1
          /\ \A t \in DOMAIN at : vptrs'[at[t]] = Pointer(ClassOfType(t), written)
          /\ \A i \in 0 .. size - 1 :
               vptrs'[i] \in IF config.indirect THEN [var : Static] \cup {NullTable} ELSE Table
      <3>1. DOMAIN at = types /\ \A t \in DOMAIN at : t \in ToSet(Types) /\ at[t] \in 0 .. size - 1
        BY <2>2
      <3>2. \A t, u \in DOMAIN at : at[t] = at[u] => t = u
        OBVIOUS
      <3>3. \A i \in DOMAIN vptrs :
               vptrs[i] \in IF config.indirect THEN [var : Static] \cup {NullTable} ELSE Table
        BY <1>11 DEF Entries
      <3>4. IsList /\ written \in [Static -> Table] /\ size \in Nat
        BY <1>1, <1>6, <2>2
      <3>5. vptrs' = Filled(Resized(size), at, written)
        BY <2>1
      <3> HIDE DEF at, size
      <3> QED BY <3>1, <3>2, <3>3, <3>4, <3>5, FilledIs
    <2>4. \A t \in types : vptrs'[t] = Pointer(ClassOfType(t), written)
      BY <2>3
    <2> HIDE DEF at, size
    <2>5. TypeOK'
      <3>1. \A i \in DOMAIN vptrs' :
               vptrs'[i] \in IF config'.indirect THEN [var : Static] \cup {NullTable} ELSE Table
        BY <1>3, <2>3
      <3>2. known' \subseteq config'.records /\ gone' \subseteq known'
        BY <1>1, <1>3 DEF ListInv
      <3> QED BY <1>1, <1>3, <1>5, <1>6, <1>10, <2>1, <3>1, <3>2 DEF TypeOK, written
    <2>6. ListInv'
      BY <1>1, <1>3, <1>4, <1>5, <1>10, <2>1 DEF ListInv
    <2>7. HashInv'
      BY <1>4, <1>10, <2>1 DEF HashInv
    <2>8. Stored(W)'
      <3>1. VectorStores(W)'
        BY <1>3, <1>12, <2>2, <2>3, <2>4 DEF VectorStores
      <3> QED BY <1>3, <1>14, <3>1 DEF Stored
    <2> QED BY <1>9, <2>5, <2>6, <2>7, <2>8 DEF LifeInv
  <1>15. CASE config.policy = "vptr_map"
    <2>1. /\ vptrs' = Emplaced(types, written) /\ initialized' = TRUE /\ outcome' = "success"
          /\ phase' = "idle"
      BY <1>3, <1>15 DEF Initialize, Succeed, written
    <2>2. DOMAIN vptrs' = DOMAIN vptrs \cup types
      BY <2>1 DEF Emplaced
    <2>3. \A t \in DOMAIN vptrs \cup types :
            vptrs'[t] = IF t \in DOMAIN vptrs THEN vptrs[t] ELSE Pointer(ClassOfType(t), written)
      BY <2>1 DEF Emplaced
    <2>4. TypeOK'
      <3>1. ASSUME NEW i \in DOMAIN vptrs' PROVE vptrs'[i] \in Entries
        <4>1. CASE i \in DOMAIN vptrs
          BY <1>11, <2>2, <2>3, <4>1
        <4>2. CASE i \notin DOMAIN vptrs
          <5>1. PICK r \in ToSet(Records) : i = TypeOf[r]
            BY <1>1, <2>2, <3>1, <4>2, TypesAre
          <5> QED BY <1>12, <2>2, <2>3, <3>1, <4>2, <5>1
        <4> QED BY <4>1, <4>2
      <3>2. known' \subseteq config'.records /\ gone' \subseteq known'
        BY <1>1, <1>3 DEF ListInv
      <3>3. \A i \in DOMAIN vptrs' :
               vptrs'[i] \in IF config'.indirect THEN [var : Static] \cup {NullTable} ELSE Table
        BY <1>3, <3>1 DEF Entries
      <3> QED BY <1>1, <1>3, <1>5, <1>6, <1>10, <2>1, <3>2, <3>3 DEF TypeOK, written
    <2>5. ListInv'
      BY <1>1, <1>3, <1>4, <1>5, <1>10, <2>1 DEF ListInv
    <2>6. HashInv'
      BY <1>4, <1>10, <2>1 DEF HashInv
    <2>7. Stored(W)'
      <3>1. runs' # 0
        BY <1>5
      <3>2. ASSUME runs' = 1
            PROVE  /\ DOMAIN vptrs' = KnownTypes'
                   /\ \A r \in known' : vptrs'[TypeOf[r]] = NewPointer(W, ClassOf[r])'
        <4>1. runs = 0
          BY <1>3, <1>5, <3>2
        <4>2. DOMAIN vptrs = {}
          BY <1>2, <1>15, <4>1 DEF Stored, MapStores
        <4> QED BY <1>3, <1>8, <1>12, <2>2, <2>3, <4>2
      <3>3. MapStores(W)'
        BY <3>1, <3>2 DEF MapStores
      <3>4. MapLasts'
        <4> SUFFICES ASSUME config.indirect, config.shared
                     PROVE  /\ \A t \in DOMAIN vptrs' : vptrs'[t] = Address(ClassOfType(t))
                            /\ \A r \in known' : TypeOf[r] \in DOMAIN vptrs'
          BY <1>3 DEF MapLasts, Address, ClassOfType
        <4>1. \A t \in DOMAIN vptrs : vptrs[t] = Address(ClassOfType(t))
          BY <1>2, <1>15 DEF Stored, MapLasts
        <4>2. ASSUME NEW t \in types PROVE Pointer(ClassOfType(t), written) = Address(ClassOfType(t))
          <5>1. PICK r \in ToSet(Records) : t = TypeOf[r]
            BY <1>1, <4>2, TypesAre
          <5>2. ClassOfType(t) = ClassOf[r] /\ ClassOf[r] \in Registered
            BY <1>1, <1>7, <1>12, <5>1, TypesDiffer
          <5>3. VariableOf(ClassOf[r]) = ClassOf[r]
            BY <1>1, <5>2, VariableIs DEF StaticOf
          <5> QED BY <5>2, <5>3 DEF Pointer
        <4>3. \A r \in known' : TypeOf[r] \in types
          BY <1>3, <1>12
        <4> QED BY <2>2, <2>3, <4>1, <4>2, <4>3
      <3> QED BY <1>3, <1>15, <3>3, <3>4 DEF Stored
    <2> QED BY <1>9, <2>4, <2>5, <2>6, <2>7 DEF LifeInv
  <1>16. config.policy \in {"vptr_vector+hash", "vptr_vector", "vptr_map"}
    BY <1>1, RecordsAssumption DEF TypeOK, IsConfig
  <1> QED BY <1>13, <1>14, <1>15, <1>16

(* The bounds that a round computes.                                       *)
LEMMA MinIs ==
  ASSUME NEW S \in SUBSET Nat, S # {}
  PROVE  Min(S) \in S /\ \A x \in S : Min(S) <= x
  <1>1. \E x \in S : \A y \in S : x <= y
    BY LeastOfNat
  <1> QED BY <1>1 DEF Min

(* A smaller power of two is smaller.                                      *)
LEMMA Pow2Grows ==
  ASSUME NEW M \in 0 .. Width
  PROVE  Pow2[M] \in Nat \ {0} /\ Pow2[M] <= Pow2[Width]
  <1>1. M \in Nat /\ Width - M \in Nat /\ M + (Width - M) = Width
    BY WidthIs
  <1>2. Pow2[Width] = Pow2[M] * Pow2[Width - M]
    BY <1>1, Pow2Product
  <1>3. Pow2[M] \in Nat \ {0} /\ Pow2[Width - M] \in Nat \ {0}
    BY <1>1, Pow2Is
  <1> DEFINE a == Pow2[M]
             b == Pow2[Width - M]
  <1>4. a * b = a + a * (b - 1) /\ a * (b - 1) \in Nat
    <2> HIDE DEF a, b
    <2>1. a \in Nat /\ b \in Nat \ {0}
      BY <1>3 DEF a, b
    <2>2. b - 1 \in Nat
      BY <2>1
    <2> QED BY <2>1, <2>2
  <1> QED BY <1>2, <1>3, <1>4

(* The fields of a hash, when some of them are replaced.                   *)
LEMMA ReplacedFields ==
  ASSUME NEW h0, NEW h1, NEW m, NEW min, NEW max, NEW c,
         h0 = [mult |-> h0.mult, shift |-> h0.shift, min_value |-> h0.min_value,
               max_value |-> h0.max_value, control |-> h0.control],
         h1 = [h0 EXCEPT !.mult = m, !.min_value = min, !.max_value = max, !.control = c]
  PROVE  /\ h1.mult = m /\ h1.shift = h0.shift /\ h1.min_value = min /\ h1.max_value = max
         /\ h1.control = c
         /\ h1 = [mult |-> h1.mult, shift |-> h1.shift, min_value |-> h1.min_value,
                  max_value |-> h1.max_value, control |-> h1.control]
  OBVIOUS

(* The multiplier of a round, the bounds, and the table.                   *)
LEMMA TryIs ==
  ASSUME HashInv, TypeOK, NEW M, IsTable(M), NEW m \in Multipliers,
         Len(search.types) \in Nat, DOMAIN search.types = 1 .. Len(search.types),
         \A i \in 1 .. Len(search.types) : search.types[i] \in Nat
  PROVE  LET h == Try(m).h
             n == Len(search.types)
             at(i) == Index(m, hash.shift, search.types[i])
         IN /\ h = [mult |-> h.mult, shift |-> h.shift, min_value |-> h.min_value,
                    max_value |-> h.max_value, control |-> h.control]
            /\ h.mult = m /\ m \in Nat /\ h.shift = hash.shift
            /\ DOMAIN h.control = DOMAIN hash.control
            /\ h.max_value \in 0 .. Pow2[M] - 1
            /\ h.max_value \in 0 .. Pow2[Width] - 1 /\ h.min_value \in 0 .. Pow2[Width] - 1
            /\ ~ Try(m).collision =>
                 /\ \A i, j \in 1 .. n : at(i) = at(j) => i = j
                 /\ \A i \in 1 .. n : at(i) \in h.min_value .. h.max_value
                 /\ \A i \in 1 .. n : h.control[at(i)] = search.types[i]
                 /\ \A b \in DOMAIN h.control : h.control[b] \in ToSet(search.types) \cup {NoType}
  <1> DEFINE types   == search.types
             n       == Len(types)
             at      == [i \in DOMAIN types |-> Index(m, hash.shift, types[i])]
             taken   == {i \in DOMAIN types : \E j \in 1 .. i - 1 : at[j] = at[i]}
             placed  == IF taken = {} THEN DOMAIN types ELSE 1 .. Min(taken) - 1
             looked  == {at[i] : i \in placed \cup (IF taken = {} THEN {} ELSE {Min(taken)})}
             at_most == Max(looked \cup {hash.max_value})
             at_least == Min(looked \cup {hash.min_value})
             buckets == [b \in DOMAIN hash.control |->
                           IF \E i \in placed : at[i] = b
                           THEN types[CHOOSE i \in placed : at[i] = b]
                           ELSE NoType]
             h == [hash EXCEPT !.mult = m, !.min_value = at_least, !.max_value = at_most,
                               !.control = buckets]
  <1>1. Try(m) = [h |-> h, collision |-> taken # {}]
    BY DEF Try
  <1>2. m \in Nat
    BY WidthIs, HashAssumption
  <1>3. M \in 0 .. Width /\ hash.shift = Width - M /\ M \in Nat /\ M <= Width
    BY WidthIs DEF IsTable
  <1>4. \A i \in 1 .. n : at[i] = Index(m, hash.shift, types[i]) /\ at[i] \in 0 .. Pow2[M] - 1
    BY <1>2, <1>3, IndexFits
  <1>5. /\ h.mult = m /\ h.shift = hash.shift /\ h.min_value = at_least /\ h.max_value = at_most
        /\ h.control = buckets
        /\ h = [mult |-> h.mult, shift |-> h.shift, min_value |-> h.min_value,
                max_value |-> h.max_value, control |-> h.control]
    <2>1. hash = [mult |-> hash.mult, shift |-> hash.shift, min_value |-> hash.min_value,
                  max_value |-> hash.max_value, control |-> hash.control]
      BY DEF HashInv
    <2>2. h = [hash EXCEPT !.mult = m, !.min_value = at_least, !.max_value = at_most,
                           !.control = buckets]
      OBVIOUS
    <2> HIDE DEF h, at_least, at_most, buckets
    <2> QED BY <2>1, <2>2, ReplacedFields
  <1>6. DOMAIN buckets = DOMAIN hash.control
    OBVIOUS
  <1>7. taken \in SUBSET (1 .. n) /\ taken \in SUBSET Nat
    OBVIOUS
  <1>8. placed \subseteq 1 .. n /\ (taken # {} => Min(taken) \in 1 .. n)
    <2>1. CASE taken = {}
      BY <2>1
    <2>2. CASE taken # {}
      <3>1. Min(taken) \in taken
        BY <1>7, <2>2, MinIs
      <3>2. Min(taken) \in 1 .. n
        BY <1>7, <3>1
      <3> HIDE DEF taken
      <3>3. placed = 1 .. Min(taken) - 1
        BY <2>2
      <3> HIDE DEF placed
      <3> QED BY <3>2, <3>3
    <2> QED BY <2>1, <2>2
  <1>9. looked \subseteq 0 .. Pow2[M] - 1
    <2> HIDE DEF taken, placed, at
    <2> QED BY <1>4, <1>8
  <1>10. /\ Pow2[M] \in Nat \ {0} /\ Pow2[M] <= Pow2[Width] /\ Pow2[Width] \in Nat
    BY <1>3, WidthIs, Pow2Grows
  <1>11. at_most \in 0 .. Pow2[M] - 1 /\ \A x \in looked : x <= at_most
    <2> DEFINE S == looked \cup {hash.max_value}
    <2> HIDE DEF looked
    <2>4. hash.max_value \in 0 .. Pow2[M] - 1
      BY DEF IsTable
    <2>5. \A x \in S : x \in 0 .. Pow2[M] - 1
      BY <1>9, <2>4
    <2>6. S # {}
      OBVIOUS
    <2>7. \A x \in S : x \in Nat /\ x <= Pow2[M]
      BY <1>10, <2>5
    <2>1. S \in SUBSET Nat /\ S # {} /\ Pow2[M] \in Nat /\ \A x \in S : x <= Pow2[M] /\ x \in 0 .. Pow2[M] - 1
      <3> HIDE DEF S
      <3> QED BY <1>10, <2>5, <2>6, <2>7
    <2>2. \A x \in looked : x \in S
      OBVIOUS
    <2> HIDE DEF S
    <2>3. Max(S) \in S /\ \A x \in S : x <= Max(S)
      BY <2>1, GreatestOfNat
    <2> QED BY <2>1, <2>2, <2>3 DEF S
  <1>12. at_least \in 0 .. Pow2[Width] - 1 /\ \A x \in looked : at_least <= x
    <2> DEFINE S == looked \cup {hash.min_value}
    <2>0. hash.min_value \in 0 .. Pow2[Width] - 1
      BY DEF TypeOK
    <2> HIDE DEF looked
    <2>4. \A x \in 0 .. Pow2[M] - 1 : x \in 0 .. Pow2[Width] - 1
      BY <1>10
    <2>5. \A x \in S : x \in 0 .. Pow2[Width] - 1
      BY <1>9, <2>0, <2>4
    <2>6. S # {}
      OBVIOUS
    <2>1. S \in SUBSET Nat /\ S # {} /\ \A x \in S : x \in 0 .. Pow2[Width] - 1
      <3> HIDE DEF S
      <3>1. \A x \in S : x \in Nat
        BY <1>10, <2>5
      <3> QED BY <2>5, <2>6, <3>1
    <2>2. \A x \in looked : x \in S
      OBVIOUS
    <2> HIDE DEF S
    <2>3. Min(S) \in S /\ \A x \in S : Min(S) <= x
      BY <2>1, MinIs
    <2> QED BY <2>1, <2>2, <2>3 DEF S
  <1>13. ASSUME taken = {}
         PROVE  /\ \A i, j \in 1 .. n : at[i] = at[j] => i = j
                /\ looked = {at[i] : i \in 1 .. n}
                /\ \A i \in 1 .. n : buckets[at[i]] = types[i]
                /\ \A b \in DOMAIN hash.control : buckets[b] \in ToSet(types) \cup {NoType}
    <2>1. \A i, j \in 1 .. n : at[i] = at[j] => i = j
      <3> SUFFICES ASSUME NEW i \in 1 .. n, NEW j \in 1 .. n, at[i] = at[j], i # j PROVE FALSE
        OBVIOUS
      <3>1. \A k \in 1 .. n : \A l \in 1 .. k - 1 : at[l] # at[k]
        BY <1>13
      <3>2. j \in 1 .. i - 1 \/ i \in 1 .. j - 1
        OBVIOUS
      <3> HIDE DEF at
      <3> QED BY <3>1, <3>2
    <2>2. placed = 1 .. n
      BY <1>13
    <2>3. looked = {at[i] : i \in 1 .. n}
      BY <1>13, <2>2
    <2> HIDE DEF at, placed
    <2>4. \A i \in 1 .. n : buckets[at[i]] = types[i]
      <3> SUFFICES ASSUME NEW i \in 1 .. n PROVE buckets[at[i]] = types[i]
        OBVIOUS
      <3>1. at[i] \in DOMAIN hash.control
        BY <1>4 DEF IsTable
      <3>2. (CHOOSE k \in placed : at[k] = at[i]) = i
        BY <2>1, <2>2
      <3> QED BY <2>2, <3>1, <3>2
    <2>5. \A b \in DOMAIN hash.control : buckets[b] \in ToSet(types) \cup {NoType}
      BY <2>2 DEF ToSet
    <2> HIDE DEF looked, buckets
    <2> QED BY <2>1, <2>3, <2>4, <2>5
  <1> DEFINE all == /\ \A i, j \in 1 .. n :
                         Index(m, hash.shift, types[i]) = Index(m, hash.shift, types[j]) => i = j
                    /\ \A i \in 1 .. n : Index(m, hash.shift, types[i]) \in at_least .. at_most
                    /\ \A i \in 1 .. n : buckets[Index(m, hash.shift, types[i])] = types[i]
                    /\ \A b \in DOMAIN hash.control : buckets[b] \in ToSet(types) \cup {NoType}
  <1>14. taken = {} => all
    <2> SUFFICES ASSUME taken = {} PROVE all
      OBVIOUS
    <2>1. \A i \in 1 .. n : at[i] = Index(m, hash.shift, types[i]) /\ at[i] \in looked
      BY <1>4, <1>13
    <2>2. \A i \in 1 .. n : at[i] \in 0 .. Pow2[M] - 1
      BY <1>4
    <2> HIDE DEF at, looked, at_least, at_most, buckets, taken
    <2>3. \A i \in 1 .. n : at[i] \in at_least .. at_most
      BY <1>10, <1>11, <1>12, <2>1, <2>2
    <2> QED BY <1>13, <2>1, <2>3
  <1>16. at_most \in 0 .. Pow2[Width] - 1
    <2> HIDE DEF at_most
    <2> QED BY <1>10, <1>11
  <1>17. Try(m).h = h /\ (Try(m).collision <=> taken # {})
    <2> DEFINE b == taken # {}
    <2>1. Try(m) = [h |-> h, collision |-> b]
      BY <1>1
    <2>2. b <=> taken # {}
      OBVIOUS
    <2> HIDE DEF h, taken, b
    <2>3. Try(m).h = h /\ Try(m).collision = b
      BY <2>1
    <2> QED BY <2>2, <2>3, SMTT(30)
  <1> HIDE DEF h, at_least, at_most, buckets, taken, looked, at, placed, types, n
  <1> QED BY <1>2, <1>5, <1>6, <1>11, <1>12, <1>14, <1>16, <1>17 DEF types, n

(* A round of the search: the vector is filled, another round, or a throw. *)
LEMMA HashAttemptKeeps ==
  ASSUME LifeInv, NEW m \in Multipliers, HashAttempt(m)
  PROVE  LifeInv'
  <1> DEFINE h == Try(m).h
             n == Len(search.types)
             at(i) == Index(m, hash.shift, search.types[i])
  <1>1. TypeOK /\ ListInv /\ HashInv /\ IsList
    BY DEF LifeInv, ListInv
  <1>2. PICK V : StaticsKept(V) /\ Stored(V)
    BY DEF LifeInv
  <1>3. /\ phase = "hashing" /\ config' = config /\ epoch' = epoch /\ static_vptr' = static_vptr
        /\ known' = known /\ gone' = gone /\ runs' = runs /\ UNCHANGED listVars
    BY DEF HashAttempt
  <1>4. /\ known = ToSet(Records) /\ gone = {} /\ config.policy = "vptr_vector+hash"
        /\ search.types = Types
        /\ search.M = FirstM(Cardinality(Registered)) + search.pass /\ IsTable(search.M)
    BY <1>1, <1>3 DEF ListInv, HashInv
  <1>5. /\ Records' = Records /\ ToSet(Records)' = ToSet(Records) /\ Registered' = Registered
        /\ Types' = Types /\ IsList' /\ \A c : VariableOf(c)' = VariableOf(c)
    BY <1>1, <1>3, ListKept
  <1>6. ToSet(Records) \subseteq Node /\ Registered \subseteq Class
    BY <1>1, RecordsInStatic
  <1>7. KnownClasses = Registered /\ KnownTypes = ToSet(Types)
    BY <1>1, <1>4, TypesAre DEF KnownClasses, KnownTypes, Registered
  <1>8. KnownClasses' = KnownClasses /\ KnownTypes' = KnownTypes
    BY <1>3 DEF KnownClasses, KnownTypes
  <1>9. StaticsKept(V)'
    <2>1. \A r : StaticOf(r)' = StaticOf(r)
      BY <1>3 DEF StaticOf
    <2>2. \A c : StillThere(V, c)' <=> StillThere(V, c)
      BY <1>3, <2>1 DEF StillThere
    <2>3. \A c : Current(c)' = Current(c)
      BY <1>3 DEF Current
    <2> QED BY <1>2, <1>3, <1>5, <1>8, <2>1, <2>2, <2>3 DEF StaticsKept
  <1>10. PICK M : M = search.M
    OBVIOUS
  <1>11. IsTable(M)
    BY <1>4, <1>10
  <1>12. /\ n \in Nat /\ DOMAIN search.types = 1 .. n
         /\ \A i \in 1 .. n : search.types[i] \in Nat
         /\ \A i \in 1 .. n : search.types[i] \in ToSet(search.types)
         /\ \A t \in ToSet(search.types) : \E i \in 1 .. n : t = search.types[i]
    <2>1. /\ n \in Nat /\ DOMAIN search.types = 1 .. n
          /\ \A i \in 1 .. n : search.types[i] \in 0 .. Pow2[Width] - 2
      BY <1>1, <1>4, TypesAre
    <2>2. \A x \in 0 .. Pow2[Width] - 2 : x \in Nat
      BY WidthIs
    <2> QED BY <2>1, <2>2 DEF ToSet
  <1>13. /\ h = [mult |-> h.mult, shift |-> h.shift, min_value |-> h.min_value,
                 max_value |-> h.max_value, control |-> h.control]
         /\ h.mult = m /\ m \in Nat /\ h.shift = hash.shift
         /\ DOMAIN h.control = DOMAIN hash.control
         /\ h.max_value \in 0 .. Pow2[M] - 1
         /\ h.max_value \in 0 .. Pow2[Width] - 1 /\ h.min_value \in 0 .. Pow2[Width] - 1
         /\ ~ Try(m).collision =>
              /\ \A i, j \in 1 .. n : at(i) = at(j) => i = j
              /\ \A i \in 1 .. n : at(i) \in h.min_value .. h.max_value
              /\ \A i \in 1 .. n : h.control[at(i)] = search.types[i]
              /\ \A b \in DOMAIN h.control : h.control[b] \in ToSet(search.types) \cup {NoType}
    BY <1>1, <1>11, <1>12, TryIs
  <1>14. Stopped = [types |-> Stopped.types, pass |-> Stopped.pass, attempts |-> Stopped.attempts,
                    M |-> Stopped.M]
         /\ Stopped.pass \in 0 .. Passes - 1 /\ Stopped.attempts \in 0 .. MaxAttempts - 1
    BY HashAssumption DEF Stopped, Passes
  <1>15. \/ /\ Found(Try(m)) /\ phase' = "idle" /\ initialized' = TRUE /\ outcome' = "success"
            /\ vptrs' = Filled(Resized(Try(m).h.max_value + 1),
                               [t \in ToSet(search.types) |-> Index(m, hash.shift, t)], static_vptr)
         \/ Collision(Try(m)) /\ UNCHANGED <<vptrs, phase, initialized, outcome>>
         \/ NotFound(Try(m)) /\ phase' = "idle" /\ outcome' = "failure" /\ UNCHANGED <<vptrs, initialized>>
    BY DEF HashAttempt, Succeed
  <1>16. ASSUME hash' = h \/ \E K \in 0 .. Width : hash' = StartPass(h, K)
         PROVE  /\ hash' = [mult |-> hash'.mult, shift |-> hash'.shift, min_value |-> hash'.min_value,
                            max_value |-> hash'.max_value, control |-> hash'.control]
                /\ hash'.mult \in Nat /\ hash'.shift \in 0 .. Width
                /\ hash'.min_value \in 0 .. Pow2[Width] - 1
                /\ hash'.max_value \in 0 .. Pow2[Width] - 1
    <2> HIDE DEF h
    <2>0. hash.shift \in 0 .. Width
      BY <1>1 DEF HashInv
    <2>1. CASE hash' = h
      BY <1>13, <2>0, <2>1
    <2>2. CASE \E K \in 0 .. Width : hash' = StartPass(h, K)
      BY <1>1, <1>13, <2>2, PassStarts
    <2> QED BY <1>16, <2>1, <2>2
  <1>17. ASSUME NEW K, K = M, hash' = h
         PROVE  IsTable(K)'
    <2> HIDE DEF h
    <2> QED BY <1>11, <1>13, <1>17 DEF IsTable
  <1> HIDE DEF h, at, n
  <1>18. CASE Found(Try(m)) /\ phase' = "idle" /\ initialized' = TRUE /\ outcome' = "success"
              /\ vptrs' = Filled(Resized(Try(m).h.max_value + 1),
                                 [t \in ToSet(search.types) |-> Index(m, hash.shift, t)], static_vptr)
    <2> DEFINE size == h.max_value + 1
               to == [t \in ToSet(search.types) |-> Index(m, hash.shift, t)]
    <2>1. hash' = h /\ search' = Stopped /\ ~ Try(m).collision
      BY <1>18 DEF Found, h
    <2>2. /\ \A i, j \in 1 .. n : at(i) = at(j) => i = j
          /\ \A i \in 1 .. n : at(i) \in h.min_value .. h.max_value
          /\ \A i \in 1 .. n : h.control[at(i)] = search.types[i]
          /\ \A b \in DOMAIN h.control : h.control[b] \in ToSet(search.types) \cup {NoType}
      BY <1>13, <2>1
    <2>3. h.max_value \in Nat /\ h.min_value \in Nat /\ size \in Nat /\ size - 1 = h.max_value
      <3>1. Pow2[Width] \in Nat
        BY WidthIs
      <3> QED BY <1>13, <3>1
    <2>4. \A i \in 1 .. n : at(i) \in 0 .. size - 1
      BY <2>2, <2>3
    <2>5. \A t \in ToSet(search.types) : \E i \in 1 .. n : t = search.types[i] /\ to[t] = at(i)
      BY <1>12 DEF at
    <2>6. DOMAIN to = ToSet(search.types)
      OBVIOUS
    <2>7. vptrs' = Filled(Resized(size), to, static_vptr)
      BY <1>18 DEF h
    <2> HIDE DEF size, to
    <2>8. \A t \in DOMAIN to : t \in ToSet(Types) /\ to[t] \in 0 .. size - 1
      BY <1>4, <2>4, <2>5, <2>6
    <2>9. \A t, u \in DOMAIN to : to[t] = to[u] => t = u
      <3> SUFFICES ASSUME NEW t \in DOMAIN to, NEW u \in DOMAIN to, to[t] = to[u] PROVE t = u
        OBVIOUS
      <3>1. PICK i \in 1 .. n : t = search.types[i] /\ to[t] = at(i)
        BY <2>5, <2>6
      <3>2. PICK j \in 1 .. n : u = search.types[j] /\ to[u] = at(j)
        BY <2>5, <2>6
      <3> QED BY <2>2, <3>1, <3>2
    <2>10. /\ static_vptr \in [Static -> Table]
           /\ \A i \in DOMAIN vptrs :
                vptrs[i] \in IF config.indirect THEN [var : Static] \cup {NullTable} ELSE Table
      BY <1>1 DEF TypeOK
    <2>11. /\ DOMAIN vptrs' = 0 .. size - 1
           /\ \A t \in DOMAIN to : vptrs'[to[t]] = Pointer(ClassOfType(t), static_vptr)
           /\ \A i \in 0 .. size - 1 :
                vptrs'[i] \in IF config.indirect THEN [var : Static] \cup {NullTable} ELSE Table
      BY <1>1, <2>3, <2>7, <2>8, <2>9, <2>10, FilledIs
    <2>12. TypeOK'
      BY <1>1, <1>3, <1>14, <1>16, <1>18, <2>1, <2>11 DEF TypeOK
    <2>13. ListInv' /\ HashInv'
      <3>1. runs' # 0
        BY <1>1, <1>3 DEF ListInv
      <3> QED BY <1>1, <1>3, <1>5, <1>14, <1>16, <1>18, <2>1, <3>1 DEF ListInv, HashInv
    <2>14. HashStores(V)'
      <3>1. IsTable(M)'
        BY <1>17, <2>1
      <3>2. DOMAIN vptrs' = 0 .. hash'.max_value
        BY <2>1, <2>3, <2>11
      <3>3. \A i \in DOMAIN hash'.control : hash'.control[i] \in KnownTypes' \cup {NoType}
        BY <1>4, <1>7, <1>8, <2>1, <2>2
      <3>4. ASSUME NEW r \in known
            PROVE  /\ HashIndex(TypeOf[r])' \in hash'.min_value .. hash'.max_value
                   /\ hash'.control[HashIndex(TypeOf[r])'] = TypeOf[r]
                   /\ vptrs'[HashIndex(TypeOf[r])'] = NewPointer(V, ClassOf[r])'
        <4> DEFINE t == TypeOf[r]
                   c == ClassOf[r]
        <4>1. t \in ToSet(search.types) /\ c \in KnownClasses /\ r \in Node
          BY <1>1, <1>4, <1>6, <1>7, TypesAre DEF KnownClasses
        <4>2. PICK i \in 1 .. n : t = search.types[i] /\ to[t] = at(i)
          BY <2>5, <4>1
        <4>3. HashIndex(t)' = at(i)
          BY <1>13, <2>1, <4>2 DEF HashIndex, at
        <4>4. vptrs'[at(i)] = Pointer(c, static_vptr)
          BY <2>6, <2>11, <4>1, <4>2, TypesDiffer
        <4>5. V[c] = VariableOf(c) /\ static_vptr[V[c]] = Current(c)
          BY <1>2, <1>3, <1>4, <4>1 DEF StaticsKept, StillThere
        <4>6. Pointer(c, static_vptr) = NewPointer(V, c)'
          BY <1>3, <4>5 DEF Pointer, NewPointer, Current, Address
        <4> QED BY <2>1, <2>2, <4>2, <4>3, <4>4, <4>6
      <3> QED BY <1>3, <3>1, <3>2, <3>3, <3>4 DEF HashStores
    <2>15. Stored(V)'
      BY <1>3, <1>4, <2>14 DEF Stored
    <2> QED BY <1>9, <2>12, <2>13, <2>15 DEF LifeInv
  <1>19. CASE Collision(Try(m)) /\ UNCHANGED <<vptrs, phase, initialized, outcome>>
    <2>0. /\ search.pass \in 0 .. Passes - 1 /\ search.attempts \in 0 .. MaxAttempts - 1
          /\ MaxAttempts \in Nat \ {0} /\ Passes = 4
      BY <1>1, HashAssumption DEF TypeOK, Passes
    <2>1. CASE /\ search.attempts + 1 # MaxAttempts
               /\ search' = [search EXCEPT !.attempts = search.attempts + 1]
               /\ hash' = h
      <3>1. /\ search'.types = search.types /\ search'.pass = search.pass
            /\ search'.attempts = search.attempts + 1 /\ search'.M = search.M
            /\ search' = [types |-> search'.types, pass |-> search'.pass,
                          attempts |-> search'.attempts, M |-> search'.M]
        BY <1>1, <2>1 DEF HashInv
      <3>2. IsTable(search.M)'
        BY <1>10, <1>17, <2>1, <3>1 DEF IsTable
      <3>3. search'.attempts \in 0 .. MaxAttempts - 1
        BY <2>0, <2>1, <3>1
      <3>4. TypeOK'
        BY <1>1, <1>3, <1>16, <1>19, <2>1, <3>1, <3>3 DEF TypeOK
      <3>5. ListInv' /\ HashInv'
        BY <1>1, <1>3, <1>4, <1>5, <1>16, <1>19, <2>1, <3>1, <3>2 DEF ListInv, HashInv
      <3>6. Stored(V)'
        BY <1>3, <1>4, <1>19 DEF Stored, HashStores, Ready
      <3> QED BY <1>9, <3>4, <3>5, <3>6 DEF LifeInv
    <2>2. CASE /\ search.pass + 1 < Passes
               /\ search' = [search EXCEPT !.pass = search.pass + 1, !.attempts = 0, !.M = search.M + 1]
               /\ hash' = StartPass(h, search.M + 1)
      <3>1. /\ search'.types = search.types /\ search'.pass = search.pass + 1
            /\ search'.attempts = 0 /\ search'.M = search.M + 1
            /\ search' = [types |-> search'.types, pass |-> search'.pass,
                          attempts |-> search'.attempts, M |-> search'.M]
        BY <1>1, <2>2 DEF HashInv
      <3>2. PICK K : K = search.M + 1
        OBVIOUS
      <3>3. K \in 0 .. Width /\ K = FirstM(Cardinality(Registered)) + (search.pass + 1)
        <4>1. search.pass + 1 \in 0 .. Passes - 1
          BY <2>0, <2>2
        <4>2. /\ FirstM(Cardinality(Registered)) \in Nat
              /\ FirstM(Cardinality(Registered)) + (search.pass + 1) \in 1 .. Width
          BY <1>1, <4>1, SizesFit
        <4> QED BY <1>4, <2>0, <3>2, <4>2, WidthIs
      <3>4. /\ hash' = [mult |-> hash'.mult, shift |-> hash'.shift, min_value |-> hash'.min_value,
                        max_value |-> hash'.max_value, control |-> hash'.control]
            /\ hash'.mult \in Nat /\ hash'.shift \in 0 .. Width /\ IsTable(K)'
            /\ hash'.min_value \in 0 .. Pow2[Width] - 1 /\ hash'.max_value \in 0 .. Pow2[Width] - 1
        BY <1>1, <1>13, <2>2, <3>2, <3>3, PassStarts
      <3>5. IsTable(search.M)'
        BY <3>1, <3>2, <3>4 DEF IsTable
      <3>6. search'.attempts \in 0 .. MaxAttempts - 1 /\ search'.pass \in 0 .. Passes - 1
        BY <2>0, <2>2, <3>1
      <3>7. search'.M = FirstM(Cardinality(Registered)) + search'.pass
        BY <3>1, <3>2, <3>3
      <3>8. TypeOK'
        BY <1>1, <1>3, <1>19, <3>1, <3>4, <3>6 DEF TypeOK
      <3>9. ListInv' /\ HashInv'
        BY <1>1, <1>3, <1>4, <1>5, <1>19, <3>1, <3>4, <3>5, <3>7 DEF ListInv, HashInv
      <3>10. Stored(V)'
        BY <1>3, <1>4, <1>19 DEF Stored, HashStores, Ready
      <3> QED BY <1>9, <3>8, <3>9, <3>10 DEF LifeInv
    <2> QED BY <1>19, <2>1, <2>2 DEF Collision, LastOfPass, h
  <1>20. CASE NotFound(Try(m)) /\ phase' = "idle" /\ outcome' = "failure" /\ UNCHANGED <<vptrs, initialized>>
    <2>1. hash' = h /\ search' = Stopped
      BY <1>20 DEF NotFound, h
    <2>2. TypeOK'
      BY <1>1, <1>3, <1>14, <1>16, <1>20, <2>1 DEF TypeOK
    <2>3. ListInv' /\ HashInv'
      BY <1>1, <1>3, <1>5, <1>14, <1>16, <1>20, <2>1 DEF ListInv, HashInv
    <2>4. Stored(V)'
      BY <1>3, <1>4, <1>20 DEF Stored, HashStores, Ready
    <2> QED BY <1>9, <2>2, <2>3, <2>4 DEF LifeInv
  <1> QED BY <1>15, <1>18, <1>19, <1>20

(* Nothing happens.                                                        *)
LEMMA StutterKeeps ==
  ASSUME LifeInv, UNCHANGED vars
  PROVE  LifeInv'
  <1>1. /\ UNCHANGED <<first, next, static_vptr, vptrs, config, phase, initialized, epoch, outcome,
                       known, gone, runs, hash, search>>
        /\ UNCHANGED listVars
    BY DEF vars, listVars, hashVars, runVars
  <1>2. TypeOK /\ ListInv /\ HashInv /\ IsList
    BY DEF LifeInv, ListInv
  <1>3. PICK V : StaticsKept(V) /\ Stored(V)
    BY DEF LifeInv
  <1>4. /\ Records' = Records /\ ToSet(Records)' = ToSet(Records) /\ Registered' = Registered
        /\ Types' = Types /\ IsList' /\ \A c : VariableOf(c)' = VariableOf(c)
    BY <1>1, <1>2, ListKept
  <1>5. TypeOK'
    BY <1>1, <1>2 DEF TypeOK
  <1>6. ListInv'
    BY <1>1, <1>2, <1>4 DEF ListInv
  <1>7. HashInv'
    <2>1. \A M : IsTable(M) => IsTable(M)'
      BY <1>1 DEF IsTable
    <2>2. IsTable(search.M) => IsTable(search.M)'
      BY <1>1 DEF IsTable
    <2> QED BY <1>1, <1>2, <1>4, <2>2 DEF HashInv
  <1>8. StaticsKept(V)'
    <2>1. \A r : StaticOf(r)' = StaticOf(r)
      BY <1>1 DEF StaticOf
    <2>2. \A c : StillThere(V, c)' <=> StillThere(V, c)
      BY <1>1, <2>1 DEF StillThere
    <2> QED BY <1>1, <1>3, <1>4, <2>1, <2>2 DEF StaticsKept, KnownClasses, Current
  <1>9. Stored(V)'
    <2>1. \A c : NewPointer(V, c)' = NewPointer(V, c)
      BY <1>1 DEF NewPointer, Current
    <2>2. VectorStores(V)' <=> VectorStores(V)
      BY <1>1, <2>1 DEF VectorStores
    <2>3. MapStores(V) => MapStores(V)'
      BY <1>1, <2>1 DEF MapStores, KnownTypes
    <2>5. MapLasts => MapLasts'
      BY <1>1 DEF MapLasts, Address, ClassOfType
    <2>4. HashStores(V) => HashStores(V)'
      <3>1. \A M : IsTable(M) => IsTable(M)'
        BY <1>1 DEF IsTable
      <3>2. \A t : HashIndex(t)' = HashIndex(t)
        BY <1>1 DEF HashIndex
      <3>3. Ready' <=> Ready
        BY <1>1 DEF Ready
      <3>4. KnownTypes' = KnownTypes
        BY <1>1 DEF KnownTypes
      <3> QED BY <1>1, <2>1, <3>1, <3>2, <3>3, <3>4 DEF HashStores
    <2> QED BY <1>1, <1>3, <2>2, <2>3, <2>4, <2>5 DEF Stored
  <1> QED BY <1>5, <1>6, <1>7, <1>8, <1>9 DEF LifeInv

LEMMA LifeStep ==
  ASSUME LifeInv, [Next]_vars
  PROVE  LifeInv'
  <1>1. ASSUME NEW r \in Node, Register(r) PROVE LifeInv'
    BY <1>1, RegisterKeeps
  <1>2. ASSUME NEW r \in Node, Unregister(r) PROVE LifeInv'
    BY <1>2, UnregisterKeeps
  <1>3. CASE Initialize
    BY <1>3, InitializeKeeps
  <1>4. ASSUME NEW m \in Multipliers, HashAttempt(m) PROVE LifeInv'
    BY <1>4, HashAttemptKeeps
  <1>5. CASE Finalize
    BY <1>5, FinalizeKeeps
  <1>6. CASE UNCHANGED vars
    BY <1>6, StutterKeeps
  <1> QED BY <1>1, <1>2, <1>3, <1>4, <1>5, <1>6 DEF Next

(* The invariant behind the lookups: at any time the list is well formed,  *)
(* the table and the bounds of the hash have the sizes that its shift gives*)
(* indices for, and there are variables, one for each class of the last    *)
(* initialize, that what the policy stores leads to.                       *)
THEOREM LifeInvariant == Spec => []LifeInv
  BY InitLife, LifeStep, PTL DEF Spec

(* The variables of a registry keep their types.                           *)
THEOREM RegistryStaysTyped == Spec => []TypeOK
  <1>1. LifeInv => TypeOK
    BY DEF LifeInv
  <1> QED BY <1>1, LifeInvariant, PTL

(* The type ids of LookupsInBounds and UnknownReported.                    *)
LEMMA TypesFit ==
  ASSUME NEW t \in {TypeOf[r] : r \in Node} \cup {Stranger}
  PROVE  t \in Nat /\ t # NoType
  <1>1. t \in 0 .. Pow2[Width] - 2
    BY RecordsAssumption
  <1> QED BY <1>1, WidthIs, RecordsAssumption

(* Where the hash sends a type id, known or not, the table has an entry.   *)
LEMMA HashInTable ==
  ASSUME HashInv, TypeOK, NEW M, IsTable(M), NEW t \in Nat
  PROVE  /\ HashIndex(t) \in DOMAIN hash.control /\ HashIndex(t) \in Nat
         /\ hash.min_value \in Nat /\ hash.max_value \in Nat
         /\ check(t) \in {"known", "unknown"}
         /\ check(t) = "known" => HashIndex(t) \in 0 .. hash.max_value /\ hash.control[HashIndex(t)] = t
         /\ HashIndex(t) \in hash.min_value .. hash.max_value /\ hash.control[HashIndex(t)] = t
              => check(t) = "known"
  <1>1. M \in Nat /\ M \in 0 .. Width /\ M <= Width /\ hash.shift = Width - M /\ hash.mult \in Nat
    BY WidthIs DEF IsTable, HashInv
  <1>2. HashIndex(t) \in 0 .. Pow2[M] - 1
    BY <1>1, IndexFits DEF HashIndex
  <1>3. Pow2[M] \in Nat /\ Pow2[Width] \in Nat
    BY <1>1, Pow2Is, WidthIs
  <1>4. HashIndex(t) \in DOMAIN hash.control /\ HashIndex(t) \in Nat
    BY <1>2, <1>3 DEF IsTable
  <1>5. hash.min_value \in Nat /\ hash.max_value \in Nat
    BY <1>3 DEF TypeOK
  <1> DEFINE i == HashIndex(t)
             lo == hash.min_value
             hi == hash.max_value
  <1>6. CASE i < lo
    <2>1. check(t) = "unknown"
      BY <1>4, <1>5, <1>6 DEF check
    <2>2. i \notin lo .. hi
      BY <1>4, <1>5, <1>6
    <2> QED BY <1>4, <1>5, <2>1, <2>2
  <1>7. CASE ~ (i < lo) /\ i > hi
    <2>1. check(t) = "unknown"
      BY <1>4, <1>5, <1>7 DEF check
    <2>2. i \notin lo .. hi
      BY <1>4, <1>5, <1>7
    <2> QED BY <1>4, <1>5, <2>1, <2>2
  <1>8. CASE ~ (i < lo) /\ ~ (i > hi)
    <2>1. i \in lo .. hi /\ i \in 0 .. hi
      BY <1>4, <1>5, <1>8
    <2>2. check(t) = IF hash.control[i] # t THEN "unknown" ELSE "known"
      BY <1>4, <1>5, <1>8, <2>1 DEF check
    <2> HIDE DEF i, lo, hi
    <2>3. check(t) \in {"known", "unknown"} /\ (check(t) = "known" <=> hash.control[i] = t)
      BY <2>2
    <2> QED BY <1>4, <1>5, <2>1, <2>3 DEF i, lo, hi
  <1> QED BY <1>6, <1>7, <1>8

(* What a lookup that ends in an entry of the vector or the map returns.   *)
LEMMA EntryIs ==
  ASSUME NEW i \in DOMAIN vptrs
  PROVE  Entry(i).result = "vtable" /\ Entry(i).vtable = Deref(vptrs[i])
  BY DEF Entry, Referred

(* The pointer of a class leads to its v-table.                            *)
LEMMA PointerLeads ==
  ASSUME ListInv, NEW V, StaticsKept(V), NEW r \in known \ gone,
         config.indirect => VariableKept(ClassOf[r])
  PROVE  Deref(NewPointer(V, ClassOf[r])) = Current(ClassOf[r])
  <1> DEFINE c == ClassOf[r]
  <1>1. CASE ~ config.indirect
    BY <1>1 DEF Deref, NewPointer
  <1>2. CASE config.indirect
    <2>1. PICK p \in known : ClassOf[p] = c /\ StaticOf(p) = V[c]
      BY DEF StaticsKept, KnownClasses
    <2>2. PICK q \in known \ gone : ClassOf[q] = c /\ StaticOf(q) = V[c]
      <3>1. CASE config.shared
        BY <2>1, <3>1 DEF StaticOf
      <3>2. CASE ~ config.shared
        <4>1. \A g \in gone : ClassOf[g] # c
          BY <1>2, <3>2 DEF VariableKept
        <4> QED BY <2>1, <4>1
      <3> QED BY <3>1, <3>2
    <2>3. StillThere(V, c)
      BY <2>2 DEF StillThere
    <2>4. static_vptr[V[c]] = Current(c)
      BY <2>1, <2>3 DEF StaticsKept, KnownClasses
    <2>5. Exists(V[c])
      BY <2>2 DEF Exists, ListInv
    <2>6. Address(V[c]) # NullTable
      BY DEF Address, NullTable
    <2>7. NewPointer(V, c) = Address(V[c]) /\ Address(V[c]).var = V[c]
      BY <1>2 DEF NewPointer, Address
    <2> QED BY <1>2, <2>4, <2>5, <2>6, <2>7 DEF Deref, Value
  <1> QED BY <1>1, <1>2

LEMMA LookupsFromLife == LifeInv => LookupsCurrent
  <1> SUFFICES ASSUME LifeInv, Ready, ~ MapStale, NEW r \in known \ gone,
                      config.indirect => VariableKept(ClassOf[r])
               PROVE  /\ acquire_vptr(TypeOf[r]).result = "vtable"
                      /\ acquire_vptr(TypeOf[r]).vtable = Current(ClassOf[r])
    BY DEF LookupsCurrent
  <1> DEFINE t == TypeOf[r]
             c == ClassOf[r]
  <1>1. TypeOK /\ ListInv /\ HashInv /\ phase = "idle" /\ initialized
    BY DEF LifeInv, Ready
  <1>2. PICK V : StaticsKept(V) /\ Stored(V)
    BY DEF LifeInv
  <1>3. Deref(NewPointer(V, c)) = Current(c)
    BY <1>1, <1>2, PointerLeads
  <1>4. SUFFICES \E i \in DOMAIN vptrs : /\ acquire_vptr(t) = Entry(i)
                                         /\ vptrs[i] = NewPointer(V, c)
    BY <1>3, EntryIs
  <1>5. r \in Node
    BY <1>1, RecordsAssumption DEF TypeOK, IsConfig
  <1>6. CASE config.policy = "vptr_vector"
    <2>1. t \in DOMAIN vptrs /\ vptrs[t] = NewPointer(V, c)
      BY <1>1, <1>2, <1>6 DEF Stored, VectorStores
    <2>2. acquire_vptr(t) = Entry(t)
      BY <1>1, <1>6, <2>1 DEF acquire_vptr, VectorLookup
    <2> QED BY <2>1, <2>2
  <1>7. CASE config.policy = "vptr_map"
    <2>1. ASSUME ~ MapReused PROVE t \in DOMAIN vptrs /\ vptrs[t] = NewPointer(V, c)
      <3>1. runs \in Nat /\ runs # 0 /\ ~ (runs > 1)
        BY <1>1, <1>7, <2>1, RecordsAssumption DEF MapReused, ListInv, TypeOK
      <3>2. runs = 1
        BY <3>1
      <3>3. DOMAIN vptrs = KnownTypes /\ vptrs[t] = NewPointer(V, c)
        BY <1>1, <1>2, <1>7, <3>2 DEF Stored, MapStores
      <3> QED BY <3>3 DEF KnownTypes
    <2>2. ASSUME MapReused PROVE t \in DOMAIN vptrs /\ vptrs[t] = NewPointer(V, c)
      <3>1. config.indirect /\ config.shared
        BY <2>2 DEF MapStale
      <3>2. t \in DOMAIN vptrs /\ vptrs[t] = Address(ClassOfType(t))
        BY <1>1, <1>2, <1>7, <3>1 DEF Stored, MapLasts
      <3>3. ClassOfType(t) = c
        BY <1>5, TypesDiffer
      <3>4. PICK q \in known : ClassOf[q] = c /\ StaticOf(q) = V[c]
        BY <1>2 DEF StaticsKept, KnownClasses
      <3>5. V[c] = c
        BY <3>1, <3>4 DEF StaticOf
      <3> QED BY <3>1, <3>2, <3>3, <3>5 DEF NewPointer
    <2>3. t \in DOMAIN vptrs /\ vptrs[t] = NewPointer(V, c)
      BY <2>1, <2>2
    <2>4. acquire_vptr(t) = Entry(t)
      BY <1>1, <1>7, <2>3 DEF acquire_vptr, MapLookup
    <2> QED BY <2>3, <2>4
  <1>8. CASE config.policy = "vptr_vector+hash"
    <2>1. HashStores(V)
      BY <1>2, <1>8 DEF Stored
    <2>2. PICK M : IsTable(M)
      BY <2>1 DEF HashStores
    <2>3. /\ HashIndex(t) \in hash.min_value .. hash.max_value
          /\ hash.control[HashIndex(t)] = t
          /\ vptrs[HashIndex(t)] = NewPointer(V, c)
          /\ DOMAIN vptrs = 0 .. hash.max_value
      BY <2>1 DEF HashStores
    <2>4. t \in Nat
      BY <1>5, TypesFit
    <2>5. check(t) = "known" /\ HashIndex(t) \in 0 .. hash.max_value
      BY <1>1, <2>2, <2>3, <2>4, HashInTable
    <2>6. acquire_vptr(t) = Entry(HashIndex(t))
      BY <1>1, <1>8, <2>5 DEF acquire_vptr, VectorLookup
    <2> QED BY <2>3, <2>5, <2>6
  <1>9. config.policy \in {"vptr_vector+hash", "vptr_vector", "vptr_map"}
    BY <1>1, RecordsAssumption DEF TypeOK, IsConfig
  <1> QED BY <1>6, <1>7, <1>8, <1>9

(* Whatever was called before, whichever multipliers were drawn and        *)
(* whatever was loaded or unloaded since, the v-table of an object of a    *)
(* class that is there is the one that the last initialize wrote.          *)
THEOREM LookupsStayCurrent == Spec => []LookupsCurrent
  BY LookupsFromLife, LifeInvariant, PTL

(* A type id that was not there at the last initialize is reported.        *)
THEOREM UnknownAreReported == Spec => []UnknownReported
  <1>1. LifeInv => UnknownReported
    <2> SUFFICES ASSUME LifeInv, Ready, config.policy # "vptr_vector", ~ MapReused,
                        NEW t \in {TypeOf[r] : r \in Node \ known} \cup {Stranger}
                 PROVE  acquire_vptr(t) = [result |-> "unknown"]
      BY DEF UnknownReported
    <2>1. TypeOK /\ ListInv /\ HashInv /\ phase = "idle" /\ initialized
      BY DEF LifeInv, Ready
    <2>2. PICK V : StaticsKept(V) /\ Stored(V)
      BY DEF LifeInv
    <2>3. known \subseteq Node
      BY <2>1, RecordsAssumption DEF TypeOK, IsConfig
    <2>4. t \notin KnownTypes
      BY <2>3, RecordsAssumption DEF KnownTypes
    <2>5. t \in Nat /\ t # NoType
      BY TypesFit
    <2>6. CASE config.policy = "vptr_map"
      <3>1. runs = 1
        <4>1. runs \in Nat /\ runs # 0 /\ ~ (runs > 1)
          BY <2>1, <2>6, RecordsAssumption DEF MapReused, ListInv, TypeOK
        <4> QED BY <4>1
      <3>2. t \notin DOMAIN vptrs
        BY <2>1, <2>2, <2>4, <2>6, <3>1 DEF Stored, MapStores
      <3> QED BY <2>1, <2>6, <3>2 DEF acquire_vptr, MapLookup
    <2>7. CASE config.policy = "vptr_vector+hash"
      <3>1. HashStores(V)
        BY <2>2, <2>7 DEF Stored
      <3>2. PICK M : IsTable(M)
        BY <3>1 DEF HashStores
      <3>3. HashIndex(t) \in DOMAIN hash.control /\ check(t) \in {"known", "unknown"}
            /\ (check(t) = "known" => hash.control[HashIndex(t)] = t)
        BY <2>1, <2>5, <3>2, HashInTable
      <3>4. hash.control[HashIndex(t)] # t
        BY <2>4, <2>5, <3>1, <3>3 DEF HashStores
      <3>5. check(t) = "unknown"
        BY <3>3, <3>4
      <3> QED BY <2>1, <2>7, <3>5 DEF acquire_vptr, VectorLookup
    <2>8. config.policy \in {"vptr_vector+hash", "vptr_vector", "vptr_map"}
      BY <2>1, RecordsAssumption DEF TypeOK, IsConfig
    <2> QED BY <2>6, <2>7, <2>8
  <1> QED BY <1>1, LifeInvariant, PTL

(* No lookup reads outside of the control table or of the vector.          *)
THEOREM LookupsStayInBounds == Spec => []LookupsInBounds
  <1>1. LifeInv => LookupsInBounds
    <2> SUFFICES ASSUME LifeInv, Ready, NEW t \in {TypeOf[r] : r \in Node} \cup {Stranger}
                 PROVE  acquire_vptr(t).result # "out of bounds"
      BY DEF LookupsInBounds
    <2>1. TypeOK /\ HashInv /\ phase = "idle" /\ initialized
      BY DEF LifeInv, Ready
    <2>2. PICK V : Stored(V)
      BY DEF LifeInv
    <2>3. CASE config.policy # "vptr_vector+hash"
      <3>1. acquire_vptr(t) = IF t \in DOMAIN vptrs THEN Entry(t) ELSE [result |-> "unknown"]
        BY <2>1, <2>3 DEF acquire_vptr, MapLookup, VectorLookup
      <3>2. CASE t \in DOMAIN vptrs
        <4>1. Entry(t).result = "vtable"
          BY <3>2, EntryIs
        <4> QED BY <3>1, <3>2, <4>1
      <3>3. CASE t \notin DOMAIN vptrs
        BY <3>1, <3>3
      <3> QED BY <3>2, <3>3
    <2>4. CASE config.policy = "vptr_vector+hash"
      <3>1. HashStores(V)
        BY <2>2, <2>4 DEF Stored
      <3>2. PICK M : IsTable(M)
        BY <3>1 DEF HashStores
      <3>3. /\ check(t) \in {"known", "unknown"}
            /\ check(t) = "known" => HashIndex(t) \in 0 .. hash.max_value
        BY <2>1, <3>2, TypesFit, HashInTable
      <3>4. acquire_vptr(t) = IF check(t) = "known" THEN Entry(HashIndex(t)) ELSE [result |-> check(t)]
        BY <2>1, <2>4 DEF acquire_vptr, VectorLookup
      <3>5. CASE check(t) = "known"
        <4>1. HashIndex(t) \in DOMAIN vptrs
          BY <3>1, <3>3, <3>5 DEF HashStores
        <4>2. Entry(HashIndex(t)).result = "vtable"
          BY <4>1, EntryIs
        <4> QED BY <3>4, <3>5, <4>2
      <3>6. CASE check(t) = "unknown"
        BY <3>4, <3>6
      <3> QED BY <3>3, <3>5, <3>6
    <2> QED BY <2>3, <2>4
  <1> QED BY <1>1, LifeInvariant, PTL

-----------------------------------------------------------------------------
(* The list is a catalogue.                                                *)

(* A sequence without one element, in the words of Catalogue.              *)
LEMMA WithoutIsRemoveAt ==
  ASSUME NEW s \in Seq(Node), NEW k \in 1 .. Len(s)
  PROVE  Without(s, k) = RemoveAt(s, k)
  <1> DEFINE L == Len(s)
             a == SubSeq(s, 1, k - 1)
             b == SubSeq(s, k + 1, L)
             t == Without(s, k)
  <1>1. L \in Nat /\ k \in Nat /\ k >= 1 /\ k <= L /\ \A i \in 1 .. L : s[i] \in Node
    OBVIOUS
  <1>2. a \in Seq(Node) /\ Len(a) = k - 1 /\ \A i \in 1 .. k - 1 : a[i] = s[i]
    <2>1. 1 \in 1 .. L + 1 /\ k - 1 \in 0 .. L /\ \A i \in 1 .. k - 1 : s[i] \in Node
      BY <1>1
    <2>2. /\ a \in Seq(Node) /\ Len(a) = (IF 1 <= k - 1 THEN k - 1 - 1 + 1 ELSE 0)
          /\ \A i \in 1 .. k - 1 - 1 + 1 : a[i] = s[1 + i - 1]
      BY <1>1, <2>1, SubSeqProperties
    <2> HIDE DEF a
    <2>3. (IF 1 <= k - 1 THEN k - 1 - 1 + 1 ELSE 0) = k - 1 /\ k - 1 - 1 + 1 = k - 1
      BY <1>1
    <2>4. \A i \in 1 .. k - 1 : 1 + i - 1 = i
      BY <1>1
    <2> QED BY <2>2, <2>3, <2>4
  <1>3. b \in Seq(Node) /\ Len(b) = L - k /\ \A i \in 1 .. L - k : b[i] = s[k + i]
    <2>1. k + 1 \in 1 .. L + 1 /\ L \in 0 .. L /\ \A i \in k + 1 .. L : s[i] \in Node
      BY <1>1
    <2>2. /\ b \in Seq(Node) /\ Len(b) = (IF k + 1 <= L THEN L - (k + 1) + 1 ELSE 0)
          /\ \A i \in 1 .. L - (k + 1) + 1 : b[i] = s[(k + 1) + i - 1]
      BY <1>1, <2>1, SubSeqProperties
    <2> HIDE DEF b
    <2>3. (IF k + 1 <= L THEN L - (k + 1) + 1 ELSE 0) = L - k /\ L - (k + 1) + 1 = L - k
      BY <1>1
    <2>4. \A i \in 1 .. L - k : (k + 1) + i - 1 = k + i
      BY <1>1
    <2> QED BY <2>2, <2>3, <2>4
  <1>4. /\ t \in Seq(Node) /\ Len(t) = L - 1
        /\ \A i \in 1 .. L - 1 : (i < k => t[i] = s[i]) /\ (i >= k => t[i] = s[i + 1])
    BY WithoutFacts
  <1> HIDE DEF a, b, t, L
  <1> DEFINE w == a \o b
  <1>5. /\ w \in Seq(Node) /\ Len(w) = Len(a) + Len(b)
        /\ \A i \in 1 .. Len(a) + Len(b) :
             w[i] = IF i <= Len(a) THEN a[i] ELSE b[i - Len(a)]
    BY <1>2, <1>3, ConcatProperties
  <1> HIDE DEF w
  <1>6. Len(a) + Len(b) = L - 1
    BY <1>1, <1>2, <1>3
  <1>7. ASSUME NEW i \in 1 .. L - 1
        PROVE  w[i] = t[i]
    <2>1. CASE i < k
      <3>1. i \in 1 .. k - 1 /\ i <= Len(a)
        BY <1>1, <1>2, <2>1
      <3> QED BY <1>2, <1>4, <1>5, <1>6, <2>1, <3>1
    <2>2. CASE i >= k
      <3>1. PICK j : j = i - Len(a)
        OBVIOUS
      <3>2. ~ (i <= Len(a)) /\ j \in 1 .. L - k /\ k + j = i + 1 /\ j \in Nat
        BY <1>1, <1>2, <2>2, <3>1
      <3>3. w[i] = b[j]
        BY <1>5, <1>6, <3>1, <3>2
      <3>4. b[j] = s[k + j]
        BY <1>3, <3>2
      <3>5. s[k + j] = s[i + 1]
        BY <3>2
      <3>6. t[i] = s[i + 1]
        BY <1>4, <2>2
      <3> QED BY <3>3, <3>4, <3>5, <3>6
    <2> QED BY <1>1, <2>1, <2>2
  <1>8. w = t
    BY <1>4, <1>5, <1>6, <1>7, SeqEqual
  <1> QED BY <1>8 DEF RemoveAt, a, b, t, w, L

(* What the same operator is in Catalogue.                                 *)
LEMMA LibraryForCatalogue ==
  /\ \A s : CatalogueOfRecords!ToSet(s) = ToSet(s)
  /\ \A s, i : CatalogueOfRecords!RemoveAt(s, i) = RemoveAt(s, i)
  BY DEF CatalogueOfRecords!ToSet, ToSet, CatalogueOfRecords!RemoveAt, RemoveAt

LEMMA CatalogueStep ==
  ASSUME IsList, [Next]_vars
  PROVE  [CatalogueOfRecords!Next]_Records
  <1>1. Len(Records) \in Nat /\ DOMAIN Records = 1 .. Len(Records) /\ Records \in Seq(Node)
    BY RecordsOfList
  <1>2. ASSUME NEW r \in Node, Register(r)
        PROVE  CatalogueOfRecords!Next
    <2>1. push_back(r) /\ r \notin ToSet(Records)
      BY <1>2 DEF Register
    <2>2. Records' = Append(Records, r)
      BY <2>1, AfterPush
    <2> QED BY <2>1, <2>2, LibraryForCatalogue DEF CatalogueOfRecords!Next, CatalogueOfRecords!Add
  <1>3. ASSUME NEW r \in Node, Unregister(r)
        PROVE  CatalogueOfRecords!Next
    <2>1. remove(r) /\ r \in ToSet(Records)
      BY <1>3 DEF Unregister
    <2>2. PICK k \in 1 .. Len(Records) : Records[k] = r /\ Records' = Without(Records, k)
      BY <2>1, AfterRemove
    <2>3. Records' = RemoveAt(Records, k)
      BY <1>1, <2>2, WithoutIsRemoveAt
    <2>4. \E i \in DOMAIN Records : Records[i] = r /\ Records' = RemoveAt(Records, i)
      BY <1>1, <2>2, <2>3
    <2> QED BY <2>1, <2>4, LibraryForCatalogue DEF CatalogueOfRecords!Next, CatalogueOfRecords!Drop
  <1>4. CASE UNCHANGED listVars
    BY <1>4 DEF listVars, Records
  <1>5. Initialize \/ Finalize \/ (\E m \in Multipliers : HashAttempt(m)) \/ UNCHANGED vars
           => UNCHANGED listVars
    BY DEF Initialize, Finalize, HashAttempt, vars
  <1> QED BY <1>2, <1>3, <1>4, <1>5 DEF Next

(* The list implements the catalogue: a loop over it meets the records that*)
(* are registered, in the order they were, whatever others have gone.      *)
THEOREM ListIsCatalogue == Spec => ImplementsCatalogue
  <1>1. Init => CatalogueOfRecords!Init
    <2> SUFFICES ASSUME Init PROVE Records = <<>>
      BY DEF CatalogueOfRecords!Init
    <2>1. Linked(<<>>)
      BY DEF Init, InitList, Linked
    <2>2. <<>> \in Seq(Node)
      OBVIOUS
    <2> QED BY <2>1, <2>2, RecordsAre
  <1>2. IsList /\ [Next]_vars => [CatalogueOfRecords!Next]_Records
    BY CatalogueStep
  <1> QED BY <1>1, <1>2, RegistryLinked, PTL
             DEF Spec, ImplementsCatalogue, CatalogueOfRecords!Spec
-----------------------------------------------------------------------------
(* virtual_ptr and the ownership of objects: an object on the heap lives as*)
(* long as it has an owner, and a unique_ptr is the only one.              *)

(* Every virtual_ptr is a pair of pointers.                                *)
Pairs == ptr = [p \in Ptr |-> [obj |-> ptr[p].obj, vp |-> ptr[p].vp]]

OwnInv == config \in Configs /\ Pairs /\ HeapOwned /\ SoleOwner

-----------------------------------------------------------------------------
LEMMA ConfigKept == ASSUME Next PROVE config' = config
  BY DEF Next, Register, Unregister, Initialize, HashAttempt, Finalize

LEMMA KindsApart ==
  ASSUME config \in Configs, NEW p \in Ptr, NEW q \in Ptr, config.kind[p] = "unique", Smart(q)
  PROVE  config.kind[q] = "unique"
  BY PtrAssumption DEF IsPtrConfig, Smart

LEMMA NullIsNoObject ==
  ASSUME config \in Configs
  PROVE  config.heap \subseteq Object /\ Null \notin config.heap
  BY PtrAssumption, NullAssumption DEF IsPtrConfig

LEMMA ObjectGiven ==
  ASSUME Pairs, NEW p \in Ptr, NEW o
  PROVE  [ptr[p] EXCEPT !.obj = o] = [obj |-> o, vp |-> ptr[p].vp]
  BY DEF Pairs

LEMMA PairOf ==
  ASSUME Pairs, NEW p \in Ptr
  PROVE  ptr[p] = [obj |-> ptr[p].obj, vp |-> ptr[p].vp]
  BY DEF Pairs

-----------------------------------------------------------------------------
LEMMA OwnedAre ==
  ASSUME NEW x
  PROVE  x \in Owned(ptr, other) <=>
           x # Null /\ (x = other \/ \E q \in Ptr : Smart(q) /\ ptr[q].obj = x)
  BY DEF Owned

LEMMA OwnedThen ==
  ASSUME config' = config, NEW x
  PROVE  /\ x \in Owned(ptr', other') <=>
              x # Null /\ (x = other' \/ \E q \in Ptr : Smart(q) /\ ptr'[q].obj = x)
         /\ Owned(ptr, other)' = Owned(ptr', other')
  BY DEF Owned, Smart

(* Nothing is destroyed that has an owner, nothing without one is kept.    *)
LEMMA PutKeeps ==
  ASSUME HeapOwned, config' = config, NEW lost,
         alive' = alive \ (lost \ Owned(ptr', other')),
         Owned(ptr', other') \subseteq Owned(ptr, other),
         Owned(ptr, other) \ Owned(ptr', other') \subseteq lost
  PROVE  HeapOwned'
  BY OwnedThen DEF HeapOwned

(* One smart virtual_ptr is given an object, from the program's smart      *)
(* pointer, or from another virtual_ptr that can share it, or none.        *)
LEMMA OneOwns ==
  ASSUME OwnInv, config' = config, Pairs', NEW p \in Ptr, Smart(p), NEW o, NEW lost,
         \A x \in Ptr : ptr'[x].obj = IF x = p THEN o ELSE ptr[x].obj,
         alive' = alive \ (lost \ Owned(ptr', other')),
         Lost(p) \subseteq lost,
         \/ o = other /\ other' = Null
         \/ o = other /\ other' = other /\ Shared(p)
         \/ o = Null /\ other' = other
         \/ (\E q \in Ptr : Smart(q) /\ o = ptr[q].obj) /\ other' = other /\ Shared(p)
  PROVE  OwnInv'
  <1>1. HeapOwned'
    <2>1. Owned(ptr', other') \subseteq Owned(ptr, other)
      <3> SUFFICES ASSUME NEW x \in Owned(ptr', other')
                   PROVE  x \in Owned(ptr, other)
        OBVIOUS
      <3>1. x # Null /\ (x = other' \/ \E q \in Ptr : Smart(q) /\ ptr'[q].obj = x)
        BY OwnedThen
      <3> QED BY <3>1, OwnedAre
    <2>2. Owned(ptr, other) \ Owned(ptr', other') \subseteq lost
      <3> SUFFICES ASSUME NEW x \in Owned(ptr, other), x \notin Owned(ptr', other')
                   PROVE  x \in lost
        OBVIOUS
      <3>1. x # Null /\ (x = other \/ \E q \in Ptr : Smart(q) /\ ptr[q].obj = x)
        BY OwnedAre
      <3>2. x # other' /\ \A q \in Ptr : Smart(q) => ptr'[q].obj # x
        BY <3>1, OwnedThen
      <3>3. x = ptr[p].obj
        BY <3>1, <3>2
      <3> QED BY <3>1, <3>3 DEF Lost
    <2> QED BY <2>1, <2>2, PutKeeps DEF OwnInv
  <1>2. SoleOwner'
    <2> SUFFICES ASSUME NEW a \in Ptr, NEW b \in Ptr, config.kind[a] = "unique", Smart(b),
                        ptr'[a].obj # Null
                 PROVE  /\ ptr'[a].obj # other'
                        /\ ptr'[b].obj = ptr'[a].obj => b = a
      BY DEF SoleOwner, Smart
    <2>1. config.kind[b] = "unique" /\ ~ Shared(p) /\ config.kind[p] = "unique"
      BY KindsApart DEF OwnInv, Shared
    <2>2. \A x, y \in Ptr : config.kind[x] = "unique" /\ Smart(y) /\ ptr[x].obj # Null =>
            ptr[x].obj # other /\ (ptr[y].obj = ptr[x].obj => y = x)
      BY DEF OwnInv, SoleOwner
    <2> QED BY <2>1, <2>2
  <1> QED BY <1>1, <1>2 DEF OwnInv

(* An object is handed over from one smart virtual_ptr to another.         *)
LEMMA OneHandsOver ==
  ASSUME OwnInv, config' = config, Pairs', NEW p \in Ptr, NEW q \in Ptr, p # q, Smart(p), Smart(q),
         \A x \in Ptr : ptr'[x].obj = IF x = p THEN ptr[q].obj ELSE IF x = q THEN Null ELSE ptr[x].obj,
         other' = other, alive' = alive \ (Lost(p) \ Owned(ptr', other'))
  PROVE  OwnInv'
  <1>1. HeapOwned'
    <2>1. Owned(ptr', other') \subseteq Owned(ptr, other)
      <3> SUFFICES ASSUME NEW x \in Owned(ptr', other')
                   PROVE  x \in Owned(ptr, other)
        OBVIOUS
      <3>1. x # Null /\ (x = other' \/ \E r \in Ptr : Smart(r) /\ ptr'[r].obj = x)
        BY OwnedThen
      <3> QED BY <3>1, OwnedAre
    <2>2. Owned(ptr, other) \ Owned(ptr', other') \subseteq Lost(p)
      <3> SUFFICES ASSUME NEW x \in Owned(ptr, other), x \notin Owned(ptr', other')
                   PROVE  x \in Lost(p)
        OBVIOUS
      <3>1. x # Null /\ (x = other \/ \E r \in Ptr : Smart(r) /\ ptr[r].obj = x)
        BY OwnedAre
      <3>2. x # other' /\ \A r \in Ptr : Smart(r) => ptr'[r].obj # x
        BY <3>1, OwnedThen
      <3>3. x = ptr[p].obj
        BY <3>1, <3>2
      <3> QED BY <3>1, <3>3 DEF Lost
    <2> QED BY <2>1, <2>2, PutKeeps DEF OwnInv
  <1>2. SoleOwner'
    <2> SUFFICES ASSUME NEW a \in Ptr, NEW b \in Ptr, config.kind[a] = "unique", Smart(b),
                        ptr'[a].obj # Null
                 PROVE  /\ ptr'[a].obj # other'
                        /\ ptr'[b].obj = ptr'[a].obj => b = a
      BY DEF SoleOwner, Smart
    <2>1. config.kind[b] = "unique" /\ config.kind[p] = "unique" /\ config.kind[q] = "unique"
      BY KindsApart DEF OwnInv
    <2>2. \A x, y \in Ptr : config.kind[x] = "unique" /\ Smart(y) /\ ptr[x].obj # Null =>
            ptr[x].obj # other /\ (ptr[y].obj = ptr[x].obj => y = x)
      BY DEF OwnInv, SoleOwner
    <2> QED BY <2>1, <2>2
  <1> QED BY <1>1, <1>2 DEF OwnInv

(* Nothing changes hands.                                                  *)
LEMMA NoneOwns ==
  ASSUME OwnInv, config' = config, other' = other, Pairs',
         \A p \in Ptr : Smart(p) => ptr'[p].obj = ptr[p].obj,
         alive' \cap config.heap = alive \cap config.heap
  PROVE  OwnInv'
  <1>1. Owned(ptr', other') = Owned(ptr, other)
    BY OwnedAre, OwnedThen
  <1>2. HeapOwned'
    BY <1>1, OwnedThen DEF OwnInv, HeapOwned
  <1>3. SoleOwner'
    BY DEF OwnInv, SoleOwner, Smart
  <1> QED BY <1>2, <1>3 DEF OwnInv

(* An object is created on the heap, for the program's smart pointer or for*)
(* a virtual_ptr.                                                          *)
LEMMA NewOwned ==
  ASSUME OwnInv, config' = config, Pairs', NEW o \in config.heap,
         o \notin alive \cup Pointed, alive' = alive \cup {o},
         \/ other = Null /\ other' = o /\ ptr' = ptr
         \/ /\ other' = other
            /\ \E p \in Ptr : /\ Smart(p) /\ ptr[p].obj = Null
                              /\ \A x \in Ptr : ptr'[x].obj = IF x = p THEN o ELSE ptr[x].obj
  PROVE  OwnInv'
  <1>1. o # Null
    BY NullIsNoObject DEF OwnInv
  <1>2. o # other /\ \A p \in Ptr : ptr[p].obj # o
    <2>1. o \notin Owned(ptr, other)
      BY DEF OwnInv, HeapOwned
    <2> QED BY <1>1, <2>1, OwnedAre DEF Pointed
  <1>3. Owned(ptr', other') = Owned(ptr, other) \cup {o}
    <2> SUFFICES ASSUME NEW x
                 PROVE  x \in Owned(ptr', other') <=> x \in Owned(ptr, other) \/ x = o
      OBVIOUS
    <2>1. CASE other = Null /\ other' = o /\ ptr' = ptr
      BY <1>1, <2>1, OwnedAre, OwnedThen
    <2>2. ASSUME other' = other, NEW p \in Ptr, Smart(p), ptr[p].obj = Null,
                 \A y \in Ptr : ptr'[y].obj = IF y = p THEN o ELSE ptr[y].obj
          PROVE  x \in Owned(ptr', other') <=> x \in Owned(ptr, other) \/ x = o
      BY <1>1, <2>2, OwnedAre, OwnedThen
    <2> QED BY <2>1, <2>2
  <1>4. HeapOwned'
    BY <1>3, OwnedThen DEF OwnInv, HeapOwned
  <1>5. SoleOwner'
    BY <1>1, <1>2 DEF OwnInv, SoleOwner, Smart
  <1> QED BY <1>4, <1>5 DEF OwnInv

-----------------------------------------------------------------------------
LEMMA OwnInit == InitPtrs => OwnInv
  <1> SUFFICES ASSUME InitPtrs PROVE OwnInv
    OBVIOUS
  <1>1. /\ config \in Configs /\ alive = {} /\ other = Null
        /\ ptr = [p \in Ptr |-> [obj |-> Null, vp |-> box_vptr(null_vptr)]]
    BY DEF InitPtrs, InitHolds, Init, NullPtr
  <1>2. Pairs /\ \A p \in Ptr : ptr[p].obj = Null
    BY <1>1 DEF Pairs
  <1>3. Owned(ptr, other) = {}
    BY <1>1, <1>2, OwnedAre
  <1> QED BY <1>1, <1>2, <1>3 DEF OwnInv, HeapOwned, SoleOwner

LEMMA OwnKept ==
  ASSUME OwnInv, config' = config, UNCHANGED <<ptr, alive, other>>
  PROVE  OwnInv'
  BY NoneOwns DEF OwnInv, Pairs

(* The steps of plain virtual_ptrs, and those of local objects.            *)
LEMMA PlainStep ==
  ASSUME OwnInv, NextPlain, other' = other
  PROVE  OwnInv'
  <1>1. config' = config
    BY DEF NextPlain, Create, Destroy, Construct, Assign, Final, Copy, Cast, Reset, Holds, vars
  <1>2. Pairs
    BY DEF OwnInv
  <1>3. ASSUME NEW p \in Ptr, Plain(p), NEW o, NEW v,
               ptr' = [ptr EXCEPT ![p] = [obj |-> o, vp |-> v]], alive' = alive
        PROVE  OwnInv'
    <2>1. Pairs' /\ \A x \in Ptr : ptr'[x].obj = IF x = p THEN o ELSE ptr[x].obj
      BY <1>2, <1>3 DEF Pairs
    <2> QED BY <1>1, <1>3, <2>1, NoneOwns DEF Plain, Smart
  <1>4. ASSUME NEW o \in Object, Create(o) \/ Destroy(o)
        PROVE  OwnInv'
    <2>1. ptr' = ptr /\ alive' \cap config.heap = alive \cap config.heap
      BY <1>4 DEF Create, Destroy, Created
    <2> QED BY <1>1, <1>2, <2>1, NoneOwns DEF Pairs
  <1>5. ASSUME NEW p \in Ptr, NEW o \in Object, Construct(p, o) \/ Final(p, o)
        PROVE  OwnInv'
    BY <1>3, <1>5 DEF Construct, Final, FinalPtr
  <1>6. ASSUME NEW p \in Ptr, NEW o \in Object, Assign(p, o)
        PROVE  OwnInv'
    <2>1. [ptr EXCEPT ![p].obj = o] = [ptr EXCEPT ![p] = [obj |-> o, vp |-> ptr[p].vp]]
      BY <1>2, ObjectGiven
    <2> QED BY <1>3, <1>6, <2>1 DEF Assign
  <1>7. ASSUME NEW p \in Ptr, NEW q \in Ptr, Copy(p, q) \/ Cast(p, q)
        PROVE  OwnInv'
    <2>1. ptr' = [ptr EXCEPT ![p] = [obj |-> ptr[q].obj, vp |-> ptr[q].vp]]
      BY <1>2, <1>7, PairOf DEF Copy, Copied, Cast
    <2> QED BY <1>3, <1>7, <2>1 DEF Copy, Cast
  <1>8. ASSUME NEW p \in Ptr, Reset(p)
        PROVE  OwnInv'
    BY <1>3, <1>8 DEF Reset, NullPtr
  <1> QED BY <1>4, <1>5, <1>6, <1>7, <1>8 DEF NextPlain

(* The steps that make smart pointers, and give them to virtual_ptrs.      *)
LEMMA MadeStep ==
  ASSUME OwnInv, NEW o \in Object, MakeOther(o) \/ \E p \in Ptr : make_virtual(p, o)
  PROVE  OwnInv'
  <1>1. config' = config /\ Pairs
    BY DEF MakeOther, make_virtual, Holds, vars, OwnInv
  <1>2. o \in config.heap /\ o \notin alive \cup Pointed /\ alive' = alive \cup {o}
    BY DEF MakeOther, make_virtual, Created
  <1>3. CASE MakeOther(o)
    BY <1>1, <1>2, <1>3, NewOwned DEF MakeOther, Pairs
  <1>4. ASSUME NEW p \in Ptr, make_virtual(p, o)
        PROVE  OwnInv'
    <2>1. /\ ptr' = [ptr EXCEPT ![p] = [obj |-> o, vp |-> box_vptr(static_ref(o))]]
          /\ other' = other /\ Smart(p) /\ ptr[p].obj = Null
      BY <1>4 DEF make_virtual, FinalPtr
    <2>2. Pairs' /\ \A x \in Ptr : ptr'[x].obj = IF x = p THEN o ELSE ptr[x].obj
      BY <1>1, <2>1 DEF Pairs
    <2> QED BY <1>1, <1>2, <2>1, <2>2, NewOwned
  <1> QED BY <1>3, <1>4

LEMMA ResetOtherStep ==
  ASSUME OwnInv, ResetOther
  PROVE  OwnInv'
  <1>1. /\ config' = config /\ ptr' = ptr /\ other' = Null
        /\ alive' = alive \ ({other} \ Owned(ptr', other'))
    BY DEF ResetOther, Holds, vars, Put
  <1>2. HeapOwned'
    <2>1. Owned(ptr', other') \subseteq Owned(ptr, other)
      BY <1>1, OwnedAre, OwnedThen
    <2>2. Owned(ptr, other) \ Owned(ptr', other') \subseteq {other}
      BY <1>1, OwnedAre, OwnedThen
    <2> QED BY <1>1, <2>1, <2>2, PutKeeps DEF OwnInv
  <1> QED BY <1>1, <1>2 DEF OwnInv, SoleOwner, Pairs, Smart

LEMMA FromOtherStep ==
  ASSUME OwnInv, NEW p \in Ptr,
         \/ ConstructCopy(p) \/ ConstructMove(p) \/ AssignCopy(p) \/ AssignMove(p)
         \/ FinalMove(p) \/ ResetSmart(p)
  PROVE  OwnInv'
  <1>1. config' = config /\ Pairs
    BY DEF ConstructCopy, ConstructMove, AssignCopy, AssignMove, FinalMove, ResetSmart, Holds,
           vars, OwnInv
  <1>2. ASSUME Smart(p), NEW o, NEW v, NEW r, NEW lost,
               Put([ptr EXCEPT ![p] = [obj |-> o, vp |-> v]], r, lost),
               Lost(p) \subseteq lost,
               \/ o = other /\ r = Null
               \/ o = other /\ r = other /\ Shared(p)
               \/ o = Null /\ r = other
        PROVE  OwnInv'
    <2>1. /\ ptr' = [ptr EXCEPT ![p] = [obj |-> o, vp |-> v]] /\ other' = r
          /\ alive' = alive \ (lost \ Owned(ptr', other'))
      BY <1>2 DEF Put
    <2>2. Pairs' /\ \A x \in Ptr : ptr'[x].obj = IF x = p THEN o ELSE ptr[x].obj
      BY <1>1, <2>1 DEF Pairs
    <2> QED BY <1>1, <1>2, <2>1, <2>2, OneOwns
  <1>3. Shared(p) => Smart(p)
    BY DEF Shared, Smart
  <1>4. ptr[p].obj = Null => Lost(p) \subseteq {}
    BY DEF Lost
  <1>5. CASE ConstructCopy(p) \/ ConstructMove(p) \/ AssignMove(p) \/ ResetSmart(p) \/ FinalMove(p)
    BY <1>2, <1>3, <1>4, <1>5
       DEF ConstructCopy, ConstructMove, AssignMove, ResetSmart, FinalMove, FinalPtr, NullPtr
  <1>6. CASE AssignCopy(p)
    <2>1. [ptr EXCEPT ![p].obj = other] = [ptr EXCEPT ![p] = [obj |-> other, vp |-> ptr[p].vp]]
      BY <1>1, ObjectGiven
    <2>2. CASE Acquired(other).result = "vtable"
      BY <1>2, <1>3, <1>6, <2>2 DEF AssignCopy
    <2>3. CASE Acquired(other).result # "vtable"
      BY <1>2, <1>3, <1>6, <2>1, <2>3 DEF AssignCopy
    <2> QED BY <2>2, <2>3
  <1> QED BY <1>5, <1>6

(* The steps from one smart virtual_ptr to another.                        *)
LEMMA BetweenStep ==
  ASSUME OwnInv, NEW p \in Ptr, NEW q \in Ptr,
         \/ CopySmart(p, q) \/ MoveSmart(p, q)
         \/ CastCopy(p, q) \/ CastMoveShared(p, q) \/ CastMoveUnique(p, q)
  PROVE  OwnInv'
  <1>1. config' = config /\ Pairs /\ p # q /\ Smart(p) /\ Smart(q)
    BY DEF CopySmart, MoveSmart, CastCopy, CastMoveShared, CastMoveUnique, Holds, vars, OwnInv,
           Shared, Smart
  <1>2. ASSUME Shared(p), NEW o, NEW v, o = ptr[q].obj \/ o = Null,
               Put([ptr EXCEPT ![p] = [obj |-> o, vp |-> v]], other, Lost(p))
        PROVE  OwnInv'
    <2>1. /\ ptr' = [ptr EXCEPT ![p] = [obj |-> o, vp |-> v]] /\ other' = other
          /\ alive' = alive \ (Lost(p) \ Owned(ptr', other'))
      BY <1>2 DEF Put
    <2>2. Pairs' /\ \A x \in Ptr : ptr'[x].obj = IF x = p THEN o ELSE ptr[x].obj
      BY <1>1, <2>1 DEF Pairs
    <2> QED BY <1>1, <1>2, <2>1, <2>2, OneOwns
  <1>3. ASSUME NEW v, NEW w,
               Put([ptr EXCEPT ![p] = [obj |-> ptr[q].obj, vp |-> v],
                               ![q] = [obj |-> Null, vp |-> w]], other, Lost(p))
        PROVE  OwnInv'
    <2>1. /\ ptr' = [ptr EXCEPT ![p] = [obj |-> ptr[q].obj, vp |-> v],
                                ![q] = [obj |-> Null, vp |-> w]]
          /\ other' = other /\ alive' = alive \ (Lost(p) \ Owned(ptr', other'))
      BY <1>3 DEF Put
    <2>2. /\ Pairs'
          /\ \A x \in Ptr : ptr'[x].obj = IF x = p THEN ptr[q].obj
                                         ELSE IF x = q THEN Null ELSE ptr[x].obj
      BY <1>1, <2>1 DEF Pairs
    <2> QED BY <1>1, <2>1, <2>2, OneHandsOver
  <1>4. ptr[q] = [obj |-> ptr[q].obj, vp |-> ptr[q].vp]
    BY <1>1, PairOf
  <1>5. \A o : [ptr[q] EXCEPT !.obj = o] = [obj |-> o, vp |-> ptr[q].vp]
    BY <1>1, ObjectGiven
  <1>6. CASE CopySmart(p, q)
    BY <1>2, <1>4, <1>6 DEF CopySmart
  <1>7. CASE MoveSmart(p, q)
    BY <1>3, <1>4, <1>7 DEF MoveSmart, MovedFrom
  <1>8. CASE CastCopy(p, q)
    <2>1. PICK succeeds \in BOOLEAN :
            Put([ptr EXCEPT ![p] = [ptr[q] EXCEPT !.obj = SharedCast(@, succeeds)]], other, Lost(p))
      BY <1>8 DEF CastCopy
    <2>2. Shared(p)
      BY <1>8 DEF CastCopy
    <2> QED BY <1>2, <1>5, <2>1, <2>2 DEF SharedCast
  <1>9. CASE CastMoveShared(p, q)
    <2>1. Shared(p)
      BY <1>9 DEF CastMoveShared
    <2>2. PICK succeeds \in BOOLEAN, moves \in BOOLEAN :
            Put([ptr EXCEPT ![p] = [ptr[q] EXCEPT !.obj = SharedCast(@, succeeds)],
                            ![q].obj = IF moves /\ succeeds THEN Null ELSE @], other, Lost(p))
      BY <1>9 DEF CastMoveShared
    <2>3. CASE moves /\ succeeds
      <3>1. [ptr EXCEPT ![p] = [ptr[q] EXCEPT !.obj = SharedCast(@, succeeds)],
                        ![q].obj = IF moves /\ succeeds THEN Null ELSE @]
              = [ptr EXCEPT ![p] = [obj |-> ptr[q].obj, vp |-> ptr[q].vp],
                            ![q] = [obj |-> Null, vp |-> ptr[q].vp]]
        BY <1>1, <1>5, <2>3, ZenonT(60) DEF SharedCast
      <3> QED BY <1>3, <2>2, <3>1
    <2>4. CASE ~ (moves /\ succeeds)
      <3>1. [ptr EXCEPT ![p] = [ptr[q] EXCEPT !.obj = SharedCast(@, succeeds)],
                        ![q].obj = IF moves /\ succeeds THEN Null ELSE @]
              = [ptr EXCEPT ![p] = [obj |-> SharedCast(ptr[q].obj, succeeds), vp |-> ptr[q].vp]]
        BY <1>1, <1>4, <1>5, <2>4, ZenonT(60)
      <3> QED BY <1>2, <2>1, <2>2, <3>1 DEF SharedCast
    <2> QED BY <2>3, <2>4
  <1>10. CASE CastMoveUnique(p, q)
    <2>1. CASE Put([ptr EXCEPT ![p] = ptr[q], ![q].obj = UniqueLeft(@, TRUE)], other, Lost(p))
      <3>1. [ptr EXCEPT ![p] = ptr[q], ![q].obj = UniqueLeft(@, TRUE)]
              = [ptr EXCEPT ![p] = [obj |-> ptr[q].obj, vp |-> ptr[q].vp],
                            ![q] = [obj |-> Null, vp |-> ptr[q].vp]]
        BY <1>1, <1>4, <1>5 DEF UniqueLeft
      <3> QED BY <1>3, <2>1, <3>1
    <2>2. CASE Put([ptr EXCEPT ![q].obj = UniqueLeft(@, FALSE)], other, {})
      <3>1. [ptr EXCEPT ![q].obj = UniqueLeft(@, FALSE)] = ptr
        BY <1>1, <1>4 DEF UniqueLeft, Pairs
      <3>2. ptr' = ptr /\ other' = other /\ alive' = alive
        BY <2>2, <3>1 DEF Put
      <3> QED BY <1>1, <3>2, OwnKept
    <2> QED BY <1>10, <2>1, <2>2 DEF CastMoveUnique
  <1> QED BY <1>6, <1>7, <1>8, <1>9, <1>10

LEMMA OwnStep ==
  ASSUME OwnInv, [NextPtrs]_ptrVars
  PROVE  OwnInv'
  <1>1. CASE UNCHANGED ptrVars
    BY <1>1, OwnKept DEF ptrVars, vars, holdVars
  <1>2. CASE RegistryStep
    BY <1>2, ConfigKept, OwnKept DEF RegistryStep, holdVars
  <1>3. CASE NextPlain /\ UNCHANGED other
    BY <1>3, PlainStep
  <1>4. CASE NextSmart
    BY <1>4, MadeStep, ResetOtherStep, FromOtherStep, BetweenStep DEF NextSmart
  <1> QED BY <1>1, <1>2, <1>3, <1>4 DEF NextPtrs

LEMMA OwnAlways == SpecPtrs => []OwnInv
  BY OwnInit, OwnStep, PTL DEF SpecPtrs

(* An object on the heap exists exactly as long as a smart virtual_ptr or  *)
(* the program's smart pointer owns it, through any copies, moves, casts   *)
(* that fail, assignments that throw, and calls of initialize and finalize.*)
THEOREM HeapIsOwned == SpecPtrs => []HeapOwned
  BY OwnAlways, PTL DEF OwnInv

(* A unique_ptr never shares its object with another smart pointer, through*)
(* the same steps, moves and casts of unique_ptrs among them.              *)
THEOREM UniqueOwnsAlone == SpecPtrs => []SoleOwner
  BY OwnAlways, PTL DEF OwnInv

-----------------------------------------------------------------------------
(* What virtual_ptrs hold: the v-tables, or the variables of records.      *)

Variables == {StaticOf(n) : n \in Node}

(* The entries of the policies, and the variables of classes.              *)
EntriesInv ==
    config.indirect =>
        \A i \in DOMAIN vptrs : vptrs[i] = NullTable \/ vptrs[i] \in [var : Variables]

StaticsNamed ==
    config.shared => \A s \in Static : static_vptr[s] = NullTable \/ static_vptr[s].class = s

LEMMA VariablesAreStatic == Variables \subseteq Static
  BY RecordsAssumption DEF Variables, Static, StaticOf

LEMMA PointerVariable ==
  ASSUME IsList, config.indirect, NEW t \in ToSet(Types), NEW vptr
  PROVE  Pointer(ClassOfType(t), vptr) \in [var : Variables]
  <1>1. PICK r \in ToSet(Records) : t = TypeOf[r]
    BY TypesAre
  <1>2. r \in Node /\ ClassOf[r] \in Registered
    BY RecordsInStatic DEF Registered
  <1>3. ClassOfType(t) = ClassOf[r]
    BY <1>1, <1>2, TypesDiffer
  <1>4. PICK q \in ToSet(Records) : VariableOf(ClassOf[r]) = StaticOf(q)
    BY <1>2, VariableIs
  <1>5. VariableOf(ClassOf[r]) \in Variables
    BY <1>4, RecordsInStatic DEF Variables
  <1> QED BY <1>3, <1>5 DEF Pointer, Address

LEMMA FilledVariables ==
  ASSUME IsList, EntriesInv, config.indirect, NEW size, NEW at, NEW vptr,
         DOMAIN at \subseteq ToSet(Types)
  PROVE  LET filled == Filled(Resized(size), at, vptr)
         IN \A i \in DOMAIN filled : filled[i] = NullTable \/ filled[i] \in [var : Variables]
  <1> DEFINE filled == Filled(Resized(size), at, vptr)
  <1> SUFFICES ASSUME NEW i \in DOMAIN filled
               PROVE  filled[i] = NullTable \/ filled[i] \in [var : Variables]
    OBVIOUS
  <1>1. CASE \E t \in DOMAIN at : at[t] = i
    <2>1. PICK u : u = CHOOSE t \in DOMAIN at : at[t] = i
      OBVIOUS
    <2>2. u \in DOMAIN at /\ filled[i] = Pointer(ClassOfType(u), vptr)
      BY <1>1, <2>1 DEF Filled
    <2> HIDE DEF filled
    <2> QED BY <2>2, PointerVariable
  <1>2. CASE ~ \E t \in DOMAIN at : at[t] = i
    <2>1. filled[i] = IF i \in DOMAIN vptrs THEN vptrs[i] ELSE NullTable
      BY <1>2 DEF Filled, Resized
    <2> HIDE DEF filled
    <2> QED BY <2>1 DEF EntriesInv
  <1> QED BY <1>1, <1>2

LEMMA EntriesStep ==
  ASSUME LifeInv, EntriesInv, StaticsNamed, Next
  PROVE  EntriesInv' /\ StaticsNamed' /\ Variables' = Variables /\ config' = config
  <1>1. config' = config
    BY ConfigKept
  <1>2. Variables' = Variables
    BY <1>1 DEF Variables, StaticOf
  <1>3. IsList /\ TypeOK /\ HashInv /\ ListInv
    BY DEF LifeInv, ListInv
  <1>4. ASSUME NEW r \in Node, Register(r)
        PROVE  EntriesInv' /\ StaticsNamed'
    <2>1. vptrs' = vptrs /\ static_vptr \in [Static -> Table]
      BY <1>3, <1>4 DEF Register, TypeOK
    <2>2. \A s \in Static : static_vptr'[s] \in {static_vptr[s], NullTable}
      BY <1>4, <2>1 DEF Register
    <2> QED BY <1>1, <1>2, <2>1, <2>2 DEF EntriesInv, StaticsNamed
  <1>5. ASSUME NEW r \in Node, Unregister(r)
        PROVE  EntriesInv' /\ StaticsNamed'
    BY <1>1, <1>2, <1>5 DEF Unregister, EntriesInv, StaticsNamed
  <1>6. ASSUME Initialize
        PROVE  EntriesInv' /\ StaticsNamed'
    <2>1. static_vptr' = StaticsWritten
      BY <1>6 DEF Initialize
    <2>2. ASSUME config.shared, NEW s \in Static
          PROVE  StaticsWritten[s] = NullTable \/ StaticsWritten[s].class = s
      <3>1. \A c \in Registered : VariableOf(c) = c
        BY <1>3, <2>2, VariableIs DEF StaticOf
      <3>2. CASE \E c \in Registered : VariableOf(c) = s
        <4>1. PICK d : d = CHOOSE c \in Registered : VariableOf(c) = s
          OBVIOUS
        <4>2. d = s
          BY <3>1, <3>2, <4>1
        <4>3. StaticsWritten[s] = [class |-> d, epoch |-> epoch + 1]
          BY <3>2, <4>1 DEF StaticsWritten
        <4> QED BY <4>2, <4>3
      <3>3. CASE ~ \E c \in Registered : VariableOf(c) = s
        <4>1. StaticsWritten[s] = static_vptr[s]
          BY <3>3 DEF StaticsWritten
        <4> QED BY <2>2, <4>1 DEF StaticsNamed
      <3> QED BY <3>2, <3>3
    <2>3. StaticsNamed'
      BY <1>1, <2>1, <2>2 DEF StaticsNamed
    <2>4. ASSUME config.indirect, NEW i \in DOMAIN vptrs'
          PROVE  vptrs'[i] = NullTable \/ vptrs'[i] \in [var : Variables]
      <3> DEFINE types == ToSet(Types)
                 at == [t \in types |-> t]
      <3>1. CASE vptrs' = vptrs
        BY <2>4, <3>1 DEF EntriesInv
      <3>2. CASE vptrs' = Filled(Resized(LastType(types) + 1), at, StaticsWritten)
        <4>1. DOMAIN at \subseteq ToSet(Types)
          OBVIOUS
        <4> HIDE DEF at, types
        <4> QED BY <1>3, <2>4, <3>2, <4>1, FilledVariables
      <3>3. CASE vptrs' = Emplaced(types, StaticsWritten)
        <4>1. CASE i \in DOMAIN vptrs
          <5>1. vptrs'[i] = vptrs[i]
            BY <3>3, <4>1 DEF Emplaced
          <5> QED BY <2>4, <4>1, <5>1 DEF EntriesInv
        <4>2. CASE i \notin DOMAIN vptrs
          <5>1. i \in types /\ vptrs'[i] = Pointer(ClassOfType(i), StaticsWritten)
            BY <2>4, <3>3, <4>2 DEF Emplaced
          <5> QED BY <1>3, <2>4, <5>1, PointerVariable
        <4> QED BY <4>1, <4>2
      <3> QED BY <1>6, <3>1, <3>2, <3>3 DEF Initialize
    <2>5. EntriesInv'
      BY <1>1, <1>2, <2>4 DEF EntriesInv
    <2> QED BY <2>3, <2>5
  <1>7. ASSUME NEW m \in Multipliers, HashAttempt(m)
        PROVE  EntriesInv' /\ StaticsNamed'
    <2>1. static_vptr' = static_vptr /\ phase = "hashing"
      BY <1>7 DEF HashAttempt
    <2>2. search.types = Types
      BY <1>3, <2>1 DEF HashInv
    <2> DEFINE at == [t \in ToSet(search.types) |-> Index(m, hash.shift, t)]
    <2>3. vptrs' = vptrs \/ \E size : vptrs' = Filled(Resized(size), at, static_vptr)
      BY <1>7 DEF HashAttempt
    <2>4. DOMAIN at \subseteq ToSet(Types)
      BY <2>2
    <2> HIDE DEF at
    <2>5. config.indirect =>
            \A i \in DOMAIN vptrs' : vptrs'[i] = NullTable \/ vptrs'[i] \in [var : Variables]
      BY <1>3, <2>3, <2>4, FilledVariables DEF EntriesInv
    <2> QED BY <1>1, <1>2, <2>1, <2>5 DEF EntriesInv, StaticsNamed
  <1>8. ASSUME Finalize
        PROVE  EntriesInv' /\ StaticsNamed'
    <2>1. vptrs' = <<>> /\ static_vptr' = static_vptr
      BY <1>8 DEF Finalize
    <2>2. DOMAIN vptrs' = {}
      BY <2>1
    <2> QED BY <1>1, <2>1, <2>2 DEF EntriesInv, StaticsNamed
  <1> QED BY <1>1, <1>2, <1>4, <1>5, <1>6, <1>7, <1>8 DEF Next

LEMMA EntryOutside ==
  ASSUME NEW i, i \notin DOMAIN vptrs
  PROVE  Entry(i).result = "out of bounds"
  BY DEF Entry

(* A lookup that succeeds refers to an entry.                              *)
LEMMA AcquiredEntry ==
  ASSUME LifeInv, NEW t \in Nat, acquire_vptr(t).result = "vtable"
  PROVE  initialized /\ \E i \in DOMAIN vptrs : acquire_vptr(t) = Referred(vptrs[i])
  <1>1. TypeOK /\ HashInv
    BY DEF LifeInv
  <1>2. initialized
    BY DEF acquire_vptr
  <1>3. check(t) \in {"known", "unknown", "out of bounds"}
    <2>1. Width - hash.shift \in Nat /\ Width - hash.shift <= Width
          /\ Width - (Width - hash.shift) = hash.shift
      BY <1>1, WidthIs DEF HashInv
    <2>2. PICK M : M = Width - hash.shift
      OBVIOUS
    <2>3. HashIndex(t) \in 0 .. Pow2[M] - 1
      BY <1>1, <2>1, <2>2, IndexFits DEF HashIndex, HashInv
    <2>4. Pow2[M] \in Nat /\ Pow2[Width] \in Nat
      BY <2>1, <2>2, Pow2Is, WidthIs
    <2>5. HashIndex(t) \in Nat /\ hash.min_value \in Nat /\ hash.max_value \in Nat
      BY <1>1, <2>3, <2>4 DEF TypeOK
    <2> DEFINE i == HashIndex(t)
               lo == hash.min_value
               hi == hash.max_value
    <2>6. CASE i < lo \/ i > hi
      <3>1. check(t) = "unknown"
        BY <2>5, <2>6 DEF check
      <3> QED BY <3>1
    <2>7. CASE ~ (i < lo) /\ ~ (i > hi)
      <3>1. i \in lo .. hi
        BY <2>5, <2>7
      <3>2. check(t) = IF i \notin DOMAIN hash.control THEN "out of bounds"
                       ELSE IF hash.control[i] # t THEN "unknown" ELSE "known"
        BY <2>5, <2>7, <3>1 DEF check
      <3> HIDE DEF i
      <3> QED BY <3>2
    <2> QED BY <2>6, <2>7
  <1>4. PICK i : acquire_vptr(t) = Entry(i)
    BY <1>2, <1>3 DEF acquire_vptr, MapLookup, VectorLookup
  <1>5. i \in DOMAIN vptrs
    <2> SUFFICES ASSUME i \notin DOMAIN vptrs PROVE FALSE
      OBVIOUS
    <2>2. Entry(i).result = "out of bounds"
      BY EntryOutside
    <2>3. Entry(i).result = "vtable"
      BY <1>4
    <2> QED BY <2>2, <2>3
  <1> QED BY <1>2, <1>4, <1>5 DEF Entry

-----------------------------------------------------------------------------
(* The virtual_ptrs and the objects.                                       *)

Held == IF config.indirect THEN [var : Variables \cup {Null, "temporary"}] ELSE Table

HeldPairs == [obj : Object \cup {Null}, vp : Held]

HeldInv ==
    /\ ptr \in [Ptr -> HeldPairs]
    /\ alive \subseteq config.objects
    /\ inner \in [Object -> Held \cup {NullTable}]
    /\ other \in config.heap \cup {Null}

PtrInv == LifeInv /\ EntriesInv /\ StaticsNamed /\ HeldInv

(* A v-table is not the address of a variable.                             *)
LEMMA TableIsValue ==
  ASSUME NEW x \in Table
  PROVE  "var" \notin DOMAIN x /\ unbox_vptr(x) = x
  <1>1. DOMAIN x = {"class", "epoch"}
    BY DEF Table, NullTable
  <1> QED BY <1>1 DEF unbox_vptr

LEMMA AcquiredHeld ==
  ASSUME PtrInv, NEW o \in Object, Looks(o), Acquired(o).result = "vtable"
  PROVE  box_vptr(Acquired(o)) \in Held
  <1>1. LifeInv /\ TypeOK /\ EntriesInv /\ inner[o] \in Held \cup {NullTable}
    BY DEF PtrInv, LifeInv, HeldInv
  <1>2. CASE initialized /\ Inplace(o)
    <2>1. Acquired(o) = [result |-> "vtable", vtable |-> unbox_vptr(inner[o]), var |-> "temporary"]
      BY <1>2 DEF Acquired
    <2>2. CASE config.indirect
      BY <2>1, <2>2 DEF box_vptr, Held, Address
    <2>3. CASE ~ config.indirect
      <3>1. inner[o] \in Table
        BY <1>1, <2>3 DEF Held, Table
      <3>2. unbox_vptr(inner[o]) \in Table
        BY <3>1, TableIsValue
      <3> QED BY <2>1, <2>3, <3>2 DEF box_vptr, Held
    <2> QED BY <2>2, <2>3
  <1>3. CASE ~ (initialized /\ Inplace(o))
    <2>1. Acquired(o) = acquire_vptr(TypeOf[o])
      BY <1>3 DEF Acquired
    <2>2. TypeOf[o] \in Nat
      BY PtrAssumption, TypesFit
    <2>3. PICK i \in DOMAIN vptrs : Acquired(o) = Referred(vptrs[i])
      BY <1>1, <2>1, <2>2, AcquiredEntry
    <2>4. CASE config.indirect
      <3>1. Acquired(o).var # "element"
        BY <2>4 DEF Looks, LookupDefined
      <3>2. vptrs[i] # NullTable
        BY <2>3, <3>1 DEF Referred
      <3>3. vptrs[i] \in [var : Variables] /\ Acquired(o).var = vptrs[i].var
        BY <1>1, <2>3, <2>4, <3>2 DEF EntriesInv, Referred
      <3> QED BY <2>4, <3>3 DEF box_vptr, Held, Address
    <2>5. CASE ~ config.indirect
      <3>1. vptrs[i] \in Table /\ Acquired(o).vtable = vptrs[i]
        BY <1>1, <2>3, <2>5 DEF TypeOK, Referred, Deref
      <3> QED BY <2>5, <3>1 DEF box_vptr, Held
    <2> QED BY <2>4, <2>5
  <1> QED BY <1>2, <1>3

LEMMA StaticHeld ==
  ASSUME PtrInv, NEW o \in Object
  PROVE  box_vptr(static_ref(o)) \in Held
  <1>1. StaticOf(o) \in Variables /\ StaticOf(o) \in Static
    BY PtrAssumption, VariablesAreStatic DEF Variables
  <1>2. static_vptr[StaticOf(o)] \in Table
    BY <1>1 DEF PtrInv, LifeInv, TypeOK
  <1> QED BY <1>1, <1>2 DEF box_vptr, static_ref, Held, Address

LEMMA NullHeld == NullPtr \in HeldPairs
  BY DEF NullPtr, HeldPairs, Held, box_vptr, null_vptr, Address, Table

(* What a step can give to a virtual_ptr: what another one has, or only its*)
(* v-table pointer; nothing; the static_vptr of an object's class; what a  *)
(* lookup finds; or an object whose lookup failed, and no v-table pointer. *)
GivenCopy(x)  == \E q \in Ptr : ptr'[x] = ptr[q]
GivenRest(x)  == \E q \in Ptr : ptr'[x] = [obj |-> Null, vp |-> ptr[q].vp]
GivenNull(x)  == ptr'[x] = NullPtr
GivenFinal(x) == \E o \in Object : ptr'[x] = FinalPtr(o)
GivenVptr(x)  ==
    \E o \in Object : /\ Looks(o) /\ Acquired(o).result = "vtable" /\ inner' = inner
                      /\ ptr'[x] = [obj |-> o, vp |-> box_vptr(Acquired(o))]
GivenObject(x) ==
    \E o \in Object : /\ o \in alive /\ Acquired(o).result # "vtable"
                      /\ ptr'[x] = [obj |-> o, vp |-> ptr[x].vp]

Given(x) == \/ GivenCopy(x) \/ GivenRest(x) \/ GivenNull(x)
            \/ GivenFinal(x) \/ GivenVptr(x) \/ GivenObject(x)

(* What the steps of a program's virtual_ptrs and objects have in common:  *)
(* they leave the registry and the objects pointed to alone.               *)
Moves ==
    /\ UNCHANGED vars
    /\ DOMAIN ptr' = Ptr /\ ptr' = [p \in Ptr |-> ptr'[p]]
    /\ \A x \in Ptr : Given(x)
    /\ alive' \subseteq config.objects
    /\ inner' \in [Object -> Held \cup {NullTable}]
    /\ other' \in config.heap \cup {Null}
    /\ \A o \in Pointed : inner'[o] = inner[o] /\ (o \in alive' => o \in alive)

LEMMA MovesKeep ==
  ASSUME PtrInv, Moves
  PROVE  PtrInv'
  <1>1. config' = config /\ vptrs' = vptrs /\ static_vptr' = static_vptr
    BY DEF Moves, vars, runVars
  <1>2. LifeInv'
    BY StutterKeeps DEF PtrInv, Moves
  <1>3. Variables' = Variables
    BY <1>1 DEF Variables, StaticOf
  <1>4. Held' = Held /\ HeldPairs' = HeldPairs
    BY <1>1, <1>3 DEF Held, HeldPairs
  <1>5. EntriesInv' /\ StaticsNamed'
    BY <1>1, <1>3 DEF PtrInv, EntriesInv, StaticsNamed
  <1>6. ASSUME NEW x \in Ptr
        PROVE  ptr'[x] \in HeldPairs
    <2>1. \A q \in Ptr : ptr[q] \in HeldPairs /\ ptr[q].vp \in Held
      BY DEF PtrInv, HeldInv, HeldPairs
    <2>2. CASE GivenCopy(x) \/ GivenRest(x) \/ GivenNull(x)
      <3>1. CASE GivenCopy(x)
        BY <2>1, <3>1 DEF GivenCopy
      <3>2. CASE GivenRest(x)
        BY <2>1, <3>2 DEF GivenRest, HeldPairs
      <3>3. CASE GivenNull(x)
        BY <3>3, NullHeld DEF GivenNull
      <3> QED BY <2>2, <3>1, <3>2, <3>3
    <2>3. CASE GivenFinal(x)
      BY <2>3, StaticHeld DEF GivenFinal, FinalPtr, HeldPairs
    <2>4. CASE GivenVptr(x)
      BY <2>4, AcquiredHeld DEF GivenVptr, HeldPairs
    <2>5. CASE GivenObject(x)
      BY <2>1, <2>5 DEF GivenObject, HeldPairs
    <2> QED BY <2>2, <2>3, <2>4, <2>5 DEF Moves, Given
  <1>7. ptr' \in [Ptr -> HeldPairs]
    BY <1>6 DEF Moves
  <1>8. HeldInv'
    BY <1>1, <1>4, <1>7 DEF HeldInv, Moves
  <1> QED BY <1>2, <1>5, <1>8 DEF PtrInv

(* Most steps leave the objects as they are, or destroy some.              *)
LEMMA MovesSome ==
  ASSUME PtrInv, UNCHANGED vars, inner' = inner, alive' \subseteq alive,
         other' \in config.heap \cup {Null},
         DOMAIN ptr' = Ptr, ptr' = [x \in Ptr |-> ptr'[x]],
         \A x \in Ptr : ptr'[x] = ptr[x] \/ Given(x)
  PROVE  Moves
  <1>1. \A x \in Ptr : ptr'[x] = ptr[x] => GivenCopy(x)
    BY DEF GivenCopy
  <1>2. alive \subseteq config.objects /\ inner \in [Object -> Held \cup {NullTable}]
    BY DEF PtrInv, HeldInv
  <1> QED BY <1>1, <1>2 DEF Moves, Given

LEMMA MovesOne ==
  ASSUME PtrInv, UNCHANGED vars, inner' = inner, alive' \subseteq alive,
         other' \in config.heap \cup {Null},
         NEW p \in Ptr, NEW v, ptr' = [ptr EXCEPT ![p] = v], Given(p)
  PROVE  Moves
  <1>1. ptr \in [Ptr -> HeldPairs]
    BY DEF PtrInv, HeldInv
  <1>2. DOMAIN ptr' = Ptr /\ ptr' = [x \in Ptr |-> ptr'[x]]
    BY <1>1
  <1>3. \A x \in Ptr : x # p => ptr'[x] = ptr[x]
    BY <1>1
  <1>4. \A x \in Ptr : ptr'[x] = ptr[x] \/ Given(x)
    BY <1>3
  <1> QED BY <1>2, <1>4, MovesSome

LEMMA MovesTwo ==
  ASSUME PtrInv, UNCHANGED vars, inner' = inner, alive' \subseteq alive,
         other' \in config.heap \cup {Null},
         NEW p \in Ptr, NEW q \in Ptr, p # q, NEW v, NEW w,
         ptr' = [ptr EXCEPT ![p] = v, ![q] = w], Given(p), Given(q)
  PROVE  Moves
  <1>1. ptr \in [Ptr -> HeldPairs]
    BY DEF PtrInv, HeldInv
  <1>2. DOMAIN ptr' = Ptr /\ ptr' = [x \in Ptr |-> ptr'[x]]
    BY <1>1
  <1>3. \A x \in Ptr : x # p /\ x # q => ptr'[x] = ptr[x]
    BY <1>1
  <1>4. \A x \in Ptr : ptr'[x] = ptr[x] \/ Given(x)
    BY <1>3
  <1> QED BY <1>2, <1>4, MovesSome

(* What PtrInv says of virtual_ptrs and objects.                           *)
LEMMA HeldFacts ==
  ASSUME PtrInv
  PROVE  /\ config \in Configs /\ Pairs /\ ptr \in [Ptr -> HeldPairs]
         /\ config.heap \subseteq config.objects /\ config.objects \subseteq Object
         /\ other \in config.heap \cup {Null} /\ alive \subseteq config.objects
         /\ Null \notin Object
         /\ inner \in [Object -> Held \cup {NullTable}]
  <1>1. config \in Configs
    BY DEF PtrInv, LifeInv, TypeOK
  <1>2. ptr \in [Ptr -> HeldPairs]
    BY DEF PtrInv, HeldInv
  <1>3. Pairs
    <2>1. \A p \in Ptr : ptr[p] = [obj |-> ptr[p].obj, vp |-> ptr[p].vp]
      BY <1>2 DEF HeldPairs
    <2> QED BY <1>2, <2>1 DEF Pairs
  <1>4. Null \notin Object
    BY PtrAssumption, NullAssumption
  <1> QED BY <1>1, <1>2, <1>3, <1>4, PtrAssumption DEF PtrInv, HeldInv, IsPtrConfig

(* A new object, which no virtual_ptr points to yet.                       *)
LEMMA CreatedMoves ==
  ASSUME PtrInv, UNCHANGED vars, NEW o \in Object, Created(o),
         other' \in config.heap \cup {Null},
         ptr' = ptr \/ \E p \in Ptr : ptr' = [ptr EXCEPT ![p] = FinalPtr(o)]
  PROVE  Moves
  <1>1. /\ ptr \in [Ptr -> HeldPairs] /\ alive \subseteq config.objects
        /\ inner \in [Object -> Held \cup {NullTable}]
    BY HeldFacts
  <1>2. DOMAIN ptr' = Ptr /\ ptr' = [x \in Ptr |-> ptr'[x]]
    BY <1>1
  <1>3. \A x \in Ptr : ptr'[x] = ptr[x] \/ ptr'[x] = FinalPtr(o)
    BY <1>1
  <1>4. \A x \in Ptr : Given(x)
    BY <1>3 DEF Given, GivenCopy, GivenFinal
  <1>5. alive' \subseteq config.objects /\ o \notin Pointed /\ alive' = alive \cup {o}
    BY <1>1 DEF Created
  <1>6. inner' \in [Object -> Held \cup {NullTable}] /\ \A x \in Object : x # o => inner'[x] = inner[x]
    BY <1>1, StaticHeld DEF Created
  <1>7. Pointed \subseteq Object
    BY <1>1 DEF Pointed, HeldPairs
  <1> QED BY <1>2, <1>4, <1>5, <1>6, <1>7 DEF Moves

LEMMA PlainMoves ==
  ASSUME PtrInv, NextPlain, other' = other
  PROVE  Moves
  <1>1. UNCHANGED vars
    BY DEF NextPlain, Create, Destroy, Construct, Assign, Final, Copy, Cast, Reset, Holds
  <1>2. other' \in config.heap \cup {Null} /\ Pairs /\ ptr \in [Ptr -> HeldPairs]
        /\ alive \subseteq config.objects /\ inner \in [Object -> Held \cup {NullTable}]
    BY HeldFacts
  <1>3. ASSUME NEW p \in Ptr, NEW v, ptr' = [ptr EXCEPT ![p] = v], alive' = alive, inner' = inner,
               (ptr'[p] = v) => Given(p)
        PROVE  Moves
    <2>1. ptr'[p] = v
      BY <1>2, <1>3
    <2> QED BY <1>1, <1>2, <1>3, <2>1, MovesOne
  <1>4. ASSUME NEW o \in Object, Create(o)
        PROVE  Moves
    BY <1>1, <1>2, <1>4, CreatedMoves DEF Create
  <1>5. ASSUME NEW o \in Object, Destroy(o)
        PROVE  Moves
    <2>1. ptr' = ptr /\ alive' \subseteq alive /\ o \notin Pointed /\ inner' = [inner EXCEPT ![o] = NullTable]
      BY <1>5 DEF Destroy
    <2>2. inner' \in [Object -> Held \cup {NullTable}] /\ \A x \in Object : x # o => inner'[x] = inner[x]
      BY <1>2, <2>1
    <2>3. Pointed \subseteq Object
      BY <1>2 DEF Pointed, HeldPairs
    <2>4. \A x \in Ptr : Given(x)
      BY <2>1 DEF Given, GivenCopy
    <2> QED BY <1>1, <1>2, <2>1, <2>2, <2>3, <2>4 DEF Moves
  <1>6. ASSUME NEW p \in Ptr, NEW o \in Object, Construct(p, o)
        PROVE  Moves
    <2>1. /\ Looks(o) /\ Acquired(o).result = "vtable" /\ inner' = inner /\ alive' = alive
          /\ ptr' = [ptr EXCEPT ![p] = [obj |-> o, vp |-> box_vptr(Acquired(o))]]
      BY <1>6 DEF Construct
    <2> QED BY <1>3, <2>1 DEF Given, GivenVptr
  <1>7. ASSUME NEW p \in Ptr, NEW o \in Object, Assign(p, o)
        PROVE  Moves
    <2>1. Looks(o) /\ inner' = inner /\ alive' = alive /\ o \in alive
      BY <1>7 DEF Assign, Looks
    <2>2. CASE Acquired(o).result = "vtable"
      <3>1. ptr' = [ptr EXCEPT ![p] = [obj |-> o, vp |-> box_vptr(Acquired(o))]]
        BY <1>7, <2>2 DEF Assign
      <3> QED BY <1>3, <2>1, <2>2, <3>1 DEF Given, GivenVptr
    <2>3. CASE Acquired(o).result # "vtable"
      <3>1. ptr' = [ptr EXCEPT ![p].obj = o]
        BY <1>7, <2>3 DEF Assign
      <3>2. ptr' = [ptr EXCEPT ![p] = [obj |-> o, vp |-> ptr[p].vp]]
        BY <1>2, <3>1, ObjectGiven
      <3> QED BY <1>3, <2>1, <2>3, <3>2 DEF Given, GivenObject
    <2> QED BY <2>2, <2>3
  <1>8. ASSUME NEW p \in Ptr, NEW o \in Object, Final(p, o)
        PROVE  Moves
    BY <1>3, <1>8 DEF Final, Given, GivenFinal
  <1>9. ASSUME NEW p \in Ptr, NEW q \in Ptr, Copy(p, q) \/ Cast(p, q)
        PROVE  Moves
    <2>1. ptr' = [ptr EXCEPT ![p] = ptr[q]]
      BY <1>2, <1>9, PairOf DEF Copy, Copied, Cast
    <2> QED BY <1>3, <1>9, <2>1 DEF Copy, Cast, Given, GivenCopy
  <1>10. ASSUME NEW p \in Ptr, Reset(p)
        PROVE  Moves
    BY <1>3, <1>10 DEF Reset, Given, GivenNull
  <1> QED BY <1>4, <1>5, <1>6, <1>7, <1>8, <1>9, <1>10 DEF NextPlain

(* One smart virtual_ptr is written, or two; the objects that lose their   *)
(* last owner are destroyed.                                               *)
LEMMA PutOne ==
  ASSUME PtrInv, UNCHANGED vars, NEW p \in Ptr, NEW v, NEW r, NEW lost,
         Put([ptr EXCEPT ![p] = v], r, lost), r \in config.heap \cup {Null},
         (ptr'[p] = v /\ inner' = inner) => Given(p)
  PROVE  Moves
  <1>1. ptr' = [ptr EXCEPT ![p] = v] /\ other' = r /\ inner' = inner /\ alive' \subseteq alive
    BY DEF Put
  <1>2. ptr'[p] = v
    BY <1>1, HeldFacts
  <1> QED BY <1>1, <1>2, MovesOne

LEMMA PutTwo ==
  ASSUME PtrInv, UNCHANGED vars, NEW p \in Ptr, NEW q \in Ptr, p # q, NEW o, NEW w,
         o = ptr[q].obj \/ o = Null, w = NullPtr \/ w = [obj |-> Null, vp |-> ptr[q].vp],
         NEW lost,
         Put([ptr EXCEPT ![p] = [obj |-> o, vp |-> ptr[q].vp], ![q] = w], other, lost)
  PROVE  Moves
  <1>1. /\ ptr' = [ptr EXCEPT ![p] = [obj |-> o, vp |-> ptr[q].vp], ![q] = w] /\ other' = other
        /\ inner' = inner /\ alive' \subseteq alive
    BY DEF Put
  <1>2. Pairs /\ ptr \in [Ptr -> HeldPairs] /\ other' \in config.heap \cup {Null}
    BY <1>1, HeldFacts
  <1>3. ptr'[p] = [obj |-> o, vp |-> ptr[q].vp] /\ ptr'[q] = w
    BY <1>1, <1>2
  <1>4. Given(p)
    <2>1. ptr[q] = [obj |-> ptr[q].obj, vp |-> ptr[q].vp]
      BY <1>2, PairOf
    <2>2. GivenCopy(p) \/ GivenRest(p)
      BY <1>3, <2>1 DEF GivenCopy, GivenRest
    <2> QED BY <2>2 DEF Given
  <1>5. Given(q)
    BY <1>3 DEF Given, GivenNull, GivenRest
  <1> QED BY <1>1, <1>2, <1>4, <1>5, MovesTwo

LEMMA MadeMoves ==
  ASSUME PtrInv, NEW o \in Object, MakeOther(o) \/ \E p \in Ptr : make_virtual(p, o)
  PROVE  Moves
  <1>1. UNCHANGED vars /\ Created(o) /\ other' \in config.heap \cup {Null}
    BY HeldFacts DEF MakeOther, make_virtual, Holds
  <1>2. ptr' = ptr \/ \E p \in Ptr : ptr' = [ptr EXCEPT ![p] = FinalPtr(o)]
    BY DEF MakeOther, make_virtual
  <1> QED BY <1>1, <1>2, CreatedMoves

LEMMA ResetOtherMoves ==
  ASSUME PtrInv, ResetOther
  PROVE  Moves
  <1>1. UNCHANGED vars /\ ptr' = ptr /\ other' = Null /\ inner' = inner /\ alive' \subseteq alive
    BY DEF ResetOther, Holds, Put
  <1>2. DOMAIN ptr' = Ptr /\ ptr' = [x \in Ptr |-> ptr'[x]]
    BY <1>1, HeldFacts
  <1> QED BY <1>1, <1>2, MovesSome

LEMMA FromOtherMoves ==
  ASSUME PtrInv, NEW p \in Ptr,
         \/ ConstructCopy(p) \/ ConstructMove(p) \/ AssignCopy(p) \/ AssignMove(p)
         \/ FinalMove(p) \/ ResetSmart(p)
  PROVE  Moves
  <1>1. UNCHANGED vars
    BY DEF ConstructCopy, ConstructMove, AssignCopy, AssignMove, FinalMove, ResetSmart, Holds
  <1>2. /\ Pairs /\ other \in config.heap \cup {Null} /\ Null \notin Object
        /\ other # Null => other \in Object
    BY HeldFacts
  <1>3. ASSUME other # Null, Looks(other), Acquired(other).result = "vtable", inner' = inner,
               ptr'[p] = [obj |-> other, vp |-> box_vptr(Acquired(other))]
        PROVE  Given(p)
    BY <1>2, <1>3 DEF Given, GivenVptr
  <1>4. ASSUME CanAcquire, inner' = inner,
               ptr'[p] = [obj |-> other, vp |-> box_vptr(SmartRef)]
        PROVE  Given(p)
    <2>1. CASE other = Null
      BY <1>4, <2>1 DEF Given, GivenNull, NullPtr, SmartRef
    <2>2. CASE other # Null
      BY <1>3, <1>4, <2>2 DEF CanAcquire, SmartRef
    <2> QED BY <2>1, <2>2
  <1>5. CASE ConstructCopy(p)
    <2>1. /\ CanAcquire
          /\ Put([ptr EXCEPT ![p] = [obj |-> other, vp |-> box_vptr(SmartRef)]], other, {})
      BY <1>5 DEF ConstructCopy
    <2> QED BY <1>1, <1>2, <1>4, <2>1, PutOne
  <1>6. CASE ConstructMove(p) \/ AssignMove(p)
    <2>1. PICK lost :
            /\ CanAcquire
            /\ Put([ptr EXCEPT ![p] = [obj |-> other, vp |-> box_vptr(SmartRef)]], Null, lost)
      BY <1>6 DEF ConstructMove, AssignMove
    <2> QED BY <1>1, <1>4, <2>1, PutOne
  <1>7. CASE AssignCopy(p)
    <2>1. other # Null /\ Looks(other)
      BY <1>7 DEF AssignCopy
    <2>2. CASE Acquired(other).result = "vtable"
      <3>1. Put([ptr EXCEPT ![p] = [obj |-> other, vp |-> box_vptr(Acquired(other))]], other, Lost(p))
        BY <1>7, <2>2 DEF AssignCopy
      <3> QED BY <1>1, <1>2, <1>3, <2>1, <2>2, <3>1, PutOne
    <2>3. CASE Acquired(other).result # "vtable"
      <3>1. Put([ptr EXCEPT ![p].obj = other], other, Lost(p))
        BY <1>7, <2>3 DEF AssignCopy
      <3>2. [ptr EXCEPT ![p].obj = other] = [ptr EXCEPT ![p] = [obj |-> other, vp |-> ptr[p].vp]]
        BY <1>2, ObjectGiven
      <3>3. Put([ptr EXCEPT ![p] = [obj |-> other, vp |-> ptr[p].vp]], other, Lost(p))
        BY <3>1, <3>2
      <3>4. ptr'[p] = [obj |-> other, vp |-> ptr[p].vp] => Given(p)
        BY <1>2, <2>1, <2>3 DEF Given, GivenObject, Looks
      <3> QED BY <1>1, <1>2, <3>3, <3>4, PutOne
    <2> QED BY <2>2, <2>3
  <1>8. CASE FinalMove(p)
    <2>1. Put([ptr EXCEPT ![p] = FinalPtr(other)], Null, {}) /\ other \in Object
      BY <1>2, <1>8 DEF FinalMove
    <2>2. ptr'[p] = FinalPtr(other) => Given(p)
      BY <2>1 DEF Given, GivenFinal
    <2> QED BY <1>1, <2>1, <2>2, PutOne
  <1>9. CASE ResetSmart(p)
    <2>1. Put([ptr EXCEPT ![p] = NullPtr], other, Lost(p))
      BY <1>9 DEF ResetSmart
    <2>2. ptr'[p] = NullPtr => Given(p)
      BY DEF Given, GivenNull
    <2> QED BY <1>1, <1>2, <2>1, <2>2, PutOne
  <1> QED BY <1>5, <1>6, <1>7, <1>8, <1>9

LEMMA BetweenMoves ==
  ASSUME PtrInv, NEW p \in Ptr, NEW q \in Ptr,
         \/ CopySmart(p, q) \/ MoveSmart(p, q)
         \/ CastCopy(p, q) \/ CastMoveShared(p, q) \/ CastMoveUnique(p, q)
  PROVE  Moves
  <1>1. UNCHANGED vars /\ p # q
    BY DEF CopySmart, MoveSmart, CastCopy, CastMoveShared, CastMoveUnique, Holds
  <1>2. Pairs /\ ptr \in [Ptr -> HeldPairs] /\ other \in config.heap \cup {Null}
    BY HeldFacts
  <1>3. ptr[q] = [obj |-> ptr[q].obj, vp |-> ptr[q].vp]
    BY <1>2, PairOf
  <1>4. \A o : [ptr[q] EXCEPT !.obj = o] = [obj |-> o, vp |-> ptr[q].vp]
    BY <1>2, ObjectGiven
  <1>5. ASSUME NEW o, o = ptr[q].obj \/ o = Null,
               Put([ptr EXCEPT ![p] = [obj |-> o, vp |-> ptr[q].vp]], other, Lost(p))
        PROVE  Moves
    <2>1. ptr'[p] = [obj |-> o, vp |-> ptr[q].vp] => GivenCopy(p) \/ GivenRest(p)
      BY <1>3, <1>5 DEF GivenCopy, GivenRest
    <2>2. ptr'[p] = [obj |-> o, vp |-> ptr[q].vp] => Given(p)
      BY <2>1 DEF Given
    <2> QED BY <1>1, <1>2, <1>5, <2>2, PutOne
  <1>6. CASE CopySmart(p, q)
    BY <1>3, <1>5, <1>6 DEF CopySmart
  <1>7. CASE MoveSmart(p, q)
    <2>1. Put([ptr EXCEPT ![p] = [obj |-> ptr[q].obj, vp |-> ptr[q].vp], ![q] = NullPtr],
              other, Lost(p))
      BY <1>3, <1>7 DEF MoveSmart, MovedFrom, NullPtr
    <2> QED BY <1>1, <2>1, PutTwo
  <1>8. CASE CastCopy(p, q)
    <2>1. PICK succeeds \in BOOLEAN :
            Put([ptr EXCEPT ![p] = [ptr[q] EXCEPT !.obj = SharedCast(@, succeeds)]], other, Lost(p))
      BY <1>8 DEF CastCopy
    <2> QED BY <1>4, <1>5, <2>1 DEF SharedCast
  <1>9. CASE CastMoveShared(p, q)
    <2>1. PICK succeeds \in BOOLEAN, moves \in BOOLEAN :
            Put([ptr EXCEPT ![p] = [ptr[q] EXCEPT !.obj = SharedCast(@, succeeds)],
                            ![q].obj = IF moves /\ succeeds THEN Null ELSE @], other, Lost(p))
      BY <1>9 DEF CastMoveShared
    <2>2. CASE moves /\ succeeds
      <3>1. [ptr EXCEPT ![p] = [ptr[q] EXCEPT !.obj = SharedCast(@, succeeds)],
                        ![q].obj = IF moves /\ succeeds THEN Null ELSE @]
              = [ptr EXCEPT ![p] = [obj |-> ptr[q].obj, vp |-> ptr[q].vp],
                            ![q] = [obj |-> Null, vp |-> ptr[q].vp]]
        BY <1>1, <1>2, <1>4, <2>2 DEF SharedCast
      <3> QED BY <1>1, <2>1, <3>1, PutTwo
    <2>3. CASE ~ (moves /\ succeeds)
      <3>1. [ptr EXCEPT ![p] = [ptr[q] EXCEPT !.obj = SharedCast(@, succeeds)],
                        ![q].obj = IF moves /\ succeeds THEN Null ELSE @]
              = [ptr EXCEPT ![p] = [obj |-> SharedCast(ptr[q].obj, succeeds), vp |-> ptr[q].vp]]
        BY <1>1, <1>2, <1>3, <1>4, <2>3
      <3> QED BY <1>5, <2>1, <3>1 DEF SharedCast
    <2> QED BY <2>2, <2>3
  <1>10. CASE CastMoveUnique(p, q)
    <2>1. CASE Put([ptr EXCEPT ![p] = ptr[q], ![q].obj = UniqueLeft(@, TRUE)], other, Lost(p))
      <3>1. [ptr EXCEPT ![p] = ptr[q], ![q].obj = UniqueLeft(@, TRUE)]
              = [ptr EXCEPT ![p] = [obj |-> ptr[q].obj, vp |-> ptr[q].vp],
                            ![q] = [obj |-> Null, vp |-> ptr[q].vp]]
        BY <1>1, <1>2, <1>3, <1>4 DEF UniqueLeft
      <3> QED BY <1>1, <2>1, <3>1, PutTwo
    <2>2. CASE Put([ptr EXCEPT ![q].obj = UniqueLeft(@, FALSE)], other, {})
      <3>1. [ptr EXCEPT ![q].obj = UniqueLeft(@, FALSE)] = ptr
        BY <1>2, <1>3 DEF UniqueLeft, Pairs
      <3>2. ptr' = ptr /\ other' = other /\ inner' = inner /\ alive' \subseteq alive
        BY <2>2, <3>1 DEF Put
      <3>3. DOMAIN ptr' = Ptr /\ ptr' = [x \in Ptr |-> ptr'[x]]
        BY <1>2, <3>2
      <3> QED BY <1>1, <1>2, <3>2, <3>3, MovesSome
    <2> QED BY <1>10, <2>1, <2>2 DEF CastMoveUnique
  <1> QED BY <1>6, <1>7, <1>8, <1>9, <1>10

LEMMA SmartMoves ==
  ASSUME PtrInv, NextSmart
  PROVE  Moves
  BY MadeMoves, ResetOtherMoves, FromOtherMoves, BetweenMoves DEF NextSmart

LEMMA PtrInitially == InitPtrs => PtrInv
  <1> SUFFICES ASSUME InitPtrs PROVE PtrInv
    OBVIOUS
  <1>1. LifeInv /\ config \in Configs
    BY InitLife DEF InitPtrs, InitHolds, Init
  <1>2. EntriesInv
    <2>1. DOMAIN vptrs = {}
      BY DEF InitPtrs, InitHolds, Init
    <2> QED BY <2>1 DEF EntriesInv
  <1>3. StaticsNamed
    BY DEF InitPtrs, InitHolds, Init, StaticsNamed
  <1>4. /\ ptr = [p \in Ptr |-> NullPtr] /\ alive = {} /\ other = Null
        /\ inner = [o \in Object |-> NullTable]
    BY DEF InitPtrs, InitHolds
  <1>5. HeldInv
    BY <1>4, NullHeld DEF HeldInv
  <1> QED BY <1>1, <1>2, <1>3, <1>5 DEF PtrInv

LEMMA PtrRegistry ==
  ASSUME PtrInv, RegistryStep
  PROVE  PtrInv'
  <1>1. Next /\ UNCHANGED <<ptr, alive, inner, other>>
    BY DEF RegistryStep, holdVars
  <1>2. LifeInv'
    BY <1>1, LifeStep DEF PtrInv
  <1>3. EntriesInv' /\ StaticsNamed' /\ Variables' = Variables /\ config' = config
    BY <1>1, EntriesStep DEF PtrInv
  <1>4. Held' = Held
    BY <1>3 DEF Held
  <1>5. HeldPairs' = HeldPairs
    BY <1>4 DEF HeldPairs
  <1>6. HeldInv'
    BY <1>1, <1>3, <1>4, <1>5 DEF PtrInv, HeldInv
  <1> QED BY <1>2, <1>3, <1>6 DEF PtrInv

LEMMA PtrStutter ==
  ASSUME PtrInv, UNCHANGED ptrVars
  PROVE  PtrInv'
  <1>1. UNCHANGED vars /\ UNCHANGED <<ptr, alive, inner, other>>
    BY DEF ptrVars, holdVars
  <1>2. \A x \in Ptr : Given(x)
    BY <1>1 DEF Given, GivenCopy
  <1>3. DOMAIN ptr' = Ptr /\ ptr' = [x \in Ptr |-> ptr'[x]] /\ other' \in config.heap \cup {Null}
    BY <1>1, HeldFacts
  <1>4. Moves
    BY <1>1, <1>3, MovesSome
  <1> QED BY <1>4, MovesKeep

LEMMA PtrStep ==
  ASSUME PtrInv, [NextPtrs]_ptrVars
  PROVE  PtrInv'
  BY PtrStutter, PtrRegistry, PlainMoves, SmartMoves, MovesKeep DEF NextPtrs

LEMMA PtrAlways == SpecPtrs => []PtrInv
  BY PtrInitially, PtrStep, PTL DEF SpecPtrs

(* Whatever the program calls, a virtual_ptr holds a v-table of a class, or*)
(* the address of a static_vptr if pointers are indirect, and its object is*)
(* one of the program's.                                                   *)
THEOREM PtrsStayTyped == SpecPtrs => []PtrsTypeOK
  <1>1. PtrInv => PtrsTypeOK
    <2> SUFFICES ASSUME PtrInv PROVE PtrsTypeOK
      OBVIOUS
    <2>1. TypeOK /\ HeldInv
      BY DEF PtrInv, LifeInv
    <2>2. Held \subseteq Boxed
      BY VariablesAreStatic DEF Held, Boxed
    <2>3. HeldPairs \subseteq PtrTypes
      BY <2>2 DEF HeldPairs, PtrTypes
    <2> QED BY <2>1, <2>2, <2>3 DEF PtrsTypeOK, HeldInv
  <1> QED BY <1>1, PtrAlways, PTL

-----------------------------------------------------------------------------
(* Where virtual_ptrs lead.                                                *)

(* initialize writes the static_vptr that a class has in the program, and  *)
(* it stays while there is a record of the class.                          *)
LEMMA StaticIsCurrent ==
  ASSUME LifeInv, config.shared, NEW o \in known \ gone
  PROVE  static_vptr[StaticOf(o)] = Current(ClassOf[o])
  <1>1. PICK V : StaticsKept(V)
    BY DEF LifeInv
  <1> DEFINE c == ClassOf[o]
  <1>2. c \in KnownClasses
    BY DEF KnownClasses
  <1>3. PICK r \in known : ClassOf[r] = c /\ StaticOf(r) = V[c]
    BY <1>1, <1>2 DEF StaticsKept
  <1>4. V[c] = c /\ StaticOf(o) = c
    BY <1>3 DEF StaticOf
  <1>5. StillThere(V, c)
    BY <1>4 DEF StillThere
  <1> QED BY <1>1, <1>2, <1>4, <1>5 DEF StaticsKept

LEMMA KnownIsNode ==
  ASSUME LifeInv, NEW o \in known
  PROVE  o \in Node /\ o # Null /\ ClassOf[o] \in Class /\ ClassOf[o] # Null
  <1>1. o \in Node
    BY RecordsAssumption DEF LifeInv, TypeOK, IsConfig
  <1> QED BY <1>1, NullAssumption, RecordsAssumption

(* The address of a variable leads to what it holds.                       *)
LEMMA AddressLeads ==
  ASSUME NEW s \in Static, s # Null
  PROVE  unbox_vptr(Address(s)) = static_vptr[s]
  BY DEF unbox_vptr, Address

LEMMA CurrentIsValue ==
  ASSUME NEW c
  PROVE  unbox_vptr(Current(c)) = Current(c)
  <1>1. DOMAIN Current(c) = {"class", "epoch"}
    BY DEF Current
  <1> QED BY <1>1 DEF unbox_vptr

(* An indirect virtual_ptr to an object of a class that is there leads to  *)
(* the v-table that the last initialize wrote, whenever it was made, unless*)
(* it has the variable of another class: "they remain valid after a call to*)
(* initialize" (doc/vptr.adoc:60).                                         *)
THEOREM IndirectPtrsStayValid == SpecPtrs => []IndirectStaysValid
  <1>1. PtrInv => IndirectStaysValid
    <2> SUFFICES ASSUME PtrInv, config.indirect, config.shared,
                        NEW p \in Ptr, ~ Foreign(p), Supported(p)
                 PROVE  unbox_vptr(ptr[p].vp) = Current(ClassOf[ptr[p].obj])
      BY DEF IndirectStaysValid, Valid
    <2> DEFINE o == ptr[p].obj
               c == ClassOf[o]
    <2>1. LifeInv /\ o \in known \ gone /\ ptr[p].vp.var # "temporary"
      BY DEF PtrInv, Supported
    <2>2. c # Null /\ c \in Static
      BY <2>1, KnownIsNode DEF Static
    <2>3. ptr[p].vp \in [var : Variables \cup {Null, "temporary"}]
      BY HeldFacts DEF HeldPairs, Held
    <2>4. ptr[p].vp.var \in Variables
      BY <2>1, <2>3 DEF Foreign
    <2>5. PICK n \in Node : ptr[p].vp.var = StaticOf(n)
      BY <2>4 DEF Variables
    <2>6. ClassOf[n] = c
      BY <2>5 DEF Foreign
    <2>7. ptr[p].vp = Address(c)
      BY <2>3, <2>5, <2>6 DEF StaticOf, Address
    <2>8. static_vptr[c] = Current(c)
      BY <2>1, StaticIsCurrent DEF StaticOf
    <2> QED BY <2>2, <2>7, <2>8, AddressLeads
  <1> QED BY <1>1, PtrAlways, PTL

(* What a lookup gives to a virtual_ptr leads to the v-table.              *)
LEMMA AcquiredLeads ==
  ASSUME PtrInv, config.shared, Ready, ~ MapStale,
         NEW o \in Object, o \in known \ gone, Looks(o), Acquired(o).result = "vtable",
         IF config.indirect THEN box_vptr(Acquired(o)).var # "temporary"
         ELSE Inplace(o) => inner[o] = Current(ClassOf[o])
  PROVE  unbox_vptr(box_vptr(Acquired(o))) = Current(ClassOf[o])
  <1> DEFINE c == ClassOf[o]
  <1>1. LifeInv /\ EntriesInv /\ TypeOK /\ initialized /\ LookupsCurrent
    BY LookupsFromLife DEF PtrInv, LifeInv, Ready
  <1>2. CASE Inplace(o)
    <2>1. Acquired(o) = [result |-> "vtable", vtable |-> unbox_vptr(inner[o]), var |-> "temporary"]
      BY <1>1, <1>2 DEF Acquired
    <2>2. ~ config.indirect
      BY <2>1 DEF box_vptr, Address
    <2>3. box_vptr(Acquired(o)) = unbox_vptr(Current(c))
      BY <1>2, <2>1, <2>2 DEF box_vptr
    <2> QED BY <2>3, CurrentIsValue
  <1>3. CASE ~ Inplace(o)
    <2>1. Acquired(o) = acquire_vptr(TypeOf[o])
      BY <1>3 DEF Acquired
    <2>2. Acquired(o).vtable = Current(c)
      <3>1. VariableKept(c)
        BY DEF VariableKept
      <3> QED BY <1>1, <2>1, <3>1 DEF LookupsCurrent
    <2>3. CASE ~ config.indirect
      <3>1. box_vptr(Acquired(o)) = Current(c)
        BY <2>2, <2>3 DEF box_vptr
      <3> QED BY <3>1, CurrentIsValue
    <2>4. CASE config.indirect
      <3>1. TypeOf[o] \in Nat
        BY PtrAssumption, TypesFit
      <3>2. PICK i \in DOMAIN vptrs : Acquired(o) = Referred(vptrs[i])
        BY <1>1, <2>1, <3>1, AcquiredEntry
      <3>3. Acquired(o).var # "element"
        BY <2>4 DEF Looks, LookupDefined
      <3>4. vptrs[i] # NullTable
        BY <3>2, <3>3 DEF Referred
      <3>5. vptrs[i] \in [var : Variables]
        BY <1>1, <2>4, <3>4 DEF EntriesInv
      <3> DEFINE s == vptrs[i].var
      <3>6. s \in Static /\ s # Null
        <4>1. PICK n \in Node : s = ClassOf[n]
          BY <3>5 DEF Variables, StaticOf
        <4> QED BY <4>1, RecordsAssumption DEF Static
      <3>7. Acquired(o).var = s /\ Acquired(o).vtable = Value(s)
        BY <2>4, <3>2, <3>4 DEF Referred, Deref
      <3>8. Current(c) # Garbage
        <4>1. epoch # MaxEpoch + 1
          BY <1>1, RecordsAssumption DEF TypeOK
        <4> QED BY <4>1 DEF Current, Garbage
      <3>9. static_vptr[s] = Current(c)
        BY <2>2, <3>7, <3>8 DEF Value
      <3>10. box_vptr(Acquired(o)) = Address(s)
        BY <2>4, <3>7 DEF box_vptr
      <3> HIDE DEF s
      <3> QED BY <3>6, <3>9, <3>10, AddressLeads
    <2> QED BY <2>3, <2>4
  <1> QED BY <1>2, <1>3

LEMMA FinalLeads ==
  ASSUME PtrInv, config.shared, NEW o \in Object, o \in known \ gone
  PROVE  unbox_vptr(box_vptr(static_ref(o))) = Current(ClassOf[o])
  <1>1. LifeInv
    BY DEF PtrInv
  <1>2. static_vptr[StaticOf(o)] = Current(ClassOf[o])
    BY <1>1, StaticIsCurrent
  <1>3. CASE config.indirect
    <2>1. box_vptr(static_ref(o)) = Address(StaticOf(o))
      BY <1>3 DEF box_vptr, static_ref
    <2>2. StaticOf(o) \in Static /\ StaticOf(o) # Null
      BY <1>1, KnownIsNode DEF StaticOf, Static
    <2> QED BY <1>2, <2>1, <2>2, AddressLeads
  <1>4. CASE ~ config.indirect
    <2>1. box_vptr(static_ref(o)) = Current(ClassOf[o])
      BY <1>2, <1>4 DEF box_vptr, static_ref
    <2> QED BY <2>1, CurrentIsValue
  <1> QED BY <1>3, <1>4

(* A virtual_ptr that has just been written leads to the v-table.          *)
LEMMA MovesValid ==
  ASSUME PtrInv, Moves, config.shared, Ready, AllValid, ~ MapStale,
         NEW x \in Ptr, ~ AssignThrew
  PROVE  Valid(x)'
  <1>1. /\ config' = config /\ epoch' = epoch /\ known' = known /\ gone' = gone
        /\ static_vptr' = static_vptr
    BY DEF Moves, vars, runVars
  <1>2. LifeInv /\ Pairs /\ \A v : unbox_vptr(v)' = unbox_vptr(v)
    BY <1>1, HeldFacts DEF PtrInv, unbox_vptr
  <1> DEFINE o == ptr'[x].obj
             c == ClassOf[o]
  <1> SUFFICES ASSUME Supported(x)'
               PROVE  unbox_vptr(ptr'[x].vp) = Current(c)
    BY <1>1 DEF Valid, unbox_vptr, Current
  <1>3. /\ o \in known \ gone /\ o \in alive'
        /\ IF config.indirect THEN ptr'[x].vp.var # "temporary"
           ELSE Inplace(o) => inner'[o] = Current(c)
    BY <1>1 DEF Supported, Inplace, Current
  <1>4. o # Null
    BY <1>2, <1>3, KnownIsNode
  <1>5. CASE GivenCopy(x)
    <2>1. PICK q \in Ptr : ptr'[x] = ptr[q]
      BY <1>5 DEF GivenCopy
    <2>2. o \in Pointed
      BY <1>4, <2>1 DEF Pointed
    <2>3. inner'[o] = inner[o] /\ o \in alive
      BY <1>3, <2>2 DEF Moves
    <2>4. Supported(q)
      BY <1>3, <2>1, <2>3 DEF Supported
    <2> QED BY <2>1, <2>4 DEF AllValid, Valid
  <1>6. ~ GivenRest(x) /\ ~ GivenNull(x)
    <2>1. GivenRest(x) => o = Null
      BY DEF GivenRest
    <2>2. GivenNull(x) => o = Null
      BY DEF GivenNull, NullPtr
    <2> QED BY <1>4, <2>1, <2>2
  <1>7. CASE GivenFinal(x)
    <2>1. o \in Object /\ ptr'[x].vp = box_vptr(static_ref(o))
      BY <1>7 DEF GivenFinal, FinalPtr
    <2> QED BY <1>3, <2>1, FinalLeads
  <1>8. CASE GivenVptr(x)
    <2>1. PICK n \in Object :
            /\ Looks(n) /\ Acquired(n).result = "vtable" /\ inner' = inner
            /\ ptr'[x] = [obj |-> n, vp |-> box_vptr(Acquired(n))]
      BY <1>8 DEF GivenVptr
    <2>2. o = n /\ ptr'[x].vp = box_vptr(Acquired(n))
      BY <2>1
    <2>3. /\ n \in known \ gone
          /\ IF config.indirect THEN box_vptr(Acquired(n)).var # "temporary"
             ELSE Inplace(n) => inner[n] = Current(ClassOf[n])
      BY <1>3, <2>1, <2>2
    <2>4. unbox_vptr(box_vptr(Acquired(n))) = Current(ClassOf[n])
      BY <2>1, <2>3, AcquiredLeads
    <2> QED BY <2>2, <2>4
  <1>9. ~ GivenObject(x)
    <2> SUFFICES ASSUME NEW n \in Object, n \in alive, Acquired(n).result # "vtable",
                        ptr'[x] = [obj |-> n, vp |-> ptr[x].vp]
                 PROVE  FALSE
      BY DEF GivenObject
    <2>1. ptr'[x] = [ptr[x] EXCEPT !.obj = n]
      BY <1>2, ObjectGiven
    <2> QED BY <2>1 DEF AssignThrew
  <1> QED BY <1>5, <1>6, <1>7, <1>8, <1>9 DEF Moves, Given

(* Loading and unloading classes leaves the v-table of an object that is   *)
(* there alone: the static_vptr of a class is reset only when it comes back*)
(* after all its records have gone.                                        *)
LEMMA RegistryValid ==
  ASSUME PtrInv, RegistryStep, config.shared, Ready, Ready', epoch' = epoch, AllValid
  PROVE  AllValid'
  <1>1. Next /\ ptr' = ptr /\ alive' = alive /\ inner' = inner
    BY DEF RegistryStep, holdVars
  <1>2. LifeInv /\ TypeOK /\ ListInv /\ StaticsNamed /\ config' = config
    BY <1>1, ConfigKept DEF PtrInv, LifeInv
  <1> SUFFICES ASSUME NEW p \in Ptr, Supported(p)'
               PROVE  unbox_vptr(ptr[p].vp)' = Current(ClassOf[ptr[p].obj])'
    BY <1>1 DEF AllValid, Valid
  <1> DEFINE o == ptr[p].obj
             c == ClassOf[o]
  <1>3. Current(c)' = Current(c)
    BY <1>1 DEF Current
  <1>4. known' = known /\ gone \subseteq gone' /\ static_vptr' = static_vptr =>
          unbox_vptr(ptr[p].vp)' = Current(c)'
    <2> SUFFICES ASSUME known' = known, gone \subseteq gone', static_vptr' = static_vptr
                 PROVE  unbox_vptr(ptr[p].vp)' = Current(c)'
      OBVIOUS
    <2>1. Supported(p)
      BY <1>1, <1>2, <1>3 DEF Supported, Inplace
    <2>2. unbox_vptr(ptr[p].vp)' = unbox_vptr(ptr[p].vp)
      BY <1>1 DEF unbox_vptr
    <2> QED BY <1>1, <1>3, <2>1, <2>2 DEF AllValid, Valid
  <1>5. ASSUME NEW r \in Node, Register(r)
        PROVE  unbox_vptr(ptr[p].vp)' = Current(c)'
    <2>1. /\ known' = known /\ gone' = gone
          /\ static_vptr' = IF Exists(StaticOf(r)) THEN static_vptr
                            ELSE [static_vptr EXCEPT ![StaticOf(r)] = NullTable]
      BY <1>5 DEF Register
    <2>2. Supported(p)
      BY <1>1, <1>2, <1>3, <2>1 DEF Supported, Inplace
    <2>3. unbox_vptr(ptr[p].vp) = Current(c) /\ o \in known \ gone
      BY <2>2 DEF AllValid, Valid, Supported
    <2>4. CASE Exists(StaticOf(r))
      BY <1>4, <2>1, <2>4
    <2>5. CASE ~ Exists(StaticOf(r))
      <3> DEFINE s == StaticOf(r)
      <3>1. static_vptr \in [Static -> Table] /\ c # Null
        BY <1>2, <2>3, KnownIsNode DEF TypeOK
      <3>2. Exists(c)
        BY <1>2, <2>3 DEF Exists, StaticOf, ListInv
      <3>3. s # c
        BY <2>5, <3>2
      <3>4. \A v \in Static : v # s => static_vptr'[v] = static_vptr[v]
        BY <2>1, <2>5, <3>1
      <3>5. ASSUME "var" \in DOMAIN ptr[p].vp, ptr[p].vp.var = s, s \in Static, s # Null
            PROVE  FALSE
        <4>1. static_vptr[s] = Current(c)
          BY <2>3, <3>5 DEF unbox_vptr
        <4>2. static_vptr[s] # NullTable /\ static_vptr[s].class = c
          BY <3>1, <4>1 DEF Current, NullTable
        <4> QED BY <1>2, <3>3, <3>5, <4>2 DEF StaticsNamed
      <3>6. unbox_vptr(ptr[p].vp)' = unbox_vptr(ptr[p].vp)
        BY <1>1, <3>4, <3>5 DEF unbox_vptr
      <3> QED BY <1>3, <2>3, <3>6
    <2> QED BY <2>4, <2>5
  <1>6. ASSUME NEW r \in Node, Unregister(r)
        PROVE  unbox_vptr(ptr[p].vp)' = Current(c)'
    BY <1>4, <1>6 DEF Unregister
  <1>7. ~ Initialize
    <2>1. epoch \in Nat
      BY <1>2, RecordsAssumption DEF TypeOK
    <2> QED BY <2>1 DEF Initialize
  <1>8. ~ \E m \in Multipliers : HashAttempt(m)
    BY DEF HashAttempt, Ready
  <1>9. ~ Finalize
    BY DEF Finalize, Ready
  <1> QED BY <1>1, <1>5, <1>6, <1>7, <1>8, <1>9 DEF Next

(* "It remains valid until the next call to initialize or finalize"        *)
(* (registry.hpp:623), for all programs and sequences of calls between two *)
(* of initialize: an action property of every step.                        *)
THEOREM PtrsValidUntilInitialize == SpecPtrs => ValidUntilInitialize
  <1>1. ASSUME PtrInv, [NextPtrs]_ptrVars
        PROVE  [config.shared /\ Ready /\ Ready' /\ epoch' = epoch /\ AllValid /\ ~ MapStale
                  => AllValid' \/ AssignThrew]_ptrVars
    <2>1. ASSUME Moves, config.shared, Ready, AllValid, ~ MapStale, ~ AssignThrew
          PROVE  AllValid'
      BY <1>1, <2>1, MovesValid DEF AllValid
    <2>2. CASE UNCHANGED ptrVars
      BY <2>2
    <2>3. CASE RegistryStep
      BY <1>1, <2>3, RegistryValid
    <2>4. CASE NextPlain /\ UNCHANGED other
      BY <1>1, <2>1, <2>4, PlainMoves
    <2>5. CASE NextSmart
      BY <1>1, <2>1, <2>5, SmartMoves
    <2> QED BY <1>1, <2>2, <2>3, <2>4, <2>5 DEF NextPtrs
  <1> QED BY <1>1, PtrAlways, PTL DEF SpecPtrs, ValidUntilInitialize
=============================================================================
