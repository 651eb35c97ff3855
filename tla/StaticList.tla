----------------------------- MODULE StaticList -----------------------------
(***************************************************************************)
(* static_list: the intrusive list that records of classes, methods and    *)
(* overriders link themselves in when static constructors run, and out of  *)
(* when a library is unloaded.  It allocates nothing: the prev pointer of  *)
(* the first node is the last node, next pointers end with a null pointer, *)
(* and a node outside the list has two null pointers.                      *)
(***************************************************************************)
EXTENDS Naturals, Sequences

CONSTANTS
    Node,
    Null    \* the null pointer

ASSUME NullAssumption == Null \notin Node

VARIABLES
    first,
    prev,   \* Node -> prev_ptr
    next    \* Node -> next_ptr

listVars == <<first, prev, next>>

InitList ==
    /\ first = Null
    /\ prev = [n \in Node |-> Null]
    /\ next = [n \in Node |-> Null]

(* Mutant of push_back: the node is linked after the first one.            *)
push_after_first(n) ==
    /\ prev[n] = Null /\ next[n] = Null
    /\ IF first = Null
       THEN first' = n /\ prev' = [prev EXCEPT ![n] = n] /\ UNCHANGED next
       ELSE /\ next' = [next EXCEPT ![first] = n]
            /\ prev' = [prev EXCEPT ![n] = first, ![first] = n]
            /\ UNCHANGED first

(* The assertions of the code are the guard.                               *)
push_back(n) ==
    /\ prev[n] = Null /\ next[n] = Null
    /\ IF first = Null
       THEN /\ first' = n
            /\ prev' = [prev EXCEPT ![n] = n]
            /\ UNCHANGED next
       ELSE LET last == prev[first]
            IN /\ next' = [next EXCEPT ![last] = n]
               /\ prev' = [prev EXCEPT ![n] = last, ![first] = n]
               /\ UNCHANGED first

(* A node is removed by its destructor, so it is in the list.              *)
remove(n) ==
    LET last     == prev[first]
        outPrev  == [prev EXCEPT ![n] = Null]
        outNext  == [next EXCEPT ![n] = Null]
    IN /\ first # Null
       /\ prev[n] # Null
       /\ \/ /\ n = last /\ n = first
             /\ first' = Null /\ prev' = outPrev /\ next' = outNext
          \/ /\ n = last /\ n # first
             /\ prev' = [outPrev EXCEPT ![first] = prev[n]]
             /\ next' = [outNext EXCEPT ![prev[n]] = Null]
             /\ UNCHANGED first
          \/ /\ n # last /\ n = first
             /\ first' = next[n]
             /\ prev' = [outPrev EXCEPT ![next[n]] = last]
             /\ next' = outNext
          \/ /\ n # last /\ n # first
             /\ prev' = [outPrev EXCEPT ![next[n]] = prev[n]]
             /\ next' = [outNext EXCEPT ![prev[n]] = next[n]]
             /\ UNCHANGED first

(* The nodes that a loop from first along the next pointers meets.         *)
Closed(S) == \A n \in S : next[n] # Null => next[n] \in S
Met(n) == \A S \in SUBSET Node : (first # Null => first \in S) /\ Closed(S) => n \in S

clear ==
    /\ first' = Null
    /\ prev' = [n \in Node |-> IF Met(n) THEN Null ELSE prev[n]]
    /\ next' = [n \in Node |-> IF Met(n) THEN Null ELSE next[n]]

NextList == clear \/ \E n \in Node : push_back(n) \/ remove(n)

SpecList == InitList /\ [][NextList]_listVars

-----------------------------------------------------------------------------
(* The list holds the nodes of s, in that order, and no other.             *)
Linked(s) ==
    /\ \A i, j \in DOMAIN s : s[i] = s[j] => i = j
    /\ first = IF s = <<>> THEN Null ELSE s[1]
    /\ prev \in [Node -> Node \cup {Null}]
    /\ next \in [Node -> Node \cup {Null}]
    /\ \A i \in DOMAIN s :
         /\ prev[s[i]] = IF i = 1 THEN s[Len(s)] ELSE s[i - 1]
         /\ next[s[i]] = IF i = Len(s) THEN Null ELSE s[i + 1]
    /\ \A n \in Node : (\A i \in DOMAIN s : s[i] # n) => prev[n] = Null /\ next[n] = Null

IsList == \E s \in Seq(Node) : Linked(s)

(* The sequence without its element at k.                                  *)
Without(s, k) == [i \in 1 .. Len(s) - 1 |-> IF i < k THEN s[i] ELSE s[i + 1]]
=============================================================================
