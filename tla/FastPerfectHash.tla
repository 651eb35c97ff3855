-------------------------- MODULE FastPerfectHash --------------------------
(***************************************************************************)
(* fast_perfect_hash: a type id is hashed by the high bits of its product  *)
(* by a multiplier, in the arithmetic of size_t.  initialize draws odd     *)
(* multipliers until no two type ids collide, for four sizes of the table  *)
(* in turn, each twice the previous one, and gives up after that.          *)
(***************************************************************************)
EXTENDS Integers, Sequences, FiniteSets, SequencesExt

CONSTANTS
    Width,          \* bits of a type id and of size_t
    MaxAttempts,    \* multipliers tried per size, 100000 in the code
    Multipliers,    \* the values that uniform_dist(rnd) | 1 may have
    NoType          \* type_id(uintptr_max)

(* size_t(1) << n.                                                         *)
Pow2[n \in Nat] == IF n = 0 THEN 1 ELSE 2 * Pow2[n - 1]

ASSUME HashAssumption ==
    /\ Width \in Nat /\ MaxAttempts \in Nat \ {0}
    /\ Multipliers \subseteq {m \in 0 .. Pow2[Width] - 1 : m % 2 = 1}

VARIABLES
    hash,       \* [mult, shift, min_value, max_value, control]
    search      \* the local variables of initialize: the type ids to hash, class by
                \* class, and [pass, attempts, M]

hashVars == <<hash, search>>

Passes == 4

InitHash ==
    /\ hash = [mult |-> 0, shift |-> 0, min_value |-> 0, max_value |-> 0, control |-> <<>>]
    /\ search = [types |-> <<>>, pass |-> 0, attempts |-> 0, M |-> 0]

Index(m, s, type) == ((m * type) % Pow2[Width]) \div Pow2[s]

(* 1 more than the number of bits below the highest bit of N * 5 / 4.      *)
FirstM(N) ==
    LET size == (N * 5) \div 4
    IN 1 + Cardinality({k \in 1 .. Width : Pow2[k] <= size})

(* The head of the loop over the sizes: the bounds start over and the      *)
(* buckets are resized.                                                    *)
StartPass(h, M) ==
    [h EXCEPT !.shift     = Width - M,
              !.min_value = Pow2[Width] - 1,
              !.max_value = 0,
              !.control   = [i \in 0 .. Pow2[M] - 1 |-> NoType]]

(* One round of the loop over the multipliers: the buckets are emptied, the*)
(* type ids are placed in turn until one finds its bucket taken, and the   *)
(* bounds are updated before that is known.                                *)
Try(m) ==
    LET types   == search.types
        at      == [i \in DOMAIN types |-> Index(m, hash.shift, types[i])]
        taken   == {i \in DOMAIN types : \E j \in 1 .. i - 1 : at[j] = at[i]}
        placed  == IF taken = {} THEN DOMAIN types ELSE 1 .. Min(taken) - 1
        looked  == {at[i] : i \in placed \cup (IF taken = {} THEN {} ELSE {Min(taken)})}
        at_most == Max(looked \cup {hash.max_value})
        at_least == Min(looked \cup {hash.min_value})
        buckets == [b \in DOMAIN hash.control |->
                      IF \E i \in placed : at[i] = b
                      THEN types[CHOOSE i \in placed : at[i] = b]
                      ELSE NoType]
    IN [h |-> [hash EXCEPT !.mult = m, !.min_value = at_least, !.max_value = at_most,
                           !.control = buckets],
        collision |-> taken # {}]

(* initialize starts, for the type ids of N classes.                       *)
StartSearch(N, types) ==
    /\ search' = [types |-> types, pass |-> 0, attempts |-> 0, M |-> FirstM(N)]
    /\ hash' = StartPass(hash, FirstM(N))

(* Mutant of LastOfPass: attempts is compared before it is incremented.    *)
LastOfPassLate == search.attempts = MaxAttempts

LastOfPass == search.attempts + 1 = MaxAttempts

Stopped == [types |-> <<>>, pass |-> 0, attempts |-> 0, M |-> 0]

Found(try) ==
    /\ ~ try.collision
    /\ hash' = try.h
    /\ search' = Stopped

(* Mutant of Collision: after the last multiplier, the same size again.    *)
CollisionSamePass(try) ==
    /\ try.collision
    /\ search' = [search EXCEPT !.attempts = IF LastOfPass THEN 0 ELSE @ + 1]
    /\ hash' = IF LastOfPass THEN StartPass(try.h, search.M) ELSE try.h

(* goto collision: another multiplier, or the next size.                   *)
Collision(try) ==
    /\ try.collision
    /\ \/ /\ ~ LastOfPass
          /\ search' = [search EXCEPT !.attempts = @ + 1]
          /\ hash' = try.h
       \/ /\ LastOfPass
          /\ search.pass + 1 < Passes
          /\ search' = [search EXCEPT !.pass = @ + 1, !.attempts = 0, !.M = @ + 1]
          /\ hash' = StartPass(try.h, search.M + 1)

(* All the passes failed: fast_perfect_hash_error.                         *)
NotFound(try) ==
    /\ try.collision
    /\ LastOfPass
    /\ search.pass + 1 = Passes
    /\ hash' = try.h
    /\ search' = Stopped

-----------------------------------------------------------------------------
HashIndex(type) == Index(hash.mult, hash.shift, type)

(* check(index, type): "unknown" when unknown_class_error is reported.     *)
check(type) ==
    CASE HashIndex(type) < hash.min_value    -> "unknown"
      [] HashIndex(type) > hash.max_value    -> "unknown"
      [] HashIndex(type) \in hash.min_value .. hash.max_value ->
           IF HashIndex(type) \notin DOMAIN hash.control THEN "out of bounds"
           ELSE IF hash.control[HashIndex(type)] # type THEN "unknown"
           ELSE "known"
=============================================================================
