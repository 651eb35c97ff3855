-------------------------- MODULE MCDispatchTables --------------------------
(* Instances of DispatchTables for TLC: methods over every inheritance     *)
(* graph of a few classes, with every choice of overriders.                *)
EXTENDS DispatchTables, InheritanceGraphs

CONSTANT Instance   \* which of the instances below

MCClass == 1 .. IF Instance = "diamond" THEN 4 ELSE 5

(* A method on graph g: abstract classes are those with derived classes,   *)
(* and classes that are not in the graph are unrelated to the others.      *)
Method(g, vp, specs) ==
    LET derived(c) == IF c \in DOMAIN g THEN Derived(g, c) ELSE {c}
    IN [transitive_derived |-> [c \in MCClass |-> derived(c)],
        abstract           |-> {c \in MCClass : derived(c) # {c}},
        vp                 |-> vp,
        specs              |-> specs,
        n2216              |-> FALSE,
        returns            |-> <<>>]

(* Every method with virtual parameters vp and k overriders.               *)
MethodsOn(g, vp, k) ==
    LET Formals == {f \in [DOMAIN vp -> DOMAIN g] :
                      \A i \in DOMAIN vp : f[i] \in Derived(g, vp[i])}
    IN {Method(g, vp, specs) : specs \in [1 .. k -> Formals]}

SingleInheritance(g) == \A c \in DOMAIN g : Cardinality(DirectBases(g, c)) <= 1

(* One virtual parameter on any graph of n classes, two or three with      *)
(* single inheritance, at most k overriders.                               *)
UniMethods(n, k) == UNION {UNION {MethodsOn(g, <<1>>, j) : j \in 0 .. k} : g \in Graphs(n)}

ForestMethods(n, k) ==
    LET Forests == {g \in Graphs(n) : SingleInheritance(g)}
    IN UniMethods(n, k)
         \cup UNION {UNION {MethodsOn(g, <<1, 1>>, j) : j \in 0 .. k} : g \in Forests}
         \cup UNION {MethodsOn(g, <<1, 1, 2>>, 2) : g \in Forests}

(* A diamond: 4 derives from 2 and 3, which derive from 1.                 *)
Diamond == <<{}, {1}, {1}, {1, 2, 3}>>

DiamondMethods(k) ==
    UNION {MethodsOn(Diamond, <<1, 1>>, j) : j \in 1 .. k}
    \cup MethodsOn(Diamond, <<2, 3>>, k)

(* The n2216 policy; the overriders return a class of the diamond.         *)
Returning(m, returns) == [m EXCEPT !.n2216 = TRUE, !.returns = returns]

N2216Methods(k) ==
    LET OnDiamond == {m \in MethodsOn(Diamond, <<1>>, k) : \A i \in 1 .. k : m.specs[i] # <<1>>}
        OnPair    == MethodsOn(<<{}, {1}>>, <<1, 1>>, k)
    IN {Returning(m, r) : m \in OnDiamond \cup OnPair, r \in [1 .. k -> 2 .. 4] \cup {<<>>}}

(* Class 5 derives from 4 and from 3; 4 derives from 2; 2 and 3 from 1.    *)
Pentagon == <<{}, {1}, {1}, {1, 2}, {1, 2, 3, 4}>>

PentagonMethods(orders) == {Method(Pentagon, <<1, 1>>, specs) : specs \in orders}

ThreeOverriders == SetToSeqs({<<2, 4>>, <<3, 2>>, <<4, 3>>})

MCMethods ==
    CASE Instance = "diamond"  -> DiamondMethods(3)
      [] Instance = "pentagon" -> PentagonMethods(ThreeOverriders)
      [] Instance = "all"      ->
           ForestMethods(3, 3) \cup DiamondMethods(3) \cup PentagonMethods(ThreeOverriders)
             \cup N2216Methods(3)
=============================================================================
