------------------------- MODULE InheritanceGraphs -------------------------
(* Inputs shared by the TLC instances: inheritance graphs over the classes *)
(* 1 .. n, and the tables that a correct augment_classes makes of them,    *)
(* by definition rather than by algorithm.                                 *)
EXTENDS Naturals, Sequences, FiniteSets, SequencesExt

(* All the strict partial orders on 1 .. n that respect the order of the   *)
(* numbers, as sequences of sets of bases: each class is added with a set  *)
(* of bases that contains their bases.                                     *)
Graphs(n) ==
    LET graphs[k \in 0 .. n] ==
            IF k = 0 THEN {<<>>}
            ELSE UNION {{Append(g, b) : b \in {x \in SUBSET (1 .. k - 1) :
                                                \A c \in x : g[c] \subseteq x}} :
                        g \in graphs[k - 1]}
    IN graphs[n]

(* The bases of c that are bases of no other base of c.                    *)
DirectBases(g, c) == {b \in g[c] : \A d \in g[c] : b \notin g[d]}

(* The class and the classes that derive from it.                          *)
Derived(g, c) == {c} \cup {d \in DOMAIN g : c \in g[d]}

(* The tables of the classes registered in the given order.                *)
LatticeOf(g, order) ==
    [classes            |-> order,
     transitive_bases   |-> g,
     direct_bases       |-> [c \in DOMAIN g |-> DirectBases(g, c)],
     direct_derived     |-> [c \in DOMAIN g |->
                               SelectSeq(order, LAMBDA d : c \in DirectBases(g, d))],
     transitive_derived |-> [c \in DOMAIN g |-> Derived(g, c)]]

(* Adds the virtual parameters, in the order of their methods, to a table: *)
(* vp is the class of each.                                                *)
WithParams(l, vp) ==
    [classes            |-> l.classes,
     transitive_bases   |-> l.transitive_bases,
     direct_bases       |-> l.direct_bases,
     direct_derived     |-> l.direct_derived,
     transitive_derived |-> l.transitive_derived,
     vp                 |-> vp,
     used_by_vp         |-> [c \in DOMAIN l.direct_derived |->
                               SelectSeq([p \in DOMAIN vp |-> p], LAMBDA p : vp[p] = c)]]
=============================================================================
