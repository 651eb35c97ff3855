--------------------------- MODULE MCInplaceVptr ---------------------------
(* Instances of InplaceVptr for TLC: every hierarchy of N classes in which *)
(* the bases of a class have smaller numbers, in every order of the bases. *)
EXTENDS InplaceVptr

CONSTANTS N, MaxBases

MCClass == 1 .. N

Hierarchies ==
    LET hierarchies[n \in 0 .. N] ==
            IF n = 0 THEN {<<>>}
            ELSE {Append(h, b) :
                    h \in hierarchies[n - 1],
                    b \in UNION {SetToSeqs(S) : S \in {T \in SUBSET (1 .. n - 1) :
                                                      Cardinality(T) <= MaxBases}}}
    IN hierarchies[N]

MCPrograms == {p \in {[bases |-> h, object |-> N] : h \in Hierarchies} : IsProgram(p)}
=============================================================================
