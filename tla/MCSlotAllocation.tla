-------------------------- MODULE MCSlotAllocation --------------------------
(* Instances of SlotAllocation for TLC: every inheritance graph of N       *)
(* classes, registered in every order, with M virtual parameters placed on *)
(* the classes in every way.  Exchanging two parameters only renames them, *)
(* so they are placed on classes of increasing numbers.                    *)
EXTENDS SlotAllocation, InheritanceGraphs

CONSTANTS
    N,      \* number of classes
    M       \* number of virtual parameters

MCClass == 1 .. N
MCParam == 1 .. M

Placements ==
    {vp \in [MCParam -> MCClass] : \A p, q \in MCParam : p < q => vp[p] <= vp[q]}

MCLattices ==
    {WithParams(LatticeOf(g, o), vp) :
        g \in Graphs(N), o \in SetToSeqs(MCClass), vp \in Placements}
=============================================================================
