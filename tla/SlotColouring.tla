--------------------------- MODULE SlotColouring ---------------------------
(* What slot assignment promises: every virtual parameter gets at most one *)
(* slot, once and for all, and one that no parameter in conflict with it   *)
(* has.  The compiler's choice of slots is left open: any colouring of the *)
(* conflict graph will do, and one colour is handed out at a time.         *)
EXTENDS Naturals

CONSTANTS Param, Unassigned

VARIABLES conflicts,    \* pairs of parameters that share a class; constant
          slots         \* parameter -> slot

Init == slots = [p \in Param |-> Unassigned]

Assign(p) ==
    /\ slots[p] = Unassigned
    /\ slots'[p] \in Nat
    /\ slots' = [slots EXCEPT ![p] = slots'[p]]
    /\ \A q \in Param :
         <<p, q>> \in conflicts /\ slots[q] # Unassigned => slots'[p] # slots[q]
    /\ UNCHANGED conflicts

Next == \E p \in Param : Assign(p)

Spec == Init /\ [][Next]_<<conflicts, slots>>
=============================================================================
