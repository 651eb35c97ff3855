----------------------------- MODULE MCRegistry -----------------------------
(* Programs of three records, a class registered by two modules under two  *)
(* type ids and another class, that hold no virtual_ptr, with each vptr    *)
(* policy; and programs of one record per class that hold two virtual_ptrs *)
(* of various kinds.  With 6 bits the multipliers collide in some sizes, in*)
(* all of them, or in none, depending on the records.                      *)
EXTENDS SmartVirtualPtr

CONSTANTS A, B, a1, a2, b1, p, q

MCNode == {a1, a2, b1}
MCClass == {A, B}
MCClassOf == (a1 :> A) @@ (a2 :> A) @@ (b1 :> B)
MCTypeOf == (a1 :> 2) @@ (a2 :> 3) @@ (b1 :> 9)
MCStranger == 7
MCMultipliers == {1, 53}
MCObject == {a2, b1}
MCPtr == {p, q}

Program(policy, indirect, shared) ==
    [policy |-> policy, indirect |-> indirect, shared |-> shared, records |-> MCNode,
     kind |-> [r \in MCPtr |-> "plain"], objects |-> {}, heap |-> {}, inplace |-> {}]

(* Indirect pointers with a static_vptr in each module, for the map with   *)
(* one for the class as well; with the hash, over the records of one class *)
(* or one record of each.                                                  *)
Lookups ==
    {Program(policy, indirect, ~ indirect) :
        policy \in {"vptr_vector", "vptr_map"}, indirect \in BOOLEAN}
    \cup {Program("vptr_vector+hash", FALSE, TRUE), Program("vptr_map", TRUE, TRUE)}
    \cup {[Program("vptr_vector+hash", TRUE, FALSE) EXCEPT !.records = s] :
            s \in {{a1, a2}, MCObject}}

(* The virtual_ptrs p and q are of kinds k and l.                          *)
Pointers(policy, indirect, k, l, heap, inplace) ==
    [Program(policy, indirect, TRUE) EXCEPT
        !.records = MCObject, !.kind = (p :> k) @@ (q :> l),
        !.objects = MCObject, !.heap = heap, !.inplace = inplace]

Holders ==
    {Pointers("vptr_vector", indirect, "plain", "plain", {}, {B}) : indirect \in BOOLEAN}
    \cup {[Pointers("vptr_map",   FALSE, "plain", "plain", {}, {}) EXCEPT !.objects = {b1}],
          [Pointers("vptr_map",   TRUE,  "plain", "plain", {}, {}) EXCEPT !.objects = {b1}],
          Pointers("vptr_vector", FALSE, "shared", "shared", {b1}, {}),
          Pointers("vptr_vector", TRUE,  "plain", "shared", MCObject, {}),
          Pointers("vptr_vector", TRUE,  "unique", "unique", MCObject, {}),
          Pointers("vptr_vector", FALSE, "plain", "unique", MCObject, {B})}

MCConfigs == Lookups \cup Holders
=============================================================================
