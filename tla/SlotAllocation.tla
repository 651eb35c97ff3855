--------------------------- MODULE SlotAllocation ---------------------------
(***************************************************************************)
(* The third pass of the registry compiler: assign_slots gives every       *)
(* virtual parameter of every method a slot, the index at which the v-table*)
(* of a class holds its entry for that parameter.  All the v-tables of the *)
(* classes that can be passed for a parameter use the same index.          *)
(*                                                                         *)
(* Each root of the class lattice is handled once, in the order of the     *)
(* classes.  If no class below it has two direct bases, its classes form a *)
(* tree: slots are numbered consecutively along the branches.  Otherwise   *)
(* the classes below it are visited depth first, once each, and every      *)
(* parameter takes the first slot that is neither used by the class nor    *)
(* reserved in it on behalf of a class that shares a derived class with it.*)
(*                                                                         *)
(* The recursion of the two assign_*_slots functions is an explicit agenda *)
(* of calls still to be made.  One step handles one virtual parameter.     *)
(* dynamic_bitset values are sets of naturals: set_bit and merge_into grow *)
(* a bitset only as far as its highest bit, so its size is Size(set).      *)
(***************************************************************************)
EXTENDS Integers, Sequences, FiniteSets, SequencesExt

CONSTANTS
    Class,        \* the classes
    Param,        \* the virtual parameters of all the methods
    NoClass,      \* no class is being processed
    Unassigned,   \* the value of a slot before it is assigned
    Lattices      \* the inputs: see IsLattice

ASSUME NoClassAssumption == NoClass \notin Class
ASSUME UnassignedAssumption == Unassigned \notin Nat

VARIABLES
    lattice,      \* the tables built by augment_classes and augment_methods
    pc,           \* "roots", "tree", "lattice", "mi" or "done"
    next_class,   \* iterator over the classes, in "roots" and in "mi"
    agenda,       \* calls to make: sequence of [cls, base_slot]
    current,      \* the class being processed, or NoClass
    pending,      \* its virtual parameters still without a slot
    next_slot,    \* local variable of assign_tree_slots
    marked,       \* classes that assign_lattice_slots has visited
    used_slots,   \* class -> set of slots
    reserved_slots,  \* class -> set of slots
    slots,        \* virtual parameter -> slot
    first_slot,   \* class -> slot of the first entry of its v-table
    vtbl_size     \* class -> number of entries of its v-table

vars == <<lattice, pc, next_class, agenda, current, pending, next_slot, marked,
          used_slots, reserved_slots, slots, first_slot, vtbl_size>>

(* The tables of the earlier passes.                                       *)
classes            == lattice.classes
transitive_bases   == lattice.transitive_bases
direct_bases       == lattice.direct_bases
direct_derived     == lattice.direct_derived
transitive_derived == lattice.transitive_derived
used_by_vp         == lattice.used_by_vp

(* The type of the tables.  The lists of used_by_vp hold each virtual      *)
(* parameter, once, under the class it is declared with.                   *)
IsLattice(l) ==
    /\ l.classes \in Seq(Class)
    /\ l.transitive_bases \in [Class -> SUBSET Class]
    /\ l.direct_bases \in [Class -> SUBSET Class]
    /\ l.direct_derived \in [Class -> Seq(ToSet(l.classes))]
    /\ l.transitive_derived \in [Class -> SUBSET ToSet(l.classes)]
    /\ l.used_by_vp \in [Class -> Seq(Param)]
    /\ l.vp \in [Param -> ToSet(l.classes)]
    /\ \A c \in Class :
         /\ IsInjective(l.used_by_vp[c])
         /\ \A i \in DOMAIN l.used_by_vp[c] : l.vp[l.used_by_vp[c][i]] = c

Root(l, c) == l.direct_bases[c] = {}

TreeRoot(l, c) ==
    /\ Root(l, c)
    /\ \A d \in l.transitive_derived[c] : Cardinality(l.direct_bases[d]) <= 1

(* What augment_classes owes to assign_slots.                              *)
(* The lattice is closed: derived classes are transitive, a class with     *)
(* a derived class is one of its transitive bases, and no class derives    *)
(* from itself.                                                            *)
IsClosed(l) ==
    \A c \in ToSet(l.classes) :
        /\ c \in l.transitive_derived[c]
        /\ \A d \in l.transitive_derived[c] :
             /\ l.transitive_derived[d] \subseteq l.transitive_derived[c]
             /\ d # c => c \in l.transitive_bases[d] /\ c \notin l.transitive_derived[d]
        /\ ToSet(l.direct_derived[c]) \subseteq l.transitive_derived[c] \ {c}

(* A tree shares no class with what is below another root, and its         *)
(* branches share no class with each other.                                *)
TreesApart(l) ==
    /\ \A i, j \in DOMAIN l.classes :
         i # j /\ TreeRoot(l, l.classes[i]) /\ Root(l, l.classes[j])
           => l.transitive_derived[l.classes[i]]
                \cap l.transitive_derived[l.classes[j]] = {}
    /\ \A r \in ToSet(l.classes) : TreeRoot(l, r) =>
         \A c \in l.transitive_derived[r] :
             \A i, j \in DOMAIN l.direct_derived[c] :
                 i # j => l.transitive_derived[l.direct_derived[c][i]]
                            \cap l.transitive_derived[l.direct_derived[c][j]] = {}

(* Everything is reached: a parameter is listed under its class, a class is*)
(* below a root, and direct derived classes lead to all the derived ones.  *)
AllReached(l) ==
    /\ \A p \in Param : p \in ToSet(l.used_by_vp[l.vp[p]])
    /\ \A c \in ToSet(l.classes) :
         /\ \E r \in ToSet(l.classes) : Root(l, r) /\ c \in l.transitive_derived[r]
         /\ \A S \in SUBSET ToSet(l.classes) :
              c \in S /\ (\A d \in S : ToSet(l.direct_derived[d]) \subseteq S)
                => l.transitive_derived[c] \subseteq S

WellFormed(l) == IsLattice(l) /\ IsClosed(l) /\ TreesApart(l) /\ AllReached(l)

ASSUME LatticesAssumption == \A l \in Lattices : WellFormed(l)

-----------------------------------------------------------------------------
(* The size of the dynamic_bitset that stands for S.                       *)
Size(S) == IF S = {} THEN 0 ELSE Max(S) + 1

(* The compiler's state when the pass starts.                              *)
Start ==
    /\ pc = "roots"
    /\ next_class = 1
    /\ agenda = <<>>
    /\ current = NoClass
    /\ pending = <<>>
    /\ next_slot = 0
    /\ marked = {}
    /\ used_slots = [c \in Class |-> {}]
    /\ reserved_slots = [c \in Class |-> {}]
    /\ slots = [p \in Param |-> Unassigned]
    /\ first_slot = [c \in Class |-> 0]
    /\ vtbl_size = [c \in Class |-> 0]

Init == lattice \in Lattices /\ Start

(* assign_slots, first loop: start on the next root, skip other classes.   *)
NextRoot ==
    /\ pc = "roots"
    /\ next_class <= Len(classes)
    /\ next_class' = next_class + 1
    /\ LET cls == classes[next_class]
       IN IF Root(lattice, cls)
          THEN /\ pc' = IF TreeRoot(lattice, cls) THEN "tree" ELSE "lattice"
               /\ agenda' = <<[cls |-> cls, base_slot |-> 0]>>
          ELSE UNCHANGED <<pc, agenda>>
    /\ UNCHANGED <<lattice, current, pending, next_slot, marked, used_slots,
                   reserved_slots, slots, first_slot, vtbl_size>>

(* The call made for the root has returned.                                *)
RootDone ==
    /\ pc \in {"tree", "lattice"}
    /\ agenda = <<>> /\ current = NoClass
    /\ pc' = "roots"
    /\ UNCHANGED <<lattice, next_class, agenda, current, pending, next_slot, marked,
                   used_slots, reserved_slots, slots, first_slot, vtbl_size>>

(* Entry of assign_tree_slots.                                             *)
EnterTree ==
    /\ pc = "tree"
    /\ agenda # <<>> /\ current = NoClass
    /\ current' = Head(agenda).cls
    /\ pending' = used_by_vp[Head(agenda).cls]
    /\ next_slot' = Head(agenda).base_slot
    /\ agenda' = Tail(agenda)
    /\ UNCHANGED <<lattice, pc, next_class, marked, used_slots, reserved_slots,
                   slots, first_slot, vtbl_size>>

AssignTreeSlot ==
    /\ pc = "tree"
    /\ current # NoClass /\ pending # <<>>
    /\ slots' = [slots EXCEPT ![Head(pending)] = next_slot]
    /\ next_slot' = next_slot + 1
    /\ pending' = Tail(pending)
    /\ UNCHANGED <<lattice, pc, next_class, agenda, current, marked, used_slots,
                   reserved_slots, first_slot, vtbl_size>>

(* The calls a class makes for its direct derived classes.                 *)
Calls(cls, base_slot) ==
    [i \in DOMAIN direct_derived[cls] |->
        [cls |-> direct_derived[cls][i], base_slot |-> base_slot]]

LeaveTree ==
    /\ pc = "tree"
    /\ current # NoClass /\ pending = <<>>
    /\ first_slot' = [first_slot EXCEPT ![current] = 0]
    /\ vtbl_size' = [vtbl_size EXCEPT ![current] = next_slot]
    /\ agenda' = Calls(current, next_slot) \o agenda
    /\ current' = NoClass
    /\ UNCHANGED <<lattice, pc, next_class, pending, next_slot, marked, used_slots,
                   reserved_slots, slots>>

(* Mutant of Visited: a class reached along two paths is visited twice.    *)
NeverVisited(cls) == FALSE

Visited(cls) == cls \in marked

(* Entry of assign_lattice_slots: nothing to do if the class is marked.    *)
EnterLattice ==
    /\ pc = "lattice"
    /\ agenda # <<>> /\ current = NoClass
    /\ LET cls == Head(agenda).cls
       IN IF Visited(cls)
          THEN UNCHANGED <<marked, current, pending>>
          ELSE /\ marked' = marked \cup {cls}
               /\ current' = cls
               /\ pending' = used_by_vp[cls]
    /\ agenda' = Tail(agenda)
    /\ UNCHANGED <<lattice, pc, next_class, next_slot, used_slots, reserved_slots,
                   slots, first_slot, vtbl_size>>

ProperDerived(cls) == transitive_derived[cls] \ {cls}

(* Mutant of UsedWith: the derived classes are forgotten.                  *)
UsedHere(cls, slot) == [used_slots EXCEPT ![cls] = @ \cup {slot}]

(* Mutant of UsedWith: the reserved slots are merged in too.               *)
UsedOrReserved(cls, slot) ==
    [c \in Class |->
        IF c = cls \/ c \in ProperDerived(cls)
        THEN used_slots[c] \cup used_slots[cls] \cup reserved_slots[cls] \cup {slot}
        ELSE used_slots[c]]

(* Mutant of ReservedWith: the other bases of derived classes are forgotten.*)
ReservedInBases(cls, slot) ==
    [c \in Class |->
        reserved_slots[c] \cup (IF c = cls THEN {slot} ELSE {})
                          \cup (IF c \in transitive_bases[cls]
                                THEN used_slots[cls] \cup {slot} ELSE {})]

(* cls has taken slot: what is used in cls becomes used in the classes that*)
(* derive from it, and reserved in its bases and in theirs.                *)
UsedWith(cls, slot) ==
    LET used == used_slots[cls] \cup {slot}
    IN [c \in Class |->
          IF c = cls \/ c \in ProperDerived(cls) THEN used_slots[c] \cup used
          ELSE used_slots[c]]

ReservedWith(cls, slot) ==
    LET used == used_slots[cls] \cup {slot}
        bases == transitive_bases[cls]
                   \cup UNION {transitive_bases[d] : d \in ProperDerived(cls)}
    IN [c \in Class |->
          reserved_slots[c] \cup (IF c = cls THEN {slot} ELSE {})
                            \cup (IF c \in bases THEN used ELSE {})]

AssignLatticeSlot ==
    /\ pc = "lattice"
    /\ current # NoClass /\ pending # <<>>
    /\ LET unavailable == used_slots[current] \cup reserved_slots[current]
       IN \E slot \in 0 .. Size(unavailable) :
            /\ slot \notin unavailable
            /\ \A s \in 0 .. slot - 1 : s \in unavailable
            /\ slots' = [slots EXCEPT ![Head(pending)] = slot]
            /\ used_slots' = UsedWith(current, slot)
            /\ reserved_slots' = ReservedWith(current, slot)
    /\ pending' = Tail(pending)
    /\ UNCHANGED <<lattice, pc, next_class, agenda, current, next_slot, marked,
                   first_slot, vtbl_size>>

LeaveLattice ==
    /\ pc = "lattice"
    /\ current # NoClass /\ pending = <<>>
    /\ agenda' = Calls(current, 0) \o agenda
    /\ current' = NoClass
    /\ UNCHANGED <<lattice, pc, next_class, pending, next_slot, marked, used_slots,
                   reserved_slots, slots, first_slot, vtbl_size>>

RootsDone ==
    /\ pc = "roots"
    /\ next_class > Len(classes)
    /\ pc' = "mi"
    /\ next_class' = 1
    /\ UNCHANGED <<lattice, agenda, current, pending, next_slot, marked, used_slots,
                   reserved_slots, slots, first_slot, vtbl_size>>

(* Mutants of VtblSize: one entry short, and its operands exchanged.       *)
VtblSizeShort(used) == Max(used) - Min(used)
VtblSizeNegative(used) == Min(used) - Size(used)

VtblSize(used) == Size(used) - Min(used)

(* assign_slots, second loop: size the v-tables of the classes that        *)
(* assign_lattice_slots gave slots to, from the first slot to the last.    *)
AllocateVtbl ==
    /\ pc = "mi"
    /\ next_class <= Len(classes)
    /\ LET cls  == classes[next_class]
           used == used_slots[cls]
       IN IF used = {}
          THEN UNCHANGED <<first_slot, vtbl_size>>
          ELSE /\ first_slot' = [first_slot EXCEPT ![cls] = Min(used)]
               /\ vtbl_size' = [vtbl_size EXCEPT ![cls] = VtblSize(used)]
    /\ next_class' = next_class + 1
    /\ UNCHANGED <<lattice, pc, agenda, current, pending, next_slot, marked,
                   used_slots, reserved_slots, slots>>

SlotsDone ==
    /\ pc = "mi"
    /\ next_class > Len(classes)
    /\ pc' = "done"
    /\ UNCHANGED <<lattice, next_class, agenda, current, pending, next_slot, marked,
                   used_slots, reserved_slots, slots, first_slot, vtbl_size>>

Next ==
    \/ NextRoot \/ RootDone \/ RootsDone
    \/ EnterTree \/ AssignTreeSlot \/ LeaveTree
    \/ EnterLattice \/ AssignLatticeSlot \/ LeaveLattice
    \/ AllocateVtbl \/ SlotsDone

Spec == Init /\ [][Next]_vars

-----------------------------------------------------------------------------
Assigned == {p \in Param : slots[p] # Unassigned}

(* Classes of which an object can be passed for parameter p.               *)
Covariant(p) == transitive_derived[lattice.vp[p]]

Conflict(p, q) == p # q /\ Covariant(p) \cap Covariant(q) # {}

(* A call of an assign_*_slots function; base_slot matters in trees only.  *)
Call == [cls : Class, base_slot : Nat]

(* Type invariant.                                                         *)
TypeOK ==
    /\ IsLattice(lattice)
    /\ pc \in {"roots", "tree", "lattice", "mi", "done"}
    /\ next_class \in Nat \ {0}
    /\ agenda \in Seq(Call)
    /\ current \in Class \cup {NoClass}
    /\ pending \in Seq(Param)
    /\ next_slot \in Nat
    /\ marked \subseteq Class
    /\ used_slots \in [Class -> SUBSET Nat]
    /\ reserved_slots \in [Class -> SUBSET Nat]
    /\ slots \in [Param -> Nat \cup {Unassigned}]
    /\ first_slot \in [Class -> Nat]
    /\ vtbl_size \in [Class -> Nat]

(* Two virtual parameters that the same class can be passed for never share*)
(* a slot: otherwise build_dispatch_tables overwrites the v-table entry of *)
(* one with that of the other, and a call runs another method's overrider. *)
NoSlotClash ==
    \A p, q \in Assigned : Conflict(p, q) => slots[p] # slots[q]

(* The pass hands out the colours of the conflict graph one at a time, each*)
(* parameter's once: a class reached along several paths of the lattice is *)
(* handled once, and no slot given earlier is taken back.                  *)
Conflicts == {pq \in Param \X Param : Conflict(pq[1], pq[2])}

Colouring == INSTANCE SlotColouring WITH conflicts <- Conflicts

ImplementsColouring == Colouring!Spec

(* When the pass is done, every virtual parameter has a slot, and the      *)
(* v-table of every class it can be passed has an entry at that slot:      *)
(* build_dispatch_tables writes vtbl[slot - first_slot] unchecked.         *)
EntriesInBounds ==
    pc = "done" =>
        \A p \in Param : \A c \in Covariant(p) :
            /\ p \in Assigned
            /\ first_slot[c] <= slots[p]
            /\ slots[p] < first_slot[c] + vtbl_size[c]

(* The used slots of a class are those of parameters it can be passed for: *)
(* v-tables, which extend from the first used slot to the last, are not    *)
(* stretched by the slots that are merely reserved.                        *)
UsedSlotsJustified ==
    \A c \in Class : \A s \in used_slots[c] :
        \E p \in Assigned : c \in Covariant(p) /\ slots[p] = s

(* The inductive strengthening of NoSlotClash.                             *)
(* The classes of the trees.                                               *)
TreeClasses ==
    UNION {transitive_derived[r] : r \in {c \in ToSet(classes) : TreeRoot(lattice, c)}}

(* The root whose classes are being visited.                               *)
CurrentRoot == classes[next_class - 1]

(* The agenda and the current class hold registered classes, and the       *)
(* pending parameters are those of the current class.                      *)
VisitsClasses ==
    /\ pc = "roots" => current = NoClass
    /\ pc \in {"tree", "lattice"} => next_class - 1 \in DOMAIN classes
    /\ current # NoClass => current \in ToSet(classes)
    /\ \A i \in DOMAIN agenda : agenda[i].cls \in ToSet(classes)
    /\ \A k \in DOMAIN pending : lattice.vp[pending[k]] = current

Apart(c, d) == transitive_derived[c] \cap transitive_derived[d] = {}

(* c is in the tree being visited, and slots from n on are free below it.  *)
FreeFrom(c, n) ==
    /\ transitive_derived[c] \subseteq transitive_derived[CurrentRoot]
    /\ \A p \in Assigned :
         Covariant(p) \cap transitive_derived[c] # {} => slots[p] < n

(* The branches still to be visited in a tree.                             *)
BranchesFree ==
    pc = "tree" =>
        /\ TreeRoot(lattice, CurrentRoot)
        /\ \A i \in DOMAIN agenda : FreeFrom(agenda[i].cls, agenda[i].base_slot)
        /\ \A i, j \in DOMAIN agenda : i # j => Apart(agenda[i].cls, agenda[j].cls)
        /\ current # NoClass =>
             /\ FreeFrom(current, next_slot)
             /\ \A i \in DOMAIN agenda : Apart(current, agenda[i].cls)

(* A visit of a lattice stays out of the trees ...                         *)
OutsideTrees ==
    pc = "lattice" =>
        /\ \A i \in DOMAIN agenda :
             transitive_derived[agenda[i].cls] \cap TreeClasses = {}
        /\ current # NoClass => transitive_derived[current] \cap TreeClasses = {}

(* ... and no class of a tree has a slot before its root is reached.       *)
TreesUntouched ==
    pc \in {"roots", "tree", "lattice"} =>
        \A j \in next_class .. Len(classes) :
            TreeRoot(lattice, classes[j]) =>
                \A p \in Assigned : Covariant(p) \cap transitive_derived[classes[j]] = {}

(* Outside the trees a slot is used in every class that can be passed for  *)
(* its parameter, and reserved in every base of such a class.              *)
SlotsReserved ==
    \A p \in Assigned : lattice.vp[p] \notin TreeClasses =>
        \A c \in Covariant(p) :
            /\ slots[p] \in used_slots[c]
            /\ \A b \in transitive_bases[c] : slots[p] \in reserved_slots[b]

(* Why slots do not clash, in every state: a strengthening of NoSlotClash  *)
(* that each step of assign_slots preserves.                               *)
SlotInv ==
    /\ VisitsClasses
    /\ BranchesFree
    /\ OutsideTrees
    /\ TreesUntouched
    /\ SlotsReserved
    /\ NoSlotClash
=============================================================================
