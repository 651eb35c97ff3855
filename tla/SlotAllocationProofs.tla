------------------------ MODULE SlotAllocationProofs ------------------------
(* Proofs about slot assignment, for any classes, parameters and lattices. *)
EXTENDS SlotAllocation, SequenceTheorems, WellFoundedInduction, TLAPS

(* The tables of the earlier passes do not change.                         *)
LEMMA LatticeConstant == Next => lattice' = lattice
  BY DEF Next, NextRoot, RootDone, RootsDone, EnterTree, AssignTreeSlot, LeaveTree,
         EnterLattice, AssignLatticeSlot, LeaveLattice, AllocateVtbl, SlotsDone

-----------------------------------------------------------------------------
(* Least and greatest elements of sets of naturals.                        *)

LEMMA MinOfNat ==
  ASSUME NEW S \in SUBSET Nat, S # {}
  PROVE  Min(S) \in S /\ \A n \in S : Min(S) <= n
  <1>1. \E x \in S : \A y \in S : ~ (<<y, x>> \in OpToRel(<, Nat))
    BY WFMin, NatLessThanWellFounded
  <1>2. PICK x \in S : \A y \in S : ~ (y < x)
    BY <1>1 DEF OpToRel
  <1>3. \A y \in S : x <= y
    BY <1>2
  <1> QED BY <1>3 DEF Min

(* A bounded set of naturals has a greatest element: the distances from    *)
(* the bound have a least one.                                             *)
LEMMA MaxOfBounded ==
  ASSUME NEW S \in SUBSET Nat, S # {}, NEW n \in Nat, \A m \in S : m <= n
  PROVE  Max(S) \in S /\ \A m \in S : m <= Max(S)
  <1> DEFINE D == {d \in Nat : \E m \in S : d = n - m}
  <1>1. \A m \in S : n - m \in D
    OBVIOUS
  <1>2. D \in SUBSET Nat /\ D # {}
    BY <1>1
  <1>3. Min(D) \in D /\ \A d \in D : Min(D) <= d
    <2> HIDE DEF D
    <2> QED BY <1>2, MinOfNat
  <1>4. PICK x \in S : Min(D) = n - x
    BY <1>3
  <1>5. \A m \in S : n - x <= n - m
    BY <1>1, <1>3, <1>4
  <1>6. \A m \in S : x >= m
    BY <1>5
  <1> QED BY <1>6 DEF Max

-----------------------------------------------------------------------------
(* Type correctness.  The v-table sizes are naturals because the used slots*)
(* of a class are bounded, so that a highest one exists.                   *)

Bounded == \A c \in Class : \E n \in Nat : \A s \in used_slots[c] : s <= n

Typed == TypeOK /\ Bounded

TypeInv == TypeOK /\ WellFormed(lattice) /\ Bounded

LEMMA TypedStart ==
  ASSUME IsLattice(lattice), Start
  PROVE  Typed
  <1>1. TypeOK
    BY DEF Start, TypeOK
  <1>2. Bounded
    BY DEF Start, Bounded
  <1> QED BY <1>1, <1>2 DEF Typed

LEMMA TypeStart ==
  ASSUME WellFormed(lattice), Start
  PROVE  TypeInv
  BY TypedStart DEF TypeInv, Typed, WellFormed

(* The class of a registered class's table entries.                        *)
LEMMA TableTypes ==
  ASSUME IsLattice(lattice)
  PROVE  /\ classes \in Seq(Class)
         /\ ToSet(classes) \subseteq Class
         /\ \A c \in Class : /\ direct_derived[c] \in Seq(ToSet(classes))
                             /\ direct_derived[c] \in Seq(Class)
                             /\ used_by_vp[c] \in Seq(Param)
                             /\ transitive_derived[c] \subseteq ToSet(classes)
                             /\ transitive_bases[c] \subseteq Class
         /\ \A i \in 1 .. Len(classes) : classes[i] \in ToSet(classes) /\ classes[i] \in Class
  <1>1. IsLattice(lattice)
    OBVIOUS
  <1>2. classes \in Seq(Class)
    BY <1>1 DEF IsLattice, classes
  <1>3. ToSet(classes) \subseteq Class
    BY <1>2, ElementOfSeq DEF ToSet
  <1>4. \A i \in 1 .. Len(classes) : classes[i] \in ToSet(classes) /\ classes[i] \in Class
    BY <1>2, ElementOfSeq DEF ToSet
  <1>5. ASSUME NEW c \in Class
        PROVE  direct_derived[c] \in Seq(ToSet(classes)) /\ direct_derived[c] \in Seq(Class)
    <2>1. direct_derived[c] \in Seq(ToSet(classes))
      BY <1>1 DEF IsLattice, direct_derived, classes
    <2> QED BY <2>1, <1>3, SeqMonotonic
  <1>6. ASSUME NEW c \in Class
        PROVE  /\ used_by_vp[c] \in Seq(Param)
               /\ transitive_derived[c] \subseteq ToSet(classes)
               /\ transitive_bases[c] \subseteq Class
    BY <1>1 DEF IsLattice, used_by_vp, transitive_derived, transitive_bases, classes
  <1> QED BY <1>2, <1>3, <1>4, <1>5, <1>6

LEMMA LatticeTypes ==
  ASSUME WellFormed(lattice)
  PROVE  /\ classes \in Seq(Class)
         /\ ToSet(classes) \subseteq Class
         /\ \A c \in Class : /\ direct_derived[c] \in Seq(ToSet(classes))
                             /\ direct_derived[c] \in Seq(Class)
                             /\ used_by_vp[c] \in Seq(Param)
                             /\ transitive_derived[c] \subseteq ToSet(classes)
                             /\ transitive_bases[c] \subseteq Class
         /\ \A i \in 1 .. Len(classes) : classes[i] \in ToSet(classes) /\ classes[i] \in Class
  <1>1. IsLattice(lattice)
    BY DEF WellFormed
  <1> QED BY <1>1, TableTypes

(* The calls made for the direct derived classes extend the agenda.        *)
LEMMA CallsType ==
  ASSUME IsLattice(lattice), NEW c \in Class, NEW n \in Nat,
         agenda \in Seq(Call)
  PROVE  /\ Calls(c, n) \in Seq(Call)
         /\ Calls(c, n) \o agenda \in Seq(Call)
  <1>1. direct_derived[c] \in Seq(Class)
    BY TableTypes
  <1>2. \A i \in DOMAIN direct_derived[c] :
          [cls |-> direct_derived[c][i], base_slot |-> n] \in Call
    BY <1>1, ElementOfSeq DEF Call
  <1>3. Calls(c, n) \in Seq(Call)
    <2>1. direct_derived[c] \in [1 .. Len(direct_derived[c]) -> Class]
          /\ Len(direct_derived[c]) \in Nat
      BY <1>1
    <2>2. Calls(c, n) \in [1 .. Len(direct_derived[c]) -> Call]
      BY <1>2, <2>1 DEF Calls
    <2> QED BY <2>1, <2>2
  <1> QED BY <1>3, ConcatProperties

LEMMA NatInterval == ASSUME NEW b, NEW n \in 0 .. b PROVE n \in Nat
  OBVIOUS

LEMMA TypedStep == Typed /\ [Next]_vars => Typed'
  <1> SUFFICES ASSUME Typed, [Next]_vars PROVE Typed'
    OBVIOUS
  <1> USE DEF Typed, TypeOK, Bounded
  <1>0. CASE UNCHANGED vars
    BY <1>0 DEF vars
  <1>a. ASSUME Next PROVE lattice' = lattice /\ IsLattice(lattice')
    BY <1>a, LatticeConstant
  <1>1. CASE NextRoot
    <2>1. classes[next_class] \in Class
      BY <1>1, TableTypes DEF NextRoot
    <2>2. agenda' \in Seq(Call)
      <3>1. [cls |-> classes[next_class], base_slot |-> 0] \in Call
        BY <2>1 DEF Call
      <3>2. <<[cls |-> classes[next_class], base_slot |-> 0]>> \in Seq(Call)
        BY <3>1
      <3> QED BY <1>1, <3>2 DEF NextRoot
    <2> QED BY <1>1, <1>a, <2>2 DEF NextRoot, Next
  <1>2. CASE RootDone
    BY <1>2, <1>a DEF RootDone, Next
  <1>3. CASE RootsDone
    BY <1>3, <1>a DEF RootsDone, Next
  <1>4. CASE EnterTree
    <2>1. /\ Head(agenda).cls \in Class /\ Head(agenda).base_slot \in Nat
          /\ Tail(agenda) \in Seq(Call)
      <3>1. Head(agenda) \in Call /\ Tail(agenda) \in Seq(Call)
        BY <1>4, HeadTailProperties DEF EnterTree
      <3> QED BY <3>1 DEF Call
    <2>2. used_by_vp[Head(agenda).cls] \in Seq(Param)
      BY <2>1, TableTypes
    <2> QED BY <1>4, <1>a, <2>1, <2>2 DEF EnterTree, Next
  <1>5. CASE AssignTreeSlot
    <2>1. Head(pending) \in Param /\ Tail(pending) \in Seq(Param)
      BY <1>5, HeadTailProperties DEF AssignTreeSlot
    <2> QED BY <1>5, <1>a, <2>1 DEF AssignTreeSlot, Next
  <1>6. CASE LeaveTree
    <2>1. Calls(current, next_slot) \o agenda \in Seq(Call)
      BY <1>6, CallsType DEF LeaveTree
    <2> QED BY <1>6, <1>a, <2>1 DEF LeaveTree, Next
  <1>7. CASE EnterLattice
    <2>1. /\ Head(agenda).cls \in Class
          /\ Tail(agenda) \in Seq(Call)
      <3>1. Head(agenda) \in Call /\ Tail(agenda) \in Seq(Call)
        BY <1>7, HeadTailProperties DEF EnterLattice
      <3> QED BY <3>1 DEF Call
    <2>2. used_by_vp[Head(agenda).cls] \in Seq(Param)
      BY <2>1, TableTypes
    <2> QED BY <1>7, <1>a, <2>1, <2>2 DEF EnterLattice, Next
  <1>8. CASE AssignLatticeSlot
    <2>1. Head(pending) \in Param /\ Tail(pending) \in Seq(Param)
      BY <1>8, HeadTailProperties DEF AssignLatticeSlot
    <2>2. PICK slot \in Nat : /\ slots' = [slots EXCEPT ![Head(pending)] = slot]
                              /\ used_slots' = UsedWith(current, slot)
                              /\ reserved_slots' = ReservedWith(current, slot)
      BY <1>8, NatInterval DEF AssignLatticeSlot
    <2>3. used_slots' \in [Class -> SUBSET Nat]
      BY <1>8, <2>2 DEF UsedWith, AssignLatticeSlot
    <2>4. reserved_slots' \in [Class -> SUBSET Nat]
      BY <1>8, <2>2 DEF ReservedWith, AssignLatticeSlot
    <2>5. ASSUME NEW c \in Class PROVE \E n \in Nat : \A s \in used_slots'[c] : s <= n
      <3>1. PICK m \in Nat : \A s \in used_slots[c] : s <= m
        OBVIOUS
      <3>2. PICK k \in Nat : \A s \in used_slots[current] : s <= k
        BY <1>8 DEF AssignLatticeSlot
      <3>3. \A s \in used_slots'[c] : s \in used_slots[c] \/ s \in used_slots[current] \/ s = slot
        BY <2>2 DEF UsedWith
      <3>4. \A s \in used_slots'[c] : s \in Nat
        BY <2>3
      <3>5. m + k + slot \in Nat /\ m <= m + k + slot /\ k <= m + k + slot /\ slot <= m + k + slot
        OBVIOUS
      <3>6. \A s \in used_slots'[c] : s <= m + k + slot
        BY <3>1, <3>2, <3>3, <3>4
      <3> WITNESS m + k + slot \in Nat
      <3> QED BY <3>6
    <2> QED BY <1>8, <1>a, <2>1, <2>2, <2>3, <2>4, <2>5 DEF AssignLatticeSlot, Next
  <1>9. CASE LeaveLattice
    <2>1. Calls(current, 0) \o agenda \in Seq(Call)
      BY <1>9, CallsType DEF LeaveLattice
    <2> QED BY <1>9, <1>a, <2>1 DEF LeaveLattice, Next
  <1>10. CASE AllocateVtbl
    <2> DEFINE cls == classes[next_class]
    <2>1. cls \in Class
      BY <1>10, TableTypes DEF AllocateVtbl
    <2>2. CASE used_slots[cls] = {}
      BY <1>10, <1>a, <2>2 DEF AllocateVtbl, Next
    <2>3. CASE used_slots[cls] # {}
      <3>1. used_slots[cls] \in SUBSET Nat
        BY <2>1
      <3>2. Min(used_slots[cls]) \in Nat
        BY <2>3, <3>1, MinOfNat
      <3>3. PICK n \in Nat : \A s \in used_slots[cls] : s <= n
        BY <2>1
      <3>4. Max(used_slots[cls]) \in Nat /\ Min(used_slots[cls]) <= Max(used_slots[cls])
        BY <2>3, <3>1, <3>3, MinOfNat, MaxOfBounded
      <3>5. Size(used_slots[cls]) - Min(used_slots[cls]) \in Nat
        BY <2>3, <3>2, <3>4 DEF Size
      <3> HIDE DEF cls
      <3>6. /\ first_slot' = [first_slot EXCEPT ![cls] = Min(used_slots[cls])]
            /\ vtbl_size' = [vtbl_size EXCEPT ![cls] = Size(used_slots[cls]) - Min(used_slots[cls])]
        BY <1>10, <2>3 DEF AllocateVtbl, VtblSize, cls
      <3>7. /\ next_class' = next_class + 1
            /\ UNCHANGED <<lattice, pc, agenda, current, pending, next_slot, marked,
                           used_slots, reserved_slots, slots>>
        BY <1>10 DEF AllocateVtbl
      <3>8. first_slot' \in [Class -> Nat] /\ vtbl_size' \in [Class -> Nat]
        BY <3>2, <3>5, <3>6
      <3>9. IsLattice(lattice')
        BY <1>10, <1>a DEF Next
      <3>10. TypeOK'
        BY <3>7, <3>8, <3>9
      <3>11. Bounded'
        BY <3>7
      <3> QED BY <3>9, <3>10, <3>11
    <2> QED BY <2>2, <2>3
  <1>11. CASE SlotsDone
    BY <1>11, <1>a DEF SlotsDone, Next
  <1> QED BY <1>0, <1>1, <1>2, <1>3, <1>4, <1>5, <1>6, <1>7, <1>8, <1>9, <1>10, <1>11 DEF Next

LEMMA TypeStep == TypeInv /\ [Next]_vars => TypeInv'
  <1> SUFFICES ASSUME TypeInv, [Next]_vars PROVE TypeInv'
    OBVIOUS
  <1>1. Typed /\ WellFormed(lattice)
    BY DEF TypeInv, Typed
  <1>2. Typed'
    BY <1>1, TypedStep
  <1>3. lattice' = lattice
    BY LatticeConstant DEF vars
  <1> QED BY <1>1, <1>2, <1>3 DEF TypeInv, Typed, WellFormed

(* Type correctness: the passes' tables keep their types, and the v-table  *)
(* sizes that assign_slots computes by subtraction are never negative.     *)
THEOREM TypeCorrect == Spec => []TypeOK
  <1>1. Init => TypeInv
    BY LatticesAssumption, TypeStart DEF Init
  <1>2. TypeInv /\ [Next]_vars => TypeInv'
    BY TypeStep
  <1>3. TypeInv => TypeOK
    BY DEF TypeInv
  <1> QED BY <1>1, <1>2, <1>3, PTL DEF Spec

-----------------------------------------------------------------------------
(* No two virtual parameters that share a class ever share a slot, for any *)
(* classes, parameters and well-formed lattices.  SlotInv is inductive: in *)
(* a tree a branch is given slots above all those of its bases and apart   *)
(* from those of the other branches; elsewhere a slot is used or reserved  *)
(* wherever a conflicting parameter could look for one.                    *)

Inv == TypeInv /\ SlotInv

(* The lattice, in terms of its tables.                                    *)
LEMMA Closed ==
  ASSUME WellFormed(lattice), NEW c \in ToSet(classes)
  PROVE  /\ c \in Class
         /\ c \in transitive_derived[c]
         /\ \A d \in transitive_derived[c] :
              /\ d \in ToSet(classes)
              /\ transitive_derived[d] \subseteq transitive_derived[c]
              /\ d # c => c \in transitive_bases[d]
         /\ ToSet(direct_derived[c]) \subseteq transitive_derived[c]
  <1>1. c \in Class /\ transitive_derived[c] \subseteq ToSet(classes)
    BY LatticeTypes
  <1> QED BY <1>1 DEF WellFormed, IsClosed, classes, transitive_derived, transitive_bases,
                      direct_derived

LEMMA DirectDerivedIn ==
  ASSUME WellFormed(lattice), NEW c \in ToSet(classes), NEW i \in DOMAIN direct_derived[c]
  PROVE  /\ direct_derived[c][i] \in ToSet(classes)
         /\ direct_derived[c][i] \in transitive_derived[c]
         /\ transitive_derived[direct_derived[c][i]] \subseteq transitive_derived[c]
  <1>1. c \in Class
    BY Closed
  <1>2. direct_derived[c] \in Seq(Class)
    BY <1>1, LatticeTypes
  <1>3. direct_derived[c][i] \in ToSet(direct_derived[c])
    BY <1>2 DEF ToSet
  <1> QED BY <1>3, Closed

(* Every registered class below a tree's root is one of TreeClasses.       *)
LEMMA TreeClassesOf ==
  ASSUME NEW r \in ToSet(classes), TreeRoot(lattice, r)
  PROVE  transitive_derived[r] \subseteq TreeClasses
  BY DEF TreeClasses

LEMMA InTree ==
  ASSUME NEW c \in TreeClasses
  PROVE  \E r \in ToSet(classes) : TreeRoot(lattice, r) /\ c \in transitive_derived[r]
  BY DEF TreeClasses

(* TreeClasses is closed downwards.                                        *)
LEMMA TreeClassesDown ==
  ASSUME WellFormed(lattice), NEW c \in TreeClasses
  PROVE  transitive_derived[c] \subseteq TreeClasses
  <1>1. PICK r \in ToSet(classes) : TreeRoot(lattice, r) /\ c \in transitive_derived[r]
    BY InTree
  <1>2. transitive_derived[c] \subseteq transitive_derived[r]
    BY <1>1, Closed
  <1> QED BY <1>1, <1>2, TreeClassesOf

(* What is below a root other than a tree's is apart from the trees.       *)
LEMMA RootsApart ==
  ASSUME WellFormed(lattice), NEW i \in DOMAIN classes, NEW j \in DOMAIN classes, i # j,
         TreeRoot(lattice, classes[i]), Root(lattice, classes[j])
  PROVE  Apart(classes[i], classes[j])
  BY DEF WellFormed, TreesApart, Apart, classes, transitive_derived

LEMMA BranchesApart ==
  ASSUME WellFormed(lattice), NEW r \in ToSet(classes), TreeRoot(lattice, r),
         NEW c \in transitive_derived[r],
         NEW i \in DOMAIN direct_derived[c], NEW j \in DOMAIN direct_derived[c], i # j
  PROVE  Apart(direct_derived[c][i], direct_derived[c][j])
  BY DEF WellFormed, TreesApart, Apart, classes, transitive_derived, direct_derived

LEMMA RootOutsideTrees ==
  ASSUME WellFormed(lattice), NEW j \in DOMAIN classes,
         Root(lattice, classes[j]), ~ TreeRoot(lattice, classes[j])
  PROVE  transitive_derived[classes[j]] \cap TreeClasses = {}
  <1> SUFFICES ASSUME NEW c \in transitive_derived[classes[j]], c \in TreeClasses
               PROVE  FALSE
    OBVIOUS
  <1>1. PICK r \in ToSet(classes) : TreeRoot(lattice, r) /\ c \in transitive_derived[r]
    BY InTree
  <1>2. PICK i \in DOMAIN classes : r = classes[i]
    BY LatticeTypes DEF ToSet
  <1>3. Apart(classes[i], classes[j])
    BY <1>1, <1>2, RootsApart
  <1> QED BY <1>1, <1>2, <1>3 DEF Apart

(* The elements of a tail and of a concatenation.                          *)
LEMMA TailElements ==
  ASSUME NEW S, NEW s \in Seq(S), s # <<>>
  PROVE  /\ 1 \in DOMAIN s /\ Head(s) = s[1]
         /\ \A i \in DOMAIN Tail(s) : i + 1 \in DOMAIN s /\ Tail(s)[i] = s[i + 1]
         /\ \A i, j \in DOMAIN Tail(s) : i # j => i + 1 # j + 1
         /\ \A i \in DOMAIN Tail(s) : i + 1 # 1
  <1>1. Len(s) \in Nat /\ Len(s) # 0 /\ DOMAIN s = 1 .. Len(s)
    BY EmptySeq
  <1>2. Len(Tail(s)) = Len(s) - 1 /\ DOMAIN Tail(s) = 1 .. Len(s) - 1
    BY <1>1, HeadTailProperties
  <1>3. \A i \in 1 .. Len(Tail(s)) : Tail(s)[i] = s[i + 1]
    BY HeadTailProperties
  <1> QED BY <1>1, <1>2, <1>3

LEMMA ConcatElements ==
  ASSUME NEW S, NEW s \in Seq(S), NEW t \in Seq(S)
  PROVE  /\ DOMAIN (s \o t) = 1 .. Len(s) + Len(t)
         /\ \A i \in 1 .. Len(s) + Len(t) :
              (s \o t)[i] = IF i <= Len(s) THEN s[i] ELSE t[i - Len(s)]
  OBVIOUS

(* The agenda after the calls for the direct derived classes of c.         *)
LEMMA CallsElements ==
  ASSUME WellFormed(lattice), NEW c \in ToSet(classes), NEW n \in Nat, agenda \in Seq(Call)
  PROVE  LET a == Calls(c, n) \o agenda
             L == Len(direct_derived[c])
         IN \A i \in DOMAIN a :
              \/ /\ i \in DOMAIN direct_derived[c]
                 /\ a[i].cls = direct_derived[c][i] /\ a[i].base_slot = n
              \/ i > L /\ i - L \in DOMAIN agenda /\ a[i] = agenda[i - L]
  <1> DEFINE L == Len(direct_derived[c])
  <1>1. c \in Class
    BY Closed
  <1>2. Calls(c, n) \in Seq(Call)
    BY <1>1, CallsType DEF WellFormed
  <1>3. L \in Nat /\ DOMAIN direct_derived[c] = 1 .. L
    BY <1>1, LatticeTypes
  <1>4. Len(Calls(c, n)) = L
    BY <1>2, <1>3 DEF Calls
  <1>5. Len(agenda) \in Nat /\ DOMAIN agenda = 1 .. Len(agenda)
    OBVIOUS
  <1>6. /\ DOMAIN (Calls(c, n) \o agenda) = 1 .. Len(Calls(c, n)) + Len(agenda)
        /\ \A i \in 1 .. Len(Calls(c, n)) + Len(agenda) :
             (Calls(c, n) \o agenda)[i] =
                IF i <= Len(Calls(c, n)) THEN Calls(c, n)[i] ELSE agenda[i - Len(Calls(c, n))]
    <2> HIDE DEF L
    <2> QED BY <1>2, ConcatElements
  <1>7. \A i \in 1 .. L : Calls(c, n)[i].cls = direct_derived[c][i] /\ Calls(c, n)[i].base_slot = n
    BY <1>3 DEF Calls
  <1> DEFINE a == Calls(c, n) \o agenda
  <1>8. DOMAIN a = 1 .. L + Len(agenda)
    BY <1>4, <1>6
  <1>9. ASSUME NEW i \in DOMAIN a, i <= L
        PROVE  /\ i \in DOMAIN direct_derived[c]
               /\ a[i].cls = direct_derived[c][i] /\ a[i].base_slot = n
    BY <1>3, <1>4, <1>5, <1>6, <1>7, <1>8, <1>9
  <1>10. ASSUME NEW i \in DOMAIN a, ~ i <= L
         PROVE  i > L /\ i - L \in DOMAIN agenda /\ a[i] = agenda[i - L]
    BY <1>3, <1>4, <1>5, <1>6, <1>8, <1>10
  <1> QED BY <1>9, <1>10

(* The tables keep their values, and so does what is defined from them.    *)
LEMMA Frame ==
  ASSUME lattice' = lattice
  PROVE  /\ classes' = classes
         /\ transitive_derived' = transitive_derived
         /\ transitive_bases' = transitive_bases
         /\ TreeClasses' = TreeClasses
  BY DEF classes, transitive_derived, transitive_bases, TreeClasses

-----------------------------------------------------------------------------
LEMMA InvStart ==
  ASSUME WellFormed(lattice), Start
  PROVE  Inv
  <1>1. TypeInv
    BY TypeStart
  <1>2. Assigned = {}
    BY UnassignedAssumption DEF Start, Assigned
  <1>3. VisitsClasses
    BY DEF Start, VisitsClasses
  <1>4. BranchesFree /\ OutsideTrees
    BY DEF Start, BranchesFree, OutsideTrees
  <1>5. TreesUntouched /\ SlotsReserved /\ NoSlotClash
    BY <1>2 DEF TreesUntouched, SlotsReserved, NoSlotClash
  <1> QED BY <1>1, <1>3, <1>4, <1>5 DEF Inv, SlotInv, TypeInv

LEMMA InvInit == Init => Inv
  BY LatticesAssumption, InvStart DEF Init

(* Slots, once no step is assigning any, stay as they are.                 *)
LEMMA SlotsUnchanged ==
  ASSUME Inv, lattice' = lattice, UNCHANGED <<used_slots, reserved_slots, slots>>
  PROVE  WellFormed(lattice') /\ SlotsReserved' /\ NoSlotClash'
  <1>1. WellFormed(lattice')
    BY DEF Inv, SlotInv, TypeInv
  <1>2. SlotsReserved'
    BY Frame DEF Inv, SlotInv, SlotsReserved, Assigned, Covariant
  <1>3. NoSlotClash'
    BY Frame DEF Inv, SlotInv, NoSlotClash, Assigned, Conflict, Covariant
  <1> QED BY <1>1, <1>2, <1>3

LEMMA NextRootStep == Inv /\ NextRoot => SlotInv'
  <1> SUFFICES ASSUME Inv, NextRoot PROVE SlotInv'
    OBVIOUS
  <1> PICK cls : cls = classes[next_class]
    OBVIOUS
  <1>1. /\ WellFormed(lattice) /\ VisitsClasses /\ TreesUntouched
        /\ next_class \in Nat \ {0} /\ next_class \in DOMAIN classes
        /\ next_class' - 1 = next_class
        /\ lattice' = lattice /\ current = NoClass
        /\ UNCHANGED <<current, pending, used_slots, reserved_slots, slots>>
    BY LatticeTypes DEF Inv, SlotInv, TypeInv, TypeOK, NextRoot, VisitsClasses
  <1>2. WellFormed(lattice') /\ SlotsReserved' /\ NoSlotClash'
    BY <1>1, SlotsUnchanged
  <1>3. cls \in ToSet(classes)
    BY <1>1, LatticeTypes DEF ToSet
  <1>4. TreesUntouched'
    <2>1. /\ pc \in {"roots", "tree", "lattice"} /\ next_class' = next_class + 1
          /\ Len(classes) \in Nat
      BY <1>1, LatticeTypes DEF NextRoot
    <2>2. \A j \in next_class' .. Len(classes) : j \in next_class .. Len(classes)
      BY <1>1, <2>1
    <2> QED BY <1>1, <2>1, <2>2, Frame DEF TreesUntouched, Assigned, Covariant
  <1>5. \/ pc' = "roots" /\ agenda' = agenda
        \/ /\ Root(lattice, cls)
           /\ pc' = IF TreeRoot(lattice, cls) THEN "tree" ELSE "lattice"
           /\ agenda' = <<[cls |-> cls, base_slot |-> 0]>>
    BY DEF NextRoot
  <1>6. CurrentRoot' = cls
    BY <1>1, Frame DEF CurrentRoot
  <1>7. pc' # "roots" => \A i \in DOMAIN agenda' :
                            i = 1 /\ agenda'[i].cls = cls /\ agenda'[i].base_slot = 0
    BY <1>5
  <1>8. VisitsClasses'
    BY <1>1, <1>3, <1>5, <1>7, Frame DEF VisitsClasses
  <1>9. OutsideTrees'
    <2>1. pc' = "lattice" => transitive_derived[cls] \cap TreeClasses = {}
      BY <1>1, <1>5, RootOutsideTrees
    <2> QED BY <1>1, <1>7, <2>1, Frame DEF OutsideTrees
  <1>10. BranchesFree'
    <2> SUFFICES ASSUME pc' = "tree" PROVE BranchesFree'
      BY DEF BranchesFree
    <2>1. TreeRoot(lattice, cls)
      BY <1>5
    <2>2. \A p \in Assigned : Covariant(p) \cap transitive_derived[cls] = {}
      BY <1>1, <2>1, LatticeTypes DEF TreesUntouched, NextRoot
    <2>3. FreeFrom(cls, 0)'
      BY <1>1, <1>6, <2>2, Frame DEF FreeFrom, Assigned, Covariant
    <2>4. \A i \in DOMAIN agenda' : i = 1 /\ agenda'[i].cls = cls /\ agenda'[i].base_slot = 0
      BY <1>5
    <2>5. \A i \in DOMAIN agenda' : FreeFrom(agenda[i].cls, agenda[i].base_slot)'
      BY <2>3, <2>4 DEF FreeFrom
    <2> QED BY <1>1, <1>6, <2>1, <2>4, <2>5 DEF BranchesFree
  <1> QED BY <1>2, <1>4, <1>8, <1>9, <1>10 DEF SlotInv

LEMMA EnterTreeStep == Inv /\ EnterTree => SlotInv'
  <1> SUFFICES ASSUME Inv, EnterTree PROVE SlotInv'
    OBVIOUS
  <1> PICK cls, n : cls = Head(agenda).cls /\ n = Head(agenda).base_slot
    OBVIOUS
  <1>1. /\ WellFormed(lattice) /\ VisitsClasses /\ BranchesFree /\ TreesUntouched
        /\ agenda \in Seq(Call) /\ agenda # <<>>
        /\ lattice' = lattice /\ pc = "tree" /\ pc' = "tree"
        /\ UNCHANGED <<next_class, used_slots, reserved_slots, slots>>
        /\ current' = cls /\ next_slot' = n /\ agenda' = Tail(agenda)
        /\ pending' = used_by_vp[cls]
    BY DEF Inv, SlotInv, TypeInv, TypeOK, EnterTree
  <1>2. WellFormed(lattice') /\ SlotsReserved' /\ NoSlotClash'
    BY <1>1, SlotsUnchanged
  <1>3. /\ 1 \in DOMAIN agenda /\ cls = agenda[1].cls /\ n = agenda[1].base_slot
        /\ \A i \in DOMAIN agenda' : /\ i + 1 \in DOMAIN agenda /\ i + 1 # 1
                                     /\ agenda'[i] = agenda[i + 1]
        /\ \A i, j \in DOMAIN agenda' : i # j => i + 1 # j + 1
    BY <1>1, TailElements
  <1>4. TreesUntouched'
    BY <1>1, Frame DEF TreesUntouched, Assigned, Covariant
  <1>5. OutsideTrees'
    BY <1>1 DEF OutsideTrees
  <1>6. CurrentRoot' = CurrentRoot
    BY <1>1, Frame DEF CurrentRoot
  <1>7. VisitsClasses'
    <2>1. cls \in ToSet(classes) /\ cls \in Class
      BY <1>1, <1>3, LatticeTypes DEF VisitsClasses
    <2>2. \A k \in DOMAIN used_by_vp[cls] : lattice.vp[used_by_vp[cls][k]] = cls
      BY <1>1, <2>1 DEF WellFormed, IsLattice, used_by_vp
    <2> QED BY <1>1, <1>3, <2>1, <2>2, Frame DEF VisitsClasses
  <1>8. BranchesFree'
    <2>1. \A c, k : FreeFrom(c, k) => FreeFrom(c, k)'
      BY <1>1, <1>6, Frame DEF FreeFrom, Assigned, Covariant
    <2>3. TreeRoot(lattice', CurrentRoot')
      BY <1>1, <1>6 DEF BranchesFree
    <2>4. FreeFrom(cls, n)'
      BY <1>1, <1>3, <2>1 DEF BranchesFree
    <2>5. ASSUME NEW i \in DOMAIN agenda'
          PROVE  FreeFrom(agenda[i].cls, agenda[i].base_slot)'
      <3> PICK c, k : c = agenda[i + 1].cls /\ k = agenda[i + 1].base_slot
        OBVIOUS
      <3>1. FreeFrom(c, k)'
        BY <1>1, <1>3, <2>1 DEF BranchesFree
      <3> QED BY <1>3, <3>1 DEF FreeFrom
    <2>6. ASSUME NEW i \in DOMAIN agenda'
          PROVE  /\ Apart(current, agenda[i].cls)'
                 /\ \A j \in DOMAIN agenda' : i # j => Apart(agenda[i].cls, agenda[j].cls)'
      <3>1. Apart(cls, agenda[i + 1].cls)
        BY <1>1, <1>3 DEF BranchesFree
      <3>2. \A j \in DOMAIN agenda' : i # j => Apart(agenda[i + 1].cls, agenda[j + 1].cls)
        BY <1>1, <1>3 DEF BranchesFree
      <3> QED BY <1>1, <1>3, <3>1, <3>2, Frame DEF Apart
    <2>7. FreeFrom(current, next_slot)'
      BY <1>1, <2>4 DEF FreeFrom
    <2> QED BY <2>3, <2>5, <2>6, <2>7 DEF BranchesFree
  <1> QED BY <1>2, <1>4, <1>5, <1>7, <1>8 DEF SlotInv

(* The parameter takes a slot above those of every parameter it conflicts  *)
(* with, and no other branch or tree sees it.                              *)
LEMMA AssignTreeSlotStep == Inv /\ AssignTreeSlot => SlotInv'
  <1> SUFFICES ASSUME Inv, AssignTreeSlot PROVE SlotInv'
    OBVIOUS
  <1> PICK p : p = Head(pending)
    OBVIOUS
  <1>1. /\ WellFormed(lattice) /\ VisitsClasses /\ BranchesFree /\ TreesUntouched
        /\ SlotsReserved /\ NoSlotClash
        /\ lattice' = lattice /\ pc = "tree" /\ pc' = "tree"
        /\ UNCHANGED <<next_class, agenda, current, used_slots, reserved_slots>>
        /\ current # NoClass /\ next_slot \in Nat /\ next_class \in Nat
        /\ slots \in [Param -> Nat \cup {Unassigned}]
        /\ slots' = [slots EXCEPT ![p] = next_slot]
        /\ next_slot' = next_slot + 1
        /\ pending \in Seq(Param) /\ pending # <<>> /\ pending' = Tail(pending)
    BY DEF Inv, SlotInv, TypeInv, TypeOK, AssignTreeSlot
  <1>2. /\ p \in Param /\ lattice.vp[p] = current /\ current \in ToSet(classes)
        /\ \A k \in DOMAIN pending' : lattice.vp[pending'[k]] = current
    <2>1. /\ 1 \in DOMAIN pending /\ p = pending[1]
          /\ \A k \in DOMAIN pending' : k + 1 \in DOMAIN pending /\ pending'[k] = pending[k + 1]
      BY <1>1, TailElements
    <2> QED BY <1>1, <2>1, HeadTailProperties DEF VisitsClasses
  <1>3. /\ slots'[p] = next_slot
        /\ \A q \in Param : q # p => slots'[q] = slots[q]
        /\ \A q \in Assigned' : q = p \/ q \in Assigned
        /\ Assigned' \subseteq Param
    BY <1>1, <1>2 DEF Assigned
  <1>4. \A q : Covariant(q)' = Covariant(q)
    BY <1>1, Frame DEF Covariant
  <1>5. Covariant(p) = transitive_derived[current]
    BY <1>2 DEF Covariant
  <1>6. CurrentRoot' = CurrentRoot
    BY <1>1, Frame DEF CurrentRoot
  <1>7. /\ TreeRoot(lattice, CurrentRoot)
        /\ CurrentRoot \in ToSet(classes)
        /\ transitive_derived[current] \subseteq transitive_derived[CurrentRoot]
        /\ \A q \in Assigned :
             Covariant(q) \cap transitive_derived[current] # {} => slots[q] < next_slot
        /\ \A i \in DOMAIN agenda : /\ Apart(current, agenda[i].cls)
                                    /\ FreeFrom(agenda[i].cls, agenda[i].base_slot)
        /\ \A i, j \in DOMAIN agenda : i # j => Apart(agenda[i].cls, agenda[j].cls)
    BY <1>1, LatticeTypes DEF BranchesFree, FreeFrom, VisitsClasses, CurrentRoot, ToSet
  <1>8. NoSlotClash'
    <2> SUFFICES ASSUME NEW q \in Assigned', NEW r \in Assigned', Conflict(q, r)
                 PROVE  slots'[q] # slots'[r]
      BY <1>4 DEF NoSlotClash, Conflict
    <2>1. CASE q # p /\ r # p
      BY <1>1, <1>3, <2>1 DEF NoSlotClash
    <2>2. ASSUME NEW o \in Assigned, o # p, Covariant(o) \cap Covariant(p) # {}
          PROVE  slots'[o] # slots'[p]
      <3>1. slots[o] < next_slot
        BY <1>5, <1>7, <2>2
      <3>2. slots[o] \in Nat
        BY <1>1 DEF Assigned
      <3> QED BY <1>1, <1>3, <2>2, <3>1, <3>2 DEF Assigned
    <2> QED BY <1>3, <2>1, <2>2 DEF Conflict
  <1>9. SlotsReserved'
    <2>1. lattice.vp[p] \in TreeClasses
      BY <1>1, <1>2, <1>7, Closed, TreeClassesOf
    <2> QED BY <1>1, <1>3, <1>4, <2>1, Frame DEF SlotsReserved, Assigned
  <1>10. TreesUntouched'
    <2> SUFFICES ASSUME NEW j \in next_class .. Len(classes), TreeRoot(lattice, classes[j]),
                        NEW q \in Assigned'
                 PROVE  Covariant(q) \cap transitive_derived[classes[j]] = {}
      BY <1>1, <1>4, Frame DEF TreesUntouched
    <2>1. CASE q \in Assigned
      BY <1>1, <2>1 DEF TreesUntouched
    <2>2. CASE q = p
      <3>1. /\ next_class - 1 \in DOMAIN classes /\ j \in DOMAIN classes /\ next_class - 1 # j
            /\ classes[next_class - 1] = CurrentRoot
        BY <1>1, LatticeTypes DEF VisitsClasses, CurrentRoot
      <3>2. Apart(CurrentRoot, classes[j])
        BY <1>1, <1>7, <3>1, RootsApart DEF TreeRoot
      <3> QED BY <1>5, <1>7, <2>2, <3>2 DEF Apart
    <2> QED BY <1>3, <2>1, <2>2
  <1>11. BranchesFree'
    <2>1. ASSUME NEW i \in DOMAIN agenda'
          PROVE  FreeFrom(agenda[i].cls, agenda[i].base_slot)'
      <3> PICK c, k : c = agenda[i].cls /\ k = agenda[i].base_slot
        OBVIOUS
      <3>1. FreeFrom(c, k) /\ Apart(current, c)
        BY <1>1, <1>7
      <3>2. ASSUME NEW q \in Assigned', Covariant(q) \cap transitive_derived[c] # {}
            PROVE  slots'[q] < k
        <4>1. q # p
          BY <1>5, <3>1, <3>2 DEF Apart
        <4> QED BY <1>3, <3>1, <3>2, <4>1 DEF FreeFrom
      <3>3. FreeFrom(c, k)'
        BY <1>1, <1>4, <1>6, <3>1, <3>2, Frame DEF FreeFrom
      <3> QED BY <1>1, <3>3 DEF FreeFrom
    <2>2. FreeFrom(current, next_slot)'
      <3>1. ASSUME NEW q \in Assigned', Covariant(q) \cap transitive_derived[current] # {}
            PROVE  slots'[q] < next_slot + 1
        <4>1. CASE q = p
          BY <1>1, <1>3, <4>1
        <4>2. CASE q # p
          <5>1. q \in Assigned /\ slots'[q] = slots[q] /\ slots[q] \in Nat
            BY <1>1, <1>3, <4>2 DEF Assigned
          <5>2. slots[q] < next_slot
            BY <1>7, <3>1, <5>1
          <5> QED BY <1>1, <5>1, <5>2
        <4> QED BY <4>1, <4>2
      <3> QED BY <1>1, <1>4, <1>6, <1>7, <3>1, Frame DEF FreeFrom
    <2>3. \A i \in DOMAIN agenda' :
             /\ Apart(current, agenda[i].cls)'
             /\ \A j \in DOMAIN agenda' : i # j => Apart(agenda[i].cls, agenda[j].cls)'
      BY <1>1, <1>7, Frame DEF Apart
    <2> QED BY <1>1, <1>6, <1>7, <2>1, <2>2, <2>3 DEF BranchesFree
  <1>12. VisitsClasses'
    BY <1>1, <1>2, Frame DEF VisitsClasses
  <1>13. OutsideTrees'
    BY <1>1 DEF OutsideTrees
  <1> QED BY <1>1, <1>8, <1>9, <1>10, <1>11, <1>12, <1>13 DEF SlotInv

(* Each derived class is a branch of its own, free from next_slot on.      *)
LEMMA LeaveTreeStep == Inv /\ LeaveTree => SlotInv'
  <1> SUFFICES ASSUME Inv, LeaveTree PROVE SlotInv'
    OBVIOUS
  <1> PICK cls, n : cls = current /\ n = next_slot
    OBVIOUS
  <1> DEFINE a == Calls(cls, n) \o agenda
             L == Len(direct_derived[cls])
             dd == direct_derived[cls]
  <1>1. /\ WellFormed(lattice) /\ VisitsClasses /\ BranchesFree /\ TreesUntouched
        /\ lattice' = lattice /\ pc = "tree" /\ pc' = "tree"
        /\ UNCHANGED <<next_class, pending, used_slots, reserved_slots, slots>>
        /\ cls # NoClass /\ n \in Nat /\ pending = <<>> /\ current' = NoClass
        /\ agenda \in Seq(Call) /\ agenda' = a
    BY DEF Inv, SlotInv, TypeInv, TypeOK, LeaveTree
  <1>2. WellFormed(lattice') /\ SlotsReserved' /\ NoSlotClash'
    BY <1>1, SlotsUnchanged
  <1>3. cls \in ToSet(classes)
    BY <1>1 DEF VisitsClasses
  <1>4. \A i \in DOMAIN agenda' :
          \/ i \in DOMAIN dd /\ agenda'[i].cls = dd[i] /\ agenda'[i].base_slot = n
          \/ i > L /\ i - L \in DOMAIN agenda /\ agenda'[i] = agenda[i - L]
    BY <1>1, <1>3, CallsElements
  <1>5. L \in Nat /\ DOMAIN dd = 1 .. L
    BY <1>1, <1>3, Closed, LatticeTypes
  <1>6. CurrentRoot' = CurrentRoot
    BY <1>1, Frame DEF CurrentRoot
  <1>7. /\ TreeRoot(lattice, CurrentRoot)
        /\ CurrentRoot \in ToSet(classes)
        /\ FreeFrom(cls, n)
        /\ \A i \in DOMAIN agenda : /\ Apart(cls, agenda[i].cls)
                                    /\ FreeFrom(agenda[i].cls, agenda[i].base_slot)
        /\ \A i, j \in DOMAIN agenda : i # j => Apart(agenda[i].cls, agenda[j].cls)
    BY <1>1, LatticeTypes DEF BranchesFree, VisitsClasses, CurrentRoot, ToSet
  <1>8. \A i \in DOMAIN dd : /\ dd[i] \in ToSet(classes)
                            /\ transitive_derived[dd[i]] \subseteq transitive_derived[cls]
    BY <1>1, <1>3, DirectDerivedIn
  <1>9. \A i, j \in DOMAIN dd : i # j => Apart(dd[i], dd[j])
    <2>1. cls \in transitive_derived[CurrentRoot]
      BY <1>1, <1>3, <1>7, Closed DEF FreeFrom
    <2> QED BY <1>1, <1>7, <2>1, BranchesApart
  <1> HIDE DEF a, L, dd
  <1>10. BranchesFree'
    <2>1. ASSUME NEW i \in DOMAIN agenda'
          PROVE  FreeFrom(agenda[i].cls, agenda[i].base_slot)'
      <3> PICK c, k : c = agenda'[i].cls /\ k = agenda'[i].base_slot
        OBVIOUS
      <3>1. FreeFrom(c, k)
        <4>1. CASE i \in DOMAIN dd /\ c = dd[i] /\ k = n
          BY <1>7, <1>8, <4>1 DEF FreeFrom
        <4>2. CASE i - L \in DOMAIN agenda /\ c = agenda[i - L].cls /\ k = agenda[i - L].base_slot
          BY <1>7, <4>2
        <4> QED BY <1>4, <4>1, <4>2
      <3>2. FreeFrom(c, k)'
        BY <1>1, <1>6, <3>1, Frame DEF FreeFrom, Assigned, Covariant
      <3> QED BY <3>2 DEF FreeFrom
    <2>2. ASSUME NEW i \in DOMAIN agenda', NEW j \in DOMAIN agenda', i # j
          PROVE  Apart(agenda[i].cls, agenda[j].cls)'
      <3> PICK c, d : c = agenda'[i].cls /\ d = agenda'[j].cls
        OBVIOUS
      <3>1. CASE i \in DOMAIN dd /\ c = dd[i] /\ j \in DOMAIN dd /\ d = dd[j]
        BY <1>1, <1>9, <2>2, <3>1, Frame DEF Apart
      <3>2. CASE i \in DOMAIN dd /\ c = dd[i] /\ j - L \in DOMAIN agenda /\ d = agenda[j - L].cls
        BY <1>1, <1>7, <1>8, <3>2, Frame DEF Apart
      <3>3. CASE i - L \in DOMAIN agenda /\ c = agenda[i - L].cls /\ j \in DOMAIN dd /\ d = dd[j]
        BY <1>1, <1>7, <1>8, <3>3, Frame DEF Apart
      <3>4. CASE /\ i - L \in DOMAIN agenda /\ c = agenda[i - L].cls
                 /\ j - L \in DOMAIN agenda /\ d = agenda[j - L].cls
                 /\ i > L /\ j > L
        <4>1. i - L # j - L
          <5>1. i \in Int /\ j \in Int
            BY <1>1, <1>3, Closed, CallsType DEF a
          <5> QED BY <1>5, <2>2, <5>1
        <4> QED BY <1>1, <1>7, <3>4, <4>1, Frame DEF Apart
      <3> QED BY <1>4, <3>1, <3>2, <3>3, <3>4
    <2> QED BY <1>1, <1>6, <1>7, <2>1, <2>2 DEF BranchesFree
  <1>11. VisitsClasses'
    BY <1>1, <1>4, <1>8, Frame DEF VisitsClasses
  <1>12. TreesUntouched' /\ OutsideTrees'
    BY <1>1, Frame DEF TreesUntouched, OutsideTrees, Assigned, Covariant
  <1> QED BY <1>2, <1>10, <1>11, <1>12 DEF SlotInv

LEMMA EnterLatticeStep == Inv /\ EnterLattice => SlotInv'
  <1> SUFFICES ASSUME Inv, EnterLattice PROVE SlotInv'
    OBVIOUS
  <1> PICK cls : cls = Head(agenda).cls
    OBVIOUS
  <1>1. /\ WellFormed(lattice) /\ VisitsClasses /\ OutsideTrees /\ TreesUntouched
        /\ agenda \in Seq(Call) /\ agenda # <<>>
        /\ lattice' = lattice /\ pc = "lattice" /\ pc' = "lattice"
        /\ UNCHANGED <<next_class, used_slots, reserved_slots, slots>>
        /\ agenda' = Tail(agenda)
        /\ \/ current' = cls /\ pending' = used_by_vp[cls]
           \/ UNCHANGED <<current, pending>>
    BY DEF Inv, SlotInv, TypeInv, TypeOK, EnterLattice
  <1>2. WellFormed(lattice') /\ SlotsReserved' /\ NoSlotClash'
    BY <1>1, SlotsUnchanged
  <1>3. /\ 1 \in DOMAIN agenda /\ cls = agenda[1].cls
        /\ \A i \in DOMAIN agenda' : i + 1 \in DOMAIN agenda /\ agenda'[i] = agenda[i + 1]
    BY <1>1, TailElements
  <1>4. TreesUntouched' /\ BranchesFree'
    BY <1>1, Frame DEF TreesUntouched, BranchesFree, Assigned, Covariant
  <1>5. VisitsClasses'
    <2>1. cls \in ToSet(classes) /\ cls \in Class
      BY <1>1, <1>3, LatticeTypes DEF VisitsClasses
    <2>2. \A k \in DOMAIN used_by_vp[cls] : lattice.vp[used_by_vp[cls][k]] = cls
      BY <1>1, <2>1 DEF WellFormed, IsLattice, used_by_vp
    <2> QED BY <1>1, <1>3, <2>1, <2>2, Frame DEF VisitsClasses
  <1>6. OutsideTrees'
    BY <1>1, <1>3, Frame DEF OutsideTrees
  <1> QED BY <1>2, <1>4, <1>5, <1>6 DEF SlotInv

LEMMA LeaveLatticeStep == Inv /\ LeaveLattice => SlotInv'
  <1> SUFFICES ASSUME Inv, LeaveLattice PROVE SlotInv'
    OBVIOUS
  <1> PICK cls : cls = current
    OBVIOUS
  <1> DEFINE dd == direct_derived[cls]
             L == Len(dd)
  <1>1. /\ WellFormed(lattice) /\ VisitsClasses /\ OutsideTrees /\ TreesUntouched
        /\ lattice' = lattice /\ pc = "lattice" /\ pc' = "lattice"
        /\ UNCHANGED <<next_class, pending, used_slots, reserved_slots, slots>>
        /\ cls # NoClass /\ pending = <<>> /\ current' = NoClass
        /\ agenda \in Seq(Call) /\ agenda' = Calls(cls, 0) \o agenda
    BY DEF Inv, SlotInv, TypeInv, TypeOK, LeaveLattice
  <1>2. WellFormed(lattice') /\ SlotsReserved' /\ NoSlotClash'
    BY <1>1, SlotsUnchanged
  <1>3. cls \in ToSet(classes)
    BY <1>1 DEF VisitsClasses
  <1>4. \A i \in DOMAIN agenda' :
          \/ i \in DOMAIN dd /\ agenda'[i].cls = dd[i]
          \/ i - L \in DOMAIN agenda /\ agenda'[i] = agenda[i - L]
    <2>1. \A i \in DOMAIN (Calls(cls, 0) \o agenda) :
            \/ i \in DOMAIN dd /\ (Calls(cls, 0) \o agenda)[i].cls = dd[i]
            \/ i - L \in DOMAIN agenda /\ (Calls(cls, 0) \o agenda)[i] = agenda[i - L]
      <3>1. 0 \in Nat
        OBVIOUS
      <3> QED BY <1>1, <1>3, <3>1, CallsElements
    <2> QED BY <1>1, <2>1
  <1>5. \A i \in DOMAIN dd : /\ dd[i] \in ToSet(classes)
                            /\ transitive_derived[dd[i]] \subseteq transitive_derived[cls]
    BY <1>1, <1>3, DirectDerivedIn
  <1> HIDE DEF dd, L
  <1>6. TreesUntouched' /\ BranchesFree'
    BY <1>1, Frame DEF TreesUntouched, BranchesFree, Assigned, Covariant
  <1>7. VisitsClasses'
    <2>1. \A i \in DOMAIN agenda' : agenda'[i].cls \in ToSet(classes)
      BY <1>1, <1>4, <1>5 DEF VisitsClasses
    <2> QED BY <1>1, <2>1, Frame DEF VisitsClasses
  <1>8. OutsideTrees'
    BY <1>1, <1>4, <1>5, Frame DEF OutsideTrees
  <1> QED BY <1>2, <1>6, <1>7, <1>8 DEF SlotInv

(* A slot that is not used in the class is that of no parameter that every *)
(* object of the class can be passed for; one that is not reserved in it,  *)
(* that of no parameter that meets it in a derived class only.             *)
LEMMA AssignLatticeSlotStep == Inv /\ AssignLatticeSlot => SlotInv'
  <1> SUFFICES ASSUME Inv, AssignLatticeSlot PROVE SlotInv'
    OBVIOUS
  <1> PICK cls, p : cls = current /\ p = Head(pending)
    OBVIOUS
  <1>1. PICK slot \in Nat : /\ slot \notin used_slots[cls] /\ slot \notin reserved_slots[cls]
                            /\ slots' = [slots EXCEPT ![p] = slot]
                            /\ used_slots' = UsedWith(cls, slot)
                            /\ reserved_slots' = ReservedWith(cls, slot)
    BY NatInterval DEF AssignLatticeSlot
  <1>2. /\ WellFormed(lattice) /\ VisitsClasses /\ OutsideTrees /\ TreesUntouched
        /\ SlotsReserved /\ NoSlotClash
        /\ lattice' = lattice /\ pc = "lattice" /\ pc' = "lattice"
        /\ UNCHANGED <<next_class, agenda, current>>
        /\ cls # NoClass /\ next_class \in Nat
        /\ slots \in [Param -> Nat \cup {Unassigned}]
        /\ used_slots \in [Class -> SUBSET Nat]
        /\ pending \in Seq(Param) /\ pending # <<>> /\ pending' = Tail(pending)
    BY DEF Inv, SlotInv, TypeInv, TypeOK, AssignLatticeSlot
  <1>3. /\ p \in Param /\ lattice.vp[p] = cls /\ cls \in ToSet(classes) /\ cls \in Class
        /\ \A k \in DOMAIN pending' : lattice.vp[pending'[k]] = current
    <2>1. /\ 1 \in DOMAIN pending /\ p = pending[1]
          /\ \A k \in DOMAIN pending' : k + 1 \in DOMAIN pending /\ pending'[k] = pending[k + 1]
      BY <1>2, TailElements
    <2> QED BY <1>2, <2>1, HeadTailProperties, LatticeTypes DEF VisitsClasses
  <1>4. /\ slots'[p] = slot
        /\ \A q \in Param : q # p => slots'[q] = slots[q]
        /\ \A q \in Assigned' : q = p \/ q \in Assigned
        /\ Assigned' \subseteq Param
    BY <1>1, <1>2, <1>3 DEF Assigned
  <1>5. \A q : Covariant(q)' = Covariant(q)
    BY <1>2, Frame DEF Covariant
  <1>6. /\ Covariant(p) = transitive_derived[cls]
        /\ Covariant(p) \cap TreeClasses = {}
    BY <1>2, <1>3 DEF Covariant, OutsideTrees
  <1>7. /\ \A c \in Class : used_slots[c] \subseteq used_slots'[c]
        /\ \A c \in transitive_derived[cls] : c \in Class => slot \in used_slots'[c]
    BY <1>1, <1>3 DEF UsedWith, ProperDerived
  <1>8. /\ \A b \in Class : reserved_slots[b] \subseteq reserved_slots'[b]
        /\ \A c \in transitive_derived[cls] : \A b \in transitive_bases[c] :
              b \in Class => slot \in reserved_slots'[b]
    BY <1>1, <1>3 DEF ReservedWith, ProperDerived
  <1>9. \A q \in Param : lattice.vp[q] \in ToSet(classes) /\ lattice.vp[q] \in Class
    BY <1>2, LatticeTypes DEF WellFormed, IsLattice, classes
  <1>10. \A q \in Param : \A c \in Covariant(q) : c \in Class /\ transitive_bases[c] \subseteq Class
    BY <1>2, <1>9, Closed, LatticeTypes DEF Covariant
  <1>11. SlotsReserved'
    <2> SUFFICES ASSUME NEW q \in Assigned', lattice.vp[q] \notin TreeClasses,
                        NEW c \in Covariant(q), NEW b \in transitive_bases[c]
                 PROVE  slots'[q] \in used_slots'[c] /\ slots'[q] \in reserved_slots'[b]
      <3>1. ASSUME NEW q \in Assigned', lattice.vp[q] \notin TreeClasses, NEW c \in Covariant(q)
            PROVE  slots'[q] \in used_slots'[c]
        <4>1. CASE q = p
          BY <1>4, <1>6, <1>7, <1>10, <3>1, <4>1
        <4>2. CASE q # p
          BY <1>2, <1>4, <1>7, <1>10, <3>1, <4>2 DEF SlotsReserved
        <4> QED BY <4>1, <4>2
      <3> QED BY <1>2, <1>5, <3>1, Frame DEF SlotsReserved
    <2>1. CASE q = p
      BY <1>4, <1>6, <1>7, <1>8, <1>10, <2>1
    <2>2. CASE q # p
      BY <1>2, <1>4, <1>7, <1>8, <1>10, <2>2 DEF SlotsReserved
    <2> QED BY <2>1, <2>2
  <1>12. NoSlotClash'
    <2>1. ASSUME NEW q \in Assigned, q # p, NEW c \in Covariant(q), c \in Covariant(p)
          PROVE  slots'[q] # slots'[p]
      <3>1. q \in Param
        BY DEF Assigned
      <3>2. lattice.vp[q] \notin TreeClasses
        BY <1>2, <1>6, <2>1, TreeClassesDown DEF Covariant
      <3>3. CASE c = cls
        BY <1>1, <1>2, <1>4, <2>1, <3>1, <3>2, <3>3 DEF SlotsReserved
      <3>4. CASE c # cls
        <4>1. cls \in transitive_bases[c]
          BY <1>2, <1>3, <1>6, <2>1, <3>4, Closed
        <4> QED BY <1>1, <1>2, <1>4, <2>1, <3>1, <3>2, <4>1 DEF SlotsReserved
      <3> QED BY <3>3, <3>4
    <2> SUFFICES ASSUME NEW q \in Assigned', NEW r \in Assigned', Conflict(q, r)
                 PROVE  slots'[q] # slots'[r]
      BY <1>5 DEF NoSlotClash, Conflict
    <2>2. CASE q # p /\ r # p
      BY <1>2, <1>4, <2>2 DEF NoSlotClash
    <2>3. CASE q = p
      BY <1>4, <2>1, <2>3 DEF Conflict
    <2>4. CASE r = p
      BY <1>4, <2>1, <2>4 DEF Conflict
    <2> QED BY <2>2, <2>3, <2>4
  <1>13. TreesUntouched'
    <2> SUFFICES ASSUME NEW j \in next_class .. Len(classes), TreeRoot(lattice, classes[j]),
                        NEW q \in Assigned'
                 PROVE  Covariant(q) \cap transitive_derived[classes[j]] = {}
      BY <1>2, <1>5, Frame DEF TreesUntouched
    <2>1. CASE q \in Assigned
      BY <1>2, <2>1 DEF TreesUntouched
    <2>2. CASE q = p
      <3>1. classes[j] \in ToSet(classes)
        <4>1. next_class \in Nat \ {0} /\ Len(classes) \in Nat
          BY <1>2, LatticeTypes DEF Inv, TypeInv, TypeOK
        <4> QED BY <1>2, <4>1, LatticeTypes
      <3> QED BY <1>6, <2>2, <3>1, TreeClassesOf
    <2> QED BY <1>4, <2>1, <2>2
  <1>14. VisitsClasses' /\ BranchesFree'
    BY <1>2, <1>3, Frame DEF VisitsClasses, BranchesFree
  <1>15. OutsideTrees'
    BY <1>2, Frame DEF OutsideTrees
  <1> QED BY <1>2, <1>11, <1>12, <1>13, <1>14, <1>15 DEF SlotInv

(* The steps that neither visit a class nor assign a slot.                 *)
LEMMA OtherSteps ==
  Inv /\ (RootDone \/ RootsDone \/ AllocateVtbl \/ SlotsDone \/ UNCHANGED vars) => SlotInv'
  <1> SUFFICES ASSUME Inv, RootDone \/ RootsDone \/ AllocateVtbl \/ SlotsDone \/ UNCHANGED vars
               PROVE  SlotInv'
    OBVIOUS
  <1>1. lattice' = lattice /\ UNCHANGED <<used_slots, reserved_slots, slots, agenda, current, pending>>
    BY DEF RootDone, RootsDone, AllocateVtbl, SlotsDone, vars
  <1>2. WellFormed(lattice') /\ SlotsReserved' /\ NoSlotClash'
    BY <1>1, SlotsUnchanged
  <1>3. VisitsClasses /\ BranchesFree /\ OutsideTrees /\ TreesUntouched
    BY DEF Inv, SlotInv
  <1>4. \/ pc' = "roots" /\ next_class' = next_class /\ current = NoClass
           /\ pc \in {"tree", "lattice"}
        \/ pc' \in {"mi", "done"}
        \/ pc' = pc /\ next_class' = next_class
    BY DEF RootDone, RootsDone, AllocateVtbl, SlotsDone, vars
  <1>5. VisitsClasses'
    BY <1>1, <1>3, <1>4, Frame DEF VisitsClasses
  <1>6. TreesUntouched'
    BY <1>1, <1>3, <1>4, Frame DEF TreesUntouched, Assigned, Covariant
  <1>7. OutsideTrees'
    BY <1>1, <1>3, <1>4, Frame DEF OutsideTrees
  <1>8. BranchesFree'
    <2>1. CASE pc' = "tree"
      <3>1. UNCHANGED vars
        BY <2>1 DEF RootDone, RootsDone, AllocateVtbl, SlotsDone
      <3>2. /\ CurrentRoot' = CurrentRoot
            /\ \A c, d : Apart(c, d) => Apart(c, d)'
            /\ \A c, k : FreeFrom(c, k) => FreeFrom(c, k)'
        BY <1>1, <3>1, Frame DEF CurrentRoot, Apart, FreeFrom, Assigned, Covariant, vars
      <3> QED BY <1>1, <1>3, <3>1, <3>2, Frame
              DEF BranchesFree, FreeFrom, Apart, Assigned, Covariant, vars
    <2>2. CASE pc' # "tree"
      BY <2>2 DEF BranchesFree
    <2> QED BY <2>1, <2>2
  <1> QED BY <1>2, <1>5, <1>6, <1>7, <1>8 DEF SlotInv

LEMMA InvStep == Inv /\ [Next]_vars => Inv'
  <1> SUFFICES ASSUME Inv, [Next]_vars PROVE Inv'
    OBVIOUS
  <1>1. TypeInv'
    BY TypeStep DEF Inv
  <1>2. SlotInv'
    BY NextRootStep, EnterTreeStep, AssignTreeSlotStep, LeaveTreeStep, EnterLatticeStep,
       AssignLatticeSlotStep, LeaveLatticeStep, OtherSteps DEF Next
  <1> QED BY <1>1, <1>2 DEF Inv

(* assign_slots never gives two virtual parameters that one class can be   *)
(* passed for the same slot, whatever the lattice and the methods, provided*)
(* that the lattice handed over by augment_classes is well formed.         *)
THEOREM SlotsNeverClash == Spec => []NoSlotClash
  <1>1. Init => Inv
    BY InvInit
  <1>2. Inv /\ [Next]_vars => Inv'
    BY InvStep
  <1>3. Inv => NoSlotClash
    BY DEF Inv, SlotInv
  <1> QED BY <1>1, <1>2, <1>3, PTL DEF Spec

(* The reason why, itself an invariant: branches of a tree stay apart, and *)
(* elsewhere slots are reserved in all the bases of the classes concerned. *)
THEOREM SlotsReservedInBases == Spec => []SlotInv
  <1>1. Init => Inv
    BY InvInit
  <1>2. Inv /\ [Next]_vars => Inv'
    BY InvStep
  <1>3. Inv => SlotInv
    BY DEF Inv
  <1> QED BY <1>1, <1>2, <1>3, PTL DEF Spec
-----------------------------------------------------------------------------
(* assign_slots implements SlotColouring, for any classes, parameters and  *)
(* well-formed lattices: each step gives one parameter, which has none yet,*)
(* a slot that is not that of a parameter in conflict with it, or stutters.*)
(* What SlotInv leaves to be shown is that no parameter is met twice.      *)

(* The pending parameters are different ones, without slots.               *)
PendingFree ==
    /\ IsInjective(pending)
    /\ \A k \in DOMAIN pending : slots[pending[k]] = Unassigned

(* In a tree, no parameter of a class still to be visited has a slot.      *)
BelowFree ==
    pc = "tree" =>
        /\ \A i \in DOMAIN agenda : \A p \in Assigned :
             lattice.vp[p] \notin transitive_derived[agenda[i].cls]
        /\ current # NoClass =>
             \A p \in Assigned :
                 lattice.vp[p] \in transitive_derived[current] => lattice.vp[p] = current

(* Elsewhere, only parameters of visited classes have one.                 *)
AssignedMarked ==
    /\ \A p \in Assigned : lattice.vp[p] \in TreeClasses \cup marked
    /\ pc = "lattice" /\ current # NoClass => current \in marked

OnceInv == PendingFree /\ BelowFree /\ AssignedMarked

-----------------------------------------------------------------------------
LEMMA ClassOfParam ==
  ASSUME WellFormed(lattice), NEW p \in Param
  PROVE  /\ lattice.vp[p] \in ToSet(classes)
         /\ lattice.vp[p] \in Class
         /\ lattice.vp[p] \in Covariant(p)
  <1>1. lattice.vp[p] \in ToSet(classes)
    BY DEF WellFormed, IsLattice, classes
  <1> QED BY <1>1, Closed DEF Covariant

(* What a class has to pass to its visit: its own parameters, each once.   *)
LEMMA ParametersOf ==
  ASSUME WellFormed(lattice), NEW c \in Class
  PROVE  /\ used_by_vp[c] \in Seq(Param)
         /\ IsInjective(used_by_vp[c])
         /\ \A k \in DOMAIN used_by_vp[c] : lattice.vp[used_by_vp[c][k]] = c
  BY LatticeTypes DEF WellFormed, IsLattice, used_by_vp

(* No class derives from itself.                                           *)
LEMMA Acyclic ==
  ASSUME WellFormed(lattice), NEW c \in ToSet(classes), NEW i \in DOMAIN direct_derived[c]
  PROVE  c \notin transitive_derived[direct_derived[c][i]]
  <1>1. c \in Class
    BY Closed
  <1>2. direct_derived[c] \in Seq(Class)
    BY <1>1, LatticeTypes
  <1>3. direct_derived[c][i] \in ToSet(direct_derived[c])
    BY <1>2 DEF ToSet
  <1> QED BY <1>3 DEF WellFormed, IsClosed, classes, transitive_derived, direct_derived

LEMMA TailPending ==
  ASSUME pending \in Seq(Param), pending # <<>>, PendingFree
  PROVE  /\ Head(pending) \in Param
         /\ Head(pending) \notin Assigned
         /\ IsInjective(Tail(pending))
         /\ \A k \in DOMAIN Tail(pending) :
              Tail(pending)[k] # Head(pending) /\ slots[Tail(pending)[k]] = Unassigned
  <1>1. /\ 1 \in DOMAIN pending /\ Head(pending) = pending[1]
        /\ \A k \in DOMAIN Tail(pending) : k + 1 \in DOMAIN pending /\ Tail(pending)[k] = pending[k + 1]
        /\ \A i, j \in DOMAIN Tail(pending) : i # j => i + 1 # j + 1
        /\ \A i \in DOMAIN Tail(pending) : i + 1 # 1
    BY TailElements
  <1>2. Head(pending) \in Param
    BY <1>1, HeadTailProperties
  <1> QED BY <1>1, <1>2 DEF PendingFree, IsInjective, Assigned

-----------------------------------------------------------------------------
LEMMA OnceInit == Start => OnceInv
  BY UnassignedAssumption
     DEF Start, OnceInv, PendingFree, BelowFree, AssignedMarked, Assigned, IsInjective

(* A parameter is given a slot.                                            *)
LEMMA OnceAssigned ==
  ASSUME Inv, OnceInv, AssignTreeSlot \/ AssignLatticeSlot
  PROVE  /\ OnceInv'
         /\ \E p \in Param \ Assigned :
              /\ lattice.vp[p] = current
              /\ slots' = [slots EXCEPT ![p] = slots'[p]]
              /\ slots'[p] \in Nat
              /\ pc = "lattice" => used_slots' = UsedWith(current, slots'[p])
              /\ pc = "tree" => used_slots' = used_slots
  <1> PICK p : p = Head(pending)
    OBVIOUS
  <1>1. /\ WellFormed(lattice) /\ VisitsClasses /\ BranchesFree
        /\ pending \in Seq(Param) /\ pending # <<>> /\ pending' = Tail(pending)
        /\ slots \in [Param -> Nat \cup {Unassigned}] /\ next_slot \in Nat
        /\ current # NoClass
        /\ UNCHANGED <<lattice, pc, next_class, agenda, current, marked>>
        /\ pc \in {"tree", "lattice"}
    BY DEF Inv, SlotInv, TypeInv, TypeOK, AssignTreeSlot, AssignLatticeSlot
  <1>2. PICK slot \in Nat : /\ slots' = [slots EXCEPT ![p] = slot]
                            /\ pc = "lattice" => used_slots' = UsedWith(current, slot)
                            /\ pc = "tree" => used_slots' = used_slots
    BY <1>1, NatInterval DEF AssignTreeSlot, AssignLatticeSlot
  <1>3. /\ p \in Param /\ p \notin Assigned
        /\ IsInjective(pending')
        /\ \A k \in DOMAIN pending' : pending'[k] # p /\ slots[pending'[k]] = Unassigned
    BY <1>1, TailPending DEF OnceInv
  <1>4. lattice.vp[p] = current
    BY <1>1, TailElements DEF VisitsClasses
  <1>5. /\ slots'[p] = slot
        /\ \A q \in Param : q # p => slots'[q] = slots[q]
        /\ \A q \in Assigned' : q \in Param /\ (q = p \/ q \in Assigned)
    BY <1>1, <1>2, <1>3 DEF Assigned
  <1>6. current \in ToSet(classes) /\ current \in transitive_derived[current]
    BY <1>1, Closed DEF VisitsClasses
  <1>7. PendingFree'
    <2>1. pending' \in Seq(Param)
      BY <1>1, HeadTailProperties
    <2>2. \A k \in DOMAIN pending' : pending'[k] \in Param
      BY <2>1
    <2> QED BY <1>3, <1>5, <2>2 DEF PendingFree
  <1>8. BelowFree'
    <2> SUFFICES ASSUME pc = "tree", NEW q \in Assigned'
                 PROVE  /\ \A i \in DOMAIN agenda :
                             lattice.vp[q] \notin transitive_derived[agenda[i].cls]
                        /\ lattice.vp[q] \in transitive_derived[current] => lattice.vp[q] = current
      BY <1>1, Frame DEF BelowFree
    <2>1. CASE q = p
      BY <1>1, <1>4, <1>6, <2>1 DEF BranchesFree, Apart
    <2>2. CASE q \in Assigned
      BY <1>1, <2>2 DEF OnceInv, BelowFree
    <2> QED BY <1>5, <2>1, <2>2
  <1>9. AssignedMarked'
    <2>1. current \in TreeClasses \cup marked
      <3>1. CASE pc = "tree"
        <4>1. CurrentRoot \in ToSet(classes)
          BY <1>1, LatticeTypes DEF VisitsClasses, CurrentRoot, ToSet
        <4>2. TreeRoot(lattice, CurrentRoot)
              /\ transitive_derived[current] \subseteq transitive_derived[CurrentRoot]
          BY <1>1, <3>1 DEF BranchesFree, FreeFrom
        <4> QED BY <1>6, <4>1, <4>2, TreeClassesOf
      <3>2. CASE pc = "lattice"
        BY <1>1, <3>2 DEF OnceInv, AssignedMarked
      <3> QED BY <1>1, <3>1, <3>2
    <2>2. \A q \in Assigned' : lattice.vp[q] \in TreeClasses \cup marked
      BY <1>4, <1>5, <2>1 DEF OnceInv, AssignedMarked
    <2> QED BY <1>1, <2>2, Frame DEF OnceInv, AssignedMarked
  <1>10. OnceInv'
    BY <1>7, <1>8, <1>9 DEF OnceInv
  <1> QED BY <1>2, <1>3, <1>4, <1>5, <1>10

(* A class is entered whose parameters have no slots yet.                  *)
LEMMA OnceEntered ==
  ASSUME Inv, OnceInv, EnterTree \/ EnterLattice
  PROVE  OnceInv'
  <1> PICK cls : cls = Head(agenda).cls
    OBVIOUS
  <1>1. /\ WellFormed(lattice) /\ VisitsClasses /\ OutsideTrees
        /\ agenda \in Seq(Call) /\ agenda # <<>> /\ agenda' = Tail(agenda)
        /\ current = NoClass
        /\ UNCHANGED <<lattice, pc, slots>>
        /\ pc \in {"tree", "lattice"}
    BY DEF Inv, SlotInv, TypeInv, TypeOK, EnterTree, EnterLattice
  <1>2. /\ 1 \in DOMAIN agenda /\ cls = agenda[1].cls
        /\ \A i \in DOMAIN agenda' : i + 1 \in DOMAIN agenda /\ agenda'[i] = agenda[i + 1]
    BY <1>1, TailElements
  <1>3. cls \in ToSet(classes) /\ cls \in Class /\ cls \in transitive_derived[cls]
    BY <1>1, <1>2, Closed DEF VisitsClasses
  <1>4. Assigned' = Assigned
    BY <1>1 DEF Assigned
  <1>5. ASSUME \A p \in Assigned : lattice.vp[p] # cls, pending' = used_by_vp[cls]
        PROVE  PendingFree'
    <2>1. /\ used_by_vp[cls] \in Seq(Param) /\ IsInjective(used_by_vp[cls])
          /\ \A k \in DOMAIN used_by_vp[cls] : lattice.vp[used_by_vp[cls][k]] = cls
      BY <1>1, <1>3, ParametersOf
    <2>2. \A k \in DOMAIN used_by_vp[cls] : used_by_vp[cls][k] \in Param
      BY <2>1
    <2> QED BY <1>1, <1>5, <2>1, <2>2 DEF PendingFree, Assigned
  <1>6. CASE pc = "tree"
    <2>1. /\ \A i \in DOMAIN agenda : \A p \in Assigned :
               lattice.vp[p] \notin transitive_derived[agenda[i].cls]
      BY <1>6 DEF OnceInv, BelowFree
    <2>2. EnterTree /\ current' = cls /\ pending' = used_by_vp[cls] /\ marked' = marked
      BY <1>6 DEF EnterTree, EnterLattice
    <2>3. \A p \in Assigned : lattice.vp[p] \notin transitive_derived[cls]
      BY <1>2, <2>1
    <2>4. PendingFree'
      BY <1>3, <1>5, <2>2, <2>3
    <2>5. BelowFree'
      BY <1>1, <1>2, <1>4, <2>1, <2>2, <2>3, Frame DEF BelowFree
    <2>6. AssignedMarked'
      BY <1>1, <1>4, <1>6, <2>2, Frame DEF OnceInv, AssignedMarked
    <2> QED BY <2>4, <2>5, <2>6 DEF OnceInv
  <1>7. CASE pc = "lattice"
    <2>1. \/ cls \in marked /\ UNCHANGED <<marked, current, pending>>
          \/ /\ cls \notin marked /\ marked' = marked \cup {cls}
             /\ current' = cls /\ pending' = used_by_vp[cls]
      BY <1>7 DEF EnterTree, EnterLattice, Visited
    <2>2. BelowFree'
      BY <1>1, <1>7 DEF BelowFree
    <2>3. AssignedMarked'
      BY <1>1, <1>4, <2>1, Frame DEF OnceInv, AssignedMarked
    <2>4. PendingFree'
      <3>1. CASE cls \in marked
        BY <1>1, <2>1, <3>1 DEF OnceInv, PendingFree
      <3>2. CASE cls \notin marked
        <4>1. cls \notin TreeClasses
          BY <1>1, <1>2, <1>3, <1>7 DEF OutsideTrees
        <4> QED BY <1>5, <2>1, <3>2, <4>1 DEF OnceInv, AssignedMarked
      <3> QED BY <3>1, <3>2
    <2> QED BY <2>2, <2>3, <2>4 DEF OnceInv
  <1> QED BY <1>1, <1>6, <1>7

(* A class of a tree is left: its own parameters are not below it.         *)
LEMMA OnceTreeLeft ==
  ASSUME Inv, OnceInv, LeaveTree
  PROVE  OnceInv'
  <1> PICK cls, n : cls = current /\ n = next_slot
    OBVIOUS
  <1>1. /\ WellFormed(lattice) /\ VisitsClasses
        /\ agenda \in Seq(Call) /\ next_slot \in Nat
        /\ pc = "tree" /\ current # NoClass
        /\ agenda' = Calls(cls, n) \o agenda /\ current' = NoClass
        /\ UNCHANGED <<lattice, pc, pending, slots, marked>>
    BY DEF Inv, SlotInv, TypeInv, TypeOK, LeaveTree
  <1>2. cls \in ToSet(classes)
    BY <1>1 DEF VisitsClasses
  <1>3. Assigned' = Assigned
    BY <1>1 DEF Assigned
  <1>4. PendingFree' /\ AssignedMarked'
    BY <1>1, <1>3, Frame DEF OnceInv, PendingFree, AssignedMarked
  <1>5. ASSUME NEW i \in DOMAIN direct_derived[cls], NEW p \in Assigned
        PROVE  lattice.vp[p] \notin transitive_derived[direct_derived[cls][i]]
    <2>1. transitive_derived[direct_derived[cls][i]] \subseteq transitive_derived[cls]
      BY <1>1, <1>2, DirectDerivedIn
    <2>2. cls \notin transitive_derived[direct_derived[cls][i]]
      BY <1>1, <1>2, Acyclic
    <2> QED BY <1>1, <2>1, <2>2 DEF OnceInv, BelowFree
  <1>6. BelowFree'
    <2> SUFFICES ASSUME NEW i \in DOMAIN agenda', NEW p \in Assigned
                 PROVE  lattice.vp[p] \notin transitive_derived[agenda'[i].cls]
      BY <1>1, <1>3, Frame DEF BelowFree
    <2>1. \/ /\ i \in DOMAIN direct_derived[cls]
             /\ agenda'[i].cls = direct_derived[cls][i]
          \/ /\ i - Len(direct_derived[cls]) \in DOMAIN agenda
             /\ agenda'[i] = agenda[i - Len(direct_derived[cls])]
      BY <1>1, <1>2, CallsElements
    <2> QED BY <1>1, <1>5, <2>1 DEF OnceInv, BelowFree
  <1> QED BY <1>4, <1>6 DEF OnceInv

(* A root is reached, or a class outside the trees is left.                *)
LEMMA OnceElsewhere ==
  ASSUME Inv, OnceInv, NextRoot \/ LeaveLattice
  PROVE  OnceInv'
  <1>1. /\ WellFormed(lattice) /\ VisitsClasses /\ TreesUntouched
        /\ UNCHANGED <<lattice, pending, slots, marked>>
        /\ Assigned' = Assigned
        /\ current' = NoClass
    BY DEF Inv, SlotInv, TypeInv, NextRoot, LeaveLattice, Assigned, VisitsClasses
  <1>2. PendingFree' /\ AssignedMarked'
    BY <1>1, Frame DEF OnceInv, PendingFree, AssignedMarked
  <1>3. BelowFree'
    <2> SUFFICES ASSUME pc' = "tree", NEW i \in DOMAIN agenda', NEW p \in Assigned
                 PROVE  lattice.vp[p] \notin transitive_derived[agenda'[i].cls]
      BY <1>1, Frame DEF BelowFree
    <2> PICK cls : cls = classes[next_class]
      OBVIOUS
    <2>1. /\ TreeRoot(lattice, cls) /\ agenda' = <<[cls |-> cls, base_slot |-> 0]>>
          /\ pc = "roots" /\ next_class <= Len(classes)
      BY DEF NextRoot, LeaveLattice, TreeRoot
    <2>2. next_class \in next_class .. Len(classes)
      BY <2>1, <1>1, LatticeTypes DEF Inv, TypeInv, TypeOK
    <2>3. Covariant(p) \cap transitive_derived[cls] = {}
      BY <1>1, <2>1, <2>2 DEF TreesUntouched
    <2>4. lattice.vp[p] \in Covariant(p)
      BY <1>1, ClassOfParam DEF Assigned
    <2>5. agenda'[i].cls = cls
      BY <2>1
    <2> QED BY <2>3, <2>4, <2>5
  <1> QED BY <1>2, <1>3 DEF OnceInv

LEMMA OnceOtherwise ==
  ASSUME OnceInv, RootDone \/ RootsDone \/ AllocateVtbl \/ SlotsDone \/ UNCHANGED vars
  PROVE  OnceInv'
  <1>1. /\ UNCHANGED <<lattice, agenda, current, pending, slots, marked>>
        /\ pc' = pc \/ pc' \notin {"tree", "lattice"}
        /\ Assigned' = Assigned
    BY DEF RootDone, RootsDone, AllocateVtbl, SlotsDone, vars, Assigned
  <1> QED BY <1>1, Frame DEF OnceInv, PendingFree, BelowFree, AssignedMarked

LEMMA OnceStep ==
  ASSUME Inv, OnceInv, [Next]_vars
  PROVE  OnceInv'
  BY OnceAssigned, OnceEntered, OnceTreeLeft, OnceElsewhere, OnceOtherwise DEF Next

-----------------------------------------------------------------------------
(* The steps that give no slot.                                            *)
LEMMA SlotsKept ==
  ASSUME [Next]_vars, ~ (AssignTreeSlot \/ AssignLatticeSlot)
  PROVE  UNCHANGED <<lattice, slots, used_slots>>
  BY DEF Next, vars, NextRoot, RootDone, RootsDone, EnterTree, LeaveTree, EnterLattice,
         LeaveLattice, AllocateVtbl, SlotsDone

LEMMA ColouringStep ==
  ASSUME Inv, OnceInv, [Next]_vars
  PROVE  [Colouring!Next]_<<Conflicts, slots>>
  <1>1. lattice' = lattice
    BY LatticeConstant DEF vars
  <1>2. Conflicts' = Conflicts
    BY <1>1, Frame DEF Conflicts, Conflict, Covariant
  <1>3. CASE AssignTreeSlot \/ AssignLatticeSlot
    <2>1. PICK p \in Param \ Assigned :
            slots' = [slots EXCEPT ![p] = slots'[p]] /\ slots'[p] \in Nat
      BY <1>3, OnceAssigned
    <2>2. slots \in [Param -> Nat \cup {Unassigned}]
      BY DEF Inv, TypeInv, TypeOK
    <2>3. NoSlotClash'
      BY InvStep DEF Inv, SlotInv
    <2>4. ASSUME NEW q \in Param, <<p, q>> \in Conflicts, slots[q] # Unassigned
          PROVE  slots'[p] # slots[q]
      <3>1. Conflict(p, q)' /\ q # p
        BY <1>1, <2>4, Frame DEF Conflicts, Conflict, Covariant
      <3>2. slots'[q] = slots[q] /\ p \in Assigned' /\ q \in Assigned'
        BY <2>1, <2>2, <2>4, <3>1, UnassignedAssumption DEF Assigned
      <3> QED BY <2>3, <3>1, <3>2 DEF NoSlotClash
    <2>5. Colouring!Assign(p)
      BY <1>2, <2>1, <2>4 DEF Colouring!Assign, Assigned
    <2> QED BY <2>5 DEF Colouring!Next
  <1>4. CASE ~ (AssignTreeSlot \/ AssignLatticeSlot)
    BY <1>2, <1>4, SlotsKept
  <1> QED BY <1>3, <1>4

(* Slot assignment implements the abstract specification: every virtual    *)
(* parameter gets one slot at most, once and for all, never that of one in *)
(* conflict with it, however often a class is reached.                     *)
THEOREM SlotsAreAColouring == Spec => ImplementsColouring
  <1>1. Init => Inv /\ OnceInv
    BY InvInit, OnceInit DEF Init
  <1>2. Inv /\ OnceInv /\ [Next]_vars => Inv' /\ OnceInv'
    BY InvStep, OnceStep
  <1>3. Init => Colouring!Init
    BY DEF Init, Start, Colouring!Init
  <1>4. Inv /\ OnceInv /\ [Next]_vars => [Colouring!Next]_<<Conflicts, slots>>
    BY ColouringStep
  <1> QED BY <1>1, <1>2, <1>3, <1>4, PTL DEF Spec, ImplementsColouring, Colouring!Spec

-----------------------------------------------------------------------------
LEMMA JustifiedStep ==
  ASSUME Inv, OnceInv, UsedSlotsJustified, [Next]_vars
  PROVE  UsedSlotsJustified'
  <1>1. lattice' = lattice
    BY LatticeConstant DEF vars
  <1>2. \A q : Covariant(q)' = Covariant(q)
    BY <1>1, Frame DEF Covariant
  <1>3. CASE AssignTreeSlot \/ AssignLatticeSlot
    <2>1. PICK p \in Param \ Assigned :
            /\ lattice.vp[p] = current
            /\ slots' = [slots EXCEPT ![p] = slots'[p]]
            /\ slots'[p] \in Nat
            /\ pc = "lattice" => used_slots' = UsedWith(current, slots'[p])
            /\ pc = "tree" => used_slots' = used_slots
      BY <1>3, OnceAssigned
    <2>2. /\ slots \in [Param -> Nat \cup {Unassigned}]
          /\ used_slots \in [Class -> SUBSET Nat]
          /\ WellFormed(lattice)
          /\ current \in ToSet(classes)
      BY <1>3 DEF Inv, TypeInv, TypeOK, SlotInv, VisitsClasses, AssignTreeSlot, AssignLatticeSlot
    <2>3. /\ p \in Assigned'
          /\ \A q \in Assigned : q \in Assigned' /\ slots'[q] = slots[q]
      BY <2>1, <2>2, UnassignedAssumption DEF Assigned
    <2>4. ASSUME NEW c \in Class, NEW s \in used_slots[c]
          PROVE  \E q \in Assigned' : c \in Covariant(q) /\ slots'[q] = s
      BY <2>3, <2>4 DEF UsedSlotsJustified
    <2>5. ASSUME pc = "lattice", NEW c \in transitive_derived[current],
                 NEW s \in used_slots[current] \cup {slots'[p]}
          PROVE  \E q \in Assigned' : c \in Covariant(q) /\ slots'[q] = s
      <3>1. current \in Class
        BY <2>2, Closed
      <3>2. CASE s \in used_slots[current]
        <4>1. PICK q \in Assigned' : current \in Covariant(q) /\ slots'[q] = s
          BY <2>4, <3>1, <3>2
        <4>2. c \in Covariant(q)
          BY <2>2, <4>1, ClassOfParam, Closed DEF Covariant, Assigned
        <4> QED BY <4>1, <4>2
      <3>3. CASE s = slots'[p]
        BY <2>1, <2>3, <3>3 DEF Covariant
      <3> QED BY <3>2, <3>3
    <2>6. ASSUME NEW c \in Class, NEW s \in used_slots'[c]
          PROVE  \E q \in Assigned' : c \in Covariant(q) /\ slots'[q] = s
      <3>1. CASE pc = "tree"
        BY <2>1, <2>4, <2>6, <3>1
      <3>2. CASE pc = "lattice"
        <4>1. \/ s \in used_slots[c]
              \/ c \in transitive_derived[current] /\ s \in used_slots[current] \cup {slots'[p]}
          BY <2>1, <2>2, <2>6, <3>2, Closed DEF UsedWith, ProperDerived
        <4> QED BY <2>4, <2>5, <3>2, <4>1
      <3> QED BY <1>3, <3>1, <3>2 DEF AssignTreeSlot, AssignLatticeSlot
    <2> QED BY <1>2, <2>6 DEF UsedSlotsJustified
  <1>4. CASE ~ (AssignTreeSlot \/ AssignLatticeSlot)
    BY <1>2, <1>4, SlotsKept DEF UsedSlotsJustified, Assigned
  <1> QED BY <1>3, <1>4

(* A slot is used in a class only for a parameter that the class can be    *)
(* passed for: reserved slots never become used ones.                      *)
THEOREM UsedSlotsStayJustified == Spec => []UsedSlotsJustified
  <1>1. Init => Inv /\ OnceInv /\ UsedSlotsJustified
    BY InvInit, OnceInit DEF Init, Start, UsedSlotsJustified
  <1>2. Inv /\ OnceInv /\ UsedSlotsJustified /\ [Next]_vars
          => Inv' /\ OnceInv' /\ UsedSlotsJustified'
    BY InvStep, OnceStep, JustifiedStep
  <1> QED BY <1>1, <1>2, PTL DEF Spec

-----------------------------------------------------------------------------
(* When assign_slots is done, every virtual parameter has a slot, and every*)
(* class that can be passed for it a v-table with an entry at that slot,   *)
(* for any classes, parameters and well-formed lattices.  In a tree a class*)
(* is left with a v-table up to its last slot, after its bases have theirs;*)
(* elsewhere the visited classes are closed under direct derivation.       *)

(* The v-table of c, a class of a tree, has its final size.                *)
Sized(c) ==
    /\ first_slot[c] = 0
    /\ \A p \in Param : c \in Covariant(p) => p \in Assigned /\ slots[p] < vtbl_size[c]

(* The parameters declared with class c have their slots.                  *)
Served(c) == \A p \in Param : lattice.vp[p] = c => p \in Assigned

(* The classes being visited, and those of the pending calls.              *)
Visits == {agenda[i].cls : i \in DOMAIN agenda} \cup ({current} \ {NoClass})

PendingLeft ==
    current # NoClass =>
        \A p \in Param : lattice.vp[p] = current => p \in Assigned \/ p \in ToSet(pending)

(* In a tree, the bases of a class that is visited have had their turn ... *)
BasesFirst ==
    pc = "tree" =>
        \A c \in Visits : \A p \in Param :
            c \in Covariant(p) => p \in Assigned \/ lattice.vp[p] = c

(* ... and nothing is left out.                                            *)
TreeProgress ==
    pc = "tree" =>
        \A d \in transitive_derived[CurrentRoot] :
            Sized(d) \/ \E c \in Visits : d \in transitive_derived[c]

(* Elsewhere, a visited class leads to others that are or will be visited. *)
LatticeProgress ==
    /\ pc = "lattice" =>
         ~ TreeRoot(lattice, CurrentRoot) /\ CurrentRoot \in marked \cup Visits
    /\ \A c \in marked :
         \/ pc = "lattice" /\ c = current
         \/ /\ Served(c)
            /\ \A i \in DOMAIN direct_derived[c] :
                 \/ direct_derived[c][i] \in marked
                 \/ pc = "lattice" /\ direct_derived[c][i] \in Visits

Passed(j) ==
    /\ pc = "roots" => j < next_class
    /\ pc \in {"tree", "lattice"} => j < next_class - 1

RootsVisited ==
    \A j \in DOMAIN classes : Passed(j) /\ Root(lattice, classes[j]) =>
        \A d \in transitive_derived[classes[j]] :
            IF TreeRoot(lattice, classes[j]) THEN Sized(d) ELSE d \in marked

TreesUnused == \A c \in TreeClasses : used_slots[c] = {}

VtblsSized ==
    /\ pc \in {"mi", "done"} =>
         \A j \in DOMAIN classes :
             LET used == used_slots[classes[j]]
             IN j < next_class /\ used # {} =>
                  /\ first_slot[classes[j]] = Min(used)
                  /\ vtbl_size[classes[j]] = VtblSize(used)
    /\ pc = "done" => next_class > Len(classes)

EntriesInv ==
    /\ PendingLeft /\ BasesFirst /\ TreeProgress /\ LatticeProgress
    /\ RootsVisited /\ TreesUnused /\ VtblsSized

-----------------------------------------------------------------------------
(* Direct derived classes lead to all the derived ones.                    *)
LEMMA Generated ==
  ASSUME WellFormed(lattice), NEW c \in ToSet(classes),
         NEW S \in SUBSET ToSet(classes), c \in S,
         \A d \in S : \A i \in DOMAIN direct_derived[d] : direct_derived[d][i] \in S
  PROVE  transitive_derived[c] \subseteq S
  <1>1. \A d \in S : ToSet(direct_derived[d]) \subseteq S
    BY LatticeTypes DEF ToSet
  <1> QED BY <1>1 DEF WellFormed, AllReached, classes, direct_derived, transitive_derived

LEMMA BelowDirect ==
  ASSUME WellFormed(lattice), NEW c \in ToSet(classes),
         NEW d \in transitive_derived[c], d # c
  PROVE  \E i \in DOMAIN direct_derived[c] : d \in transitive_derived[direct_derived[c][i]]
  <1> DEFINE S == {c} \cup UNION {transitive_derived[direct_derived[c][i]] :
                                    i \in DOMAIN direct_derived[c]}
  <1>1. \A i \in DOMAIN direct_derived[c] :
          /\ direct_derived[c][i] \in ToSet(classes)
          /\ direct_derived[c][i] \in transitive_derived[direct_derived[c][i]]
          /\ transitive_derived[direct_derived[c][i]] \subseteq ToSet(classes)
    BY DirectDerivedIn, Closed
  <1>2. c \in S /\ S \in SUBSET ToSet(classes)
    BY <1>1
  <1>3. ASSUME NEW e \in S, NEW i \in DOMAIN direct_derived[e]
        PROVE  direct_derived[e][i] \in S
    <2>1. CASE e = c
      BY <1>1, <2>1
    <2>2. CASE e # c
      <3>1. PICK k \in DOMAIN direct_derived[c] : e \in transitive_derived[direct_derived[c][k]]
        BY <2>2
      <3>2. direct_derived[e][i] \in transitive_derived[e]
        BY <1>2, DirectDerivedIn
      <3>3. transitive_derived[e] \subseteq transitive_derived[direct_derived[c][k]]
        BY <1>1, <3>1, Closed
      <3> QED BY <3>1, <3>2, <3>3
    <2> QED BY <2>1, <2>2
  <1>4. transitive_derived[c] \subseteq S
    <2> HIDE DEF S
    <2> QED BY <1>2, <1>3, Generated
  <1> QED BY <1>4

(* Two classes of a tree are on one branch, or have no class in common.    *)
LEMMA TreeComparable ==
  ASSUME WellFormed(lattice), NEW r \in ToSet(classes), TreeRoot(lattice, r),
         NEW m \in transitive_derived[r], NEW c \in transitive_derived[r]
  PROVE  m \in transitive_derived[c] \/ c \in transitive_derived[m] \/ Apart(c, m)
  <1> DEFINE S == {x \in transitive_derived[r] :
                     m \in transitive_derived[x] \/ x \in transitive_derived[m] \/ Apart(x, m)}
  <1>1. r \in S /\ S \in SUBSET ToSet(classes)
    BY Closed
  <1>2. m \in ToSet(classes)
    BY Closed
  <1>3. ASSUME NEW x \in S, NEW i \in DOMAIN direct_derived[x]
        PROVE  direct_derived[x][i] \in S
    <2> DEFINE y == direct_derived[x][i]
    <2>1. x \in ToSet(classes) /\ x \in transitive_derived[r]
      BY <1>1
    <2>2. y \in transitive_derived[x] /\ transitive_derived[y] \subseteq transitive_derived[x]
      BY <2>1, DirectDerivedIn
    <2>3. y \in transitive_derived[r]
      BY <2>1, <2>2, Closed
    <2>4. CASE x \in transitive_derived[m]
      BY <1>2, <2>2, <2>3, <2>4, Closed
    <2>5. CASE Apart(x, m)
      BY <2>2, <2>3, <2>5 DEF Apart
    <2>6. CASE m \in transitive_derived[x] /\ m # x
      <3>1. PICK k \in DOMAIN direct_derived[x] : m \in transitive_derived[direct_derived[x][k]]
        BY <2>1, <2>6, BelowDirect
      <3>2. CASE k = i
        BY <2>3, <3>1, <3>2
      <3>3. CASE k # i
        <4>1. Apart(direct_derived[x][i], direct_derived[x][k])
          BY <2>1, <3>3, BranchesApart
        <4>2. transitive_derived[m] \subseteq transitive_derived[direct_derived[x][k]]
          BY <2>1, <3>1, DirectDerivedIn, Closed
        <4> QED BY <2>3, <4>1, <4>2 DEF Apart
      <3> QED BY <3>2, <3>3
    <2> QED BY <1>2, <2>4, <2>5, <2>6, Closed
  <1>4. transitive_derived[r] \subseteq S
    <2> HIDE DEF S
    <2> QED BY <1>1, <1>3, Generated
  <1> QED BY <1>4

(* A class that shares a class with a tree is in it.                       *)
LEMMA InThatTree ==
  ASSUME WellFormed(lattice), NEW r \in ToSet(classes), TreeRoot(lattice, r),
         NEW c \in ToSet(classes), ~ Apart(c, r)
  PROVE  c \in transitive_derived[r]
  <1>1. PICK s \in ToSet(classes) : Root(lattice, s) /\ c \in transitive_derived[s]
    BY DEF WellFormed, AllReached, classes, transitive_derived
  <1>2. transitive_derived[c] \subseteq transitive_derived[s]
    BY <1>1, Closed
  <1>3. PICK i \in DOMAIN classes, j \in DOMAIN classes : r = classes[i] /\ s = classes[j]
    BY LatticeTypes DEF ToSet
  <1>4. CASE i = j
    BY <1>1, <1>3, <1>4
  <1>5. CASE i # j
    <2>1. Apart(r, s)
      BY <1>1, <1>3, <1>5, RootsApart
    <2> QED BY <1>2, <2>1 DEF Apart
  <1> QED BY <1>4, <1>5

LEMMA NotMutual ==
  ASSUME WellFormed(lattice), NEW c \in ToSet(classes), NEW d \in transitive_derived[c],
         c \in transitive_derived[d]
  PROVE  c = d
  BY DEF WellFormed, IsClosed, classes, transitive_derived

(* Nothing is above the root of a tree ...                                 *)
LEMMA NothingAboveRoot ==
  ASSUME WellFormed(lattice), NEW r \in ToSet(classes), TreeRoot(lattice, r),
         NEW c \in ToSet(classes), r \in transitive_derived[c]
  PROVE  c = r
  <1>1. ~ Apart(c, r)
    BY Closed DEF Apart
  <1>2. c \in transitive_derived[r]
    BY <1>1, InThatTree
  <1> QED BY <1>2, NotMutual

(* ... and what is above a class of a tree, other than that class, is above*)
(* its direct base.                                                        *)
LEMMA AboveDirectBase ==
  ASSUME WellFormed(lattice), NEW r \in ToSet(classes), TreeRoot(lattice, r),
         NEW m \in transitive_derived[r], NEW i \in DOMAIN direct_derived[m],
         NEW c \in ToSet(classes), direct_derived[m][i] \in transitive_derived[c],
         c # direct_derived[m][i]
  PROVE  m \in transitive_derived[c]
  <1> DEFINE d == direct_derived[m][i]
  <1>1. m \in ToSet(classes)
    BY Closed
  <1>2. /\ d \in ToSet(classes) /\ d \in transitive_derived[m]
        /\ d \in transitive_derived[d] /\ d \in transitive_derived[r]
    BY <1>1, DirectDerivedIn, Closed
  <1>3. c \in transitive_derived[r]
    BY <1>2, InThatTree DEF Apart
  <1>4. ~ Apart(c, m)
    BY <1>2 DEF Apart
  <1>5. CASE c \in transitive_derived[m] /\ c # m
    <2>1. PICK k \in DOMAIN direct_derived[m] : c \in transitive_derived[direct_derived[m][k]]
      BY <1>1, <1>5, BelowDirect
    <2>2. d \in transitive_derived[direct_derived[m][k]]
      BY <1>1, <2>1, DirectDerivedIn, Closed
    <2>3. k = i
      BY <1>2, <2>2, BranchesApart DEF Apart
    <2> QED BY <1>2, <2>1, <2>3, NotMutual
  <1>6. CASE c = m
    BY <1>1, <1>6, Closed
  <1> QED BY <1>3, <1>4, <1>5, <1>6, TreeComparable

-----------------------------------------------------------------------------
(* What does not depend on the step.                                       *)
LEMMA EntriesFrame ==
  ASSUME lattice' = lattice
  PROVE  /\ classes' = classes
         /\ direct_derived' = direct_derived
         /\ transitive_derived' = transitive_derived
         /\ TreeClasses' = TreeClasses
         /\ \A p : Covariant(p)' = Covariant(p)
         /\ next_class' = next_class => CurrentRoot' = CurrentRoot
  BY Frame DEF Covariant, CurrentRoot, direct_derived, classes

LEMMA SizedKept ==
  ASSUME UNCHANGED <<lattice, slots>>, NEW c, Sized(c),
         first_slot'[c] = first_slot[c], vtbl_size'[c] = vtbl_size[c]
  PROVE  Sized(c)'
  BY EntriesFrame DEF Sized, Assigned

LEMMA TailSet ==
  ASSUME NEW S, NEW s \in Seq(S), s # <<>>, NEW x \in ToSet(s)
  PROVE  x = Head(s) \/ x \in ToSet(Tail(s))
  <1>1. PICK k \in 1 .. Len(s) : x = s[k]
    BY DEF ToSet
  <1>2. Len(s) \in Nat /\ Head(s) = s[1]
    BY TailElements
  <1>3. CASE k # 1
    <2>1. Len(Tail(s)) = Len(s) - 1 /\ DOMAIN Tail(s) = 1 .. Len(s) - 1
      BY <1>2, HeadTailProperties, EmptySeq
    <2>2. k - 1 \in DOMAIN Tail(s)
      BY <1>2, <1>3, <2>1
    <2>3. (k - 1) + 1 = k
      BY <1>1, <1>2
    <2>4. Tail(s)[k - 1] = x
      BY <1>1, <2>2, <2>3, TailElements
    <2> QED BY <2>2, <2>4 DEF ToSet
  <1> QED BY <1>1, <1>2, <1>3

(* Entering and leaving a class.                                           *)
LEMMA VisitsEntered ==
  ASSUME Inv, agenda # <<>>, current = NoClass, agenda' = Tail(agenda)
  PROVE  LET cls == Head(agenda).cls
         IN /\ cls \in ToSet(classes) /\ cls # NoClass
            /\ Visits = {cls} \cup {agenda'[i].cls : i \in DOMAIN agenda'}
  <1>1. agenda \in Seq(Call) /\ VisitsClasses /\ WellFormed(lattice)
    BY DEF Inv, TypeInv, TypeOK, SlotInv
  <1>2. /\ 1 \in DOMAIN agenda /\ Head(agenda) = agenda[1]
        /\ \A i \in DOMAIN agenda' : i + 1 \in DOMAIN agenda /\ agenda'[i] = agenda[i + 1]
    BY <1>1, TailElements
  <1>3. /\ \A i \in DOMAIN agenda : i # 1 => i - 1 \in DOMAIN agenda' /\ agenda'[i - 1] = agenda[i]
    <2>1. Len(agenda) \in Nat /\ DOMAIN agenda = 1 .. Len(agenda) /\ Len(agenda) # 0
      BY <1>1, EmptySeq
    <2>2. DOMAIN agenda' = 1 .. Len(agenda) - 1
      BY <1>1, <2>1, HeadTailProperties
    <2>3. \A i \in DOMAIN agenda : i # 1 => i - 1 \in DOMAIN agenda' /\ (i - 1) + 1 = i
      BY <2>1, <2>2
    <2> QED BY <1>2, <2>3
  <1>4. Head(agenda).cls \in ToSet(classes) /\ Head(agenda).cls # NoClass
    BY <1>1, <1>2, Closed, NoClassAssumption DEF VisitsClasses
  <1>5. Visits = {agenda[i].cls : i \in DOMAIN agenda}
    BY DEF Visits
  <1>6. {agenda[i].cls : i \in DOMAIN agenda}
          = {agenda[1].cls} \cup {agenda'[i].cls : i \in DOMAIN agenda'}
    BY <1>2, <1>3
  <1> QED BY <1>2, <1>4, <1>5, <1>6

LEMMA VisitsLeft ==
  ASSUME Inv, current # NoClass, current' = NoClass, NEW n \in Nat,
         agenda' = Calls(current, n) \o agenda
  PROVE  /\ current \in ToSet(classes)
         /\ Visits' = {direct_derived[current][i] : i \in DOMAIN direct_derived[current]}
                        \cup {agenda[i].cls : i \in DOMAIN agenda}
         /\ Visits = {current} \cup {agenda[i].cls : i \in DOMAIN agenda}
  <1> DEFINE D == direct_derived[current]
             L == Len(D)
             C == Calls(current, n)
  <1>1. agenda \in Seq(Call) /\ VisitsClasses /\ WellFormed(lattice)
    BY DEF Inv, TypeInv, TypeOK, SlotInv
  <1>2. current \in ToSet(classes) /\ current \in Class
    BY <1>1, Closed DEF VisitsClasses
  <1>3. L \in Nat /\ DOMAIN D = 1 .. L /\ C \in Seq(Call) /\ Len(C) = L
        /\ \A i \in 1 .. L : C[i].cls = D[i]
    <2>1. L \in Nat /\ DOMAIN D = 1 .. L
      BY <1>1, <1>2, LatticeTypes
    <2>2. C \in Seq(Call)
      BY <1>1, <1>2, CallsType DEF WellFormed
    <2>3. Len(C) = L
      BY <2>1, <2>2 DEF Calls
    <2> QED BY <2>1, <2>2, <2>3 DEF Calls
  <1>4. Len(agenda) \in Nat /\ DOMAIN agenda = 1 .. Len(agenda)
    BY <1>1
  <1>5. /\ DOMAIN agenda' = 1 .. L + Len(agenda)
        /\ \A i \in 1 .. L + Len(agenda) : agenda'[i] = IF i <= L THEN C[i] ELSE agenda[i - L]
    <2>1. /\ DOMAIN (C \o agenda) = 1 .. Len(C) + Len(agenda)
          /\ \A i \in 1 .. Len(C) + Len(agenda) :
               (C \o agenda)[i] = IF i <= Len(C) THEN C[i] ELSE agenda[i - Len(C)]
      <3> HIDE DEF C
      <3> QED BY <1>1, <1>3, ConcatElements
    <2> HIDE DEF L
    <2>2. Len(C) = L /\ agenda' = C \o agenda
      BY <1>3
    <2> HIDE DEF C
    <2> QED BY <2>1, <2>2
  <1>6. \A i \in DOMAIN D : i \in DOMAIN agenda' /\ agenda'[i].cls = D[i]
    <2> HIDE DEF D, L, C
    <2> QED BY <1>3, <1>4, <1>5
  <1>7. \A k \in DOMAIN agenda : k + L \in DOMAIN agenda' /\ agenda'[k + L] = agenda[k]
    <2> HIDE DEF D, L, C
    <2>1. ASSUME NEW k \in DOMAIN agenda
          PROVE  k + L \in 1 .. L + Len(agenda) /\ ~ k + L <= L /\ (k + L) - L = k
      BY <1>3, <1>4, <2>1
    <2> QED BY <1>5, <2>1
  <1>8. \A i \in DOMAIN agenda' :
          \/ i \in DOMAIN D /\ agenda'[i].cls = D[i]
          \/ i - L \in DOMAIN agenda /\ agenda'[i] = agenda[i - L]
    BY <1>1, <1>2, CallsElements
  <1>9. Visits' = {agenda'[i].cls : i \in DOMAIN agenda'}
    BY DEF Visits
  <1>10. {agenda'[i].cls : i \in DOMAIN agenda'}
           = {D[i] : i \in DOMAIN D} \cup {agenda[i].cls : i \in DOMAIN agenda}
    <2> DEFINE X == {agenda'[i].cls : i \in DOMAIN agenda'}
               Y == {D[i] : i \in DOMAIN D}
               Z == {agenda[i].cls : i \in DOMAIN agenda}
    <2>1. X \subseteq Y \cup Z
      <3> HIDE DEF D, L
      <3> QED BY <1>8
    <2>2. Y \subseteq X
      <3> HIDE DEF D, L
      <3> QED BY <1>6
    <2>3. Z \subseteq X
      <3> HIDE DEF D, L
      <3> QED BY <1>7
    <2>4. X = Y \cup Z
      <3> HIDE DEF X, Y, Z
      <3> QED BY <2>1, <2>2, <2>3
    <2> QED BY <2>4
  <1> QED BY <1>2, <1>9, <1>10 DEF Visits

-----------------------------------------------------------------------------
LEMMA EntriesInit ==
  ASSUME WellFormed(lattice), Start
  PROVE  EntriesInv
  <1>1. RootsVisited
    BY LatticeTypes DEF Start, RootsVisited, Passed
  <1>2. TreesUnused
    <2>1. TreeClasses \subseteq Class
      BY Closed DEF TreeClasses
    <2> QED BY <2>1 DEF Start, TreesUnused
  <1> QED BY <1>1, <1>2 DEF Start, EntriesInv, PendingLeft, BasesFirst, TreeProgress,
               LatticeProgress, VtblsSized

(* A parameter is given a slot.                                            *)
LEMMA EntriesAssigned ==
  ASSUME Inv, OnceInv, EntriesInv, AssignTreeSlot \/ AssignLatticeSlot
  PROVE  EntriesInv'
  <1> PICK p : p = Head(pending)
    OBVIOUS
  <1>1. /\ WellFormed(lattice) /\ VisitsClasses /\ OutsideTrees
        /\ pending \in Seq(Param) /\ pending # <<>> /\ pending' = Tail(pending)
        /\ slots \in [Param -> Nat \cup {Unassigned}] /\ next_slot \in Nat
        /\ used_slots \in [Class -> SUBSET Nat]
        /\ current # NoClass
        /\ UNCHANGED <<lattice, pc, next_class, agenda, current, marked, first_slot, vtbl_size>>
        /\ pc \in {"tree", "lattice"}
    BY DEF Inv, SlotInv, TypeInv, TypeOK, AssignTreeSlot, AssignLatticeSlot
  <1>2. PICK slot \in Nat : /\ slots' = [slots EXCEPT ![p] = slot]
                            /\ pc = "lattice" => used_slots' = UsedWith(current, slot)
                            /\ pc = "tree" => used_slots' = used_slots
    BY <1>1, NatInterval DEF AssignTreeSlot, AssignLatticeSlot
  <1>3. p \in Param /\ p \notin Assigned
    BY <1>1, TailPending DEF OnceInv
  <1>4. /\ p \in Assigned'
        /\ \A q \in Assigned : q \in Assigned' /\ slots'[q] = slots[q]
    BY <1>1, <1>2, <1>3, UnassignedAssumption DEF Assigned
  <1>5. Visits' = Visits
    BY <1>1 DEF Visits
  <1>6. ASSUME NEW c, Sized(c)
        PROVE  Sized(c)'
    BY <1>1, <1>3, <1>4, <1>6, EntriesFrame DEF Sized
  <1>7. PendingLeft'
    <2> SUFFICES ASSUME NEW q \in Param, lattice.vp[q] = current
                 PROVE  q \in Assigned' \/ q \in ToSet(pending')
      BY <1>1 DEF PendingLeft
    <2>1. q \in Assigned \/ q \in ToSet(pending)
      BY <1>1 DEF EntriesInv, PendingLeft
    <2>2. q \in ToSet(pending) => q = p \/ q \in ToSet(pending')
      BY <1>1, TailSet
    <2> QED BY <1>4, <2>1, <2>2
  <1>8. BasesFirst'
    BY <1>1, <1>4, <1>5, EntriesFrame DEF EntriesInv, BasesFirst
  <1>9. TreeProgress'
    BY <1>1, <1>5, <1>6, EntriesFrame DEF EntriesInv, TreeProgress
  <1>10. LatticeProgress'
    BY <1>1, <1>4, <1>5, EntriesFrame DEF EntriesInv, LatticeProgress, Served
  <1>11. RootsVisited'
    BY <1>1, <1>6, EntriesFrame DEF EntriesInv, RootsVisited, Passed
  <1>12. TreesUnused'
    <2> SUFFICES ASSUME NEW c \in TreeClasses
                 PROVE  used_slots'[c] = {}
      BY <1>1, EntriesFrame DEF TreesUnused
    <2>1. used_slots[c] = {} /\ c \in Class
      BY <1>1, Closed DEF EntriesInv, TreesUnused, TreeClasses
    <2>2. CASE pc = "lattice"
      <3>1. c \notin transitive_derived[current]
        BY <1>1, <2>2 DEF OutsideTrees
      <3>2. current \in transitive_derived[current]
        BY <1>1, Closed DEF VisitsClasses
      <3> QED BY <1>2, <2>1, <2>2, <3>1, <3>2 DEF UsedWith, ProperDerived
    <2> QED BY <1>1, <1>2, <2>1, <2>2
  <1>13. VtblsSized'
    BY <1>1 DEF VtblsSized
  <1> QED BY <1>7, <1>8, <1>9, <1>10, <1>11, <1>12, <1>13 DEF EntriesInv

(* A class is entered.                                                     *)
LEMMA EntriesEntered ==
  ASSUME Inv, OnceInv, EntriesInv, EnterTree \/ EnterLattice
  PROVE  EntriesInv'
  <1> PICK cls : cls = Head(agenda).cls
    OBVIOUS
  <1>1. /\ WellFormed(lattice) /\ agenda # <<>> /\ current = NoClass
        /\ agenda' = Tail(agenda)
        /\ UNCHANGED <<lattice, pc, next_class, used_slots, slots, first_slot, vtbl_size>>
        /\ \/ /\ pc = "tree" /\ current' = cls /\ pending' = used_by_vp[cls] /\ marked' = marked
           \/ /\ pc = "lattice" /\ cls \in marked /\ UNCHANGED <<marked, current, pending>>
           \/ /\ pc = "lattice" /\ marked' = marked \cup {cls}
              /\ current' = cls /\ pending' = used_by_vp[cls]
    BY DEF Inv, TypeInv, EnterTree, EnterLattice, Visited
  <1>2. /\ cls \in ToSet(classes) /\ cls # NoClass
        /\ Visits = {cls} \cup {agenda'[i].cls : i \in DOMAIN agenda'}
    BY <1>1, VisitsEntered
  <1>3. current' = cls => Visits' = Visits
    BY <1>2 DEF Visits
  <1>4. Visits \subseteq Visits' \cup {cls}
    BY <1>1, <1>2, <1>3 DEF Visits
  <1>5. Assigned' = Assigned /\ (\A c : Sized(c) => Sized(c)')
    BY <1>1, SizedKept DEF Assigned
  <1>6. NoClass \notin marked
    BY NoClassAssumption DEF Inv, TypeInv, TypeOK
  <1>7. PendingLeft'
    <2>1. \A p \in Param : lattice.vp[p] = cls => p \in ToSet(used_by_vp[cls])
      BY <1>1 DEF WellFormed, AllReached, used_by_vp
    <2> QED BY <1>1, <1>5, <2>1 DEF EntriesInv, PendingLeft
  <1>8. BasesFirst'
    BY <1>1, <1>3, <1>5, EntriesFrame DEF EntriesInv, BasesFirst
  <1>9. TreeProgress'
    BY <1>1, <1>3, <1>5, EntriesFrame DEF EntriesInv, TreeProgress
  <1>10. LatticeProgress'
    <2>1. ASSUME NEW c \in marked', c # current' \/ pc # "lattice"
          PROVE  /\ Served(c)'
                 /\ \A i \in DOMAIN direct_derived'[c] :
                      \/ direct_derived'[c][i] \in marked'
                      \/ pc' = "lattice" /\ direct_derived'[c][i] \in Visits'
      <3>1. c \in marked
        BY <1>1, <2>1
      <3>2. /\ Served(c)
            /\ \A i \in DOMAIN direct_derived[c] :
                 \/ direct_derived[c][i] \in marked
                 \/ pc = "lattice" /\ direct_derived[c][i] \in Visits
        BY <1>1, <1>6, <3>1 DEF EntriesInv, LatticeProgress
      <3>3. pc = "lattice" => cls \in marked'
        BY <1>1
      <3> QED BY <1>1, <1>4, <1>5, <3>2, <3>3, EntriesFrame DEF Served
    <2>2. pc = "lattice" => ~ TreeRoot(lattice, CurrentRoot) /\ CurrentRoot \in marked' \cup Visits'
      BY <1>1, <1>4 DEF EntriesInv, LatticeProgress
    <2> QED BY <1>1, <2>1, <2>2, EntriesFrame DEF LatticeProgress
  <1>11. RootsVisited'
    BY <1>1, <1>5, EntriesFrame DEF EntriesInv, RootsVisited, Passed
  <1>12. TreesUnused'
    BY <1>1, EntriesFrame DEF EntriesInv, TreesUnused
  <1>13. VtblsSized'
    BY <1>1 DEF VtblsSized
  <1> QED BY <1>7, <1>8, <1>9, <1>10, <1>11, <1>12, <1>13 DEF EntriesInv

(* A class of a tree is left: its v-table extends to its last slot.        *)
LEMMA EntriesTreeLeft ==
  ASSUME Inv, EntriesInv, LeaveTree
  PROVE  EntriesInv'
  <1> PICK cls, n : cls = current /\ n = next_slot
    OBVIOUS
  <1> DEFINE A == {agenda[i].cls : i \in DOMAIN agenda}
             D == {direct_derived[cls][i] : i \in DOMAIN direct_derived[cls]}
  <1>1. /\ WellFormed(lattice) /\ VisitsClasses /\ BranchesFree
        /\ pc = "tree" /\ current # NoClass /\ pending = <<>>
        /\ n \in Nat
        /\ agenda' = Calls(cls, n) \o agenda /\ current' = NoClass
        /\ first_slot' = [first_slot EXCEPT ![cls] = 0]
        /\ vtbl_size' = [vtbl_size EXCEPT ![cls] = n]
        /\ first_slot \in [Class -> Nat] /\ vtbl_size \in [Class -> Nat]
        /\ UNCHANGED <<lattice, pc, next_class, pending, slots, marked, used_slots>>
    BY DEF Inv, SlotInv, TypeInv, TypeOK, LeaveTree
  <1>2. cls \in ToSet(classes) /\ Visits' = D \cup A /\ Visits = {cls} \cup A
    BY <1>1, VisitsLeft
  <1>3. Assigned' = Assigned
    BY <1>1 DEF Assigned
  <1>4. cls \in Class /\ cls \in transitive_derived[cls]
    BY <1>1, <1>2, Closed
  <1>5. \A p \in Param : cls \in Covariant(p) => p \in Assigned
    <2>1. \A p \in Param : lattice.vp[p] = cls => p \in Assigned
      BY <1>1 DEF EntriesInv, PendingLeft, ToSet
    <2> QED BY <1>1, <1>2, <2>1 DEF EntriesInv, BasesFirst
  <1>6. Sized(cls)'
    <2>1. first_slot'[cls] = 0 /\ vtbl_size'[cls] = n
      BY <1>1, <1>4
    <2>2. \A p \in Param : cls \in Covariant(p) => slots[p] < n
      BY <1>1, <1>4, <1>5 DEF BranchesFree, FreeFrom
    <2> QED BY <1>1, <1>3, <1>5, <2>1, <2>2, EntriesFrame DEF Sized
  <1>7. \A c : Sized(c) => Sized(c)'
    <2> SUFFICES ASSUME NEW c, Sized(c), c # cls
                 PROVE  Sized(c)'
      BY <1>6
    <2>1. first_slot'[c] = first_slot[c] /\ vtbl_size'[c] = vtbl_size[c]
      BY <1>1
    <2> QED BY <1>1, <2>1, SizedKept
  <1>8. PendingLeft'
    BY <1>1 DEF PendingLeft
  <1>9. BasesFirst'
    <2>1. ASSUME NEW c \in D, NEW p \in Param, c \in Covariant(p), lattice.vp[p] # c
          PROVE  p \in Assigned
      <3>1. PICK i \in DOMAIN direct_derived[cls] : c = direct_derived[cls][i]
        OBVIOUS
      <3>2. lattice.vp[p] \in ToSet(classes)
        BY <1>1, ClassOfParam
      <3>3. /\ CurrentRoot \in ToSet(classes) /\ TreeRoot(lattice, CurrentRoot)
            /\ cls \in transitive_derived[CurrentRoot]
        BY <1>1, <1>4, LatticeTypes DEF VisitsClasses, BranchesFree, FreeFrom, CurrentRoot, ToSet
      <3>4. cls \in Covariant(p)
        BY <1>1, <2>1, <3>1, <3>2, <3>3, AboveDirectBase DEF Covariant
      <3> QED BY <1>5, <3>4
    <2> HIDE DEF A, D
    <2>2. \A c \in A : \A p \in Param : c \in Covariant(p) => p \in Assigned \/ lattice.vp[p] = c
      BY <1>1, <1>2 DEF EntriesInv, BasesFirst
    <2>3. \A c \in Visits' : \A p \in Param :
            c \in Covariant(p) => p \in Assigned \/ lattice.vp[p] = c
      BY <1>2, <2>1, <2>2
    <2> QED BY <1>1, <1>3, <2>3, EntriesFrame DEF BasesFirst
  <1>10. TreeProgress'
    <2> SUFFICES ASSUME NEW d \in transitive_derived[CurrentRoot], ~ Sized(d)'
                 PROVE  \E c \in Visits' : d \in transitive_derived[c]
      BY <1>1, EntriesFrame DEF TreeProgress
    <2>1. PICK c \in Visits : d \in transitive_derived[c]
      BY <1>1, <1>7 DEF EntriesInv, TreeProgress
    <2>2. CASE c = cls
      <3>1. d # cls
        BY <1>6
      <3> QED BY <1>1, <1>2, <2>1, <2>2, <3>1, BelowDirect
    <2> QED BY <1>2, <2>1, <2>2
  <1>11. LatticeProgress'
    BY <1>1, <1>3, EntriesFrame DEF EntriesInv, LatticeProgress, Served
  <1>12. RootsVisited'
    BY <1>1, <1>7, EntriesFrame DEF EntriesInv, RootsVisited, Passed
  <1>13. TreesUnused' /\ VtblsSized'
    BY <1>1, EntriesFrame DEF EntriesInv, TreesUnused, VtblsSized
  <1> QED BY <1>8, <1>9, <1>10, <1>11, <1>12, <1>13 DEF EntriesInv

(* A class outside the trees is left.                                      *)
LEMMA EntriesLatticeLeft ==
  ASSUME Inv, OnceInv, EntriesInv, LeaveLattice
  PROVE  EntriesInv'
  <1> PICK cls : cls = current
    OBVIOUS
  <1>1. /\ WellFormed(lattice)
        /\ pc = "lattice" /\ cls # NoClass /\ pending = <<>>
        /\ agenda' = Calls(cls, 0) \o agenda /\ current' = NoClass
        /\ UNCHANGED <<lattice, pc, next_class, pending, slots, marked, used_slots,
                       first_slot, vtbl_size>>
    BY DEF Inv, TypeInv, LeaveLattice
  <1>2. /\ Visits' = {direct_derived[cls][i] : i \in DOMAIN direct_derived[cls]}
                        \cup {agenda[i].cls : i \in DOMAIN agenda}
        /\ Visits = {cls} \cup {agenda[i].cls : i \in DOMAIN agenda}
    BY <1>1, VisitsLeft
  <1>3. Assigned' = Assigned /\ (\A c : Sized(c) => Sized(c)')
    BY <1>1, SizedKept DEF Assigned
  <1>4. cls \in marked /\ Visits \subseteq Visits' \cup marked
    BY <1>1, <1>2 DEF OnceInv, AssignedMarked
  <1>5. Served(cls)
    BY <1>1 DEF EntriesInv, PendingLeft, Served, ToSet
  <1>6. PendingLeft' /\ BasesFirst' /\ TreeProgress'
    BY <1>1 DEF PendingLeft, BasesFirst, TreeProgress
  <1>7. LatticeProgress'
    <2>1. ASSUME NEW c \in marked
          PROVE  /\ Served(c)
                 /\ \A i \in DOMAIN direct_derived[c] :
                      direct_derived[c][i] \in marked \/ direct_derived[c][i] \in Visits'
      <3>1. CASE c = cls
        BY <1>2, <1>5, <3>1
      <3>2. CASE c # cls
        BY <1>4, <3>2 DEF EntriesInv, LatticeProgress
      <3> QED BY <3>1, <3>2
    <2>2. ~ TreeRoot(lattice, CurrentRoot) /\ CurrentRoot \in marked \cup Visits'
      BY <1>1, <1>4 DEF EntriesInv, LatticeProgress
    <2> QED BY <1>1, <1>3, <2>1, <2>2, EntriesFrame DEF LatticeProgress, Served
  <1>8. RootsVisited'
    BY <1>1, <1>3, EntriesFrame DEF EntriesInv, RootsVisited, Passed
  <1>9. TreesUnused' /\ VtblsSized'
    BY <1>1, EntriesFrame DEF EntriesInv, TreesUnused, VtblsSized
  <1> QED BY <1>6, <1>7, <1>8, <1>9 DEF EntriesInv

(* The next root: nothing is above the root of a tree.                     *)
LEMMA EntriesNextRoot ==
  ASSUME Inv, EntriesInv, NextRoot
  PROVE  EntriesInv'
  <1> PICK cls : cls = classes[next_class]
    OBVIOUS
  <1>1. /\ WellFormed(lattice) /\ pc = "roots" /\ current = NoClass /\ current' = NoClass
        /\ next_class \in Nat \ {0} /\ next_class <= Len(classes)
        /\ next_class' = next_class + 1
        /\ UNCHANGED <<lattice, pending, slots, marked, used_slots, first_slot, vtbl_size>>
        /\ IF Root(lattice, cls)
           THEN /\ pc' = IF TreeRoot(lattice, cls) THEN "tree" ELSE "lattice"
                /\ agenda' = <<[cls |-> cls, base_slot |-> 0]>>
           ELSE pc' = "roots"
    BY DEF Inv, SlotInv, VisitsClasses, TypeInv, TypeOK, NextRoot
  <1>2. Assigned' = Assigned /\ (\A c : Sized(c) => Sized(c)')
    BY <1>1, SizedKept DEF Assigned
  <1>3. cls \in ToSet(classes) /\ next_class \in DOMAIN classes
    BY <1>1, LatticeTypes
  <1>4. CurrentRoot' = cls
    BY <1>1, EntriesFrame DEF CurrentRoot
  <1>5. Root(lattice, cls) => Visits' = {cls}
    <2>1. agenda' = <<[cls |-> cls, base_slot |-> 0]>>
            => {agenda'[i].cls : i \in DOMAIN agenda'} = {cls}
      OBVIOUS
    <2> QED BY <1>1, <2>1 DEF Visits
  <1>6. TreeRoot(lattice, cls) => Root(lattice, cls)
    BY DEF TreeRoot
  <1>7. pc' \in {"tree", "lattice"} => Root(lattice, cls) /\ Visits' = {cls}
    BY <1>1, <1>5
  <1>8. pc' = "tree" <=> TreeRoot(lattice, cls)
    BY <1>1, <1>6
  <1>9. PendingLeft'
    BY <1>1 DEF PendingLeft
  <1>10. BasesFirst'
    <2> SUFFICES ASSUME pc' = "tree", NEW p \in Param, cls \in Covariant(p)
                 PROVE  lattice.vp[p] = cls
      BY <1>1, <1>7, EntriesFrame DEF BasesFirst
    <2> QED BY <1>1, <1>3, <1>8, ClassOfParam, NothingAboveRoot DEF Covariant
  <1>11. TreeProgress'
    BY <1>1, <1>4, <1>7, EntriesFrame DEF TreeProgress
  <1>12. LatticeProgress'
    <2>1. \A c \in marked : Served(c) /\ \A i \in DOMAIN direct_derived[c] :
                                             direct_derived[c][i] \in marked
      BY <1>1 DEF EntriesInv, LatticeProgress
    <2>2. pc' = "lattice" => ~ TreeRoot(lattice, cls) /\ cls \in Visits'
      BY <1>7, <1>8
    <2> QED BY <1>1, <1>2, <1>4, <2>1, <2>2, EntriesFrame DEF LatticeProgress, Served
  <1>13. RootsVisited'
    <2>1. ASSUME NEW j \in DOMAIN classes, Passed(j)', Root(lattice, classes[j])
          PROVE  Passed(j)
      <3>1. j \in Nat
        BY <1>1, LatticeTypes
      <3>2. CASE pc' = "roots"
        <4>1. ~ Root(lattice, cls)
          BY <1>1, <3>2
        <4>2. j # next_class
          BY <2>1, <4>1
        <4> QED BY <1>1, <2>1, <3>1, <3>2, <4>2 DEF Passed
      <3>3. CASE pc' \in {"tree", "lattice"}
        BY <1>1, <2>1, <3>1, <3>3 DEF Passed
      <3> QED BY <1>1, <3>2, <3>3
    <2> QED BY <1>1, <1>2, <2>1, EntriesFrame DEF EntriesInv, RootsVisited
  <1>14. TreesUnused' /\ VtblsSized'
    BY <1>1, EntriesFrame DEF EntriesInv, TreesUnused, VtblsSized
  <1> QED BY <1>9, <1>10, <1>11, <1>12, <1>13, <1>14 DEF EntriesInv

(* A root is done: all the classes below it have been visited.             *)
LEMMA EntriesRootDone ==
  ASSUME Inv, EntriesInv, RootDone
  PROVE  EntriesInv'
  <1>1. /\ WellFormed(lattice) /\ VisitsClasses /\ BranchesFree
        /\ pc \in {"tree", "lattice"} /\ pc' = "roots"
        /\ agenda = <<>> /\ current = NoClass /\ current' = NoClass
        /\ next_class \in Nat
        /\ UNCHANGED <<lattice, next_class, pending, slots, marked, used_slots,
                       first_slot, vtbl_size>>
    BY DEF Inv, SlotInv, TypeInv, TypeOK, RootDone
  <1>2. Visits = {}
    BY <1>1 DEF Visits
  <1>3. Assigned' = Assigned /\ (\A c : Sized(c) => Sized(c)')
    BY <1>1, SizedKept DEF Assigned
  <1>4. marked \subseteq Class /\ NoClass \notin marked
    BY NoClassAssumption DEF Inv, TypeInv, TypeOK
  <1>5. \A c \in marked : Served(c) /\ \A i \in DOMAIN direct_derived[c] :
                                           direct_derived[c][i] \in marked
    BY <1>1, <1>2, <1>4 DEF EntriesInv, LatticeProgress
  <1>6. PendingLeft' /\ BasesFirst' /\ TreeProgress'
    BY <1>1 DEF PendingLeft, BasesFirst, TreeProgress
  <1>7. LatticeProgress'
    BY <1>1, <1>3, <1>5, EntriesFrame DEF LatticeProgress, Served
  <1>8. RootsVisited'
    <2> SUFFICES ASSUME NEW j \in DOMAIN classes, j < next_class, Root(lattice, classes[j]),
                        NEW d \in transitive_derived[classes[j]]
                 PROVE  IF TreeRoot(lattice, classes[j]) THEN Sized(d) ELSE d \in marked
      BY <1>1, <1>3, EntriesFrame DEF RootsVisited, Passed
    <2>1. j \in Nat /\ classes[j] \in ToSet(classes)
      BY <1>1, LatticeTypes
    <2>2. CASE j < next_class - 1
      BY <1>1, <2>2 DEF EntriesInv, RootsVisited, Passed
    <2>3. CASE j = next_class - 1
      <3>1. CurrentRoot = classes[j]
        BY <2>3 DEF CurrentRoot
      <3>2. CASE pc = "tree"
        <4>1. TreeRoot(lattice, classes[j]) /\ Sized(d)
          BY <1>1, <1>2, <3>1, <3>2 DEF BranchesFree, EntriesInv, TreeProgress
        <4> QED BY <4>1
      <3>3. CASE pc = "lattice"
        <4> DEFINE S == marked \cap ToSet(classes)
        <4>1. ~ TreeRoot(lattice, classes[j]) /\ classes[j] \in S
          BY <1>2, <2>1, <3>1, <3>3 DEF EntriesInv, LatticeProgress
        <4>2. \A c \in S : \A i \in DOMAIN direct_derived[c] : direct_derived[c][i] \in S
          BY <1>1, <1>5, DirectDerivedIn
        <4>3. transitive_derived[classes[j]] \subseteq S
          <5>1. S \in SUBSET ToSet(classes)
            OBVIOUS
          <5> HIDE DEF S
          <5> QED BY <1>1, <2>1, <4>1, <4>2, <5>1, Generated
        <4> QED BY <4>1, <4>3
      <3> QED BY <1>1, <3>2, <3>3
    <2> QED BY <1>1, <2>1, <2>2, <2>3
  <1>9. TreesUnused' /\ VtblsSized'
    BY <1>1, EntriesFrame DEF EntriesInv, TreesUnused, VtblsSized
  <1> QED BY <1>6, <1>7, <1>8, <1>9 DEF EntriesInv

(* A v-table is sized: it is not of a class of a tree.                     *)
LEMMA EntriesAllocated ==
  ASSUME Inv, EntriesInv, AllocateVtbl
  PROVE  EntriesInv'
  <1> PICK cls : cls = classes[next_class]
    OBVIOUS
  <1>1. /\ WellFormed(lattice) /\ pc = "mi" /\ pc' = "mi"
        /\ next_class \in Nat /\ next_class <= Len(classes) /\ next_class' = next_class + 1
        /\ first_slot \in [Class -> Nat] /\ vtbl_size \in [Class -> Nat]
        /\ UNCHANGED <<lattice, agenda, current, pending, slots, marked, used_slots>>
        /\ next_class \in DOMAIN classes
    BY LatticeTypes DEF Inv, TypeInv, TypeOK, AllocateVtbl
  <1>2. IF used_slots[cls] = {}
        THEN UNCHANGED <<first_slot, vtbl_size>>
        ELSE /\ first_slot' = [first_slot EXCEPT ![cls] = Min(used_slots[cls])]
             /\ vtbl_size' = [vtbl_size EXCEPT ![cls] = VtblSize(used_slots[cls])]
    BY DEF AllocateVtbl
  <1>3. \A c \in Class : c # cls \/ used_slots[cls] = {}
          => first_slot'[c] = first_slot[c] /\ vtbl_size'[c] = vtbl_size[c]
    BY <1>1, <1>2
  <1>4. cls \in Class
    BY <1>1, LatticeTypes
  <1>5. ASSUME NEW c \in TreeClasses, Sized(c)
        PROVE  Sized(c)'
    <2>1. used_slots[c] = {} /\ c \in Class
      BY <1>1, Closed DEF EntriesInv, TreesUnused, TreeClasses
    <2>2. first_slot'[c] = first_slot[c] /\ vtbl_size'[c] = vtbl_size[c]
      BY <1>3, <2>1
    <2> QED BY <1>1, <1>5, <2>2, SizedKept
  <1>6. PendingLeft'
    BY <1>1 DEF EntriesInv, PendingLeft, Assigned
  <1>7. BasesFirst' /\ TreeProgress'
    BY <1>1 DEF BasesFirst, TreeProgress
  <1>8. LatticeProgress'
    BY <1>1, EntriesFrame DEF EntriesInv, LatticeProgress, Served, Assigned
  <1>9. RootsVisited'
    <2>1. ASSUME NEW j \in DOMAIN classes, TreeRoot(lattice, classes[j])
          PROVE  transitive_derived[classes[j]] \subseteq TreeClasses
      <3>1. classes[j] \in ToSet(classes)
        BY DEF ToSet
      <3> QED BY <2>1, <3>1, TreeClassesOf
    <2> QED BY <1>1, <1>5, <2>1, EntriesFrame DEF EntriesInv, RootsVisited, Passed
  <1>10. TreesUnused'
    BY <1>1, EntriesFrame DEF EntriesInv, TreesUnused
  <1>11. VtblsSized'
    <2> SUFFICES ASSUME NEW j \in DOMAIN classes, j < next_class', used_slots[classes[j]] # {}
                 PROVE  /\ first_slot'[classes[j]] = Min(used_slots[classes[j]])
                        /\ vtbl_size'[classes[j]] = VtblSize(used_slots[classes[j]])
      BY <1>1, EntriesFrame DEF VtblsSized, VtblSize, Size
    <2>1. CASE classes[j] = cls
      BY <1>1, <1>2, <1>4, <2>1
    <2>2. CASE classes[j] # cls
      <3>1. j \in Nat /\ j # next_class /\ classes[j] \in Class
        BY <1>1, <2>2, LatticeTypes
      <3>2. j < next_class
        BY <1>1, <3>1
      <3> QED BY <1>1, <1>3, <2>2, <3>1, <3>2 DEF EntriesInv, VtblsSized
    <2> QED BY <2>1, <2>2
  <1> QED BY <1>6, <1>7, <1>8, <1>9, <1>10, <1>11 DEF EntriesInv

LEMMA EntriesElsewhere ==
  ASSUME Inv, EntriesInv, RootsDone \/ SlotsDone \/ UNCHANGED vars
  PROVE  EntriesInv'
  <1>1. CASE UNCHANGED vars
    <2>1. Visits' = Visits /\ Assigned' = Assigned /\ lattice' = lattice
          /\ \A c : Sized(c) => Sized(c)'
      BY <1>1, SizedKept DEF vars, Visits, Assigned
    <2> QED BY <1>1, <2>1, EntriesFrame
            DEF vars, EntriesInv, PendingLeft, BasesFirst, TreeProgress, LatticeProgress, Served,
                RootsVisited, Passed, TreesUnused, VtblsSized, VtblSize, Size
  <1>2. CASE RootsDone \/ SlotsDone
    <2>1. /\ WellFormed(lattice)
          /\ next_class \in Nat /\ next_class > Len(classes)
          /\ UNCHANGED <<lattice, agenda, current, pending, slots, marked, used_slots,
                         first_slot, vtbl_size>>
          /\ \/ pc = "roots" /\ pc' = "mi" /\ next_class' = 1
             \/ pc = "mi" /\ pc' = "done" /\ next_class' = next_class
      BY <1>2 DEF Inv, TypeInv, TypeOK, RootsDone, SlotsDone
    <2>2. Assigned' = Assigned /\ \A c : Sized(c) => Sized(c)'
      BY <2>1, SizedKept DEF Assigned
    <2>3. \A j \in DOMAIN classes : j \in Nat /\ j < next_class /\ ~ j < 1
      BY <2>1, LatticeTypes DEF Inv, TypeInv
    <2>4. PendingLeft' /\ BasesFirst' /\ TreeProgress' /\ LatticeProgress' /\ TreesUnused'
      BY <2>1, <2>2, EntriesFrame
         DEF EntriesInv, PendingLeft, BasesFirst, TreeProgress, LatticeProgress, Served, TreesUnused
    <2>5. RootsVisited'
      BY <2>1, <2>2, <2>3, EntriesFrame DEF EntriesInv, RootsVisited, Passed
    <2>6. VtblsSized'
      BY <2>1, <2>3, EntriesFrame DEF EntriesInv, VtblsSized, VtblSize, Size
    <2> QED BY <2>4, <2>5, <2>6 DEF EntriesInv
  <1> QED BY <1>1, <1>2

LEMMA EntriesStep ==
  ASSUME Inv, OnceInv, EntriesInv, [Next]_vars
  PROVE  EntriesInv'
  BY EntriesAssigned, EntriesEntered, EntriesTreeLeft, EntriesLatticeLeft, EntriesNextRoot,
     EntriesRootDone, EntriesAllocated, EntriesElsewhere DEF Next

-----------------------------------------------------------------------------
(* All that is known during the pass, if the lattice is well formed.       *)
PassInv == Inv /\ OnceInv /\ EntriesInv

LEMMA PassStart ==
  ASSUME WellFormed(lattice), Start
  PROVE  PassInv
  BY InvStart, OnceInit, EntriesInit DEF PassInv

LEMMA PassStep == PassInv /\ [Next]_vars => PassInv'
  <1> SUFFICES ASSUME PassInv, [Next]_vars PROVE PassInv'
    OBVIOUS
  <1>1. Inv /\ OnceInv /\ EntriesInv
    BY DEF PassInv
  <1>2. Inv'
    BY <1>1, InvStep
  <1>3. OnceInv'
    BY <1>1, OnceStep
  <1>4. EntriesInv'
    BY <1>1, EntriesStep
  <1> QED BY <1>2, <1>3, <1>4 DEF PassInv

LEMMA EntriesFollow ==
  ASSUME Inv, EntriesInv
  PROVE  EntriesInBounds
  <1> SUFFICES ASSUME pc = "done", NEW p \in Param, NEW c \in Covariant(p)
               PROVE  /\ p \in Assigned
                      /\ first_slot[c] <= slots[p]
                      /\ slots[p] < first_slot[c] + vtbl_size[c]
    BY DEF EntriesInBounds
  <1> DEFINE b == lattice.vp[p]
  <1>1. /\ WellFormed(lattice) /\ SlotsReserved /\ Bounded
        /\ slots \in [Param -> Nat \cup {Unassigned}]
        /\ used_slots \in [Class -> SUBSET Nat]
        /\ first_slot \in [Class -> Nat] /\ vtbl_size \in [Class -> Nat]
    BY DEF Inv, SlotInv, TypeInv, TypeOK
  <1>2. /\ b \in ToSet(classes) /\ c \in transitive_derived[b]
        /\ c \in ToSet(classes) /\ c \in Class
    BY <1>1, ClassOfParam, Closed DEF Covariant
  <1>3. p \in Assigned => slots[p] \in Nat
    BY <1>1 DEF Assigned
  <1>4. CASE b \in TreeClasses
    <2>1. c \in TreeClasses
      BY <1>1, <1>2, <1>4, TreeClassesDown
    <2>2. PICK r \in ToSet(classes) : TreeRoot(lattice, r) /\ c \in transitive_derived[r]
      BY <2>1, InTree
    <2>3. PICK j \in DOMAIN classes : r = classes[j]
      BY <1>1, LatticeTypes DEF ToSet
    <2>4. Sized(c)
      BY <2>2, <2>3 DEF EntriesInv, RootsVisited, Passed, TreeRoot
    <2> QED BY <1>1, <1>2, <1>3, <2>4 DEF Sized
  <1>5. CASE b \notin TreeClasses
    <2>1. PICK r \in ToSet(classes) : Root(lattice, r) /\ b \in transitive_derived[r]
      BY <1>1, <1>2 DEF WellFormed, AllReached, classes, transitive_derived
    <2>2. ~ TreeRoot(lattice, r)
      BY <1>5, <2>1, TreeClassesOf
    <2>3. PICK j \in DOMAIN classes : r = classes[j]
      BY <1>1, LatticeTypes DEF ToSet
    <2>4. b \in marked
      BY <2>1, <2>2, <2>3 DEF EntriesInv, RootsVisited, Passed
    <2>5. p \in Assigned
      BY <2>4 DEF EntriesInv, LatticeProgress, Served
    <2> DEFINE used == used_slots[c]
    <2>6. slots[p] \in used /\ used \in SUBSET Nat
      BY <1>1, <1>2, <1>5, <2>5 DEF SlotsReserved
    <2>7. PICK k \in DOMAIN classes : c = classes[k]
      BY <1>1, <1>2, LatticeTypes DEF ToSet
    <2>8. first_slot[c] = Min(used) /\ vtbl_size[c] = VtblSize(used)
      <3>1. k < next_class
        BY <1>1, LatticeTypes DEF EntriesInv, VtblsSized, Inv, TypeInv, TypeOK
      <3> QED BY <2>6, <2>7, <3>1 DEF EntriesInv, VtblsSized
    <2>9. Min(used) \in used /\ Min(used) <= slots[p]
      BY <2>6, MinOfNat
    <2>10. PICK n \in Nat : \A s \in used : s <= n
      BY <1>1, <1>2 DEF Bounded
    <2>11. Max(used) \in used /\ slots[p] <= Max(used)
      BY <2>6, <2>10, MaxOfBounded
    <2>12. VtblSize(used) = Max(used) + 1 - Min(used)
      <3> HIDE DEF used
      <3>1. used # {}
        BY <2>6
      <3>2. Size(used) = Max(used) + 1
        BY <3>1 DEF Size
      <3>3. Max(used) \in Nat /\ Min(used) \in Nat
        BY <2>6, <2>9, <2>11
      <3> QED BY <3>2, <3>3 DEF VtblSize
    <2>13. slots[p] < Min(used) + VtblSize(used)
      <3> HIDE DEF used
      <3>1. Min(used) \in Nat /\ Max(used) \in Nat /\ slots[p] \in Nat
        BY <2>6, <2>9, <2>11
      <3> QED BY <2>11, <2>12, <3>1
    <2> QED BY <2>5, <2>8, <2>9, <2>13
  <1> QED BY <1>4, <1>5

(* When assign_slots is done, each virtual parameter has a slot, and each  *)
(* class that can be passed for it a v-table with an entry for that slot:  *)
(* build_dispatch_tables, which writes vtbl[slot - first_slot] unchecked,  *)
(* stays in bounds, whatever the lattice and the methods.                  *)
THEOREM EntriesStayInBounds == Spec => []EntriesInBounds
  <1>1. Init => PassInv
    BY LatticesAssumption, PassStart DEF Init
  <1>2. PassInv /\ [Next]_vars => PassInv'
    BY PassStep
  <1>3. PassInv => EntriesInBounds
    BY EntriesFollow DEF PassInv
  <1> QED BY <1>1, <1>2, <1>3, PTL DEF Spec
=============================================================================
