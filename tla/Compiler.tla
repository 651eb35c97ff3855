------------------------------ MODULE Compiler ------------------------------
(***************************************************************************)
(* The registry compiler, as initialize() runs it: augment_classes, then   *)
(* augment_methods, then assign_slots.  ClassLattice and SlotAllocation    *)
(* model the first and the last pass and run here one after the other;     *)
(* augment_methods, which stands between them, looks up the classes of the *)
(* virtual parameters and hands each parameter to the class it is declared *)
(* with.  A class that was never registered ends the compilation: the      *)
(* error handler is called, and if it returns, abort().                    *)
(*                                                                         *)
(* Simplification: the error handler's choice between throwing and         *)
(* returning is one outcome, "aborted": either way the compiler object is  *)
(* abandoned.                                                              *)
(***************************************************************************)
EXTENDS Naturals, Sequences, FiniteSets, SequencesExt

CONSTANTS Class, Module, Programs, NoClass, Unassigned, NoLattice,
    Param       \* <<method, index>>: the virtual parameters of the methods

VARIABLES
    \* augment_classes
    program, records, class_pc, next_record, classes, type_ids, is_abstract,
    static_vptr, transitive_bases, direct_bases, direct_derived,
    transitive_derived,
    \* assign_slots
    lattice, slot_pc, next_class, agenda, current, pending, next_slot, marked,
    used_slots, reserved_slots, slots, first_slot, vtbl_size,
    \* compile
    pass,           \* "classes", "methods", "slots", "done" or "aborted"
    next_method     \* iterator over registry::methods

classVars == <<program, records, class_pc, next_record, classes, type_ids, is_abstract,
               static_vptr, transitive_bases, direct_bases, direct_derived,
               transitive_derived>>
workVars  == <<slot_pc, next_class, agenda, current, pending, next_slot, marked,
               used_slots, reserved_slots, slots, first_slot, vtbl_size>>
vars == <<classVars, lattice, workVars, pass, next_method>>

Classes == INSTANCE ClassLattice WITH pc <- class_pc
Slots   == INSTANCE SlotAllocation WITH pc <- slot_pc, Lattices <- {}

(* A program has methods too: vp, the classes of the virtual parameters of *)
(* a method, and specs, those of its overriders; return_type, the class it *)
(* returns or NoClass, and return_types, those of its overriders.          *)
methods == program.methods

HasMethods(p) ==
    /\ Len(p.methods) \in Nat /\ DOMAIN p.methods = 1 .. Len(p.methods)
    /\ \A m \in DOMAIN p.methods :
         /\ p.methods[m].vp \in Seq(Class)
         /\ p.methods[m].specs \in Seq(Seq(Class))
         /\ p.methods[m].return_type \in Class \cup {NoClass}
         /\ p.methods[m].return_types \in Seq(Class \cup {NoClass})
         /\ \A s \in ToSet(p.methods[m].specs) :
              /\ DOMAIN s = DOMAIN p.methods[m].vp
              /\ \A i \in DOMAIN s :
                   s[i] = p.methods[m].vp[i] \/ p.methods[m].vp[i] \in p.bases[s[i]]
         /\ DOMAIN p.methods[m].return_types = DOMAIN p.methods[m].specs
    /\ Param = UNION {{<<m, i>> : i \in DOMAIN p.methods[m].vp} : m \in DOMAIN p.methods}

ASSUME ClassAssumption == IsFiniteSet(Class)

ASSUME NoClassAssumption == NoClass \notin Class

ASSUME UnassignedAssumption == Unassigned \notin Nat

ASSUME ProgramsAssumption == \A p \in Programs : Classes!IsProgram(p) /\ HasMethods(p)

Init ==
    /\ Classes!Init
    /\ lattice = NoLattice
    /\ Slots!Start
    /\ pass = "classes"
    /\ next_method = 1

AugmentClasses ==
    /\ pass = "classes"
    /\ Classes!Next
    /\ pass' = IF class_pc' = "done" THEN "methods" ELSE pass
    /\ UNCHANGED <<lattice, workVars, next_method>>

(* Mutant of ClassesOf: the overriders' classes are not looked up.         *)
ClassesOfParameters(method) == ToSet(method.vp)

(* The class that a method returns, if it is registered, is its covariant  *)
(* return type.  Only then are those of its overriders looked up.          *)
Covariant(method) == method.return_type \in ToSet(classes)

(* The classes that are looked up for a method and its overriders.         *)
ClassesOf(method) ==
    ToSet(method.vp) \cup (UNION {ToSet(s) : s \in ToSet(method.specs)})
      \cup IF Covariant(method) THEN ToSet(method.return_types) ELSE {}

(* augment_methods, first loop: look up the classes of one method.         *)
AugmentMethod ==
    /\ pass = "methods"
    /\ next_method <= Len(methods)
    /\ ClassesOf(methods[next_method]) \subseteq ToSet(classes)
    /\ next_method' = next_method + 1
    /\ UNCHANGED <<classVars, lattice, workVars, pass>>

UnknownClass ==
    /\ pass = "methods"
    /\ next_method <= Len(methods)
    /\ ~ (ClassesOf(methods[next_method]) \subseteq ToSet(classes))
    /\ pass' = "aborted"
    /\ UNCHANGED <<classVars, lattice, workVars, next_method>>

(* The virtual parameters, by method and then by position.                 *)
Parameters ==
    FlattenSeq([m \in DOMAIN methods |->
                  [i \in DOMAIN methods[m].vp |-> <<m, i>>]])

(* Mutant of UsedByVp: by the class of the method's first parameter.       *)
UsedByFirstVp(c) == Classes!Select(Parameters, {p \in Param : methods[p[1]].vp[1] = c})

UsedByVp(c) == Classes!Select(Parameters, {p \in Param : methods[p[1]].vp[p[2]] = c})

(* augment_methods, last loop: fill used_by_vp.                            *)
LinkParameters ==
    /\ pass = "methods"
    /\ next_method > Len(methods)
    /\ lattice' =
         [classes            |-> classes,
          transitive_bases   |-> transitive_bases,
          direct_bases       |-> direct_bases,
          direct_derived     |-> direct_derived,
          transitive_derived |-> transitive_derived,
          vp                 |-> [p \in Param |-> methods[p[1]].vp[p[2]]],
          used_by_vp         |-> [c \in Class |-> UsedByVp(c)]]
    /\ pass' = "slots"
    /\ UNCHANGED <<classVars, workVars, next_method>>

AssignSlots ==
    /\ pass = "slots"
    /\ Slots!Next
    /\ pass' = IF slot_pc' = "done" THEN "done" ELSE pass
    /\ UNCHANGED <<classVars, next_method>>

Next == AugmentClasses \/ AugmentMethod \/ UnknownClass \/ LinkParameters \/ AssignSlots

Spec == Init /\ [][Next]_vars

-----------------------------------------------------------------------------
(* Type invariant of the tables of classes and of the variables of compile.*)
TypeOK ==
    /\ pass = "classes" => Classes!TypeOK
    /\ pass \in {"classes", "methods", "slots", "done", "aborted"}
    /\ next_method \in 1 .. Len(methods) + 1
    /\ pass \in {"slots", "done"} => Slots!IsLattice(lattice)

(* If the instantiations of use_classes come in order, what augment_classes*)
(* hands over is what slot assignment takes for granted.                   *)
WellFormedHandover ==
    pass = "slots" /\ slot_pc = "roots" /\ next_class = 1 /\ Classes!Orderly =>
        Slots!WellFormed(lattice)

(* If every class is listed together with its direct bases, as documented, *)
(* no two virtual parameters that the same class can be passed for have the*)
(* same slot.  An order of instantiations that leaves transitive bases out *)
(* refutes it.                                                             *)
NoSlotClash == pass \in {"slots", "done"} /\ Classes!Together => Slots!NoSlotClash

(* What augment_classes promises, in every program that is compiled; its   *)
(* tables do not change after it.                                          *)
Augmented == pass = "methods" /\ next_method = 1

(* No relation between classes is invented, whatever was registered.       *)
RelationsSound == Augmented => Classes!RelationsSound

(* The bases and direct bases are those of the program if the              *)
(* instantiations of use_classes come in order.                            *)
BasesExact == Augmented => Classes!BasesExact

(* The derived classes are those of the program if every class is listed   *)
(* together with its direct bases.                                         *)
DerivedComplete == Augmented => Classes!DerivedComplete

(* Every type id that some module registered for a class is kept, once.    *)
TypeIdsKept == Augmented => Classes!TypeIdsKept

(* A program that mentions, in a method or in an overrider, a class that no*)
(* use_classes lists does not get as far as slots, and no other program is *)
(* aborted: augment_classes knows the bases of every record.  The classes  *)
(* that overriders return count only if their method's is listed.          *)
Listed == UNION {ToSet(u.list) : u \in ToSet(program.uses)}

Mentioned ==
    (UNION {ToSet(c) : c \in UNION {ToSet(<<m.vp>> \o m.specs) : m \in ToSet(methods)}})
    \cup (UNION {ToSet(m.return_types) : m \in {x \in ToSet(methods) : x.return_type \in Listed}})

UnknownClassDetected ==
    /\ pass = "classes" => Classes!BasesKnown
    /\ pass = "aborted" => ~ (Mentioned \subseteq Listed)
    /\ pass \in {"slots", "done"} => Mentioned \subseteq Listed
=============================================================================
