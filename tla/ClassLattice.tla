---------------------------- MODULE ClassLattice ----------------------------
(***************************************************************************)
(* The first pass of the registry compiler: augment_classes turns the list *)
(* of class_info records left behind by the static registrars into the     *)
(* lattice of classes that every later pass reads.                         *)
(*                                                                         *)
(* A program is a C++ inheritance graph and a sequence of use_classes      *)
(* instantiations.  Each instantiation adds one record per listed class;   *)
(* the record names those of the listed classes that are bases of it, and  *)
(* the class itself.  A class may be registered by several instantiations, *)
(* and by several linked modules, each with a type id of its own.          *)
(*                                                                         *)
(* Simplifications: classes are numbers or model values, the class marks   *)
(* of the traversals are the sets they stand for, and transitive_bases is  *)
(* a set (its order matters only while direct bases are looked for, where  *)
(* std::sort may leave equal elements in any order).                       *)
(***************************************************************************)
EXTENDS Naturals, Sequences, FiniteSets, SequencesExt

CONSTANTS
    Class,      \* the C++ classes
    Module,     \* linked modules: each has its own type id for a class
    Programs    \* [bases, abstract, uses]: see IsProgram

TypeId == Class \X Module

(* bases: the proper bases of each class, direct and indirect, as          *)
(* std::is_base_of sees them.  abstract: the abstract classes.  uses: the  *)
(* use_classes instantiations, in the order of their constructors.  Every  *)
(* member of Programs is one; Compiler, which has more to say of them,     *)
(* assumes it.                                                             *)
IsProgram(p) ==
    /\ p.bases \in [Class -> SUBSET Class]
    /\ \A c \in Class : c \notin p.bases[c]
    /\ \A c \in Class : \A b \in p.bases[c] : p.bases[b] \subseteq p.bases[c]
    /\ p.abstract \subseteq Class
    /\ p.uses \in Seq([module : Module, list : Seq(Class) \ {<<>>}]) \ {<<>>}

-----------------------------------------------------------------------------
(* Registration: what use_classes<Cs...> leaves in registry::classes.      *)

type_index(type) == type[1]

(* Mutant of inheritance_map: is_base_of with its arguments exchanged.     *)
reversed_inheritance_map(prog, use, cls) ==
    {b \in ToSet(use.list) : b = cls \/ cls \in prog.bases[b]}

(* The bases of a class are the listed classes that are bases of it, the   *)
(* class itself included.                                                  *)
inheritance_map(prog, use, cls) ==
    {b \in ToSet(use.list) : b = cls \/ b \in prog.bases[cls]}

(* One record per listed class.                                            *)
use_classes(prog, use) ==
    [i \in DOMAIN use.list |->
        LET cls == use.list[i]
        IN [type        |-> <<cls, use.module>>,
            bases       |-> {<<b, use.module>> : b \in inheritance_map(prog, use, cls)},
            is_abstract |-> cls \in prog.abstract,
            static_vptr |-> <<cls, use.module>>]]

Registered(prog) ==
    FlattenSeq([i \in DOMAIN prog.uses |-> use_classes(prog, prog.uses[i])])

-----------------------------------------------------------------------------
VARIABLES
    program,             \* the program being compiled; never changes
    records,             \* registry::classes; never changes during compile
    pc,                  \* the loop of augment_classes that is running
    next_record,         \* iterator over registry::classes, or over classes
    classes,             \* the deque of class_ objects, in order of creation
    type_ids,            \* class -> its distinct type ids
    is_abstract,         \* class -> flag of its first record
    static_vptr,         \* class -> static_vptr variable of its first record
    transitive_bases,    \* class -> set of classes
    direct_bases,        \* class -> set of classes
    direct_derived,      \* class -> sequence of classes
    transitive_derived   \* class -> set of classes, the class included

vars == <<program, records, pc, next_record, classes, type_ids, is_abstract, static_vptr,
          transitive_bases, direct_bases, direct_derived, transitive_derived>>

(* Every node reachable from n along succ, n included.                     *)
Reachable(succ) ==
    LET reach[n \in DOMAIN succ] == {n} \cup UNION {reach[m] : m \in succ[n]}
    IN reach

Init ==
    /\ program \in Programs
    /\ records = Registered(program)
    /\ pc = "register"
    /\ next_record = 1
    /\ classes = <<>>
    /\ type_ids = [c \in Class |-> <<>>]
    /\ is_abstract = [c \in Class |-> FALSE]
    /\ static_vptr = [c \in Class |-> <<>>]
    /\ transitive_bases = [c \in Class |-> {}]
    /\ direct_bases = [c \in Class |-> {}]
    /\ direct_derived = [c \in Class |-> <<>>]
    /\ transitive_derived = [c \in Class |-> {}]

(* Advance the iterator of the running loop over s, or start loop next.    *)
Advance(s, next) ==
    IF next_record < Len(s)
    THEN next_record' = next_record + 1 /\ pc' = pc
    ELSE next_record' = 1 /\ pc' = next

AddClass(cls) == IF cls \in ToSet(classes) THEN classes ELSE Append(classes, cls)

(* Mutant of AddTypeId: only the first record's type id.                   *)
AddFirstTypeId(cls, type) ==
    IF cls \in ToSet(classes) THEN type_ids
    ELSE [type_ids EXCEPT ![cls] = Append(@, type)]

AddTypeId(cls, type) ==
    IF type \in ToSet(type_ids[cls]) THEN type_ids
    ELSE [type_ids EXCEPT ![cls] = Append(@, type)]

(* First loop over the records: one class_ per type index, created by the  *)
(* first record that mentions it, and the list of its distinct type ids.   *)
RegisterClass ==
    /\ pc = "register"
    /\ LET cr  == records[next_record]
           cls == type_index(cr.type)
           known == cls \in ToSet(classes)
       IN /\ classes' = AddClass(cls)
          /\ type_ids' = AddTypeId(cls, cr.type)
          /\ is_abstract' = IF known THEN is_abstract
                            ELSE [is_abstract EXCEPT ![cls] = cr.is_abstract]
          /\ static_vptr' = IF known THEN static_vptr
                            ELSE [static_vptr EXCEPT ![cls] = cr.static_vptr]
    /\ Advance(records, "bases")
    /\ UNCHANGED <<program, records, transitive_bases, direct_bases, direct_derived,
                   transitive_derived>>

(* Mutant of collect_transitive_bases: no recursion.                       *)
collect_base(base) == {base}

(* What collect_transitive_bases adds: the base, and whatever can be       *)
(* reached from it through the transitive bases collected so far.          *)
collect_transitive_bases(base) == Reachable(transitive_bases)[base]

(* Second loop over the records: collect the proper bases of one record.   *)
(* The code reports unknown_class_error for a base that no record          *)
(* mentions; BasesKnown states that use_classes cannot cause it.           *)
CollectBases ==
    /\ pc = "bases"
    /\ LET cr  == records[next_record]
           cls == type_index(cr.type)
           proper == {type_index(b) : b \in cr.bases} \ {cls}
       IN transitive_bases' =
            [transitive_bases EXCEPT
                ![cls] = @ \cup UNION {collect_transitive_bases(b) : b \in proper}]
    /\ Advance(records, "direct")
    /\ UNCHANGED <<program, records, classes, type_ids, is_abstract, static_vptr,
                   direct_bases, direct_derived, transitive_derived>>

(* The orders std::sort may leave: most transitive bases first.            *)
SortedBases(cls) ==
    {order \in SetToSeqs(transitive_bases[cls]) :
        \A i, j \in DOMAIN order :
            i < j => Cardinality(transitive_bases[order[i]])
                       >= Cardinality(transitive_bases[order[j]])}

(* Scan the sorted bases: one that no direct base found earlier has marked *)
(* is a direct base, and marks its own transitive bases.                   *)
UnmarkedBases(order) ==
    FoldLeft(LAMBDA direct, b :
                IF \E d \in direct : b \in transitive_bases[d]
                THEN direct ELSE direct \cup {b},
             {}, order)

FindDirectBases ==
    /\ pc = "direct"
    /\ LET cls == classes[next_record]
       IN \E order \in SortedBases(cls) :
            direct_bases' = [direct_bases EXCEPT ![cls] = UnmarkedBases(order)]
    /\ Advance(classes, "derived")
    /\ UNCHANGED <<program, records, classes, type_ids, is_abstract, static_vptr,
                   transitive_bases, direct_derived, transitive_derived>>

(* Mutant of calculate_transitive_derived: no recursion.                   *)
calculate_direct_derived(derived) ==
    [c \in Class |-> IF c \in ToSet(classes) THEN {c} \cup ToSet(derived[c]) ELSE {}]

calculate_transitive_derived(derived) ==
    [c \in Class |->
        IF c \in ToSet(classes)
        THEN Reachable([b \in Class |-> ToSet(derived[b])])[c]
        ELSE {}]

(* The elements of s that are in S, in their order.                        *)
Select(s, S) == FlattenSeq([i \in DOMAIN s |-> IF s[i] \in S THEN <<s[i]>> ELSE <<>>])

(* The two last loops: invert direct_bases, in the order of the classes,   *)
(* then calculate the transitive derived of every class.                   *)
CalculateDerived ==
    /\ pc = "derived"
    /\ direct_derived' =
         [b \in Class |-> Select(classes, {c \in Class : b \in direct_bases[c]})]
    /\ transitive_derived' = calculate_transitive_derived(direct_derived')
    /\ pc' = "done"
    /\ UNCHANGED <<program, records, next_record, classes, type_ids, is_abstract,
                   static_vptr, transitive_bases, direct_bases>>

Next == RegisterClass \/ CollectBases \/ FindDirectBases \/ CalculateDerived

Spec == Init /\ [][Next]_vars

-----------------------------------------------------------------------------
(* The bases of a class as the program has them, among registered classes. *)
TrueBases(c) == program.bases[c] \cap {type_index(r.type) : r \in ToSet(records)}

TrueDirectBases(c) == {b \in TrueBases(c) : \A d \in TrueBases(c) : b \notin program.bases[d]}

(* "A class and its direct bases must be listed together in one or more    *)
(* instantiations of use_classes" (core.hpp:380-381).                      *)
ListedTogether(c, use) == {c} \cup TrueDirectBases(c) \subseteq ToSet(use.list)

Together == \A c \in ToSet(classes) : \E use \in ToSet(program.uses) : ListedTogether(c, use)

(* What the compiler needs beyond that: an instantiation that lists a class*)
(* with its direct bases does not precede those that do so for the bases.  *)
Orderly ==
    \E u \in [ToSet(classes) -> DOMAIN program.uses] :
        \A c \in ToSet(classes) :
            /\ ListedTogether(c, program.uses[u[c]])
            /\ \A b \in TrueDirectBases(c) : u[b] <= u[c]

(* Type invariant: the shape of the compiler's per-class tables.           *)
TypeOK ==
    /\ IsProgram(program)
    /\ pc \in {"register", "bases", "direct", "derived", "done"}
    /\ next_record \in Nat \ {0}
    /\ ToSet(classes) \subseteq Class /\ IsInjective(classes)
    /\ \A c \in Class : ToSet(type_ids[c]) \subseteq TypeId /\ IsInjective(type_ids[c])
    /\ is_abstract \in [Class -> BOOLEAN]
    /\ static_vptr \in [Class -> TypeId \cup {<<>>}]
    /\ transitive_bases \in [Class -> SUBSET Class]
    /\ direct_bases \in [Class -> SUBSET Class]
    /\ \A c \in Class : ToSet(direct_derived[c]) \subseteq Class
    /\ transitive_derived \in [Class -> SUBSET Class]

(* augment_classes finds a class_ object for every base of every record:   *)
(* its unknown_class_error branch cannot be taken for classes that were    *)
(* registered with use_classes, in any number of instantiations.           *)
BasesKnown ==
    pc = "bases" =>
        \A i \in DOMAIN records : \A b \in records[i].bases :
            type_index(b) \in ToSet(classes)

(* Whatever was registered, even if a class is never listed together with  *)
(* its direct bases, the compiler invents no relation: a class is treated  *)
(* as a base or as derived only if the program says so, so that no call can*)
(* run an overrider for a class that the object is not of.                 *)
RelationsSound ==
    pc = "done" =>
        \A c \in ToSet(classes) :
            /\ direct_bases[c] \subseteq transitive_bases[c]
            /\ transitive_bases[c] \subseteq TrueBases(c)
            /\ \A d \in transitive_derived[c] : d = c \/ c \in TrueBases(d)

(* If the instantiations come in order, the transitive bases of a class are*)
(* all the registered bases the program gives it, whatever the order of the*)
(* classes within a list: assign_lattice_slots relies on it to reserve     *)
(* slots in bases.  "The runtime will extract the direct proper bases"     *)
(* (core.hpp:111): those that are bases of no other base of the class.     *)
(* Roots, and so the choice between tree and lattice slot assignment, are  *)
(* recognised by their number.                                             *)
BasesExact ==
    pc = "done" /\ Orderly =>
        \A c \in ToSet(classes) :
            transitive_bases[c] = TrueBases(c) /\ direct_bases[c] = TrueDirectBases(c)

(* If every class is listed together with its direct bases, in any order,  *)
(* the transitive derived of a class are the class and every registered    *)
(* class that has it as a base: is_more_specific and the groups of the     *)
(* dispatch tables decide applicability with it.                           *)
DerivedComplete ==
    pc = "done" /\ Together =>
        \A c \in ToSet(classes) :
            transitive_derived[c] =
                {c} \cup {d \in ToSet(classes) : c \in TrueBases(d)}

(* Every type id that some module registered for a class is kept, once, so *)
(* that the vptr policies can map each of them to the v-table.             *)
TypeIdsKept ==
    pc = "done" =>
        \A c \in ToSet(classes) :
            ToSet(type_ids[c]) =
                {r.type : r \in {x \in ToSet(records) : type_index(x.type) = c}}
=============================================================================
