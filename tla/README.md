# A verification development for Boost.OpenMethod

Boost.OpenMethod implements open multi-methods in C++17: free functions that are dispatched on the
dynamic types of one or several of their arguments. Constructors of static objects *register*
classes, methods and overriders; `initialize()` then *compiles* what is registered into v-tables
and dispatch tables; every later method call is a few loads from those tables, without any check.
All the correctness is therefore in the compiler, in the agreement between what it writes and
what a call reads, and in the pointers that the program keeps from one to the other. That is what
these modules model.

The source is `src/include/boost/openmethod/`; file names below are relative to it. The code is
sequential: nothing in the library starts a thread or takes a lock. What makes it hard is order
(static constructors run in an order that differs between builds), inheritance lattices of any
shape, tables computed in one pass and trusted in the next, and state that outlives a
re-initialization.

## Inventory

| Component | State | Operations | Hard behaviour | What makes it correct | Module |
|---|---|---|---|---|---|
| class registration, `use_classes` (core.hpp) | `registry::classes`: one record per listed class (type, listed bases, abstract, static v-table pointer) | constructor pushes, destructor removes | a class may be listed many times, partially, in several modules, in any order | no relation is invented or lost | ClassLattice |
| `augment_classes` (initialize.hpp) | `class_` objects: type ids, transitive and direct bases and derived | five loops | the loops read what records *seen so far* left | the lattice of the program is rebuilt | ClassLattice |
| `augment_methods` | methods' and overriders' classes, covariant return types, `used_by_vp` | class lookup, error for unknown classes | a class that is not registered | no null class reaches the next pass | Compiler |
| `assign_slots` | used and reserved slots per class, slot per virtual parameter, v-table sizes | tree and lattice traversals | two methods must not share a slot in any class both can be called with | a colouring; every entry inside its v-table | SlotAllocation, SlotColouring |
| `build_dispatch_tables` | groups, strides, cells, `next`, report | grouping, selection of the most specific overrider, by return type with n2216 | dominance under multiple inheritance; several dimensions; scans that remove what they compare | a cell holds what the documented rules select | DispatchTables |
| `write_global_data` | `dispatch_data`, slots and strides, `next` pointers, static v-table pointers | copies everything into one array | raw pointer arithmetic | writes stay inside; each word is of the kind calls expect there | GlobalData |
| method call (core.hpp, `resolve_*`) | none | `resolve_uni`, `resolve_multi_first`, `resolve_multi_next` | untagged words; non-virtual parameters | the overrider that is run is the documented one | GlobalData |
| methods and overriders (core.hpp, detail/types.hpp) | `method_info::specs`, `next` per overrider, the functions that run | registration, removal, call, `next`, `has_next` | overriders come and go, and initialize the registry, while others run; initialize fails | casts in thunks are right; `next` goes up; stale pointers are the only danger | MethodCalls |
| registry lifecycle (registry.hpp) | `initialized`, the lists of registered items, `static_vptr` | `initialize`, `finalize`, dynamic loading | items added and removed between two `initialize`; errors half-way; a `static_vptr` in each module | a lookup finds what the last `initialize` wrote | Registry |
| `static_list` (detail/) | intrusive doubly linked list | `push_back`, `remove`, `clear` | one-element and end cases | a sequence without repetitions | StaticList, Catalogue |
| `fast_perfect_hash` (policies/) | hash factors, bounds, control table | search for a multiplier, `hash`, `check` | modular arithmetic; bounds left by failed attempts; the search may fail | registered types are found, others reported; the search ends | FastPerfectHash |
| `vptr_vector`, `vptr_map` (policies/) | type id to v-table pointer | `initialize`, `dynamic_vptr`, `finalize` | entries of an earlier `initialize` | lookups find the current v-table | Registry |
| `inplace_vptr` | pointer inside the object | constructors and destructors of a hierarchy | several bases, constructors that throw | the pointer follows the class under construction | InplaceVptr |
| `virtual_ptr` (core.hpp) | object and v-table pointer | construction, assignment, final, copy, move, cast | held across `initialize`; an error between two assignments; a reference to a temporary | the pointer is that of the object's class | VirtualPtr |
| `virtual_ptr` to smart pointers (core.hpp, shared_ptr.hpp, unique_ptr.hpp) | smart pointer and v-table pointer | the same, by copy or by move | two pointers moved separately; casts that fail | no object is lost, or owned twice | SmartVirtualPtr |
| error handlers (policies/) | the function that handles errors | `error` | it throws out of nested calls, or returns | tables are as before, or the program ends | MethodCalls, Compiler |
| thunks and casts, `virtual_traits` (core.hpp) | none | casts of arguments | unchecked | the argument is of the class it is cast to | MethodCalls, SmartVirtualPtr |
| RTTI policies, macros, trace | – | – | resolved at compile time, or pure output | – | not modelled |

Components interact through data only. Registration fills three lists; each pass of the compiler
reads the tables of the previous ones through raw pointers; `write_global_data` publishes to
variables that live in the methods (slots and strides), the overriders (`next`), the classes
(`static_vptr`) and the registry (`dispatch_data`); calls and `virtual_ptr`s read those. The
callbacks are the overriders, which may call the method again or initialize the registry, the error
handler, which may throw out of a pass or a call, and the policies' `initialize`.

The hazards of the code, each with its line and the properties aimed at it, are listed in
`PROJECT.json`.

## Modules

`InheritanceGraphs` enumerates all inheritance graphs of *n* classes and gives, by definition
instead of by algorithm, what `augment_classes` should make of them. `MC*` modules instantiate the
other modules for TLC; `*Proofs` modules hold theorems.

    one initialize                                   the life of a program

    ClassLattice   SlotAllocation --> SlotColouring  StaticList --> Catalogue   FastPerfectHash
          \           /        (refines)                  \  (refines)           /
           v         v                                     v                    v
            Compiler   DispatchTables                            Registry
                 \                                                  |
                  v                                            VirtualPtr          MethodCalls
              GlobalData                                            |
                                                              SmartVirtualPtr      InplaceVptr

**ClassLattice** - `use_classes` and `augment_classes`. A program is the C++ inheritance relation
plus the sequence of `use_classes` instantiations in the order in which their constructors run.
The actions are the loops of `augment_classes`, one record or class per step: `RegisterClass`
(initialize.hpp:344-376), `CollectBases` (381-424), `FindDirectBases` (426-452),
`CalculateDerived` (454-462, recursion of 481-501). Within one instantiation the order of the
records is the order in which the elements of a tuple are constructed, which the language leaves
open, so that all orders are tried.

**SlotAllocation** - `assign_slots`, `assign_tree_slots`, `assign_lattice_slots`. The two recursive
functions run on an explicit agenda of calls: `NextRoot`, `EnterTree`, `AssignTreeSlot`,
`LeaveTree`, `EnterLattice`, `AssignLatticeSlot`, `LeaveLattice`, then `AllocateVtbl` for the sizes.
A step is one class or one virtual parameter. Bitsets are sets of naturals.

**SlotColouring** - the abstract specification of slot assignment: parameters get colours, one at
a time and for good, never the colour of a parameter that shares a class with it. `SlotAllocation`
implements it (`ImplementsColouring`).

**Compiler** - `compile()`: instances of ClassLattice and SlotAllocation in sequence, with
`augment_methods` between them: it looks up the classes of methods and overriders, and of what they
return, and stops at the first that is not registered. The property `WellFormedHandover` is the
interface between the two: it is what SlotAllocation assumes (`WellFormed`) and ClassLattice must
establish.

**DispatchTables** - `build_dispatch_tables` for one method, cell by cell, with the selection scan
of `select_dominant_overriders` translated as the sequence of pairwise eliminations it performs, and
with n2216 the second scan, over return types, which goes on with a candidate it has set to null
(`crash`). That overriders are for classes that the method accepts, which C++'s types see to, is in `IsMethod`. The documented rules (core.hpp:2012-2034) are stated separately (`BestOf`), on sets.

**GlobalData** - extends Compiler with the last two passes and with calls, so that one behaviour is
a whole `initialize()`: compile, tables of each method, `dispatch_data` written word by word. Words
carry the kind that was written (`pf`, `pw`, `i`), and a read of another kind, or outside of the
array, is `Garbage`. `resolve` is a call. Its expected result is again `BestOf`, so the property
spans all the passes.

**MethodCalls** - one method in a running program. What the compiler makes of a set of overriders is
a function here (`Selected`); what is modelled in steps is everything around it: overriders and
classes that modules bring and take (`AddOverrider`, `RemoveOverrider`: the static `next` of an
overrider goes and comes back null with its module), `Initialize`, `InitializeFails` (augment_methods
reports an unknown class before anything is written), `Finalize`, and the stack of overriders that
run: `Call`, `CallNext`, `Return`, and `Error`, where the error handler throws through any number of
them or the program is aborted. A pointer to a function that has gone, or that was never written, is
`Garbage`, and to call it is status `undefined`.

**StaticList** - the list of registered records, on its pointers: `push_back`, `remove` with its four
cases, `clear`. The assertions of the code are guards. `Linked(s)` says that the pointers are those
of sequence `s`; **Catalogue** is the abstract specification, a sequence that records are appended to
and dropped from.

**FastPerfectHash** - the search for a hash function, one multiplier per step, in the arithmetic of a
size_t of `Width` bits. `min_value` and `max_value` are updated before a collision is known, as in
the code, so that they cover failed attempts of the pass; `hash` and `check` follow.

**Registry** - extends both: the life of a registry. `Register` and `Unregister` are the constructor
and destructor of a record, `Initialize` and `HashAttempt` the parts of `initialize` that outlive it
(static v-table pointers, hash factors, what the vptr policy stores), `Finalize` the other call, and
`acquire_vptr` the lookup of a method call. The program (`config`) is chosen in the initial state:
the policy (`vptr_vector` with or without hash, `vptr_map`, direct or indirect) and whether a class
has one `static_vptr` in the program or one per module, of which `initialize` writes only that of the
first record. A v-table is identified by its class and by the number of the `initialize` that wrote
it, so that a pointer into a former `dispatch_data` is seen as such; a variable whose module has gone
holds `Garbage`.

**VirtualPtr** - extends Registry with plain `virtual_ptr`s that the program holds meanwhile, and with
the objects they point to. `Construct` looks the v-table up before anything changes, `Assign` sets the
object pointer first, `Final` is `final_virtual_ptr`, which looks nothing up and checks nothing; `Copy`
and `Cast` pass the v-table pointer on. `box_vptr` and `unbox_vptr` are the difference between direct
and indirect pointers; objects with `inplace_vptr` return their pointer by value, so that an indirect
`virtual_ptr` to one holds the address of a temporary.

**SmartVirtualPtr** - extends VirtualPtr with `virtual_ptr`s that hold a `shared_ptr` or a `unique_ptr`,
made from the program's own smart pointer or by `make_shared_virtual` and `make_unique_virtual`. The
object pointer and the v-table pointer are set, moved and exchanged in the order of the code; casts
may fail, by a null pointer or an exception. An object on the heap is destroyed with its last owner.

**InplaceVptr** - objects of a class hierarchy constructed and destroyed step by step, with one
v-table pointer per root subobject. The steps come from the C++ rules: bases in order, then
`inplace_vptr` (the last base), then the body. A body may throw. Of a program it is assumed what the
language demands: a class is defined after its bases, and no class is a direct base and a part of
another direct base of the same class.

## Runs

| Run | Module | Instance | Shows |
|---|---|---|---|
| `slots` | MCSlotAllocation | every lattice of four classes in every order, three parameters placed anywhere | no clash; the invariant of the proof; entries inside v-tables; no slot used without reason; refinement of SlotColouring |
| `compile` | MCCompiler | every graph of four classes, listed together (possibly all but one), class by class in every order, in two parts, complete or not, or by a program and a library with type ids of its own; two methods with three virtual parameters, one of which may return a class | no unknown or invented base; exact bases when bases come first (`Orderly`); complete derived classes when classes are listed with their bases (`Together`); type ids of all modules kept; the handover; unknown classes detected |
| `compile_clash` | MCCompiler | one program of four classes | violation: see Findings |
| `dispatch` | MCDispatchTables | one parameter on every graph of three classes, two and three parameters with single inheritance, two on a diamond and on a five-class graph; up to three overriders, all choices and orders; n2216 with every choice of return types | calls follow the rules whenever dominance is transitive among the applicable overriders; the best overrider is found in any case; `next` is right for one parameter or single inheritance; chains of `next` end without n2216 if dominance is transitive; with n2216 the return type decides, and a null pointer is followed only with three overriders left; the report is truthful |
| `dispatch_order`, `dispatch_next` | MCDispatchTables | pentagon; diamond | violations: see Findings |
| `call` | MCGlobalData | graphs of four classes, two orders of registration, methods with one, two and three virtual parameters, non-virtual ones before and after | nothing is written outside of `dispatch_data`; calls run the documented overrider; `next` pointers are set |
| `call_gap` | MCGlobalData | the same, with a non-virtual parameter between virtual ones | violation: see Findings |
| `methods` | MCMethodCalls | a diamond of classes, four overriders, two of them for the same class; calls two deep | overriders get arguments of their classes; `next` leads to bases; calls and `has_next` follow what is registered; undefined behaviour needs a stale pointer |
| `inplace` | MCInplaceVptr | every hierarchy of five classes with up to three bases, in every order | pointers follow construction and destruction, also after an exception, up to two bases; bodies of constructors call methods for their own class with any number |
| `inplace_bases` | MCInplaceVptr | the same with four classes | violation: see Findings |
| `registry` | MCRegistry | two classes, one of them with two type ids; all policies; one or several `static_vptr` per class; two `initialize`, with and without `finalize` between them; two `virtual_ptr`s, plain, shared or unique, and objects with and without `inplace_vptr` | lookups find the last v-tables, or report; nothing is read out of bounds; the list is a Catalogue; `initialize` ends; a `virtual_ptr` leads to the v-table of its object until the next `initialize` or `finalize`, an indirect one also after it; objects live exactly as long as they are owned, by one `unique_ptr` at most |

*Bounds.* Four classes are enough for a diamond, for two roots that share a derived class, for a
tree next to a lattice, and for the chain of three that an unlucky order of registration breaks;
three classes with a common derived class are the least that makes `assign_lattice_slots` reserve a
slot on behalf of another branch. Non-transitive dominance needs five classes and three overriders,
hence the pentagon; the null pointer of n2216 needs three overriders too. Three virtual parameters
exercise a stride that is a product. Every graph of the given size is generated; nothing is sampled.
Five classes are the least for a class with three bases over a further level. In `methods` two
overriders for one class are what makes a call ambiguous after a library is loaded, and two nested
calls (`MaxDepth`) are what an overrider and its `next` need; nothing else is bounded there. The two
overriders of one class are symmetric. In `registry` the list has the lengths 0 to 3 at which the cases of
`remove` differ; words have 6 bits, and the two multipliers are chosen so that they collide for
some sets of type ids and some sizes of the table but not for others, and so that a search fails in
some behaviours; with indirect pointers, which change what the vector stores and not the search, the hash
is over two records only; `MaxAttempts` is 1 instead of 100000, so that all four passes are reached;
`MaxEpoch` is 2, as what an `initialize` leaves is its effect on the next. Two `virtual_ptr`s to objects
of both classes are what a copy, move or cast can mix up; programs that hold them have one record per
class, and one of eight combinations of policy and kinds of pointer (`Holders`), as the hash makes no
difference to them beyond what `LookupsCurrent` says.

*Deadlock* is not checked where the system may stop: a compilation is done or aborted, an object is
gone, a registry may stay as it is, and in `methods` a program ends by `abort()` or in undefined
behaviour (there the next-state relation has no step left, and TLC is not asked to look for one).

*Fairness.* `Registry!Spec` and `SpecPtrs` have weak fairness on `HashAttempt`: `initialize()` is
sequential code that keeps running until it returns or throws, and whether its search does so is
the property `InitializeEnds`. Registration, removal, `initialize`, `finalize` and the operations
on `virtual_ptr`s are the program's choice and have none. The passes of the compiler are loops over
data that they do not extend, so nothing is stated of their end, and nothing is assumed.

## Findings

* `compile_clash`: `use_classes` instantiations that follow the documentation (each class with its
  direct bases) but run in an unlucky order leave transitive bases incomplete; slot assignment then
  gives two methods the same slot in one v-table.
* `dispatch_order`: with multiple inheritance, dominance is not transitive and overriders are
  eliminated while they are compared; whether a call is ambiguous depends on the order of
  registration.
* `dispatch_next`: `next` is one pointer per overrider, but the documented `next` depends on the
  arguments; the last cell wins.
* `call_gap`: with a non-virtual parameter between virtual ones, `resolve_multi_next` stops too
  early and does not look at the last virtual argument.
* `inplace_bases`: with three bases or more, `~inplace_vptr` casts every base after the second to the
  second, so destructors of bases dispatch on the wrong class.

For each, a conditional form of the property holds and is checked in a passing run; the condition
is the border of the defect. Methods that `resolve_multi_next` handles wrongly are in no passing
run; programs that are not `Orderly` are, with the weaker guarantees that hold for them.

More border cases are conditions of properties, or were met while reading the code:

* With n2216 and three overriders that do not dominate each other, the scan over return types sets
  `candidates[i]` to null, does not leave the inner loop, and follows it for the next `j`
  (initialize.hpp:1241). Two that return the same class are enough, as `is_base_of` holds of a class
  and itself. `CrashOnlyWithThree` says that nothing less does it. And `next` then skips all the
  overriders that are not dominated, not only the one that is called. With one virtual parameter, eight
  classes and four overriders, two overriders can be each other's `next`, so that a chain of `next` does
  not end; `NextChainsEnd` is about compilations without n2216, and the instances of `dispatch` are
  too small to meet it.
* In a `vptr_map` that is initialized a second time without `finalize`, `emplace` keeps the old
  pointer, although doc/initialize.adoc says that no `finalize` is needed in between. What it keeps
  is out of date if it is a pointer to a v-table, or the address of the `static_vptr` of one module:
  `LookupsCurrent` and `ValidUntilInitialize` leave these out (`MapStale`). They do hold, and are
  checked and proved, with `indirect_vptr` and one `static_vptr` per class, however often
  `initialize` is called, and with direct pointers after a `finalize`. `UnknownReported` leaves out
  all maps that were not cleared, which still know the type ids of the former calls.
* `Ready` requires that the last `initialize` succeeded: after a hash search that threw, `initialized`
  may still be true from before and lookups go through the factors of the failed search.
* With a `static_vptr` in each module, only that of the module whose record comes first is written
  (initialize.hpp:366). Lookups through other modules' type ids still find it; when that module goes,
  indirect pointers lead to a variable that is not there (`VariableKept`). In the other modules
  `final_virtual_ptr` takes a `static_vptr` that stays null: `IndirectStaysValid` and
  `ValidUntilInitialize` are about classes with one.
* After a hash search that threw, lookups go through the factors of that search into the vector of an
  earlier one, where they can meet null entries. With indirect pointers such an entry would be
  followed; `LookupDefined` leaves those lookups out.
* An assignment to a `virtual_ptr` whose lookup throws has set the object pointer already
  (core.hpp:901, 951, 1471): `ValidUntilInitialize` excepts that step (`AssignThrew`).
* An indirect `virtual_ptr` to an object with `inplace_vptr` holds the address of a temporary
  (core.hpp:524): `IndirectStaysValid` is about the others.
* An overrider that another one for the same class makes ambiguous keeps the `next` of the former
  tables, or null (initialize.hpp:1130): `UndefinedOnlyIfStale` excepts `Superseded` overriders.
  core.hpp:2140 says that `next` is null "if no such overrider exists"; in the other cases the
  compiler sets it to a function that reports the error, and `has_next` (core.hpp:2558) compares with
  those only, so that it is true of a `next` that is null.
* `report.cells` (initialize.hpp:885) counts the cells of dispatch tables only, not those of v-tables as
  doc/initialize.adoc:26-27 says. The arity in a call error is the number of arguments after the
  first (core.hpp:1889), not "the number of virtual arguments" (detail/types.hpp:112).
  `check_static_offset` reports `slots_strides[0]` as the expected value of any offset (core.hpp:2383).

## Proofs

Proof modules extend what they are about. `FoldProofs` has lemmas on the library's operators that two
of them need: folds over sequences and sets, concatenation, least and greatest elements, cardinality.

For any classes, modules, programs and methods (`CompilerProofs`):

* `NoRelationIsInvented`: `Spec => []RelationsSound`.
* `BasesAreTrue`: `Spec => []BasesExact`.
* `NoDerivedIsMissing`: `Spec => []DerivedComplete`.
* `NoTypeIdIsLost`: `Spec => []TypeIdsKept`.
* `UnknownClassesStop`: `Spec => []UnknownClassDetected`.
* `HandoverIsSound`: `Spec => []WellFormedHandover`.
* `TablesStayTyped`: `Spec => []TypeOK`.

For any classes and parameters and any well-formed lattices:

* `SlotAllocationProofs!TypeCorrect`: `Spec => []TypeOK`.
* `SlotAllocationProofs!SlotsReservedInBases`: `Spec => []SlotInv`.
* `SlotAllocationProofs!SlotsNeverClash`: `Spec => []NoSlotClash`.
* `SlotAllocationProofs!SlotsAreAColouring`: `Spec => ImplementsColouring`.
* `SlotAllocationProofs!UsedSlotsStayJustified`: `Spec => []UsedSlotsJustified`.
* `SlotAllocationProofs!EntriesStayInBounds`: `Spec => []EntriesInBounds`.

For any lattice of classes, and a method with any number of parameters and overriders
(`DispatchTablesProofs`):

* `BestIsCalled`: `Spec => []BestOverriderCalled`.
* `CallsAreDocumented`: `Spec => []CallsDocumentedIfTransitive`.
* `NextIsDocumented`: `Spec => []NextDocumentedIfSimple`.
* `ChainsOfNextEnd`: `Spec => []NextChainsEnd`.
* `N2216IsDocumented`: `Spec => []N2216Documented`.
* `CrashNeedsThree`: `Spec => []CrashOnlyWithThree`.
* `ReportIsFaithful`: `Spec => []ReportFaithful`.

For any classes, modules and programs, and methods with any virtual parameters, the whole of
`initialize()` and the calls after it (`GlobalDataProofs`):

* `NothingWrittenPastTheEnd`: `SpecGlobals => []DataFits`.
* `NextOfEveryOverriderRun`: `SpecGlobals => []NextPointersSet`.
* `CallsRunWhatIsDocumented`: `SpecGlobals => []CallsRunDocumentedIfAdjacent`.

For any lattice of classes, any overriders and any depth of calls:

* `MethodCallsProofs!Invariance`: `Spec => []Inv`, the inductive invariant.
* `MethodCallsProofs!CastsAreRight`: `Spec => []ArgumentsAccepted`.
* `MethodCallsProofs!NextLeadsToBases`: `Spec => []NextAscends`.
* `MethodCallsProofs!CallsAreCurrent`: `Spec => []CallsCurrent`.
* `MethodCallsProofs!UndefinedNeedsStalePointers`: `Spec => UndefinedOnlyIfStale`.

For any nodes, classes, type ids and policies:

* `RegistryProofs!StaysLinked`: `SpecList => []IsList`, where `IsList` says that the pointers are
  those of some sequence.
* `RegistryProofs!RegistryLinked`: `Spec => []IsList` for Registry, whose every step is a step of the
  list or leaves it alone.
* `RegistryProofs!ListIsCatalogue`: `Spec => ImplementsCatalogue`, the refinement.
* `RegistryProofs!LifeInvariant`: `Spec => []LifeInv`, the inductive invariant.
* `RegistryProofs!RegistryStaysTyped`: `Spec => []TypeOK`.
* `RegistryProofs!LookupsStayCurrent`: `Spec => []LookupsCurrent`.
* `RegistryProofs!UnknownAreReported`: `Spec => []UnknownReported`.
* `RegistryProofs!LookupsStayInBounds`: `Spec => []LookupsInBounds`.

For any programs whose smart pointers are all of one kind:

* `RegistryProofs!HeapIsOwned`: `SpecPtrs => []HeapOwned`.
* `RegistryProofs!UniqueOwnsAlone`: `SpecPtrs => []SoleOwner`.
* `RegistryProofs!PtrsStayTyped`: `SpecPtrs => []PtrsTypeOK`.
* `RegistryProofs!IndirectPtrsStayValid`: `SpecPtrs => []IndirectStaysValid`.
* `RegistryProofs!PtrsValidUntilInitialize`: `SpecPtrs => ValidUntilInitialize`, about every step.

For any hierarchies without virtual bases, of any depth and with repeated subobjects:

* `InplaceVptrProofs!InplaceInvariant`: `Spec => []InplaceInv`, the inductive invariant.
* `InplaceVptrProofs!PointersAlwaysFollow`: `Spec => []PointersFollowConstructionUpToTwo`.
* `InplaceVptrProofs!BodiesAlwaysSeeTheirClass`: `Spec => []BodiesSeeTheirClass`.

### Classes

The assumptions are what C++ and a build guarantee: there are finitely many classes, derivation is
transitive and irreflexive, every instantiation of `use_classes` lists at least one class, and the
overriders of a method have as many classes as the method has virtual parameters. Nothing is assumed of
the order of records, or of what is listed where.

`ClassInv` says of each table what it holds for the records *seen so far*: the classes and type ids are
those of the records registered, the bases of a record that was collected are in the table, no base is
one that the program does not have. Soundness follows at once. Completeness of the bases does not: a
record may be collected before one that knows more. `OrderInv` says when nothing is missing: for any
choice of instantiations in which each class is listed with its direct bases, after those chosen for
them, no base of a class is missing once the record of its chosen instantiation is done. The step is an
induction over the hierarchy, made by taking a lowest counterexample. The order of the records within one
instantiation is open, so that the statement is about any assignment of instantiations to records that
explains them (`IsArrangement`). The direct bases come out of a sort and a marking of bases of bases;
`IsDirect` says that what remains are the bases that are bases of no other, which needs that a base has
fewer bases than what derives from it, so that the sort puts it later. For derived classes the
recursive function is characterised twice, by its equation and as the least set closed under direct
derivation (`DerivedInv`): the first gives that nothing is missing, by a highest counterexample, the
second that nothing is invented.

`PassInv` says that methods passed over mention only known classes; that an overrider's class is
looked up in the table of classes makes an abort the same as an unknown class. For `HandoverIsSound`
exact bases give that the lattice is closed and acyclic, that what is below a tree's root has a single
direct base, so that branches are apart, and that every class is below a root.

### Slots

The assumptions are those of the module: `NoClass` is no class, `Unassigned` no natural number, and
every lattice in `Lattices` is `WellFormed`: closed under derivation and acyclic, with each parameter
listed once, with trees apart from what is below the other roots, with branches that share no class, and
with nothing out of reach: every class is below a root, and direct derivation leads to all derived
classes. `HandoverIsSound` proves that this is what augment_classes and augment_methods hand over, if
`use_classes` comes in order; `compile_clash` shows what happens if it does not. For the two passes in
sequence see "The whole of initialize()".

*Why the invariant is needed.* `NoSlotClash` is not inductive: that two parameters differ says
nothing about where the next one goes. For lattices the strengthening is that an assigned slot is
in `used_slots` of every class that can be passed for it *and* in `reserved_slots` of all the bases
of those classes. A new parameter at class C takes a slot that is in neither set of C; had a
parameter at D the same slot and a class E in common with C, C would be a base of E (or E itself),
so the slot would be reserved or used in C. For trees nothing is recorded in the sets; there the
invariant says that everything below a pending call of the agenda is still without slots, that the
pending calls are for classes without common derived classes, and that a slot assigned at a base is
below the `base_slot` of the call. `SlotInv` is the conjunction of these parts, each named, and the
proof has one lemma per action. It is checked by TLC too, in run `slots`.

That the pass implements SlotColouring needs one fact more: no parameter is met twice, or a step would
take its slot back. `OnceInv` says so: the pending parameters are different and have no slot, below a
pending call of a tree no parameter has one, and elsewhere only parameters of marked classes have one.
It rests on the lattice being acyclic and on `used_by_vp` listing each parameter once, both
parts of `WellFormed`.

That every entry is in bounds needs, beyond that, that the traversals leave nothing out: `EntriesInv`.
In a tree, a class of the root is either below a visit that is still to come, or has a v-table of the
final size (`TreeProgress`); that size counts the slots of the bases, because a base has its turn
before the classes that derive from it (`BasesFirst`), which in turn holds because what is above a
class in a tree is above its one direct base (`AboveDirectBase`). Elsewhere the marked classes and
those of the agenda are closed under direct derivation (`LatticeProgress`), so that when the agenda is
empty everything below the root is marked. The two kinds do not meet: no class of a tree has
`used_slots` (`TreesUnused`), so the second loop leaves its v-table alone. `AllReached`, the last part
of `WellFormed`, states transitive closure as a least set, which makes induction over paths a matter of
naming a set.

The type invariant's one non-trivial part is that a v-table size, computed as last used slot plus
one minus first used slot, is a natural number; it rests on facts about `Min` and `Max` of finite
sets of naturals, proved as lemmas.

### Dispatch tables

Three assumptions: derivation is a partial order, overriders are well-typed for the method (`IsMethod`),
and the pointers that stand for errors and null are different from each other and from overriders.

`TablesInv` says what is done so far. Groups: in each dimension finished, a group has the classes that
the same overriders accept, its mask is those overriders, no group is empty, and the entry of a class is
the number of its group. Cells: each of the first *k* has what selection makes of the overriders in all
the masks of its indices; the counters of the report are positive exactly if one of these cells is an
error; each `next` comes from one of them. Two lemmas carry this to calls: indices and cell numbers
correspond, whatever the strides (a function of the dimensions, by induction over them), so that the
cell that a call reads was made for the overriders applicable to its classes, and every cell is read by
some call, because no group is empty.

What the scans select is a fold over the candidates. The lemmas say of every prefix of the fold which
candidates remain: one that no other candidate dominates is never removed; one that dominates
all others removes them all (`BestIsCalled`, with any order and any lattice); and where dominance is
transitive, one that was removed was removed by, or on behalf of, one that remains, which makes the
survivors the undominated ones and the order irrelevant (`CallsAreDocumented`). Without
transitivity that is false: `dispatch_order`. The second scan of n2216 follows the first, on candidates
some of which are null: two candidates leave no comparison after the first null, hence
`CrashNeedsThree`; a comparison needs a survivor, hence `N2216IsDocumented`.

For `ChainsOfNextEnd`, each overrider dominates its `next`, and a finite set on which a transitive and
irreflexive relation has no minimal element is empty. `NextIsDocumented` shows that when the method has one
parameter or classes have single bases, all the cells that select an overrider have the same `next`: the
overriders for other classes above one class form a chain.

### The whole of initialize()

The assumptions are those of the classes, that every method has a virtual parameter and says which of
its parameters are virtual (`ParametersAssumption`), and that `NoClass` is no class, `Unassigned` no number,
and the pointers that stand for errors, null and garbage differ from each other and from overriders.

`CallInv` follows the words from the passes to the call. It assumes first what `compile` leaves,
`CompiledWell`: the groups of the classes of a call lead to a cell within the table of the method, the cell
holds what the rules select, and, if `use_classes` comes in order, the slots of two parameters with a class
in common differ and are within its v-table (`SlotsApart`). On that it builds, loop by loop:

* `StageInv` and `TablesMade`: how far the loops are, and that the tables made are those of the groups.
* `VtablesInv`: after the loop over methods, each v-table has the entry of each parameter where its slot
  says. A later entry could overwrite it; `SlotsApart` says that none does.
* `RoomLeft`: `gv_iter` is at most the sum of the sizes of the tables and v-tables written so far, and the
  size of the vector is the sum of all of them, a fold of which `SumIs` says what its partial sums are.
  `DataFits` follows.
* `NextInv`: the function words of `dispatch_data` come out of tables (`WordsFromTables`), and the
  `next` found for an overrider is written to its pointer (`NextData`). If slots clash a call may read a
  wrong word, but none that comes from elsewhere, so that `NextPointersSet` needs no order of `use_classes`.
* `DataInv`: what was written is where it was written (`Holds`), and not written over.

Reading it back, `ArgumentsRead` finds the virtual arguments, which follow one another, by counting;
`EntryIsRead` finds the word of a parameter in the v-table of a class; `MultiRuns` follows the recursion of
`resolve_multi` along the path of group indexes times strides (`IsPath`), to the cell.

That `compile` does leave `CompiledWell` comes last, from the proofs about the passes. `SlotsInv` carries the
invariants of SlotAllocationProofs through the steps of `compile` (instance `SP`), started by what
CompilerProofs says of the hand-over. The proofs of DispatchTablesProofs are about one method, and a
parameterised instance has no facts to cite: they are instantiated (`TD`) with `BadMethod`, a method
whose tables would not work if there were one, and show that they do.

### Calls

None of the properties is inductive: that the running overriders got arguments of
their classes says nothing of the next call. `Inv` adds what the tables promise: a v-table entry that
is an overrider accepts its class (`TableSound`), a `next` that is an overrider is for a proper base
(`NextSound`), whichever `initialize` wrote them; both are of modules that are still there, because the
entries of an overrider that goes become garbage; and as long as nothing was registered or removed
since `initialize`, no entry is garbage (`Fresh`). `InitializeSound` carries the weight, through two
lemmas on the selection: `AloneIsSelected`, an overrider without rival for its class is selected for
it, and `OthersAscend`, what is best of the others at its class is for a proper base. For
`CallsAreCurrent` a second invariant says that until the next registration or removal the tables are
those that `Initialize` wrote for what is registered now (`Written`). The assumptions
are that derivation is a partial order and that errors and garbage are no overriders.

### Lists

`Linked(s)` is itself inductive once the sequence is named: `PushBackAppends` shows that
`push_back` leads from `Linked(s)` to `Linked(Append(s, n))`, `RemoveDrops` that `remove` leads to `s`
without the element, with one step per case of the code, and `ClearEmpties` that the loop of `clear`
meets every node. The only assumption is that the null pointer is no node. A loop over the list is a
recursive function on its nodes, which `RecordsAre` shows to be that sequence; so the list is a
Catalogue.

### Lookups

The assumptions are that type ids are numbers of a word and differ from each other and from the one that
marks an empty bucket (`RecordsAssumption`), that multipliers are odd, and that classes are so few that
even the largest table of the search has a size that is a power of two within a word
(`SizeAssumption`): otherwise the shift would be negative.

`LookupsCurrent` says nothing of a registry that is not `Ready`, and so is not inductive. `LifeInv` has
what the next `initialize` needs as well. `StaticsKept(V)` names, for each class of the last `initialize`,
the variable that it wrote: that variable has the current v-table as long as one of the records it belongs
to is there, although it is reset when the class comes back after all of them had gone. `Stored(V)`
says what each policy has for a class: the vector, at its type ids; the map, only if `finalize` has
emptied it before, or (`MapLasts`) if what it stores is the address of a variable that the class has for
good; the hash, only if the search has found a multiplier, because the table is resized by
every pass of a search that may then fail, while the vector is not. `HashInv` ties the shift to the size
of the table, by which the index of *any* type id is within it (`IndexFits`: what is left of a product
modulo 2^w after a shift by w - M is below 2^M), and has the type ids of a search that is under way.
That no two registered type ids share a bucket is what ends the search, so the proof needs no number
theory: a collision only leads to the next attempt. The bounds may be wider than the entries, as failed
attempts move them; `check` then meets a bucket that is empty, or holds another type id, and reports:
`UnknownReported`. `LookupsInBounds` needs that the bounds are within the table, and the vector as long
as the upper one.

### virtual_ptrs

`HeapOwned` and `SoleOwner` are inductive together, with the shape of a virtual_ptr:
each step gives one smart virtual_ptr an object (`OneOwns`), hands one over (`OneHandsOver`), creates
one (`NewOwned`), or changes no owner (`NoneOwns`). A program that mixes shared_ptrs and unique_ptrs is
excluded by `PtrAssumption`.

For where virtual_ptrs lead, `PtrInv` adds to `LifeInv` that an entry of a policy is null or the address
of the variable of a record (`EntriesInv`), that a variable has a v-table of its own class
(`StaticsNamed`), and that this is all a virtual_ptr can hold (`HeldInv`). The many steps of
virtual_ptrs differ little in this respect: `Moves` says that each of them leaves the registry alone, and
that what it writes to a virtual_ptr is one of six things (`Given`): what another one has, or its v-table
pointer without an object; null; the `static_vptr` of the object's class; what a lookup finds; or an object
whose lookup has failed. `PlainMoves` and `SmartMoves` show it of each step, `MovesKeep` and
`MovesValid` use it. For an indirect pointer the variable is all that matters: it has the v-table of
the last `initialize`, whenever its address was taken. For a direct one, `LookupsCurrent`
says that what is looked up between two calls of `initialize` is what was there before. Of the steps of
the registry only the return of a class writes to a `static_vptr` without an `initialize`; that it is
nobody's, because the class of an object is there, is where `StaticsNamed` is needed.

### inplace_vptr

The definitions are recursive over the hierarchy: the roots in a class, the steps of its construction,
the first base of the first base. That such functions exist at all is `HierarchyRecursion`, by a least
relation closed under the recursion and a minimal counterexample, and is where the proof uses that a
class is defined after its bases. With it, subobjects are paths from a class to a base of a base:
`RootsArePaths` says that the root subobjects of a class are exactly the paths to a class without bases,
`RootsInsideAre` that those in a subobject are exactly those that continue its path.

Of the steps, `StepsAreGood` says all that matters: they are on paths, every path has a step for its
`inplace_vptr`, followed by that of its body, and a subobject comes before those it is in, so that the
steps on the way to one root come from the inside to the outside (`OrderOnPath`). `ExpectedStep` reads
off what one step more or less does to the class that a pointer should name.

The invariant is `InplaceTypeOK` and `FollowsWhileDefined`: every pointer names the class it should, in
the phases `constructing` and `alive` for any number of bases, and in the others if no class has more
than two. A constructor sets all pointers in a subobject at once, so the order of bases is of no account;
the destructor of `inplace_vptr` sets them base by base. `ResetFold` follows that loop: with two
bases, each pointer is set by the iteration for the base it is in and by no other, as the bases have no
part in common by position. With three, the finding, it is not. A body calls methods through the
pointer of the first base, a root in it (`FirstIsRoot`), and the other properties follow.

### Only model-checked

Liveness (`InitializeEnds`): fairness and ENABLED are beyond the prover. The violations
are TLC's. Every invariant and action property that a run checks and finds to hold is a theorem too.

`UNION A \cup B` is read as `(UNION A) \cup B` by one tool and as `UNION (A \cup B)` by another; where
both occur the modules have parentheses.

## Not modelled

* Static offsets (`static_offsets<method>`), marked "for future use" in detail/types.hpp.
* In GlobalData, the way from an object to its v-table pointer: a call starts from the static v-table
  pointer of the class of each virtual argument. That way is the subject of Registry and VirtualPtr.
* In Registry, methods and overriders, whose lists work like that of the classes, and errors of the
  passes before the search; an unregistered class is in Compiler, with the outcome `aborted`, and in
  MethodCalls, with what it leaves.
* In MethodCalls, methods with several virtual parameters, whose tables are in DispatchTables and
  GlobalData, and n2216, where an ambiguous call picks an overrider.
* The registry without `runtime_checks`, where lookups of unknown types have no defined result.
* Virtual bases with `inplace_vptr`: where one is constructed depends on the most derived class, which
  InplaceVptr's steps do not carry.
* In VirtualPtr, classes that are not polymorphic and the uninitialized state
  of a default-constructed plain pointer. A program does not assign a null
  smart pointer through `operator=(const Other&)`, which would dereference it (core.hpp:1473), nor look
  up a type inside of a `vptr_vector` without hash that is not registered, or follow a null entry that
  a failed search left: none of these has a defined outcome.
* The contents of error objects, and the exchange of handlers by `set_error_handler`.
* RTTI policies, which turn types into the values that the models call type ids; `type_index` is
  the class of a type id in ClassLattice.
* Tracing, report formatting, the choice between static and dynamic casts, macros.

## What could follow

1. Virtual bases in InplaceVptr.
2. n2216 in Compiler and GlobalData, whose calls are proved about without it.
