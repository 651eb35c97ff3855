--------------------------- MODULE DispatchTables ---------------------------
(***************************************************************************)
(* The fourth pass of the registry compiler, for one method:               *)
(* build_dispatch_tables.  For each virtual parameter, the classes that can*)
(* be passed are grouped by the set of overriders they are applicable to.  *)
(* The dispatch table has one cell per combination of groups; its cells are*)
(* filled one after the other, the groups of the first parameter varying   *)
(* fastest.  A cell holds an overrider, or one of two functions that report*)
(* an error: not_implemented and ambiguous.  While a cell is filled, the   *)
(* overrider it selects also gets its `next`.                              *)
(*                                                                         *)
(* Simplifications: overriders are numbered in the order in which they were*)
(* registered (spec_index plus one), a mask is the set of the overriders   *)
(* whose bit it sets, the vtbl entries hold only their group, and the      *)
(* candidates for a cell are all the overriders, those that are not in its *)
(* mask being null from the start: the code skips null candidates.         *)
(***************************************************************************)
EXTENDS Integers, Sequences, FiniteSets, FiniteSetsExt, Functions

CONSTANTS
    Class,              \* the classes
    Methods,            \* the inputs: see IsMethod
    not_implemented,    \* the two synthetic overriders,
    ambiguous,
    Null,               \* the null pointer,
    crash               \* and what comes of following it

(* transitive_derived and abstract come from augment_classes: no class     *)
(* derives from one that is not registered.  vp and specs are the classes  *)
(* of the virtual parameters of the method and of each of its overriders,  *)
(* registered ones, as augment_methods has checked.  n2216 says whether the*)
(* registry has that policy.  If the method returns a registered class, so *)
(* does every overrider (see augment_methods in Compiler): returns has     *)
(* their classes, else it is empty.                                        *)
IsMethod(m) ==
    LET Registered == {c \in Class : c \in m.transitive_derived[c]}
    IN /\ m.transitive_derived \in [Class -> SUBSET Registered]
       /\ \A c \in Class : \A d \in m.transitive_derived[c] :
            /\ m.transitive_derived[d] \subseteq m.transitive_derived[c]
            /\ c \in m.transitive_derived[d] => c = d
       /\ m.abstract \subseteq Class
       /\ m.vp \in Seq(Registered) /\ m.vp # <<>>
       /\ m.specs \in Seq(Seq(Registered))
       /\ \A s \in DOMAIN m.specs : DOMAIN m.specs[s] = DOMAIN m.vp
       /\ m.n2216 \in BOOLEAN
       /\ m.returns = <<>> \/ m.returns \in [DOMAIN m.specs -> Registered]

ASSUME MethodsAssumption == \A m \in Methods : IsMethod(m)

(* No two of these are the same pointer, and none is one of an overrider.  *)
ASSUME PointersAssumption ==
    /\ \A p \in {not_implemented, ambiguous, Null, crash} : p \notin Nat
    /\ not_implemented \notin {ambiguous, Null, crash}
    /\ ambiguous \notin {Null, crash}
    /\ Null # crash

VARIABLES
    method,          \* the method; never changes
    pc,              \* "groups", "cells", "done" or "crashed"
    dim,             \* virtual parameter whose groups are made next
    groups,          \* dim -> sequence of [mask, classes, has_concrete_classes]
    entries,         \* dim -> class -> group_index: what goes in the v-tables
    dispatch_table,  \* sequence of overriders
    next,            \* overrider -> overrider
    report           \* [cells, not_implemented, ambiguous]

vars == <<method, pc, dim, groups, entries, dispatch_table, next, report>>

arity == Len(method.vp)
Overrider == DOMAIN method.specs

Covariant(c) == method.transitive_derived[c]

(* a is a class that derives from b.                                       *)
Derives(a, b) == a # b /\ a \in Covariant(b)

(* Mutant of is_more_specific: more specific in some parameter.            *)
is_more_specific_somewhere(a, b) ==
    \E i \in 1 .. arity : Derives(method.specs[a][i], method.specs[b][i])

(* Mutant of is_more_specific: the overriders exchanged.                   *)
is_less_specific(a, b) ==
    /\ \E i \in 1 .. arity : Derives(method.specs[b][i], method.specs[a][i])
    /\ \A i \in 1 .. arity : ~ Derives(method.specs[a][i], method.specs[b][i])

is_more_specific(a, b) ==
    /\ \E i \in 1 .. arity : Derives(method.specs[a][i], method.specs[b][i])
    /\ \A i \in 1 .. arity : ~ Derives(method.specs[b][i], method.specs[a][i])

-----------------------------------------------------------------------------
(* Groups.                                                                 *)

(* The overriders applicable to class c in dimension d.                    *)
Mask(d, c) == {s \in Overrider : c \in Covariant(method.specs[s][d])}

(* The order of the keys of the map: masks as binary numbers.              *)
MaskLess(a, b) == a # b /\ Max((a \ b) \cup (b \ a)) \in b

(* Mutant of GroupedClasses: classes that cannot be passed are grouped too.*)
EveryClass(d) == Class

GroupedClasses(d) == Covariant(method.vp[d])

Masks(d) == {Mask(d, c) : c \in GroupedClasses(d)}

(* The place of a mask among those of dimension d, counted from zero.      *)
GroupIndex(d, mask) == Cardinality({m \in Masks(d) : MaskLess(m, mask)})

(* The group of the classes of dimension d that have a mask.               *)
Group(d, mask) ==
    LET classes == {c \in GroupedClasses(d) : Mask(d, c) = mask}
    IN [mask                 |-> mask,
        classes              |-> classes,
        has_concrete_classes |-> \E c \in classes : c \notin method.abstract]

(* The groups of dimension d, in the order of their masks.                 *)
MakeGroups(d) ==
    [g \in 1 .. Cardinality(Masks(d)) |->
       Group(d, CHOOSE mask \in Masks(d) : GroupIndex(d, mask) = g - 1)]

(* Number of groups in dimension d.                                        *)
Extent(d) == Len(groups[d])

(* Number of cells for the first k dimensions.                             *)
CellsUpTo(k) ==
    LET cells[d \in 0 .. arity] == IF d = 0 THEN 1 ELSE cells[d - 1] * Extent(d)
    IN cells[k]

(* The distance between two cells that differ by one in dimension d.       *)
Stride(d) == CellsUpTo(d - 1)

(* Mutant of GroupOfCell: no stride.                                       *)
GroupWithoutStride(n, d) == n % Extent(d)

(* The group (counted from zero) in dimension d of cell number n.          *)
GroupOfCell(n, d) == (n \div Stride(d)) % Extent(d)

Cells == CellsUpTo(arity)

Init ==
    /\ method \in Methods
    /\ pc = "groups"
    /\ dim = 1
    /\ groups = <<>>
    /\ entries = <<>>
    /\ dispatch_table = <<>>
    /\ next = [s \in DOMAIN method.specs |-> Null]
    /\ report = [cells |-> 0, not_implemented |-> 0, ambiguous |-> 0]

(* Make the groups of one parameter, and give each class its group index.  *)
GroupClasses ==
    /\ pc = "groups"
    /\ groups' = Append(groups, MakeGroups(dim))
    /\ entries' =
         Append(entries,
                [c \in GroupedClasses(dim) |->
                   (CHOOSE g \in DOMAIN groups'[dim] : c \in groups'[dim][g].classes) - 1])
    /\ dim' = dim + 1
    /\ pc' = IF dim = arity THEN "cells" ELSE pc
    /\ UNCHANGED <<method, dispatch_table, next, report>>

-----------------------------------------------------------------------------
(* Selection.  Candidates are sequences of overriders with null entries.   *)

(* Compare two candidates, if both are still there: the less specific one  *)
(* is removed.                                                             *)
Compare(candidates, i, j) ==
    LET a == candidates[i]
        b == candidates[j]
    IN CASE a = Null \/ b = Null   -> candidates
         [] OTHER ->
              IF is_more_specific(a, b) THEN [candidates EXCEPT ![j] = Null]
              ELSE IF is_more_specific(b, a) THEN [candidates EXCEPT ![i] = Null]
              ELSE candidates

(* Compare the i-th candidate with those after it: the inner loop.         *)
CompareWithNext(candidates, i) ==
    LET left[k \in 0 .. Len(candidates) - i] ==
          IF k = 0 THEN candidates ELSE Compare(left[k - 1], i, i + k)
    IN left[Len(candidates) - i]

(* Compare all the candidates with each other: the outer loop.             *)
Sift(candidates) ==
    LET left[i \in 0 .. Len(candidates)] ==
          IF i = 0 THEN candidates ELSE CompareWithNext(left[i - 1], i)
    IN left[Len(candidates)]

Remaining(candidates) == {s \in Range(candidates) : s # Null}

(* The return type of a is the same as that of b, or a base of it.         *)
is_base_of(a, b) == method.returns[b] \in Covariant(method.returns[a])

(* Mutant of CompareReturns: the overrider that returns the base stays.    *)
CompareReturnsReversed(candidates, i) ==
    [j \in DOMAIN candidates |->
        IF /\ j > i /\ candidates[i] # Null /\ candidates[j] # Null
           /\ is_base_of(candidates[i], candidates[j])
        THEN Null ELSE candidates[j]]

(* Mutant of CompareReturns: the pointer is cleared before it is used.     *)
CompareReturnsEarly(candidates, i) ==
    IF \E j \in DOMAIN candidates : j > i /\ Null \notin {candidates[i], candidates[j]}
    THEN [j \in DOMAIN candidates |-> crash]
    ELSE candidates

(* n2216: compare the return type of the i-th candidate with those of the  *)
(* candidates after it.  When that removes the i-th candidate itself, the  *)
(* loop goes on to the next one and follows the null pointer.              *)
CompareReturns(candidates, i) ==
    LET others     == {j \in DOMAIN candidates : j > i /\ candidates[j] # Null}
        covariant  == {j \in others : is_base_of(candidates[i], candidates[j])}
        compared   == {j \in others : \A k \in covariant : j < k}
    IN IF candidates[i] \in {Null, crash} THEN candidates
       ELSE IF \E k \in covariant, j \in others : k < j THEN [j \in DOMAIN candidates |-> crash]
       ELSE [j \in DOMAIN candidates |->
               IF \/ j = i /\ covariant # {}
                  \/ j \in compared /\ is_base_of(candidates[j], candidates[i])
               THEN Null ELSE candidates[j]]

SiftReturns(candidates) ==
    LET left[i \in 0 .. Len(candidates)] ==
          IF i = 0 THEN candidates ELSE CompareReturns(left[i - 1], i)
    IN left[Len(candidates)]

(* Only the candidates that no other one dominates are left and, with n2216*)
(* and if there are several, among those only the ones that return the most*)
(* specific classes.                                                       *)
select_dominant_overriders(candidates) ==
    LET dominants == Sift(candidates)
    IN IF method.n2216 /\ method.returns # <<>> /\ Cardinality(Remaining(dominants)) > 1
       THEN SiftReturns(dominants)
       ELSE dominants

(* pick is the index of the last candidate left.                           *)
Picked(candidates) == candidates[Max({i \in DOMAIN candidates : candidates[i] # Null})]

(* What select_dominant_overriders leaves comes to: an overrider, or an    *)
(* error.                                                                  *)
Selected(dominants) ==
    LET remaining == Remaining(dominants)
    IN IF remaining = {} THEN not_implemented
       ELSE IF Cardinality(remaining) > 1 /\ ~ method.n2216 THEN ambiguous
       ELSE Picked(dominants)

(* The overriders in a mask, in order, with nulls for the others.          *)
Candidates(mask) == [s \in Overrider |-> IF s \in mask THEN s ELSE Null]

Increment(counter, condition) == IF condition THEN counter + 1 ELSE counter

(* The overriders in a mask that are not dominated.                        *)
Dominants(mask) == select_dominant_overriders(Candidates(mask))

(* Mutant of NextOf: the overriders stay among the candidates.             *)
NextOrItself(mask) == Selected(Dominants(mask))

(* All the overriders that are not dominated are taken out, and the best of*)
(* the others is next.                                                     *)
NextOf(mask) == Selected(Dominants(mask \ Remaining(Dominants(mask))))

(* The overriders applicable to the classes of all the groups of a cell.   *)
MaskOfCell(n) ==
    {s \in Overrider : \A d \in 1 .. arity : s \in groups[d][GroupOfCell(n, d) + 1].mask}

OverriderOfCell(n) == Selected(Dominants(MaskOfCell(n)))

(* Fill the next cell.  If it selects an overrider, this gets its `next`,  *)
(* whatever an earlier cell made of it.  With n2216 an overrider is picked *)
(* even if others are as good, which counts as ambiguous in the report.    *)
FillCell ==
    /\ pc = "cells"
    /\ Len(dispatch_table) < Cells
    /\ LET mask      == MaskOfCell(Len(dispatch_table))
           overrider == OverriderOfCell(Len(dispatch_table))
           following == IF overrider \in Overrider THEN NextOf(mask) ELSE Null
       IN /\ crash \notin {overrider, following}
          /\ dispatch_table' = Append(dispatch_table, overrider)
          /\ report' = [report EXCEPT
                          !.not_implemented = Increment(@, overrider = not_implemented),
                          !.ambiguous = Increment(@, Cardinality(Remaining(Dominants(mask))) > 1)]
          /\ next' = IF overrider \in Overrider
                     THEN [next EXCEPT ![overrider] = following]
                     ELSE next
    /\ UNCHANGED <<method, pc, dim, groups, entries>>

(* A null pointer is followed, for the cell or for its `next`.             *)
Crash ==
    /\ pc = "cells"
    /\ method.n2216
    /\ Len(dispatch_table) < Cells
    /\ crash \in {OverriderOfCell(Len(dispatch_table)),
                  NextOf(MaskOfCell(Len(dispatch_table)))}
    /\ pc' = "crashed"
    /\ UNCHANGED <<method, dim, groups, entries, dispatch_table, next, report>>

(* The dispatch table is complete; only multi-methods report its size.     *)
TableDone ==
    /\ pc = "cells"
    /\ Len(dispatch_table) = Cells
    /\ report' = IF arity > 1 THEN [report EXCEPT !.cells = Cells] ELSE report
    /\ pc' = "done"
    /\ UNCHANGED <<method, dim, groups, entries, dispatch_table, next>>

Next == GroupClasses \/ FillCell \/ Crash \/ TableDone

Spec == Init /\ [][Next]_vars

-----------------------------------------------------------------------------
(* The documented selection (core.hpp:2012-2034), for the classes of the   *)
(* virtual arguments of a call.                                            *)
Calls == {t \in [1 .. arity -> Class] : \A i \in 1 .. arity : t[i] \in Covariant(method.vp[i])}

Applicable(t) == {s \in Overrider : \A i \in 1 .. arity : t[i] \in Covariant(method.specs[s][i])}

Dominates(a, b) ==
    /\ \E i \in 1 .. arity : Derives(method.specs[a][i], method.specs[b][i])
    /\ ~ \E i \in 1 .. arity : Derives(method.specs[b][i], method.specs[a][i])

BestOf(S) ==
    LET undominated == {s \in S : ~ \E r \in S : Dominates(r, s)}
    IN IF S = {} THEN {not_implemented}
       ELSE IF Cardinality(undominated) = 1 THEN undominated
       ELSE {ambiguous}

(* The cell that a call reads: each argument contributes the group in its  *)
(* class's v-table times the stride of the dimension.                      *)
CellOf(t) ==
    LET cell[d \in 0 .. arity] ==
          IF d = 0 THEN 0 ELSE cell[d - 1] + entries[d][t[d]] * Stride(d)
    IN cell[arity]

Called(t) == dispatch_table[CellOf(t) + 1]

(* A call runs the overrider that the documented rules select, or reports  *)
(* the error they call for (n2216 apart).                                  *)
CallsDocumented ==
    pc = "done" /\ ~ method.n2216 => \A t \in Calls : {Called(t)} = BestOf(Applicable(t))

(* Whatever the lattice: an overrider that dominates all the others that   *)
(* are applicable is the one that is called, and only applicable overriders*)
(* are called.                                                             *)
BestOverriderCalled ==
    pc = "done" =>
        \A t \in Calls :
            /\ Called(t) \in Applicable(t) \cup {not_implemented, ambiguous}
            /\ \A s \in Applicable(t) :
                 (\A r \in Applicable(t) \ {s} : Dominates(s, r)) => Called(t) = s

(* `next` of the overrider that a call runs is "the overrider that would be*)
(* called for the same tuple of virtual arguments if Fn was not present"   *)
(* (core.hpp:2138-2140), where no overrider counts as not_implemented.     *)
NextDocumented ==
    pc = "done" /\ ~ method.n2216 =>
        \A t \in Calls :
            Called(t) \in Overrider =>
                {next[Called(t)]} = BestOf(Applicable(t) \ {Called(t)})

(* The two documented rules hold under conditions.  A call gets what the   *)
(* rules select whenever dominance is transitive among the overriders that *)
(* are applicable to it, in whatever order they were registered.           *)
DominanceTransitive(S) ==
    \A a, b, c \in S : Dominates(a, b) /\ Dominates(b, c) => Dominates(a, c)

CallsDocumentedIfTransitive ==
    pc = "done" /\ ~ method.n2216 =>
        \A t \in Calls :
            DominanceTransitive(Applicable(t)) => {Called(t)} = BestOf(Applicable(t))

(* `next` is the documented one for every call if the method has a single  *)
(* virtual parameter, or if there is no multiple inheritance.              *)
SingleInheritanceOnly ==
    \A a, b \in Class :
        Covariant(a) \cap Covariant(b) \in {{}, Covariant(a), Covariant(b)}

NextDocumentedIfSimple == arity = 1 \/ SingleInheritanceOnly => NextDocumented

(* An overrider that calls its `next`, which calls its own, and so on, comes*)
(* to an end, as long as dominance is transitive: no set of overriders is  *)
(* closed under `next`.  With n2216 two overriders can each be the next of *)
(* the other, since what is next need not be dominated by the overrider    *)
(* that is picked.                                                         *)
NextChainsEnd ==
    pc = "done" /\ ~ method.n2216 /\ DominanceTransitive(Overrider) =>
        \A S \in (SUBSET Overrider) \ {{}} : \E s \in S : next[s] \notin S

(* "If Registry contains the n2216 policy, ambiguous calls are not an      *)
(* error" (core.hpp:2049-2063): as long as dominance is transitive, a call *)
(* runs one of the overriders that are not dominated, and none of the      *)
(* others returns a more specific class; and every overrider called has an *)
(* overrider, or not_implemented, for next.                                *)
Undominated(S) == {s \in S : ~ \E r \in S : Dominates(r, s)}

BestReturns(S) ==
    {s \in S : method.returns # <<>> =>
                 ~ \E r \in S : Derives(method.returns[r], method.returns[s])}

N2216Documented ==
    pc = "done" /\ method.n2216 =>
        \A t \in Calls :
            LET S == Applicable(t)
            IN IF S = {} THEN Called(t) = not_implemented
               ELSE /\ Called(t) \in S
                    /\ next[Called(t)] \in Overrider \cup {not_implemented}
                    /\ DominanceTransitive(S) => Called(t) \in BestReturns(Undominated(S))

(* build_dispatch_tables follows a null pointer only with n2216 and if the *)
(* method returns a registered class, when a third overrider is compared   *)
(* with one that has just been removed.                                    *)
CrashOnlyWithThree ==
    pc = "crashed" =>
        /\ method.n2216 /\ method.returns # <<>>
        /\ \E S \in SUBSET Overrider :
             /\ Cardinality(S) > 2
             /\ \E t \in Calls : S \subseteq Applicable(t)
             /\ \A a, b \in S : ~ Dominates(a, b)

(* The report tells whether some call has no overrider, or no single best  *)
(* one (doc/initialize.adoc:28-34): every cell stands for some call.       *)
ReportFaithful ==
    pc = "done" =>
        /\ (report.not_implemented > 0) <=> (\E t \in Calls : Called(t) = not_implemented)
        /\ ~ method.n2216 =>
             (report.ambiguous > 0) <=> (\E t \in Calls : Called(t) = ambiguous)
=============================================================================
