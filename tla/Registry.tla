------------------------------ MODULE Registry ------------------------------
(***************************************************************************)
(* The life of a registry: static constructors register classes, also while*)
(* libraries are loaded, destructors remove them, and the program calls    *)
(* initialize again after that, or finalize.  The vptr policy maps the type*)
(* ids of objects to v-table pointers; this module is about what a lookup  *)
(* finds after any sequence of these calls.                                *)
(*                                                                         *)
(* Simplifications: the registry has the runtime_checks policy and an error*)
(* handler that throws.  Methods and overriders are in lists that work like*)
(* that of the classes, and what the passes of the compiler make of all of *)
(* them is in Compiler and GlobalData: here a v-table is identified by its *)
(* class and by the initialize that wrote it.                              *)
(***************************************************************************)
EXTENDS StaticList, FastPerfectHash

CONSTANTS
    Class,
    ClassOf,        \* record -> class
    TypeOf,         \* record -> type id, different for each record
    Stranger,       \* a type id that is never registered
    Configs,        \* the programs: see IsConfig
    MaxEpoch        \* bound: calls of initialize

(* The policies of the registry, the records that the program has, and     *)
(* whether a class has one static_vptr in the whole program or one in each *)
(* module, as on Windows.                                                  *)
IsConfig(g) ==
    /\ g.policy \in {"vptr_vector+hash", "vptr_vector", "vptr_map"}
    /\ g.indirect \in BOOLEAN
    /\ g.shared \in BOOLEAN
    /\ g.records \subseteq Node

ASSUME RecordsAssumption ==
    /\ ClassOf \in [Node -> Class]
    /\ TypeOf \in [Node -> 0 .. Pow2[Width] - 2]
    /\ \A q, r \in Node : TypeOf[q] = TypeOf[r] => q = r
    /\ Stranger \in 0 .. Pow2[Width] - 2 /\ \A r \in Node : TypeOf[r] # Stranger
    /\ NoType \notin 0 .. Pow2[Width] - 2
    /\ Null \notin Class
    /\ \A g \in Configs : IsConfig(g)
    /\ MaxEpoch \in Nat

(* There are fewer classes than a size_t can count: even the last size of  *)
(* the table is one of its powers of two, and a shift is not negative.     *)
ASSUME SizeAssumption ==
    /\ IsFiniteSet(Class)
    /\ \A n \in 0 .. Cardinality(Class) : FirstM(n) + Passes - 1 <= Width

VARIABLES
    config,         \* never changes
    phase,          \* "idle", or "hashing" inside an initialize
    initialized,
    epoch,          \* the number of calls of initialize: the v-tables in dispatch_data
    static_vptr,    \* variable -> the v-table it points to
    vptrs,          \* the vector, from 0, or the map
    outcome,        \* how the last initialize ended: "success" or "failure"
    known,          \* the records at the last initialize
    gone,           \* those removed since
    runs            \* calls of initialize since the last finalize

runVars == <<initialized, epoch, static_vptr, vptrs, outcome, known, gone, runs>>
vars == <<listVars, hashVars, config, phase, runVars>>

(* The records in the order of a loop over the list.                       *)
Records ==
    LET from[n \in Node \cup {Null}] == IF n = Null THEN <<>> ELSE <<n>> \o from[next[n]]
    IN from[first]

(* The classes that records are for, and the records of one of them.       *)
Registered == {ClassOf[r] : r \in ToSet(Records)}

RecordsOf(c) ==
    LET records == Records
    IN FlattenSeq([i \in DOMAIN records |->
                     IF ClassOf[records[i]] = c THEN <<records[i]>> ELSE <<>>])

(* augment_classes: a class object per class, in the order of their first  *)
(* records, with the type ids of all its records.                          *)
Types ==
    LET records == Records
        IsFirst(i) == \A j \in 1 .. i - 1 : ClassOf[records[j]] # ClassOf[records[i]]
        ordered == FlattenSeq([i \in DOMAIN records |->
                                 IF IsFirst(i) THEN RecordsOf(ClassOf[records[i]]) ELSE <<>>])
    IN [i \in DOMAIN ordered |-> TypeOf[ordered[i]]]

ClassOfType(t) == ClassOf[CHOOSE r \in Node : TypeOf[r] = t]

(* V-table pointers, the variables that hold them, and addresses of those. *)
NullTable   == [class |-> Null, epoch |-> 0]
Garbage     == [class |-> Null, epoch |-> MaxEpoch + 1]
Static      == Node \cup Class
StaticOf(r) == IF config.shared THEN ClassOf[r] ELSE r
Address(s)  == [var |-> s]

(* The static_vptr of a class object is that of its first record.          *)
VariableOf(c) == StaticOf(RecordsOf(c)[1])

(* What the policies store for a class: the address of its static_vptr, or *)
(* its value; vptr is static_vptr.                                         *)
Pointer(c, vptr) ==
    IF config.indirect THEN Address(VariableOf(c)) ELSE vptr[VariableOf(c)]

Init ==
    /\ InitList
    /\ InitHash
    /\ config \in Configs
    /\ phase = "idle"
    /\ initialized = FALSE
    /\ epoch = 0
    /\ static_vptr = [s \in Static |-> NullTable]
    /\ vptrs = <<>>
    /\ outcome = "success"
    /\ known = {}
    /\ gone = {}
    /\ runs = 0

-----------------------------------------------------------------------------
(* A module that has gone has taken its static_vptrs with it.              *)
Exists(s) == \E r \in ToSet(Records) : StaticOf(r) = s

(* A static constructor of use_classes, when its module is loaded: the     *)
(* static_vptr, unless another module has brought it, is null.             *)
Register(r) ==
    /\ phase = "idle"
    /\ r \in config.records \ ToSet(Records)
    /\ push_back(r)
    /\ static_vptr' = IF Exists(StaticOf(r)) THEN static_vptr
                      ELSE [static_vptr EXCEPT ![StaticOf(r)] = NullTable]
    /\ UNCHANGED <<hashVars, config, phase, initialized, epoch, vptrs, outcome, known, gone, runs>>

(* Its destructor, when the module is unloaded.                            *)
Unregister(r) ==
    /\ phase = "idle"
    /\ r \in ToSet(Records)
    /\ remove(r)
    /\ gone' = gone \cup ({r} \cap known)
    /\ UNCHANGED <<hashVars, config, phase, initialized, epoch, static_vptr, vptrs, outcome,
                   known, runs>>

-----------------------------------------------------------------------------
(* Mutant of Resized: the vector is not resized again.                     *)
ResizedOnce(size) ==
    IF DOMAIN vptrs # {} THEN vptrs ELSE [i \in 0 .. size - 1 |-> NullTable]

(* Mutant of Resized: the greatest index is taken for the size.            *)
ResizedShort(size) ==
    [i \in 0 .. size - 2 |-> IF i \in DOMAIN vptrs THEN vptrs[i] ELSE NullTable]

(* vptrs.resize(size): what is there stays.                                *)
Resized(size) == [i \in 0 .. size - 1 |-> IF i \in DOMAIN vptrs THEN vptrs[i] ELSE NullTable]

(* vptr_vector::initialize, after the size is known: at is type id -> index.*)
Filled(vector, at, vptr) ==
    [i \in DOMAIN vector |->
        IF \E t \in DOMAIN at : at[t] = i
        THEN Pointer(ClassOfType(CHOOSE t \in DOMAIN at : at[t] = i), vptr)
        ELSE vector[i]]

(* vptr_map::initialize: emplace does nothing for a key that is there.     *)
Emplaced(types, vptr) ==
    [t \in DOMAIN vptrs \cup types |->
        IF t \in DOMAIN vptrs THEN vptrs[t] ELSE Pointer(ClassOfType(t), vptr)]

LastType(types) == Max(types \cup {0})

Succeed ==
    /\ initialized' = TRUE
    /\ outcome' = "success"

(* Mutant of StaticsWritten: only those that are null.                     *)
NullStaticsWritten ==
    [s \in Static |->
        IF static_vptr[s] = NullTable /\ \E c \in Registered : VariableOf(c) = s
        THEN [class |-> CHOOSE c \in Registered : VariableOf(c) = s, epoch |-> epoch + 1]
        ELSE static_vptr[s]]

(* The static_vptr of each class object leads to its new v-table.          *)
StaticsWritten ==
    [s \in Static |->
        IF \E c \in Registered : VariableOf(c) = s
        THEN [class |-> CHOOSE c \in Registered : VariableOf(c) = s, epoch |-> epoch + 1]
        ELSE static_vptr[s]]

(* write_global_data: the v-tables, static_vptr, and the vptr policy.      *)
Initialize ==
    LET written == StaticsWritten
        types == ToSet(Types)
    IN /\ phase = "idle"
       /\ epoch < MaxEpoch
       /\ epoch' = epoch + 1
       /\ static_vptr' = written
       /\ known' = ToSet(Records)
       /\ gone' = {}
       /\ runs' = runs + 1
       /\ \/ /\ config.policy = "vptr_vector+hash"
             /\ StartSearch(Cardinality(Registered), Types)
             /\ phase' = "hashing"
             /\ UNCHANGED <<vptrs, initialized, outcome>>
          \/ /\ config.policy = "vptr_vector"
             /\ vptrs' = Filled(Resized(LastType(types) + 1), [t \in types |-> t], written)
             /\ Succeed
             /\ UNCHANGED <<hashVars, phase>>
          \/ /\ config.policy = "vptr_map"
             /\ vptrs' = Emplaced(types, written)
             /\ Succeed
             /\ UNCHANGED <<hashVars, phase>>
       /\ UNCHANGED <<listVars, config>>

(* The search draws a multiplier.  When it is good the vector is filled;   *)
(* when it was the last one initialize throws.                             *)
HashAttempt(m) ==
    /\ phase = "hashing"
    /\ \E try \in {Try(m)} :
         \/ /\ Found(try)
            /\ LET at == [t \in ToSet(search.types) |-> Index(m, hash.shift, t)]
               IN vptrs' = Filled(Resized(try.h.max_value + 1), at, static_vptr)
            /\ phase' = "idle"
            /\ Succeed
         \/ /\ Collision(try)
            /\ UNCHANGED <<vptrs, phase, initialized, outcome>>
         \/ /\ NotFound(try)
            /\ phase' = "idle"
            /\ outcome' = "failure"
            /\ UNCHANGED <<vptrs, initialized>>
    /\ UNCHANGED <<listVars, config, epoch, static_vptr, known, gone, runs>>

(* Mutant of Finalize: the policies keep their data.                       *)
FinalizeRegistry ==
    /\ phase = "idle"
    /\ initialized' = FALSE
    /\ runs' = 0
    /\ UNCHANGED <<listVars, search, hash, vptrs, config, phase, epoch, static_vptr, outcome, known, gone>>

Finalize ==
    /\ phase = "idle"
    /\ vptrs' = <<>>
    /\ hash' = IF config.policy = "vptr_vector+hash" THEN [hash EXCEPT !.control = <<>>] ELSE hash
    /\ initialized' = FALSE
    /\ runs' = 0
    /\ UNCHANGED <<listVars, search, config, phase, epoch, static_vptr, outcome, known, gone>>

Next ==
    \/ \E r \in Node : Register(r) \/ Unregister(r)
    \/ Initialize
    \/ \E m \in Multipliers : HashAttempt(m)
    \/ Finalize

(* initialize is a call: it runs until it returns or throws.               *)
Fairness == WF_vars(\E m \in Multipliers : HashAttempt(m))

Spec == Init /\ [][Next]_vars /\ Fairness

-----------------------------------------------------------------------------
(* What a variable holds, and *entry when pointers are indirect.           *)
Value(s) == IF Exists(s) THEN static_vptr[s] ELSE Garbage

Deref(entry) == IF config.indirect /\ entry # NullTable THEN Value(entry.var) ELSE entry

(* acquire_vptr(obj) for an object of dynamic type t: an error, or the     *)
(* v-table and the variable that the reference returned is to.             *)
Referred(entry) ==
    [result |-> "vtable",
     vtable |-> Deref(entry),
     var    |-> IF config.indirect /\ entry # NullTable THEN entry.var ELSE "element"]

Entry(i) == IF i \in DOMAIN vptrs THEN Referred(vptrs[i]) ELSE [result |-> "out of bounds"]

(* vptr_vector::dynamic_vptr: hash reports what was not registered; without*)
(* it, what is beyond the end of the vector is reported.                   *)
VectorLookup(t) ==
    IF config.policy = "vptr_vector+hash"
    THEN IF check(t) = "known" THEN Entry(HashIndex(t)) ELSE [result |-> check(t)]
    ELSE IF t \in DOMAIN vptrs THEN Entry(t) ELSE [result |-> "unknown"]

(* vptr_map::dynamic_vptr.                                                 *)
MapLookup(t) == IF t \in DOMAIN vptrs THEN Entry(t) ELSE [result |-> "unknown"]

(* check_initialized, then the policy.                                     *)
acquire_vptr(t) ==
    IF ~ initialized THEN [result |-> "not_initialized"]
    ELSE IF config.policy = "vptr_map" THEN MapLookup(t)
    ELSE VectorLookup(t)

-----------------------------------------------------------------------------
(* initialize has been called, and the last call did not throw.            *)
Ready == phase = "idle" /\ initialized /\ outcome = "success"

(* vptr_map keeps the type ids and the pointers of earlier calls of        *)
(* initialize.  A pointer is out of date if it is to a v-table, or to a    *)
(* variable of a module, which may not provide the class now; that to the  *)
(* one static_vptr of a class never is.                                    *)
MapReused == config.policy = "vptr_map" /\ runs > 1

MapStale == MapReused /\ ~ (config.indirect /\ config.shared)

Table == [class : Class, epoch : 1 .. MaxEpoch] \cup {NullTable}

(* Type invariant.                                                         *)
TypeOK ==
    /\ config \in Configs
    /\ phase \in {"idle", "hashing"}
    /\ initialized \in BOOLEAN
    /\ epoch \in 0 .. MaxEpoch
    /\ static_vptr \in [Static -> Table]
    /\ \A i \in DOMAIN vptrs :
         vptrs[i] \in IF config.indirect THEN [var : Static] \cup {NullTable} ELSE Table
    /\ outcome \in {"success", "failure"}
    /\ known \subseteq config.records
    /\ gone \subseteq known
    /\ runs \in 0 .. epoch
    /\ search.pass \in 0 .. Passes - 1
    /\ search.attempts \in 0 .. MaxAttempts - 1
    /\ hash.min_value \in 0 .. Pow2[Width] - 1
    /\ hash.max_value \in 0 .. Pow2[Width] - 1

(* The v-table of an object whose class was there at the last initialize,  *)
(* and still is, is the one that this initialize wrote, whatever was called*)
(* before and whichever multipliers were drawn; loading or unloading other *)
(* classes since does not disturb it.  The class can have several type ids.*)
(* If it has several static_vptrs too, indirect pointers need the modules  *)
(* of all of them.  A map that stores anything but the addresses of shared *)
(* static_vptrs must have been cleared by finalize before.                 *)
VariableKept(c) == config.shared \/ \A r \in gone : ClassOf[r] # c

Current(c) == [class |-> c, epoch |-> epoch]

LookupsCurrent ==
    Ready /\ ~ MapStale =>
      \A r \in known \ gone :
        (config.indirect => VariableKept(ClassOf[r])) =>
           LET found == acquire_vptr(TypeOf[r])
           IN found.result = "vtable" /\ found.vtable = Current(ClassOf[r])

(* "checks that the type id is valid, i.e. if it was present in the set     *)
(* passed to initialize" (fast_perfect_hash.hpp:89-91): a type id that was *)
(* not there at the last initialize is reported, never looked up, by the   *)
(* hash and by the map, although the tables may hold more than that.       *)
UnknownReported ==
    Ready /\ config.policy # "vptr_vector" /\ ~ MapReused =>
      \A t \in {TypeOf[r] : r \in Node \ known} \cup {Stranger} :
        acquire_vptr(t) = [result |-> "unknown"]

(* No lookup reads outside of the control table or of the vector.          *)
LookupsInBounds ==
    Ready => \A t \in {TypeOf[r] : r \in Node} \cup {Stranger} :
               acquire_vptr(t).result # "out of bounds"

(* The list is a catalogue: loops meet the records in the order they were  *)
(* registered, whichever records have gone.                                *)
CatalogueOfRecords == INSTANCE Catalogue WITH Record <- Node, records <- Records
ImplementsCatalogue == CatalogueOfRecords!Spec

(* Every initialize returns or throws: the search for multipliers ends.    *)
InitializeEnds == phase = "hashing" ~> phase = "idle"
=============================================================================
