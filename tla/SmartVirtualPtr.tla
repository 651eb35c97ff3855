-------------------------- MODULE SmartVirtualPtr --------------------------
(***************************************************************************)
(* The virtual_ptr with a smart pointer, and programs that hold plain and  *)
(* smart virtual_ptrs together.  A smart virtual_ptr owns its object, alone*)
(* (unique_ptr) or with others (shared_ptr), and the object is destroyed   *)
(* with its last owner.  Besides its virtual_ptrs the program has one smart*)
(* pointer, `other`, that it makes them from.                              *)
(*                                                                         *)
(* Simplifications: the smart pointers of a program are all of one kind,   *)
(* and program code does not assign a null smart pointer to a virtual_ptr  *)
(* with operator=(const Other&), which dereferences it.                    *)
(***************************************************************************)
EXTENDS VirtualPtr

VARIABLE
    other       \* the object that the program's smart pointer owns, or Null

ptrVars == <<vars, holdVars, other>>

Smart(p)  == config.kind[p] # "plain"
Shared(p) == config.kind[p] = "shared"

(* The objects that have an owner.                                         *)
Owned(ps, r) == ({ps[p].obj : p \in {q \in Ptr : Smart(q)}} \cup {r}) \ {Null}

InitPtrs == InitHolds /\ other = Null

(* The virtual_ptrs become ps and the other smart pointer r; the objects in*)
(* lost were owned by a smart pointer that was destroyed or overwritten.   *)
Put(ps, r, lost) ==
    /\ ptr' = ps
    /\ other' = r
    /\ alive' = alive \ (lost \ Owned(ps, r))
    /\ UNCHANGED inner

Lost(p) == {ptr[p].obj} \ {Null}

-----------------------------------------------------------------------------
(* std::make_shared or std::make_unique, and reset(), in program code.     *)
MakeOther(o) ==
    /\ Holds
    /\ \E p \in Ptr : Smart(p)
    /\ other = Null
    /\ o \in config.heap /\ Created(o)
    /\ other' = o
    /\ UNCHANGED ptr

ResetOther == Holds /\ other # Null /\ Put(ptr, Null, {other})

(* p = make_shared_virtual<Class>() or make_unique_virtual<Class>().       *)
make_virtual(p, o) ==
    /\ Holds
    /\ Smart(p) /\ ptr[p].obj = Null
    /\ o \in config.heap /\ Created(o)
    /\ ptr' = [ptr EXCEPT ![p] = FinalPtr(o)]
    /\ UNCHANGED other

(* From an lvalue or an rvalue smart pointer, which may be null.           *)
SmartRef == IF other = Null THEN null_vptr ELSE Acquired(other)

CanAcquire == other # Null => Looks(other) /\ Acquired(other).result = "vtable"

ConstructCopy(p) ==
    /\ Holds
    /\ Shared(p) /\ ptr[p].obj = Null
    /\ CanAcquire
    /\ Put([ptr EXCEPT ![p] = [obj |-> other, vp |-> box_vptr(SmartRef)]], other, {})

ConstructMove(p) ==
    /\ Holds
    /\ Smart(p) /\ ptr[p].obj = Null
    /\ CanAcquire
    /\ Put([ptr EXCEPT ![p] = [obj |-> other, vp |-> box_vptr(SmartRef)]], Null, {})

(* operator=(const Other&): the smart pointer first, then the lookup.      *)
AssignCopy(p) ==
    /\ Holds
    /\ Shared(p)
    /\ other # Null /\ Looks(other)
    /\ Put(IF Acquired(other).result = "vtable"
           THEN [ptr EXCEPT ![p] = [obj |-> other, vp |-> box_vptr(Acquired(other))]]
           ELSE [ptr EXCEPT ![p].obj = other],
           other, Lost(p))

(* operator=(Other&&): the lookup first.  When it throws nothing changes.  *)
AssignMove(p) ==
    /\ Holds
    /\ Smart(p)
    /\ CanAcquire
    /\ Put([ptr EXCEPT ![p] = [obj |-> other, vp |-> box_vptr(SmartRef)]], Null, Lost(p))

(* final_virtual_ptr(std::move(other)).                                    *)
FinalMove(p) ==
    /\ Holds
    /\ Smart(p) /\ ptr[p].obj = Null
    /\ other # Null
    /\ Put([ptr EXCEPT ![p] = FinalPtr(other)], Null, {})

-----------------------------------------------------------------------------
(* From a smart virtual_ptr.                                               *)
CopySmart(p, q) ==
    /\ Holds
    /\ Shared(p) /\ Smart(q) /\ p # q
    /\ Put([ptr EXCEPT ![p] = ptr[q]], other, Lost(p))

(* What a move leaves: std::exchange for the v-table pointer, and the smart*)
(* pointer's own move.                                                     *)
MovedFrom(q) == [obj |-> Null, vp |-> box_vptr(null_vptr)]

MoveSmart(p, q) ==
    /\ Holds
    /\ Smart(p) /\ Smart(q) /\ p # q
    /\ Put([ptr EXCEPT ![p] = ptr[q], ![q] = MovedFrom(q)], other, Lost(p))

ResetSmart(p) ==
    /\ Holds
    /\ Smart(p)
    /\ Put([ptr EXCEPT ![p] = NullPtr], other, Lost(p))

(* virtual_traits<shared_ptr>::cast: a dynamic cast of an object that is   *)
(* not of the class asked for gives a null smart pointer.                  *)
SharedCast(o, succeeds) == IF succeeds THEN o ELSE Null

(* Mutant of UniqueLeft: the object is taken by get(), without release().  *)
UniqueLeftKept(o, succeeds) == o

(* Mutant of UniqueLeft: release() before the cast.                        *)
UniqueLeftReleased(o, succeeds) == Null

(* virtual_traits<unique_ptr>::cast: when the dynamic cast throws, the     *)
(* smart pointer has not been released yet.                                *)
UniqueLeft(o, succeeds) == IF succeeds THEN Null ELSE o

(* p = q.cast<Other>() for an lvalue q.                                    *)
CastCopy(p, q) ==
    /\ Holds
    /\ Shared(p) /\ Shared(q) /\ p # q
    /\ \E succeeds \in BOOLEAN :
         Put([ptr EXCEPT ![p] = [ptr[q] EXCEPT !.obj = SharedCast(@, succeeds)]],
             other, Lost(p))

(* p = std::move(q).cast<Other>().  The v-table pointer of q stays.  A     *)
(* shared_ptr is moved in C++20 only, and when the cast succeeds.          *)
CastMoveShared(p, q) ==
    /\ Holds
    /\ Shared(p) /\ Shared(q) /\ p # q
    /\ \E succeeds \in BOOLEAN, moves \in BOOLEAN :
         Put([ptr EXCEPT ![p] = [ptr[q] EXCEPT !.obj = SharedCast(@, succeeds)],
                         ![q].obj = IF moves /\ succeeds THEN Null ELSE @],
             other, Lost(p))

CastMoveUnique(p, q) ==
    /\ Holds
    /\ config.kind[p] = "unique" /\ config.kind[q] = "unique" /\ p # q
    /\ ptr[q].obj # Null
    /\ \/ Put([ptr EXCEPT ![p] = ptr[q], ![q].obj = UniqueLeft(@, TRUE)], other, Lost(p))
       \/ Put([ptr EXCEPT ![q].obj = UniqueLeft(@, FALSE)], other, {})

NextSmart ==
    \/ \E o \in Object : MakeOther(o) \/ \E p \in Ptr : make_virtual(p, o)
    \/ ResetOther
    \/ \E p \in Ptr :
         \/ ConstructCopy(p) \/ ConstructMove(p)
         \/ AssignCopy(p) \/ AssignMove(p)
         \/ FinalMove(p) \/ ResetSmart(p)
         \/ \E q \in Ptr : \/ CopySmart(p, q) \/ MoveSmart(p, q)
                           \/ CastCopy(p, q) \/ CastMoveShared(p, q) \/ CastMoveUnique(p, q)

(* A module stays as long as it has objects.                               *)
RegistryStep ==
    /\ Next
    /\ \A o \in (alive \cup Pointed) \cap ToSet(Records) : o \in ToSet(Records)'
    /\ UNCHANGED <<holdVars, other>>

NextPtrs ==
    \/ RegistryStep
    \/ NextPlain /\ UNCHANGED other
    \/ NextSmart

FairnessPtrs == WF_ptrVars(\E m \in Multipliers : HashAttempt(m) /\ UNCHANGED <<holdVars, other>>)

SpecPtrs == InitPtrs /\ [][NextPtrs]_ptrVars /\ FairnessPtrs

-----------------------------------------------------------------------------
(* Type invariant.                                                         *)
PtrsTypeOK ==
    /\ TypeOK
    /\ ptr \in [Ptr -> PtrTypes]
    /\ alive \subseteq config.objects
    /\ \A o \in Object : inner[o] \in Boxed \cup {NullTable}
    /\ other \in config.heap \cup {Null}

(* An object on the heap lives exactly as long as it has an owner, through *)
(* copies, moves and casts that fail: none is lost, none destroyed twice.  *)
HeapOwned == alive \cap config.heap = Owned(ptr, other)

(* A unique_ptr shares its object with no other smart pointer.             *)
SoleOwner ==
    \A p, q \in Ptr :
        config.kind[p] = "unique" /\ Smart(q) /\ ptr[p].obj # Null =>
            /\ ptr[p].obj # other
            /\ ptr[q].obj = ptr[p].obj => q = p

(* "It remains valid until the next call to initialize or finalize"        *)
(* (registry.hpp:623): whatever is constructed, copied, moved and cast, and*)
(* whichever classes come and go, a call through a virtual_ptr finds the   *)
(* v-table of its object, unless an assignment threw half-way or a map kept*)
(* direct pointers.  A class has one static_vptr, as above.                *)
ValidUntilInitialize ==
    [][config.shared /\ Ready /\ Ready' /\ epoch' = epoch /\ AllValid /\ ~ MapStale
         => AllValid' \/ AssignThrew]_ptrVars
=============================================================================
