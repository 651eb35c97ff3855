----------------------------- MODULE VirtualPtr -----------------------------
(***************************************************************************)
(* virtual_ptrs that a program holds while it loads and unloads modules and*)
(* calls initialize and finalize.  A virtual_ptr is an object pointer and a*)
(* v-table pointer; methods trust the latter without looking at the object.*)
(* With indirect_vptr it is the address of a variable, else the value that *)
(* the variable had.  This module has the plain virtual_ptr; the one with a*)
(* smart pointer is in SmartVirtualPtr.                                    *)
(*                                                                         *)
(* An object is named by the record of its class and module.  Its module is*)
(* loaded as long as it exists, or a virtual_ptr points to it.  An object  *)
(* of a class with inplace_vptr holds a v-table pointer, set when it is    *)
(* constructed (InplaceVptr has the details).  Simplifications: classes are*)
(* polymorphic, and no plain virtual_ptr is used uninitialized.            *)
(***************************************************************************)
EXTENDS Registry

CONSTANTS
    Ptr,        \* the virtual_ptrs
    Object      \* the objects: records of their classes

(* A program also says of what kind its virtual_ptrs are, the smart ones   *)
(* all of one kind, which objects it creates, which of them on the heap,   *)
(* and which classes have inplace_vptr.                                    *)
IsPtrConfig(g) ==
    /\ g.kind \in [Ptr -> {"plain", "shared", "unique"}]
    /\ ~ \E p, q \in Ptr : g.kind[p] = "shared" /\ g.kind[q] = "unique"
    /\ g.objects \subseteq Object /\ g.heap \subseteq g.objects
    /\ g.inplace \subseteq Class

ASSUME PtrAssumption == Object \subseteq Node /\ \A g \in Configs : IsPtrConfig(g)

VARIABLES
    ptr,        \* Ptr -> [obj, vp]
    alive,      \* the objects that exist
    inner       \* object -> boost_openmethod_vptr, its v-table pointer

holdVars == <<ptr, alive, inner>>

Plain(p) == config.kind[p] = "plain"

Inplace(o) == ClassOf[o] \in config.inplace

-----------------------------------------------------------------------------
(* The address of the variable that a reference is to, or its value.       *)
box_vptr(ref) == IF config.indirect THEN Address(ref.var) ELSE ref.vtable

(* One overload for each kind of pointer.  A variable that is not there any*)
(* more can hold anything.                                                 *)
unbox_vptr(vp) ==
    IF "var" \in DOMAIN vp
    THEN IF vp.var = Null THEN NullTable
         ELSE IF vp.var \in Static THEN static_vptr[vp.var] ELSE Garbage
    ELSE vp

null_vptr == [vtable |-> NullTable, var |-> Null]

NullPtr == [obj |-> Null, vp |-> box_vptr(null_vptr)]

static_ref(o) == [vtable |-> static_vptr[StaticOf(o)], var |-> StaticOf(o)]

(* acquire_vptr(obj).  For a class with inplace_vptr the pointer is        *)
(* returned by value: a reference to it is to a temporary.                 *)
Acquired(o) ==
    IF initialized /\ Inplace(o)
    THEN [result |-> "vtable", vtable |-> unbox_vptr(inner[o]), var |-> "temporary"]
    ELSE acquire_vptr(TypeOf[o])

(* Inside of the vector but not registered: the entry means nothing.  A    *)
(* null entry, which an initialize that throws can leave, is not followed. *)
LookupDefined(o) ==
    /\ config.policy = "vptr_vector" /\ initialized => o \in known \/ TypeOf[o] \notin DOMAIN vptrs
    /\ config.indirect /\ Acquired(o).result = "vtable" => Acquired(o).var # "element"

Looks(o) == o \in alive /\ LookupDefined(o)

InitHolds ==
    /\ Init
    /\ ptr = [p \in Ptr |-> NullPtr]
    /\ alive = {}
    /\ inner = [o \in Object |-> NullTable]

Holds == phase = "idle" /\ UNCHANGED vars

Pointed == {ptr[p].obj : p \in Ptr} \ {Null}

-----------------------------------------------------------------------------
(* The constructor of an object that was not there.  With inplace_vptr it  *)
(* keeps the static_vptr of its class, or its address.                     *)
Created(o) ==
    /\ o \in config.objects \cap ToSet(Records)
    /\ o \notin alive \cup Pointed
    /\ alive' = alive \cup {o}
    /\ inner' = IF Inplace(o) THEN [inner EXCEPT ![o] = box_vptr(static_ref(o))] ELSE inner

(* Local objects outlive the virtual_ptrs to them.                         *)
Create(o) == Holds /\ o \notin config.heap /\ Created(o) /\ UNCHANGED ptr

Destroy(o) ==
    /\ Holds
    /\ o \in alive \ (config.heap \cup Pointed)
    /\ alive' = alive \ {o}
    /\ inner' = [inner EXCEPT ![o] = NullTable]
    /\ UNCHANGED ptr

-----------------------------------------------------------------------------
(* The plain virtual_ptr.                                                  *)

(* Construction from a reference or a pointer: when the error handler      *)
(* throws, there is no virtual_ptr.                                        *)
Construct(p, o) ==
    /\ Holds
    /\ Plain(p) /\ ptr[p].obj = Null
    /\ Looks(o)
    /\ Acquired(o).result = "vtable"
    /\ ptr' = [ptr EXCEPT ![p] = [obj |-> o, vp |-> box_vptr(Acquired(o))]]
    /\ UNCHANGED <<alive, inner>>

(* Assignment from a reference or a pointer: the object pointer is set     *)
(* before the v-table pointer is looked up.                                *)
Assign(p, o) ==
    /\ Holds
    /\ Plain(p)
    /\ Looks(o)
    /\ ptr' = IF Acquired(o).result = "vtable"
              THEN [ptr EXCEPT ![p] = [obj |-> o, vp |-> box_vptr(Acquired(o))]]
              ELSE [ptr EXCEPT ![p].obj = o]
    /\ UNCHANGED <<alive, inner>>

(* final_virtual_ptr: no table is looked up, and nobody checks that the    *)
(* registry is initialized.  When the static type is not that of the object*)
(* it throws final_error and there is no virtual_ptr.                      *)
FinalPtr(o) == [obj |-> o, vp |-> box_vptr(static_ref(o))]

Final(p, o) ==
    /\ Holds
    /\ Plain(p)
    /\ o \in alive
    /\ ptr' = [ptr EXCEPT ![p] = FinalPtr(o)]
    /\ UNCHANGED <<alive, inner>>

(* Mutant of Copied: the v-table pointer stays.                            *)
CopiedObject(p, q) == [ptr[q] EXCEPT !.vp = ptr[p].vp]

(* Construction and assignment from a virtual_ptr, plain or smart.         *)
Copied(p, q) == ptr[q]

Copy(p, q) ==
    /\ Holds
    /\ Plain(p)
    /\ ptr' = [ptr EXCEPT ![p] = Copied(p, q)]
    /\ UNCHANGED <<alive, inner>>

(* p = q.cast<Other>(): when the object is not an Other and the cast is    *)
(* dynamic, it throws before there is another virtual_ptr.                 *)
Cast(p, q) ==
    /\ Holds
    /\ Plain(p) /\ Plain(q)
    /\ ptr[q].obj \in alive
    /\ ptr' = [ptr EXCEPT ![p] = [obj |-> ptr[q].obj, vp |-> ptr[q].vp]]
    /\ UNCHANGED <<alive, inner>>

Reset(p) ==
    /\ Holds
    /\ Plain(p)
    /\ ptr' = [ptr EXCEPT ![p] = NullPtr]
    /\ UNCHANGED <<alive, inner>>

NextPlain ==
    \/ \E o \in Object : Create(o) \/ Destroy(o)
    \/ \E p \in Ptr :
         \/ \E o \in Object : Construct(p, o) \/ Assign(p, o) \/ Final(p, o)
         \/ \E q \in Ptr : Copy(p, q) \/ Cast(p, q)
         \/ Reset(p)

-----------------------------------------------------------------------------
(* The object exists, and its class was there at the last initialize.  If  *)
(* it holds its v-table pointer by value, it was constructed since then; if*)
(* pointers are indirect, p has not that of a temporary, from a lookup in  *)
(* such an object.                                                         *)
Supported(p) ==
    LET o == ptr[p].obj
    IN /\ Ready
       /\ o \in (known \ gone) \cap alive
       /\ IF config.indirect THEN ptr[p].vp.var # "temporary"
          ELSE Inplace(o) => inner[o] = Current(ClassOf[o])

(* A call through p finds the v-table of its object's class that the last  *)
(* initialize wrote.                                                       *)
Valid(p) == Supported(p) => unbox_vptr(ptr[p].vp) = Current(ClassOf[ptr[p].obj])

AllValid == \A p \in Ptr : Valid(p)

(* An assignment has set the object and then thrown.                       *)
AssignThrew ==
    \E p \in Ptr, o \in alive : Acquired(o).result # "vtable" /\ ptr'[p] = [ptr[p] EXCEPT !.obj = o]

Boxed == IF config.indirect THEN [var : Static \cup {Null, "temporary"}] ELSE Table

PtrTypes == [obj : Object \cup {Null}, vp : Boxed]

(* "As a consequence, they remain valid after a call to initialize"        *)
(* (doc/vptr.adoc:60): an indirect virtual_ptr leads to the v-table of the *)
(* last initialize, even if it was made before the first one, by           *)
(* final_virtual_ptr; unless an assignment that threw, or a cast of another*)
(* pointer, left it with the variable of another class.  A class has one   *)
(* static_vptr: of several, only one is written by initialize.             *)
Foreign(p) ==
    ptr[p].vp.var \in {Null} \cup {StaticOf(o) : o \in {q \in Node : ClassOf[q] # ClassOf[ptr[p].obj]}}

IndirectStaysValid ==
    config.indirect /\ config.shared =>
        \A p \in Ptr : ptr[p].obj # Null /\ ~ Foreign(p) => Valid(p)
=============================================================================
