---------------------------- MODULE MethodCalls ----------------------------
(***************************************************************************)
(* A method with one virtual parameter in a running program: overriders and*)
(* classes come and go with the modules that register them, initialize and *)
(* finalize are called at any time, even by overriders, and overriders call*)
(* the method again, or `next`.  Errors go to the error handler, which the *)
(* program may replace at any time.                                        *)
(*                                                                         *)
(* A function whose module has gone, and whatever a null pointer leads to, *)
(* is Garbage: to call it is undefined behaviour.                          *)
(*                                                                         *)
(* Simplifications: the registry has the runtime_checks policy, a vptr     *)
(* policy that reports unknown classes, and not n2216; what the compiler   *)
(* makes of an overrider set is stated here by its result, which           *)
(* DispatchTables and GlobalData find algorithmically; arguments are       *)
(* passed by reference.  The method and the class of its parameter are in  *)
(* the program itself, and a module stays as long as its functions run.    *)
(***************************************************************************)
EXTENDS Naturals, Sequences, FiniteSets, SequencesExt

CONSTANTS
    Class,          \* the classes
    Root,           \* the class of the virtual parameter
    Derived,        \* class -> the class and those that derive from it
    Overrider,      \* the overriders
    ClassOf,        \* overrider -> class of its parameter
    not_implemented, ambiguous,     \* functions that report the error
    Garbage,
    MaxDepth        \* bound: nested calls

ASSUME LatticeAssumption ==
    /\ Root \in Class
    /\ Derived \in [Class -> SUBSET Class]
    /\ \A c \in Class : c \in Derived[c]
    /\ \A c \in Class : \A d \in Derived[c] :
         Derived[d] \subseteq Derived[c] /\ (c \in Derived[d] => c = d)

ASSUME OverridersAssumption ==
    /\ ClassOf \in [Overrider -> Derived[Root]]
    /\ {not_implemented, ambiguous, Garbage} \cap Overrider = {}
    /\ not_implemented # ambiguous /\ Garbage \notin {not_implemented, ambiguous}
    /\ IsFiniteSet(Overrider)
    /\ MaxDepth \in Nat

VARIABLES
    classes,        \* the registered classes
    specs,          \* the registered overriders
    initialized,    \* registry::initialized
    table,          \* class, at the last initialize -> function its v-table leads to
    next,           \* overrider -> function
    settled,        \* nothing was registered or removed since the last initialize
    stack,          \* the overriders that run: [fn, arg, by]
    status          \* "running", "aborted" or "undefined"

registered == <<classes, specs>>
written    == <<initialized, table, next, settled>>
vars       == <<registered, written, stack, status>>

Function == Overrider \cup {not_implemented, ambiguous, Garbage}

(* The class d is another class than c and has it as a base.               *)
Derives(d, c) == d # c /\ d \in Derived[c]

Running == {stack[i].fn : i \in DOMAIN stack}

Init ==
    /\ classes = {Root}
    /\ specs = {}
    /\ initialized = FALSE
    /\ table = <<>>
    /\ next = [s \in Overrider |-> Garbage]
    /\ settled = FALSE
    /\ stack = <<>>
    /\ status = "running"

-----------------------------------------------------------------------------
(* Registration.                                                           *)

Register(c) ==
    /\ c \notin classes
    /\ classes' = classes \cup {c}
    /\ settled' = FALSE
    /\ UNCHANGED <<specs, initialized, table, next, stack>>

Unregister(c) ==
    /\ c \in classes \ {Root}
    /\ classes' = classes \ {c}
    /\ settled' = FALSE
    /\ UNCHANGED <<specs, initialized, table, next, stack>>

(* override_impl: `next` is a static variable of the module, still null.   *)
AddOverrider(s) ==
    /\ s \notin specs
    /\ specs' = specs \cup {s}
    /\ next' = [next EXCEPT ![s] = Garbage]
    /\ settled' = FALSE
    /\ UNCHANGED <<classes, initialized, table, stack>>

(* A module is unloaded: pointers to its overrider lead nowhere.           *)
Forget(s, functions) == [x \in DOMAIN functions |-> IF functions[x] = s THEN Garbage ELSE functions[x]]

(* ~overrider_info.                                                        *)
RemoveOverrider(s) ==
    /\ s \in specs \ Running
    /\ specs' = specs \ {s}
    /\ table' = Forget(s, table)
    /\ next' = Forget(s, next)
    /\ settled' = FALSE
    /\ UNCHANGED <<classes, initialized, stack>>

-----------------------------------------------------------------------------
(* initialize and finalize.                                                *)

(* Mutant of Applicable: bases and derived classes exchanged.              *)
ApplicableBelow(S, c) == {s \in S : ClassOf[s] \in Derived[c]}

(* The overriders in S that take an argument of class c.                   *)
Applicable(S, c) == {s \in S : c \in Derived[ClassOf[s]]}

Best(S) == {s \in S : ~ \E r \in S : Derives(ClassOf[r], ClassOf[s])}

(* The cell of a set of applicable overriders.                             *)
Selected(S) ==
    IF S = {} THEN not_implemented
    ELSE IF \E s \in S : Best(S) = {s} THEN CHOOSE s \in S : Best(S) = {s}
    ELSE ambiguous

(* Mutant of NewTable: classes that were known keep their cells.           *)
TableExtended ==
    [c \in classes |-> IF c \in DOMAIN table THEN table[c] ELSE Selected(Applicable(specs, c))]

NewTable == [c \in classes |-> Selected(Applicable(specs, c))]

(* Mutant of Others: the overrider is its own next.                        *)
OthersAndItself(s) == Applicable(specs, ClassOf[s])

Others(s) == Applicable(specs, ClassOf[s]) \ {s}

(* Mutant of NewNext: the last overrider of a chain gets none.             *)
NextIfOthers ==
    [s \in Overrider |->
        IF s \in specs /\ Selected(Applicable(specs, ClassOf[s])) = s /\ Others(s) # {}
        THEN Selected(Others(s))
        ELSE next[s]]

(* An overrider selected for some class is selected for that of its own    *)
(* parameter, and the others applicable there are those applicable to any  *)
(* class it is selected for.  If it is not selected its `next` stays.      *)
NewNext ==
    [s \in Overrider |->
        IF s \in specs /\ Selected(Applicable(specs, ClassOf[s])) = s
        THEN Selected(Others(s))
        ELSE next[s]]

(* The error handler, throw_error_handler or the function that the program *)
(* has set, throws an exception that is caught after some calls are left;  *)
(* or it returns and abort is called.                                      *)
Error ==
    /\ \/ (\E k \in 0 .. Len(stack) : stack' = SubSeq(stack, 1, k)) /\ status' = status
       \/ status' = "aborted" /\ stack' = stack
    /\ UNCHANGED <<registered, written>>

ClassesKnown == {ClassOf[s] : s \in specs} \subseteq classes

Initialize ==
    /\ ClassesKnown
    /\ table' = NewTable
    /\ next' = NewNext
    /\ initialized' = TRUE
    /\ settled' = TRUE
    /\ UNCHANGED <<registered, stack, status>>

(* augment_methods reports an unknown class: nothing has been written yet. *)
InitializeFails == ~ ClassesKnown /\ Error

Finalize ==
    /\ initialized' = FALSE
    /\ table' = <<>>
    /\ UNCHANGED <<registered, next, settled, stack, status>>

-----------------------------------------------------------------------------
(* Calls.                                                                  *)

(* f is called with an argument of class c.                                *)
Enter(f, c, by) ==
    CASE f \in Overrider ->
           /\ stack' = Append(stack, [fn |-> f, arg |-> c, by |-> by])
           /\ UNCHANGED <<registered, written, status>>
      [] f = Garbage ->
           /\ status' = "undefined"
           /\ UNCHANGED <<registered, written, stack>>
      [] OTHER -> Error

(* The program, or the overrider that runs, calls the method with an object*)
(* of class c.  The class may be unknown to the last initialize.           *)
Call(c) ==
    /\ Len(stack) < MaxDepth
    /\ c \in Derived[Root]
    /\ IF initialized /\ c \in DOMAIN table THEN Enter(table[c], c, "call") ELSE Error

Top == stack[Len(stack)]

CallNext ==
    /\ stack # <<>>
    /\ Len(stack) < MaxDepth
    /\ Enter(next[Top.fn], Top.arg, "next")

(* The overrider returns, or throws an exception that its caller catches.  *)
Return ==
    /\ stack # <<>>
    /\ stack' = SubSeq(stack, 1, Len(stack) - 1)
    /\ UNCHANGED <<registered, written, status>>

Registration ==
    /\ \/ \E c \in Class : Register(c) \/ Unregister(c)
       \/ \E s \in Overrider : AddOverrider(s) \/ RemoveOverrider(s)
    /\ UNCHANGED status

Next ==
    /\ status = "running"
    /\ \/ Registration
       \/ Initialize \/ InitializeFails \/ Finalize
       \/ \E c \in Class : Call(c)
       \/ CallNext \/ Return

Spec == Init /\ [][Next]_vars

-----------------------------------------------------------------------------
(* Type invariant.                                                         *)
TypeOK ==
    /\ classes \subseteq Class
    /\ specs \subseteq Overrider
    /\ initialized \in BOOLEAN
    /\ DOMAIN table \subseteq Class /\ \A c \in DOMAIN table : table[c] \in Function
    /\ next \in [Overrider -> Function]
    /\ settled \in BOOLEAN
    /\ stack \in Seq([fn : Overrider, arg : Class, by : {"call", "next"}])
    /\ status \in {"running", "aborted", "undefined"}

(* An overrider runs only for arguments of its class: the casts in the     *)
(* thunks, which nobody checks, are right.  It holds even if the registry  *)
(* is initialized again while overriders run, or should have been and was  *)
(* not.                                                                    *)
ArgumentsAccepted == \A i \in DOMAIN stack : stack[i].arg \in Derived[ClassOf[stack[i].fn]]

(* `next` leads to an overrider for a proper base, so that no chain of such*)
(* calls comes back to an overrider, whatever happens in between.          *)
NextAscends ==
    \A i \in DOMAIN stack \ {1} :
        stack[i].by = "next" => Derives(ClassOf[stack[i - 1].fn], ClassOf[stack[i].fn])

has_next(s) == next[s] \notin {not_implemented, ambiguous}

(* As long as nothing was registered or removed since, a call runs the most*)
(* specific overrider, its `next` is the best of the others, and has_next  *)
(* is true exactly if there is one (core.hpp:2106-2107): an initialize that*)
(* fails, a finalize and another initialize, nested calls and exceptions   *)
(* notwithstanding.                                                        *)
CallsCurrent ==
    initialized /\ settled =>
        \A c \in classes :
            LET S == Applicable(specs, c)
                s == table[c]
            IN /\ s = Selected(S)
               /\ s \in Overrider =>
                    /\ next[s] = Selected(S \ {s})
                    /\ has_next(s) = (\E r \in S \ {s} : Best(S \ {s}) = {r})

(* Behaviour is undefined only if a program goes on calling methods after  *)
(* an overrider was removed, without a call of initialize that succeeds, or*)
(* calls the next of an overrider that another one for the same class now  *)
(* makes ambiguous: its next is what it was, or null.                      *)
Superseded(s) == \E r \in specs \ {s} : ClassOf[r] = ClassOf[s]

UndefinedOnlyIfStale ==
    [][status' = "undefined" => ~ settled \/ Superseded(Top.fn)]_vars
=============================================================================
