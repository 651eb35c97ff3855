------------------------- MODULE MethodCallsProofs -------------------------
(***************************************************************************)
(* For any classes, overriders and depth of calls: overriders get arguments*)
(* of their classes, chains of `next` ascend, and behaviour is undefined   *)
(* only through pointers that the last initialize did not write.           *)
(***************************************************************************)
EXTENDS MethodCalls, FiniteSetTheorems, WellFoundedInduction, TLAPS

Frame == [fn : Overrider, arg : Class, by : {"call", "next"}]

Selects(s) == Selected(Applicable(specs, ClassOf[s])) = s

(* What pointers lead to accepts what it is called with, whenever they were*)
(* written; those that the last initialize wrote lead somewhere, as long as*)
(* nothing was registered or removed since; and modules stay while their   *)
(* functions run.                                                          *)
TableSound ==
    \A c \in DOMAIN table :
        table[c] \in Overrider => table[c] \in specs /\ c \in Derived[ClassOf[table[c]]]

NextSound ==
    \A s \in Overrider :
        next[s] \in Overrider => next[s] \in specs /\ Derives(ClassOf[s], ClassOf[next[s]])

Fresh ==
    settled => /\ \A c \in DOMAIN table : table[c] # Garbage
               /\ \A s \in specs : Selects(s) => next[s] # Garbage

RunningLoaded == \A i \in DOMAIN stack : stack[i].fn \in specs

Inv ==
    /\ TypeOK /\ TableSound /\ NextSound /\ Fresh /\ RunningLoaded
    /\ ArgumentsAccepted /\ NextAscends

-----------------------------------------------------------------------------
(* What select_dominant_overriders selects is one of the overriders, and no*)
(* other one has the same class, or it is an error.                        *)
LEMMA SelectedIsBest ==
    ASSUME NEW S \in SUBSET Overrider
    PROVE  /\ Selected(S) \in S \cup {not_implemented, ambiguous}
           /\ Selected(S) \in Overrider => Selected(S) \in S /\ Best(S) = {Selected(S)}
<1>1. CASE S = {}
  BY <1>1, OverridersAssumption DEF Selected
<1>2. CASE S # {} /\ \E s \in S : Best(S) = {s}
  <2>1. Selected(S) = CHOOSE s \in S : Best(S) = {s}
    BY <1>2 DEF Selected
  <2> QED BY <1>2, <2>1
<1>3. CASE S # {} /\ ~ \E s \in S : Best(S) = {s}
  BY <1>3, OverridersAssumption DEF Selected
<1> QED BY <1>1, <1>2, <1>3

(* The overriders applicable to a class take objects of that class.        *)
LEMMA ApplicableAccept ==
    ASSUME NEW S \in SUBSET Overrider, NEW c
    PROVE  /\ Applicable(S, c) \subseteq S
           /\ \A s \in Applicable(S, c) : c \in Derived[ClassOf[s]]
BY DEF Applicable

(* An overrider is selected for its own class unless another one has it.   *)
LEMMA AloneIsSelected ==
    ASSUME NEW S \in SUBSET Overrider, NEW s \in S, \A r \in S \ {s} : ClassOf[r] # ClassOf[s]
    PROVE  Selected(Applicable(S, ClassOf[s])) = s
<1> DEFINE A == Applicable(S, ClassOf[s])
<1>1. \A r \in S : ClassOf[r] \in Class
  BY LatticeAssumption, OverridersAssumption
<1>2. s \in A
  BY <1>1, LatticeAssumption DEF Applicable
<1>3. \A r \in A : ~ Derives(ClassOf[r], ClassOf[s])
  BY <1>1, LatticeAssumption DEF Applicable, Derives
<1>4. \A r \in A \ {s} : Derives(ClassOf[s], ClassOf[r])
  BY DEF Applicable, Derives
<1>5. Best(A) = {s}
  BY <1>2, <1>3, <1>4 DEF Best
<1> HIDE DEF A
<1>6. \E r \in A : Best(A) = {r}
  BY <1>2, <1>5
<1>7. Selected(A) = CHOOSE r \in A : Best(A) = {r}
  BY <1>6 DEF Selected
<1>8. Selected(A) \in A /\ Best(A) = {Selected(A)}
  BY <1>6, <1>7
<1> QED BY <1>5, <1>8 DEF A

(* The next of an overrider that is selected takes objects of a base.      *)
LEMMA OthersAscend ==
    ASSUME NEW S \in SUBSET Overrider, NEW s \in S,
           Selected(Applicable(S, ClassOf[s])) = s,
           Selected(Applicable(S, ClassOf[s]) \ {s}) \in Overrider
    PROVE  Derives(ClassOf[s], ClassOf[Selected(Applicable(S, ClassOf[s]) \ {s})])
<1> DEFINE A == Applicable(S, ClassOf[s])
           r == Selected(A \ {s})
<1>1. A \in SUBSET Overrider /\ A \ {s} \in SUBSET Overrider
  BY DEF Applicable
<1>2. r \in A \ {s}
  BY <1>1, SelectedIsBest
<1>3. Best(A) = {s}
  BY <1>1, SelectedIsBest
<1>4. r \notin Best(A)
  BY <1>2, <1>3
<1>5. PICK x \in A : Derives(ClassOf[x], ClassOf[r])
  BY <1>2, <1>4 DEF Best
<1>6. ClassOf[s] # ClassOf[r]
  BY <1>3, <1>5 DEF Best
<1>7. ClassOf[s] \in Derived[ClassOf[r]]
  BY <1>2 DEF Applicable
<1> QED BY <1>6, <1>7 DEF Derives

-----------------------------------------------------------------------------
(* Frames: what it takes for the stack to stay sound.                      *)
StackSound == stack \in Seq(Frame) /\ ArgumentsAccepted /\ NextAscends /\ RunningLoaded

LEMMA StackShrinks ==
    ASSUME StackSound, NEW k \in 0 .. Len(stack), stack' = SubSeq(stack, 1, k),
           specs' = specs
    PROVE  StackSound'
<1>1. stack' \in Seq(Frame) /\ Len(stack') = k /\ \A i \in 1 .. k : stack'[i] = stack[i]
  BY DEF StackSound
<1> QED BY <1>1 DEF StackSound, ArgumentsAccepted, NextAscends, RunningLoaded

LEMMA StackGrows ==
    ASSUME StackSound, NEW f \in specs, specs \subseteq Overrider, NEW c \in Class,
           NEW by \in {"call", "next"},
           c \in Derived[ClassOf[f]],
           by = "next" => stack # <<>> /\ Derives(ClassOf[Top.fn], ClassOf[f]),
           stack' = Append(stack, [fn |-> f, arg |-> c, by |-> by]), specs' = specs
    PROVE  StackSound'
<1> DEFINE frame == [fn |-> f, arg |-> c, by |-> by]
<1>1. frame \in Frame
  BY DEF Frame
<1>2. /\ stack' \in Seq(Frame) /\ Len(stack') = Len(stack) + 1
      /\ \A i \in 1 .. Len(stack) : stack'[i] = stack[i]
      /\ stack'[Len(stack) + 1] = frame
  BY <1>1 DEF StackSound
<1>3. ArgumentsAccepted'
  BY <1>2 DEF StackSound, ArgumentsAccepted
<1>4. NextAscends'
  BY <1>2 DEF StackSound, NextAscends, Top
<1>5. RunningLoaded'
  BY <1>2 DEF StackSound, RunningLoaded
<1> QED BY <1>2, <1>3, <1>4, <1>5 DEF StackSound

(* Errors leave calls or the program, and change nothing else.             *)
LEMMA ErrorSound ==
    ASSUME Inv, Error
    PROVE  Inv'
<1>1. StackSound
  BY DEF Inv, TypeOK, StackSound, Frame
<1>2. StackSound' /\ status' \in {"running", "aborted", "undefined"}
  <2>1. ASSUME NEW k \in 0 .. Len(stack), stack' = SubSeq(stack, 1, k), status' = status
        PROVE  StackSound' /\ status' \in {"running", "aborted", "undefined"}
    BY <1>1, <2>1, StackShrinks DEF Error, registered, Inv, TypeOK
  <2>2. CASE status' = "aborted" /\ stack' = stack
    BY <1>1, <2>2 DEF Error, registered, StackSound, ArgumentsAccepted, NextAscends, RunningLoaded
  <2> QED BY <2>1, <2>2 DEF Error
<1>3. UNCHANGED <<classes, specs, initialized, table, next, settled>>
  BY DEF Error, registered, written
<1> QED
  BY <1>2, <1>3 DEF Inv, TypeOK, StackSound, Frame, TableSound, NextSound, Fresh, Selects

LEMMA EnterSound ==
    ASSUME Inv, NEW f \in Function, NEW c \in Class, NEW by \in {"call", "next"}, Enter(f, c, by),
           f \in Overrider => f \in specs /\ c \in Derived[ClassOf[f]],
           by = "next" /\ f \in Overrider => stack # <<>> /\ Derives(ClassOf[Top.fn], ClassOf[f])
    PROVE  Inv'
<1>1. CASE f \in Overrider
  <2>1. /\ stack' = Append(stack, [fn |-> f, arg |-> c, by |-> by])
        /\ UNCHANGED <<classes, specs, initialized, table, next, settled, status>>
    BY <1>1, OverridersAssumption DEF Enter, registered, written
  <2>2. StackSound
    BY DEF Inv, TypeOK, StackSound, Frame
  <2>3. StackSound'
    BY <1>1, <2>1, <2>2, StackGrows DEF Inv, TypeOK
  <2> QED
    BY <2>1, <2>3 DEF Inv, TypeOK, StackSound, Frame, TableSound, NextSound, Fresh, Selects
<1>2. CASE f = Garbage
  <2>1. /\ status' = "undefined"
        /\ UNCHANGED <<classes, specs, initialized, table, next, settled, stack>>
    BY <1>2, OverridersAssumption DEF Enter, registered, written
  <2> QED
    BY <2>1 DEF Inv, TypeOK, TableSound, NextSound, Fresh, Selects, RunningLoaded,
                ArgumentsAccepted, NextAscends
<1>3. CASE f \in {not_implemented, ambiguous}
  <2>1. Error
    BY <1>3, OverridersAssumption DEF Enter
  <2> QED BY <2>1, ErrorSound
<1> QED BY <1>1, <1>2, <1>3 DEF Function

-----------------------------------------------------------------------------
(* The actions.                                                            *)

LEMMA ClassesComeAndGo ==
    ASSUME Inv, NEW c \in Class, Register(c) \/ Unregister(c), UNCHANGED status
    PROVE  Inv'
<1>1. /\ classes' \subseteq Class /\ settled' = FALSE
      /\ UNCHANGED <<specs, initialized, table, next, stack, status>>
  BY DEF Inv, TypeOK, Register, Unregister
<1> QED
  BY <1>1 DEF Inv, TypeOK, TableSound, NextSound, Fresh, RunningLoaded, ArgumentsAccepted, NextAscends

LEMMA OverridersCome ==
    ASSUME Inv, NEW s \in Overrider, AddOverrider(s), UNCHANGED status
    PROVE  Inv'
<1>1. /\ specs' = specs \cup {s} /\ next' = [next EXCEPT ![s] = Garbage] /\ settled' = FALSE
      /\ UNCHANGED <<classes, initialized, table, stack, status>>
  BY DEF AddOverrider
<1>2. TypeOK'
  BY <1>1 DEF Inv, TypeOK, Function
<1>3. TableSound' /\ NextSound'
  BY <1>1, OverridersAssumption DEF Inv, TypeOK, TableSound, NextSound
<1> QED
  BY <1>1, <1>2, <1>3 DEF Inv, Fresh, RunningLoaded, ArgumentsAccepted, NextAscends

LEMMA OverridersGo ==
    ASSUME Inv, NEW s \in Overrider, RemoveOverrider(s), UNCHANGED status
    PROVE  Inv'
<1>1. /\ s \notin Running /\ specs' = specs \ {s} /\ settled' = FALSE
      /\ table' = [x \in DOMAIN table |-> IF table[x] = s THEN Garbage ELSE table[x]]
      /\ next' = [x \in DOMAIN next |-> IF next[x] = s THEN Garbage ELSE next[x]]
      /\ UNCHANGED <<classes, initialized, stack, status>>
  BY DEF RemoveOverrider, Forget
<1>2. TypeOK'
  BY <1>1 DEF Inv, TypeOK, Function
<1>3. TableSound' /\ NextSound'
  BY <1>1, OverridersAssumption DEF Inv, TypeOK, TableSound, NextSound
<1>4. RunningLoaded'
  BY <1>1 DEF Inv, RunningLoaded, Running
<1> QED
  BY <1>1, <1>2, <1>3, <1>4 DEF Inv, Fresh, ArgumentsAccepted, NextAscends

(* What initialize writes is sound, whatever was there.                    *)
LEMMA InitializeSound ==
    ASSUME Inv, Initialize
    PROVE  Inv'
<1>1. /\ table' = NewTable /\ next' = NewNext /\ initialized' = TRUE /\ settled' = TRUE
      /\ UNCHANGED <<classes, specs, stack, status>>
  BY DEF Initialize, registered
<1>2. specs \in SUBSET Overrider /\ classes \subseteq Class /\ next \in [Overrider -> Function]
  BY DEF Inv, TypeOK
<1>3. \A c \in classes :
        /\ NewTable[c] \in Function \ {Garbage}
        /\ NewTable[c] \in Overrider => NewTable[c] \in specs /\ c \in Derived[ClassOf[NewTable[c]]]
  <2> TAKE c \in classes
  <2>1. /\ Applicable(specs, c) \in SUBSET Overrider
        /\ \A s \in Applicable(specs, c) : s \in specs /\ c \in Derived[ClassOf[s]]
    BY <1>2, ApplicableAccept
  <2>2. NewTable[c] = Selected(Applicable(specs, c))
    BY DEF NewTable
  <2> QED BY <2>1, <2>2, SelectedIsBest, OverridersAssumption DEF Function
<1>4. \A s \in specs : Selects(s) =>
        /\ NewNext[s] \in Function \ {Garbage}
        /\ NewNext[s] \in Overrider =>
             NewNext[s] \in specs /\ Derives(ClassOf[s], ClassOf[NewNext[s]])
  <2> SUFFICES ASSUME NEW s \in specs, Selects(s)
               PROVE  /\ NewNext[s] \in Function \ {Garbage}
                      /\ NewNext[s] \in Overrider =>
                           NewNext[s] \in specs /\ Derives(ClassOf[s], ClassOf[NewNext[s]])
    OBVIOUS
  <2>1. NewNext[s] = Selected(Applicable(specs, ClassOf[s]) \ {s})
    BY <1>2 DEF NewNext, Others, Selects
  <2>2. Applicable(specs, ClassOf[s]) \ {s} \in SUBSET specs
    BY <1>2 DEF Applicable
  <2>3. /\ NewNext[s] \in Function \ {Garbage}
        /\ NewNext[s] \in Overrider => NewNext[s] \in specs
    BY <1>2, <2>1, <2>2, SelectedIsBest, OverridersAssumption DEF Function
  <2> QED BY <1>2, <2>1, <2>3, OthersAscend DEF Selects
<1>5. \A s \in Overrider : ~ (s \in specs /\ Selects(s)) => NewNext[s] = next[s]
  BY DEF NewNext, Selects
<1>6. DOMAIN NewTable = classes /\ DOMAIN NewNext = Overrider
  BY DEF NewTable, NewNext
<1>7. NewNext \in [Overrider -> Function]
  <2>1. \A s \in Overrider : NewNext[s] \in Function
    BY <1>2, <1>4, <1>5
  <2> QED BY <2>1 DEF NewNext
<1>8. TypeOK'
  BY <1>1, <1>2, <1>3, <1>6, <1>7 DEF Inv, TypeOK
<1>9. TableSound'
  BY <1>1, <1>3, <1>6 DEF TableSound
<1>10. NextSound'
  BY <1>1, <1>4, <1>5 DEF Inv, NextSound
<1>11. Fresh'
  BY <1>1, <1>3, <1>4, <1>6 DEF Fresh, Selects
<1> QED
  BY <1>1, <1>8, <1>9, <1>10, <1>11 DEF Inv, RunningLoaded, ArgumentsAccepted, NextAscends

LEMMA FinalizeSound ==
    ASSUME Inv, Finalize
    PROVE  Inv'
<1>1. /\ initialized' = FALSE /\ table' = <<>> /\ DOMAIN table' = {}
      /\ UNCHANGED <<classes, specs, next, settled, stack, status>>
  BY DEF Finalize, registered
<1> QED
  BY <1>1 DEF Inv, TypeOK, TableSound, NextSound, Fresh, Selects, RunningLoaded,
              ArgumentsAccepted, NextAscends

LEMMA CallSound ==
    ASSUME Inv, NEW c \in Class, Call(c)
    PROVE  Inv'
<1>1. CASE initialized /\ c \in DOMAIN table
  <2>1. Enter(table[c], c, "call")
    BY <1>1 DEF Call
  <2>2. /\ table[c] \in Function
        /\ table[c] \in Overrider => table[c] \in specs /\ c \in Derived[ClassOf[table[c]]]
    BY <1>1 DEF Inv, TypeOK, TableSound
  <2> QED BY <2>1, <2>2, EnterSound
<1>2. CASE ~ (initialized /\ c \in DOMAIN table)
  BY <1>2, ErrorSound DEF Call
<1> QED BY <1>1, <1>2

LEMMA CallNextSound ==
    ASSUME Inv, CallNext
    PROVE  Inv'
<1>1. stack # <<>> /\ Enter(next[Top.fn], Top.arg, "next")
  BY DEF CallNext
<1>2. /\ Len(stack) \in DOMAIN stack
      /\ Top \in Frame /\ Top = stack[Len(stack)]
      /\ Top.arg \in Derived[ClassOf[Top.fn]]
  <2>1. stack \in Seq(Frame)
    BY DEF Inv, TypeOK, Frame
  <2>2. Len(stack) \in DOMAIN stack
    BY <1>1, <2>1
  <2>3. stack[Len(stack)] \in Frame
    BY <2>1, <2>2
  <2>4. stack[Len(stack)].arg \in Derived[ClassOf[stack[Len(stack)].fn]]
    BY <2>2 DEF Inv, ArgumentsAccepted
  <2> QED BY <2>2, <2>3, <2>4 DEF Top
<1>3. Top.fn \in Overrider /\ Top.arg \in Class
  BY <1>2 DEF Frame
<1>4. next[Top.fn] \in Function
  BY <1>3 DEF Inv, TypeOK
<1>5. next[Top.fn] \in Overrider =>
        next[Top.fn] \in specs /\ Derives(ClassOf[Top.fn], ClassOf[next[Top.fn]])
  BY <1>3 DEF Inv, NextSound
<1>6. next[Top.fn] \in Overrider => Top.arg \in Derived[ClassOf[next[Top.fn]]]
  <2> SUFFICES ASSUME next[Top.fn] \in Overrider
               PROVE  Top.arg \in Derived[ClassOf[next[Top.fn]]]
    OBVIOUS
  <2>1. ClassOf[next[Top.fn]] \in Class /\ ClassOf[Top.fn] \in Derived[ClassOf[next[Top.fn]]]
    BY <1>5, LatticeAssumption, OverridersAssumption DEF Derives
  <2> QED BY <1>2, <2>1, LatticeAssumption
<1> QED BY <1>1, <1>3, <1>4, <1>5, <1>6, EnterSound

LEMMA ReturnSound ==
    ASSUME Inv, Return
    PROVE  Inv'
<1>1. /\ stack # <<>> /\ stack' = SubSeq(stack, 1, Len(stack) - 1)
      /\ UNCHANGED <<classes, specs, initialized, table, next, settled, status>>
  BY DEF Return, registered, written
<1>2. StackSound /\ Len(stack) - 1 \in 0 .. Len(stack)
  BY <1>1 DEF Inv, TypeOK, StackSound, Frame
<1>3. StackSound'
  BY <1>1, <1>2, StackShrinks
<1> QED
  BY <1>1, <1>3 DEF Inv, TypeOK, StackSound, Frame, TableSound, NextSound, Fresh, Selects

LEMMA StepSound ==
    ASSUME Inv, [Next]_vars
    PROVE  Inv'
<1>1. CASE Next
  <2>1. CASE Registration
    BY <2>1, ClassesComeAndGo, OverridersCome, OverridersGo DEF Registration
  <2>2. CASE Initialize \/ InitializeFails \/ Finalize
    BY <2>2, InitializeSound, ErrorSound, FinalizeSound DEF InitializeFails
  <2>3. CASE \E c \in Class : Call(c)
    BY <2>3, CallSound
  <2>4. CASE CallNext \/ Return
    BY <2>4, CallNextSound, ReturnSound
  <2> QED BY <1>1, <2>1, <2>2, <2>3, <2>4 DEF Next
<1>2. CASE UNCHANGED vars
  BY <1>2 DEF vars, registered, written, Inv, TypeOK, TableSound, NextSound, Fresh, Selects,
              RunningLoaded, ArgumentsAccepted, NextAscends
<1> QED BY <1>1, <1>2

(* The invariant: it takes the pointers and the stack together.            *)
THEOREM Invariance == Spec => []Inv
<1>1. Init => Inv
  <2> SUFFICES ASSUME Init PROVE Inv
    OBVIOUS
  <2>1. DOMAIN table = {} /\ stack = <<>> /\ DOMAIN stack = {}
    BY DEF Init
  <2>2. TypeOK
    <3>1. stack \in Seq([fn : Overrider, arg : Class, by : {"call", "next"}])
      BY DEF Init
    <3>2. classes \subseteq Class /\ next \in [Overrider -> Function]
      BY LatticeAssumption DEF Init, Function
    <3> QED BY <2>1, <3>1, <3>2 DEF Init, TypeOK
  <2> QED
    BY <2>1, <2>2, OverridersAssumption
       DEF Init, Inv, TableSound, NextSound, Fresh, RunningLoaded, ArgumentsAccepted, NextAscends
<1>2. Inv /\ [Next]_vars => Inv'
  BY StepSound
<1> QED BY <1>1, <1>2, PTL DEF Spec

(* Overriders run only for arguments of their classes: the unchecked casts *)
(* of the thunks are right, for any classes, overriders and nesting.       *)
THEOREM CastsAreRight == Spec => []ArgumentsAccepted
<1>1. Inv => ArgumentsAccepted
  BY DEF Inv
<1> QED BY <1>1, Invariance, PTL

(* A chain of `next` never comes back to an overrider that runs in it.     *)
THEOREM NextLeadsToBases == Spec => []NextAscends
<1>1. Inv => NextAscends
  BY DEF Inv
<1> QED BY <1>1, Invariance, PTL

(* An error leads no call astray.                                          *)
LEMMA ErrorsAreDefined ==
    ASSUME status = "running", Error
    PROVE  status' # "undefined"
BY DEF Error

LEMMA GarbageOnly ==
    ASSUME status = "running", NEW f \in Function, NEW c, NEW by, Enter(f, c, by),
           status' = "undefined"
    PROVE  f = Garbage
<1>1. CASE f \in Overrider
  BY <1>1, OverridersAssumption DEF Enter
<1>2. CASE f \in {not_implemented, ambiguous}
  <2>1. Error
    BY <1>2, OverridersAssumption DEF Enter
  <2> QED BY <2>1, ErrorsAreDefined
<1> QED BY <1>1, <1>2 DEF Function

(* Where behaviour is undefined, the pointer was not written by the last   *)
(* initialize, or something was removed since.                             *)
THEOREM UndefinedNeedsStalePointers == Spec => UndefinedOnlyIfStale
<1> DEFINE A == status' = "undefined" => ~ settled \/ Superseded(Top.fn)
<1>1. Inv /\ [Next]_vars => [A]_vars
  <2> SUFFICES ASSUME Inv, Next, status' = "undefined", settled
               PROVE  Superseded(Top.fn)
    OBVIOUS
  <2>1. status = "running"
    BY DEF Next
  <2>2. (\E c \in Class : Call(c)) \/ CallNext
    BY <2>1, ErrorsAreDefined
       DEF Next, Registration, Initialize, InitializeFails, Finalize, Return
  <2>3. ASSUME NEW c \in Class, Call(c) PROVE FALSE
    <3>1. initialized /\ c \in DOMAIN table /\ Enter(table[c], c, "call")
      BY <2>1, <2>3, ErrorsAreDefined DEF Call
    <3>2. table[c] = Garbage
      BY <2>1, <3>1, GarbageOnly DEF Inv, TypeOK
    <3> QED BY <3>1, <3>2 DEF Inv, Fresh
  <2>4. CallNext
    BY <2>2, <2>3
  <2>5. stack # <<>> /\ Enter(next[Top.fn], Top.arg, "next")
    BY <2>4 DEF CallNext
  <2>6. Top.fn \in specs
    BY <2>5 DEF Top, Inv, TypeOK, RunningLoaded
  <2>7. next[Top.fn] = Garbage
    BY <2>1, <2>5, <2>6, GarbageOnly DEF Inv, TypeOK
  <2>8. ~ Selects(Top.fn)
    BY <2>6, <2>7 DEF Inv, Fresh
  <2>9. specs \in SUBSET Overrider
    BY DEF Inv, TypeOK
  <2> QED BY <2>6, <2>8, <2>9, AloneIsSelected DEF Selects, Superseded
<1>2. Spec => []Inv /\ [][Next]_vars
  BY Invariance, PTL DEF Spec
<1>3. [][A]_vars => UndefinedOnlyIfStale
  BY PTL DEF UndefinedOnlyIfStale
<1> QED BY <1>1, <1>2, <1>3, PTL
-----------------------------------------------------------------------------
(* The tables that the last initialize wrote.                              *)

(* What a set of finitely many overriders has only one best overrider for, *)
(* this one is better than each of the others: below each of them there is *)
(* one that nothing is below.                                              *)
LEMMA BestIsBelowOthers ==
    ASSUME NEW S \in SUBSET Overrider, NEW s \in S, Best(S) = {s}, NEW r \in S \ {s}
    PROVE  Derives(ClassOf[s], ClassOf[r])
<1> DEFINE Below(x) == {y \in S : Derives(ClassOf[y], ClassOf[x])}
           Family   == {Below(x) : x \in Below(r)}
<1>1. \A x \in S : ClassOf[x] \in Class
  BY LatticeAssumption, OverridersAssumption
<1>2. \A x, y, z \in S :
        Derives(ClassOf[z], ClassOf[y]) /\ Derives(ClassOf[y], ClassOf[x])
          => Derives(ClassOf[z], ClassOf[x])
  BY <1>1, LatticeAssumption DEF Derives
<1>3. \A x \in S : Below(x) = {} => x = s
  BY DEF Best
<1>4. Below(r) # {}
  BY <1>3
<1>5. Family # {} /\ Family \subseteq FiniteSubsetsOf(S)
  <2>1. IsFiniteSet(S)
    BY OverridersAssumption, FS_Subset
  <2>2. Family \subseteq SUBSET S
    OBVIOUS
  <2>3. FiniteSubsetsOf(S) = SUBSET S
    BY <2>1, FS_FiniteSubsetsOfFinite
  <2>4. Family # {}
    <3>1. PICK x \in Below(r) : TRUE
      BY <1>4
    <3>2. Below(x) \in Family
      BY <3>1
    <3> QED BY <3>2
  <2> QED BY <2>2, <2>3, <2>4
<1>6. \E F \in Family : \A G \in Family : ~ (<<G, F>> \in StrictSubsetOrdering(S))
  <2> HIDE DEF Family
  <2> QED BY <1>5, FS_StrictSubsetOrderingWellFounded, WFMin
<1>7. PICK x \in Below(r) : \A G \in Family : ~ (<<G, Below(x)>> \in StrictSubsetOrdering(S))
  BY <1>6
<1>8. ASSUME NEW y \in Below(x) PROVE FALSE
  <2>1. Below(y) \in Family
    BY <1>2
  <2>2. Below(y) \subseteq Below(x)
    BY <1>2
  <2>3. y \notin Below(y) /\ y \in Below(x)
    BY DEF Derives
  <2>4. <<Below(y), Below(x)>> \in StrictSubsetOrdering(S)
    BY <2>2, <2>3 DEF StrictSubsetOrdering
  <2> QED BY <1>7, <2>1, <2>4
<1>9. x = s
  BY <1>3, <1>8
<1> QED BY <1>9

(* The overriders applicable to a class for which one is selected are those*)
(* applicable to the class of that one.                                    *)
LEMMA SameApplicable ==
    ASSUME NEW S \in SUBSET Overrider, NEW c \in Class, NEW s \in Applicable(S, c),
           Best(Applicable(S, c)) = {s}
    PROVE  Applicable(S, ClassOf[s]) = Applicable(S, c)
<1>1. \A r \in S : ClassOf[r] \in Class
  BY LatticeAssumption, OverridersAssumption
<1>2. Applicable(S, ClassOf[s]) \subseteq Applicable(S, c)
  BY <1>1, LatticeAssumption DEF Applicable
<1>3. ASSUME NEW r \in Applicable(S, c) PROVE r \in Applicable(S, ClassOf[s])
  <2>1. Applicable(S, c) \in SUBSET Overrider
    BY DEF Applicable
  <2>2. CASE r = s
    BY <1>1, <2>2, LatticeAssumption DEF Applicable
  <2>3. CASE r # s
    <3>1. Derives(ClassOf[s], ClassOf[r])
      BY <2>1, <2>3, BestIsBelowOthers
    <3> QED BY <3>1 DEF Applicable, Derives
  <2> QED BY <2>2, <2>3
<1> QED BY <1>2, <1>3

(* As long as nothing was registered or removed, the tables are those that *)
(* initialize wrote.                                                       *)
Written ==
    initialized /\ settled =>
        /\ DOMAIN table = classes
        /\ \A c \in classes : table[c] = Selected(Applicable(specs, c))
        /\ \A s \in specs : Selects(s) => next[s] = Selected(Applicable(specs, ClassOf[s]) \ {s})

LEMMA StepWritten ==
    ASSUME Inv, Written, [Next]_vars
    PROVE  Written'
<1>1. CASE UNCHANGED <<registered, written>>
  BY <1>1 DEF registered, written, Written, Selects
<1>2. CASE Registration
  BY <1>2 DEF Registration, Register, Unregister, AddOverrider, RemoveOverrider, Written
<1>3. CASE Initialize
  <2>1. /\ table' = NewTable /\ next' = NewNext
        /\ UNCHANGED <<classes, specs>>
    BY <1>3 DEF Initialize, registered
  <2>2. specs \subseteq Overrider
    BY DEF Inv, TypeOK
  <2>3. \A s \in specs : Selects(s) => NewNext[s] = Selected(Applicable(specs, ClassOf[s]) \ {s})
    BY <2>2 DEF NewNext, Others, Selects
  <2>4. DOMAIN NewTable = classes /\ \A c \in classes : NewTable[c] = Selected(Applicable(specs, c))
    BY DEF NewTable
  <2> QED BY <2>1, <2>3, <2>4 DEF Written, Selects
<1>4. CASE Finalize
  BY <1>4 DEF Finalize, Written
<1>5. ASSUME NEW c \in Class, Call(c) PROVE UNCHANGED <<registered, written>>
  BY <1>5 DEF Call, Enter, Error
<1>6. ASSUME CallNext PROVE UNCHANGED <<registered, written>>
  BY <1>6 DEF CallNext, Enter, Error
<1>7. ASSUME InitializeFails \/ Return PROVE UNCHANGED <<registered, written>>
  BY <1>7 DEF InitializeFails, Error, Return
<1>8. CASE UNCHANGED vars
  BY <1>1, <1>8 DEF vars, registered, written
<1> QED BY <1>1, <1>2, <1>3, <1>4, <1>5, <1>6, <1>7, <1>8 DEF Next

(* Whatever was called, registered, removed and thrown before, as long as  *)
(* nothing was registered or removed since the last initialize, every call *)
(* runs the most specific overrider, whose `next` is the best of the others*)
(* and has_next says whether there is one.                                 *)
THEOREM CallsAreCurrent == Spec => []CallsCurrent
<1>1. Init => Written
  BY DEF Init, Written
<1>2. Inv /\ Written => CallsCurrent
  <2> SUFFICES ASSUME Inv, Written, initialized, settled, NEW c \in classes
               PROVE  LET S == Applicable(specs, c)
                          s == table[c]
                      IN /\ s = Selected(S)
                         /\ s \in Overrider =>
                              /\ next[s] = Selected(S \ {s})
                              /\ has_next(s) = (\E r \in S \ {s} : Best(S \ {s}) = {r})
    BY DEF CallsCurrent
  <2> DEFINE S == Applicable(specs, c)
             s == table[c]
  <2>1. s = Selected(S)
    BY DEF Written
  <2> SUFFICES ASSUME s \in Overrider
               PROVE  /\ next[s] = Selected(S \ {s})
                      /\ has_next(s) = (\E r \in S \ {s} : Best(S \ {s}) = {r})
    BY <2>1
  <2>2. S \in SUBSET specs /\ specs \in SUBSET Overrider /\ classes \subseteq Class
    BY DEF Inv, TypeOK, Applicable
  <2>3. s \in S /\ Best(S) = {s}
    BY <2>1, <2>2, SelectedIsBest
  <2>4. Applicable(specs, ClassOf[s]) = S
    BY <2>2, <2>3, SameApplicable
  <2>5. next[s] = Selected(S \ {s})
    BY <2>1, <2>2, <2>3, <2>4 DEF Written, Selects
  <2>6. CASE \E r \in S \ {s} : Best(S \ {s}) = {r}
    <3>1. Selected(S \ {s}) = CHOOSE r \in S \ {s} : Best(S \ {s}) = {r}
      BY <2>6 DEF Selected
    <3>2. Selected(S \ {s}) \in Overrider
      BY <2>2, <2>6, <3>1
    <3> QED BY <2>5, <2>6, <3>2, OverridersAssumption DEF has_next
  <2>7. CASE ~ \E r \in S \ {s} : Best(S \ {s}) = {r}
    BY <2>5, <2>7 DEF has_next, Selected
  <2> QED BY <2>5, <2>6, <2>7
<1>3. Inv /\ Written /\ [Next]_vars => Written'
  BY StepWritten
<1> QED BY <1>1, <1>2, <1>3, Invariance, PTL DEF Spec
=============================================================================
