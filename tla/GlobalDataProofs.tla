-------------------------- MODULE GlobalDataProofs --------------------------
(* Proofs about the whole of initialize() and the calls that follow it, for*)
(* any programs whose methods have virtual parameters.  The first parts    *)
(* assume CompiledWell, what compile leaves; the last ones prove it from   *)
(* the proofs about the passes.                                            *)
EXTENDS GlobalData, CompilerProofs

-----------------------------------------------------------------------------
(* What is needed of the tables of a method: for each call, the groups of  *)
(* its classes lead to a cell, and the cell holds what the rules select.   *)

IsPath(m, t, f) ==
  /\ f \in [0 .. Arity(m) -> Nat] /\ f[0] = 0
  /\ \A k \in 1 .. Arity(m) :
       f[k] = f[k - 1] + Entry(m, Groups(m), k, t[k]).group_index * Tables(m, Groups(m))!Stride(k)

CellWorks(m, t, n) ==
  /\ n \in 0 .. Tables(m, Groups(m))!Cells - 1
  /\ Tables(m, <<>>)!DominanceTransitive(Tables(m, <<>>)!Applicable(t))
       => {Tables(m, Groups(m))!OverriderOfCell(n)} = Tables(m, <<>>)!BestOf(Tables(m, <<>>)!Applicable(t))

TablesWork(m) ==
  /\ Tables(m, Groups(m))!Cells \in Nat \ {0}
  /\ \A d \in 1 .. Arity(m) : Tables(m, Groups(m))!Stride(d) \in Nat
  /\ Tables(m, Groups(m))!Stride(1) = 1
  /\ \A d \in 1 .. Arity(m) : \A c \in transitive_derived[methods[m].vp[d]] :
       Entry(m, Groups(m), d, c).group_index \in Nat
  /\ \A t \in Calls(m) : \E f : IsPath(m, t, f) /\ CellWorks(m, t, f[Arity(m)])
  /\ \A n : Tables(m, Groups(m))!NextOf(Tables(m, Groups(m))!MaskOfCell(n))
             \in DOMAIN methods[m].specs \cup {not_implemented, ambiguous}

(* Where the entry of parameter d of method m is in the v-table of class c.*)
PlaceOf(m, d, c) == slots[<<m, d>>] - first_slot[c] + 1

Passable(m, d) == transitive_derived[methods[m].vp[d]]

SlotsApart ==
  \A m, n \in Method : \A d \in 1 .. Arity(m), e \in 1 .. Arity(n) :
    \A c \in Passable(m, d) :
      /\ slots[<<m, d>>] \in Nat
      /\ PlaceOf(m, d, c) \in 1 .. vtbl_size[c]
      /\ c \in Passable(n, e) /\ <<m, d>> # <<n, e>> => PlaceOf(m, d, c) # PlaceOf(n, e, c)

(* What the passes of compile leave, from which all the rest follows.      *)
CompiledWell ==
  pass = "done" =>
    /\ \A m \in Method : TablesWork(m)
    /\ first_slot \in [Class -> Nat] /\ vtbl_size \in [Class -> Nat]
    /\ (Classes!Orderly => SlotsApart)

-----------------------------------------------------------------------------
(* How far the loops have come: the methods whose tables are made, those   *)
(* written to dispatch_data, those whose `next` are set, and the classes   *)
(* whose v-tables are written.                                             *)

MethodsMade ==
  IF stage = "compile" THEN 0 ELSE IF stage = "tables" THEN next_item - 1 ELSE Len(methods)

MethodsWritten ==
  IF stage = "methods" THEN next_item - 1
  ELSE IF stage \in {"next", "vtables", "ready"} THEN Len(methods) ELSE 0

NextsWritten ==
  IF stage = "next" THEN next_item - 1
  ELSE IF stage \in {"vtables", "ready"} THEN Len(methods) ELSE 0

VtablesWritten ==
  IF stage = "vtables" THEN next_item - 1
  ELSE IF stage = "ready" THEN Len(classes) ELSE 0

StageInv ==
  /\ stage \in {"compile", "tables", "resize", "methods", "next", "vtables", "ready"}
  /\ (stage = "compile" <=> pass # "done")
  /\ (stage \in {"compile", "resize", "ready"} => next_item = 1)
  /\ next_item \in 1 .. Items + 1

(* The table of method m.                                                  *)
Table(m) ==
  [n \in 1 .. Tables(m, Groups(m))!Cells |-> Tables(m, Groups(m))!OverriderOfCell(n - 1)]

TablesMade ==
  /\ dispatch_tables = [m \in 1 .. MethodsMade |-> Table(m)]
  /\ strides = [m \in 1 .. MethodsMade |-> Strides(m, Groups(m))]
  /\ nexts = [m \in 1 .. MethodsMade |-> NextOverriders(m, Groups(m))]

PipelineInv == CompilerInv /\ CompiledWell /\ StageInv

LEMMA Compiled ==
  ASSUME CompilerInv, CompiledWell, pass = "done"
  PROVE  /\ ClassInv /\ class_pc = "done" /\ AllKnown
         /\ Len(methods) \in Nat /\ Method = 1 .. Len(methods)
         /\ \A m \in Method : TablesWork(m) /\ Arity(m) \in Nat \ {0}
         /\ classes \in Seq(Class) /\ IsInjective(classes) /\ Len(classes) \in Nat
         /\ first_slot \in [Class -> Nat] /\ vtbl_size \in [Class -> Nat]
  <1>1. ClassInv /\ class_pc = "done" /\ AllKnown
    BY AfterTheMethods
  <1>2. Len(methods) \in Nat /\ Method = 1 .. Len(methods)
    BY <1>1, MethodFacts DEF ClassInv, Method
  <1>3. \A m \in Method : TablesWork(m)
    BY DEF CompiledWell
  <1>4. ASSUME NEW m \in Method PROVE Arity(m) \in Nat \ {0}
    <2>1. methods[m].vp \in Seq(Class)
      BY <1>1, <1>2, MethodFacts DEF ClassInv
    <2>2. HasParameters(program)
      BY <1>1, ParametersAssumption DEF ClassInv, PlaceInv
    <2>3. methods[m].vp # <<>>
      BY <2>2 DEF HasParameters, methods, Method
    <2> QED BY <2>1, <2>3 DEF Arity
  <1>5. classes \in Seq(Class) /\ IsInjective(classes)
    BY <1>1, EndFacts
  <1>6. first_slot \in [Class -> Nat] /\ vtbl_size \in [Class -> Nat]
    BY DEF CompiledWell
  <1> QED BY <1>1, <1>2, <1>3, <1>4, <1>5, <1>6

LEMMA SlotsAreApart == CompiledWell /\ pass = "done" /\ Classes!Orderly => SlotsApart
  BY DEF CompiledWell

LEMMA OrderlyKept ==
  ASSUME UNCHANGED classVars
  PROVE  Classes!Orderly' <=> Classes!Orderly
  BY DEF classVars, Classes!Orderly, Classes!ListedTogether, Classes!TrueDirectBases,
    Classes!TrueBases, Classes!type_index, Classes!ToSet

LEMMA MethodsKept ==
  ASSUME UNCHANGED vars
  PROVE  /\ methods' = methods /\ Method' = Method /\ classes' = classes /\ pass' = pass
         /\ slots' = slots /\ first_slot' = first_slot /\ vtbl_size' = vtbl_size
         /\ transitive_derived' = transitive_derived /\ is_abstract' = is_abstract
         /\ \A m : Arity(m)' = Arity(m)
         /\ (Classes!Orderly' <=> Classes!Orderly)
  <1>1. UNCHANGED classVars /\ UNCHANGED workVars /\ pass' = pass
    BY DEF vars
  <1>2. methods' = methods
    BY <1>1 DEF methods, classVars
  <1>3. Classes!Orderly' <=> Classes!Orderly
    BY <1>1, OrderlyKept
  <1> QED BY <1>1, <1>2, <1>3 DEF classVars, workVars, Method, Arity

LEMMA GroupsKept ==
  ASSUME UNCHANGED vars
  PROVE  /\ \A m : Groups(m)' = Groups(m)
         /\ \A m, d, c : Entry(m, Groups(m), d, c)' = Entry(m, Groups(m), d, c)
  <1>1. /\ methods' = methods /\ transitive_derived' = transitive_derived
        /\ is_abstract' = is_abstract /\ \A m : Arity(m)' = Arity(m)
    BY MethodsKept
  <1>2. \A m, d : Tables(m, <<>>)!MakeGroups(d)' = Tables(m, <<>>)!MakeGroups(d)
    BY <1>1 DEF Tables!MakeGroups, Tables!Group, Tables!GroupIndex, Tables!MaskLess, Tables!Max,
      Tables!Cardinality, Tables!Mask, Tables!Covariant, Tables!Overrider, Tables!Masks,
      Tables!GroupedClasses
  <1>3. \A m : Groups(m)' = Groups(m)
    BY <1>1, <1>2 DEF Groups
  <1> QED BY <1>3 DEF Entry

LEMMA CellsKept ==
  ASSUME UNCHANGED vars
  PROVE  /\ \A m : Tables(m, Groups(m))!Cells' = Tables(m, Groups(m))!Cells
         /\ \A m, d : Tables(m, Groups(m))!Stride(d)' = Tables(m, Groups(m))!Stride(d)
         /\ \A m, n : Tables(m, Groups(m))!OverriderOfCell(n)' = Tables(m, Groups(m))!OverriderOfCell(n)
         /\ \A m, n : Tables(m, Groups(m))!NextOf(Tables(m, Groups(m))!MaskOfCell(n))'
                        = Tables(m, Groups(m))!NextOf(Tables(m, Groups(m))!MaskOfCell(n))
  <1>1. /\ methods' = methods /\ transitive_derived' = transitive_derived
        /\ is_abstract' = is_abstract
        /\ \A m : Groups(m)' = Groups(m)
    BY MethodsKept, GroupsKept
  <1>2. \A m : Tables(m, Groups(m))!Cells' = Tables(m, Groups(m))!Cells
    BY <1>1, ZenonT(60) DEF Tables!Cells, Tables!CellsUpTo, Tables!Extent, Tables!arity
  <1>3. \A m, d : Tables(m, Groups(m))!Stride(d)' = Tables(m, Groups(m))!Stride(d)
    BY <1>1 DEF Tables!Stride, Tables!CellsUpTo, Tables!Extent, Tables!arity
  <1>4. \A m, n : Tables(m, Groups(m))!MaskOfCell(n)' = Tables(m, Groups(m))!MaskOfCell(n)
    BY <1>1, <1>3 DEF Tables!MaskOfCell, Tables!GroupOfCell, Tables!Overrider, Tables!Extent,
      Tables!arity
  <1>5. \A m, S : Tables(m, Groups(m))!Dominants(S)' = Tables(m, Groups(m))!Dominants(S)
    <2>1. \A m, c : Tables(m, Groups(m))!Sift(c)' = Tables(m, Groups(m))!Sift(c)
      BY <1>1 DEF Tables!Sift, Tables!CompareWithNext, Tables!Compare, Tables!is_more_specific,
        Tables!arity, Tables!Derives, Tables!Covariant
    <2>2. \A m, S : Tables(m, Groups(m))!Candidates(S)' = Tables(m, Groups(m))!Candidates(S)
      BY <1>1 DEF Tables!Candidates, Tables!Overrider
    <2>3. \A m, S : /\ Tables(m, Groups(m))!Dominants(S)
                         = Tables(m, Groups(m))!Sift(Tables(m, Groups(m))!Candidates(S))
                    /\ Tables(m, Groups(m))!Dominants(S)'
                         = Tables(m, Groups(m))!Sift(Tables(m, Groups(m))!Candidates(S))'
      BY DEF Tables!Dominants, Tables!select_dominant_overriders
    <2> QED BY <2>1, <2>2, <2>3
  <1>6. \A m, D : /\ Tables(m, Groups(m))!Selected(D)' = Tables(m, Groups(m))!Selected(D)
                  /\ Tables(m, Groups(m))!Remaining(D)' = Tables(m, Groups(m))!Remaining(D)
    BY <1>1 DEF Tables!Selected, Tables!Remaining, Tables!Range, Tables!Cardinality,
      Tables!Picked, Tables!Max
  <1>7. \A m, n : Tables(m, Groups(m))!OverriderOfCell(n)' = Tables(m, Groups(m))!OverriderOfCell(n)
    BY <1>4, <1>5, <1>6 DEF Tables!OverriderOfCell
  <1>8. \A m, n : Tables(m, Groups(m))!NextOf(Tables(m, Groups(m))!MaskOfCell(n))'
                        = Tables(m, Groups(m))!NextOf(Tables(m, Groups(m))!MaskOfCell(n))
    BY <1>4, <1>5, <1>6 DEF Tables!NextOf
  <1> QED BY <1>2, <1>3, <1>7, <1>8

LEMMA TablesKept ==
  ASSUME UNCHANGED vars
  PROVE  /\ \A m : Table(m)' = Table(m)
         /\ \A m : Strides(m, Groups(m))' = Strides(m, Groups(m))
         /\ \A m : NextOverriders(m, Groups(m))' = NextOverriders(m, Groups(m))
  <1>1. \A m : Table(m)' = Table(m)
    BY CellsKept DEF Table
  <1>2. \A m : Strides(m, Groups(m))' = Strides(m, Groups(m))
    BY CellsKept, MethodsKept DEF Strides
  <1>3. \A m : NextOverriders(m, Groups(m))' = NextOverriders(m, Groups(m))
    <2> DEFINE T(m, s) == {n \in 0 .. Tables(m, Groups(m))!Cells - 1 :
                             Tables(m, Groups(m))!OverriderOfCell(n) = s}
    <2>1. \A m, s : T(m, s)' = T(m, s)
      BY CellsKept
    <2>2. \A S : Max(S)' = Max(S)
      BY DEF Max
    <2>3. methods' = methods
      BY MethodsKept
    <2> QED BY <2>1, <2>2, <2>3, CellsKept DEF NextOverriders
  <1> QED BY <1>1, <1>2, <1>3

-----------------------------------------------------------------------------
(* The stages follow one another, and in each the items.                   *)

(* Every step but those of compile leaves what compile made as it is.      *)
LEMMA StepIs ==
  ASSUME StageInv, [NextGlobals]_allVars
  PROVE  \/ Compile /\ stage = "compile" /\ [Next]_vars
         \/ /\ BuildDispatchTables \/ Resize \/ WriteMethod \/ WriteNext \/ WriteVtable
                 \/ LoopDone \/ UNCHANGED allVars
            /\ UNCHANGED vars
  BY DEF NextGlobals, Compile, BuildDispatchTables, Resize, WriteMethod, WriteNext, WriteVtable,
    LoopDone, allVars, Iterate

LEMMA MethodCount == CompilerInv => Len(methods) \in Nat
  BY MethodFacts DEF CompilerInv, ClassInv

LEMMA PipelineInit == InitGlobals => PipelineInv
  <1> SUFFICES ASSUME InitGlobals PROVE PipelineInv
    OBVIOUS
  <1>1. Init /\ stage = "compile" /\ next_item = 1
    BY DEF InitGlobals
  <1>2. CompilerInv /\ CompiledWell /\ pass = "classes"
    BY <1>1, CompilerInit DEF Init, CompiledWell
  <1>3. Len(methods) \in Nat
    BY <1>2, MethodFacts DEF CompilerInv, ClassInv
  <1>4. StageInv
    BY <1>1, <1>2, <1>3 DEF StageInv, Items
  <1> QED BY <1>2, <1>4 DEF PipelineInv

LEMMA PipelineStep == PipelineInv /\ CompiledWell' /\ [NextGlobals]_allVars => PipelineInv'
  <1> SUFFICES ASSUME PipelineInv, CompiledWell', [NextGlobals]_allVars PROVE PipelineInv'
    OBVIOUS
  <1>1. CompilerInv /\ CompiledWell /\ StageInv
    BY DEF PipelineInv
  <1>2. [Next]_vars
    BY <1>1, StepIs DEF vars
  <1>3. CompilerInv' /\ CompiledWell'
    BY <1>1, <1>2, CompilerStep
  <1>4. Len(methods)' \in Nat /\ (pass = "done" => Len(classes) \in Nat)
    <2>1. (CompilerInv => Len(methods) \in Nat)'
      BY MethodCount, PTL
    <2> QED BY <1>1, <1>3, <2>1, Compiled
  <1>5. ASSUME Compile, stage = "compile" PROVE StageInv'
    BY <1>1, <1>4, <1>5 DEF Compile, StageInv, Items
  <1>6. ASSUME UNCHANGED vars,
               BuildDispatchTables \/ WriteMethod \/ WriteNext \/ WriteVtable
        PROVE  StageInv'
    <2>1. pass' = pass /\ methods' = methods /\ classes' = classes
      BY <1>6, MethodsKept
    <2>2. PICK loop \in {"tables", "methods", "next", "vtables"} : Iterate(loop)
      BY <1>6 DEF BuildDispatchTables, WriteMethod, WriteNext, WriteVtable
    <2>3. /\ stage = loop /\ stage' = stage /\ next_item <= Items /\ next_item' = next_item + 1
          /\ Items' = Items
      BY <2>1, <2>2 DEF Iterate, Items
    <2>4. Items \in Nat
      BY <1>1, <1>4, <2>1, <2>3 DEF Items, StageInv
    <2> QED BY <1>1, <2>1, <2>3, <2>4 DEF StageInv
  <1>7. ASSUME UNCHANGED vars, Resize PROVE StageInv'
    <2>1. pass' = pass /\ methods' = methods /\ classes' = classes
      BY <1>7, MethodsKept
    <2> QED BY <1>1, <1>4, <1>7, <2>1 DEF StageInv, Resize, Items
  <1>8. ASSUME UNCHANGED vars, LoopDone PROVE StageInv'
    <2>1. pass' = pass /\ methods' = methods /\ classes' = classes
      BY <1>8, MethodsKept
    <2>2. /\ stage \in {"tables", "methods", "next", "vtables"} /\ next_item' = 1
          /\ stage' \in {"resize", "next", "vtables", "ready"}
      BY <1>8 DEF LoopDone, Following
    <2>3. pass = "done"
      BY <1>1, <2>2 DEF StageInv
    <2>4. PICK n \in Nat : Items' = n
      BY <1>4, <2>1, <2>3 DEF Items
    <2>5. next_item' \in 1 .. Items' + 1
      BY <2>2, <2>4
    <2>6. stage' # "compile" /\ pass' = "done"
      BY <2>1, <2>2, <2>3
    <2> QED BY <2>2, <2>5, <2>6 DEF StageInv
  <1>9. ASSUME UNCHANGED vars, UNCHANGED allVars PROVE StageInv'
    <2>1. pass' = pass /\ methods' = methods /\ classes' = classes
      BY <1>9, MethodsKept
    <2> QED BY <1>1, <1>9, <2>1 DEF StageInv, allVars, Items
  <1>10. StageInv'
    BY <1>1, <1>5, <1>6, <1>7, <1>8, <1>9, StepIs
  <1> QED BY <1>3, <1>10 DEF PipelineInv

-----------------------------------------------------------------------------
(* The tables made so far are those of the methods.                        *)

LEMMA AppendTable ==
  ASSUME NEW k \in Nat, NEW f
  PROVE  Append([m \in 1 .. k |-> f[m]], f[k + 1]) = [m \in 1 .. k + 1 |-> f[m]]
  <1> DEFINE s == [m \in 1 .. k |-> f[m]]
             T == {f[m] : m \in 1 .. k + 1}
             a == Append(s, f[k + 1])
             b == [m \in 1 .. k + 1 |-> f[m]]
  <1>1. s \in Seq(T) /\ Len(s) = k /\ f[k + 1] \in T
    OBVIOUS
  <1>2. \A m \in 1 .. k : s[m] = f[m]
    OBVIOUS
  <1> HIDE DEF s
  <1>3. a \in Seq(T) /\ Len(a) = k + 1 /\ \A m \in 1 .. k + 1 : a[m] = IF m = k + 1 THEN f[k + 1] ELSE s[m]
    BY <1>1
  <1>4. \A m \in 1 .. k + 1 : a[m] = f[m]
    BY <1>2, <1>3
  <1> QED BY <1>3, <1>4 DEF s

LEMMA TablesInit == InitGlobals => TablesMade
  <1> SUFFICES ASSUME InitGlobals PROVE TablesMade
    OBVIOUS
  <1>1. MethodsMade = 0 /\ 1 .. 0 = {}
    BY DEF InitGlobals, MethodsMade
  <1>2. dispatch_tables = <<>> /\ strides = <<>> /\ nexts = <<>>
    BY DEF InitGlobals
  <1> QED BY <1>1, <1>2 DEF TablesMade

(* How the numbers of methods and classes done grow.                       *)
LEMMA MadeKept ==
  ASSUME StageInv, StageInv', Len(methods) \in Nat, UNCHANGED vars, ~ BuildDispatchTables,
         [NextGlobals]_allVars
  PROVE  MethodsMade' = MethodsMade /\ UNCHANGED tableVars
  <1>1. stage # "compile" => ~ Compile
    BY DEF Compile
  <1>2. methods' = methods
    BY MethodsKept
  <1>3. CASE Compile
    <2>1. pass' = pass /\ stage = "compile" /\ pass # "done" /\ next_item' = next_item
      BY <1>3, MethodsKept DEF StageInv, Compile
    <2> QED BY <2>1, <1>3 DEF Compile, MethodsMade, tableVars
  <1>4. CASE Resize \/ WriteMethod \/ WriteNext \/ WriteVtable
    BY <1>2, <1>4 DEF Resize, WriteMethod, WriteNext, WriteVtable, Iterate, MethodsMade
  <1>5. CASE LoopDone
    <2>1. stage = "tables" => next_item = Len(methods) + 1
      BY <1>5 DEF LoopDone, StageInv, Items
    <2> QED BY <1>2, <1>5, <2>1 DEF LoopDone, Following, MethodsMade
  <1>6. CASE UNCHANGED allVars
    BY <1>2, <1>6 DEF allVars, tableVars, MethodsMade
  <1> QED BY <1>3, <1>4, <1>5, <1>6 DEF NextGlobals

LEMMA TablesStep ==
  ASSUME PipelineInv, TablesMade, CompiledWell', [NextGlobals]_allVars
  PROVE  TablesMade'
  <1>1. PipelineInv' /\ StageInv /\ StageInv' /\ Len(methods) \in Nat
    BY PipelineStep, MethodCount DEF PipelineInv
  <1>2. ASSUME Compile, stage = "compile" PROVE TablesMade'
    <2>1. MethodsMade = 0 /\ MethodsMade' = 0 /\ 1 .. 0 = {}
      BY <1>1, <1>2 DEF MethodsMade, Compile, StageInv
    <2>2. dispatch_tables' = dispatch_tables /\ strides' = strides /\ nexts' = nexts
      BY <1>2 DEF Compile
    <2> QED BY <2>1, <2>2 DEF TablesMade
  <1>3. ASSUME UNCHANGED vars, MethodsMade' = MethodsMade, UNCHANGED tableVars
        PROVE  TablesMade'
    <2>1. dispatch_tables' = dispatch_tables /\ strides' = strides /\ nexts' = nexts
      BY <1>3 DEF tableVars
    <2> QED BY <1>3, <2>1, TablesKept DEF TablesMade
  <1>4. ASSUME UNCHANGED vars, BuildDispatchTables PROVE TablesMade'
    <2> DEFINE k == next_item - 1
    <2>1. /\ stage = "tables" /\ stage' = "tables" /\ next_item' = next_item + 1
          /\ next_item \in 1 .. Len(methods)
      BY <1>1, <1>4 DEF BuildDispatchTables, Iterate, StageInv, Items
    <2>2. k \in Nat /\ next_item = k + 1 /\ MethodsMade = k /\ MethodsMade' = k + 1
      BY <1>1, <2>1 DEF MethodsMade
    <2>3. /\ dispatch_tables = [m \in 1 .. k |-> Table(m)]
          /\ strides = [m \in 1 .. k |-> Strides(m, Groups(m))]
          /\ nexts = [m \in 1 .. k |-> NextOverriders(m, Groups(m))]
      BY <2>2 DEF TablesMade
    <2>4. /\ dispatch_tables' = Append(dispatch_tables, Table(next_item))
          /\ strides' = Append(strides, Strides(next_item, Groups(next_item)))
          /\ nexts' = Append(nexts, NextOverriders(next_item, Groups(next_item)))
      BY <1>4 DEF BuildDispatchTables, Table
    <2> HIDE DEF k
    <2>5. dispatch_tables' = [m \in 1 .. k + 1 |-> Table(m)]
      <3> DEFINE f == [m \in Nat |-> Table(m)]
      <3>1. /\ [m \in 1 .. k |-> Table(m)] = [m \in 1 .. k |-> f[m]]
            /\ [m \in 1 .. k + 1 |-> Table(m)] = [m \in 1 .. k + 1 |-> f[m]]
            /\ Table(k + 1) = f[k + 1]
        BY <2>2
      <3> HIDE DEF f
      <3>2. Append([m \in 1 .. k |-> f[m]], f[k + 1]) = [m \in 1 .. k + 1 |-> f[m]]
        BY <2>2, AppendTable
      <3> QED BY <2>2, <2>3, <2>4, <3>1, <3>2
    <2>6. strides' = [m \in 1 .. k + 1 |-> Strides(m, Groups(m))]
      <3> DEFINE f == [m \in Nat |-> Strides(m, Groups(m))]
      <3>1. /\ [m \in 1 .. k |-> Strides(m, Groups(m))] = [m \in 1 .. k |-> f[m]]
            /\ [m \in 1 .. k + 1 |-> Strides(m, Groups(m))] = [m \in 1 .. k + 1 |-> f[m]]
            /\ Strides(k + 1, Groups(k + 1)) = f[k + 1]
        BY <2>2
      <3> HIDE DEF f
      <3>2. Append([m \in 1 .. k |-> f[m]], f[k + 1]) = [m \in 1 .. k + 1 |-> f[m]]
        BY <2>2, AppendTable
      <3> QED BY <2>2, <2>3, <2>4, <3>1, <3>2
    <2>7. nexts' = [m \in 1 .. k + 1 |-> NextOverriders(m, Groups(m))]
      <3> DEFINE f == [m \in Nat |-> NextOverriders(m, Groups(m))]
      <3>1. /\ [m \in 1 .. k |-> NextOverriders(m, Groups(m))] = [m \in 1 .. k |-> f[m]]
            /\ [m \in 1 .. k + 1 |-> NextOverriders(m, Groups(m))] = [m \in 1 .. k + 1 |-> f[m]]
            /\ NextOverriders(k + 1, Groups(k + 1)) = f[k + 1]
        BY <2>2
      <3> HIDE DEF f
      <3>2. Append([m \in 1 .. k |-> f[m]], f[k + 1]) = [m \in 1 .. k + 1 |-> f[m]]
        BY <2>2, AppendTable
      <3> QED BY <2>2, <2>3, <2>4, <3>1, <3>2
    <2>8. /\ [m \in 1 .. k + 1 |-> Table(m)'] = [m \in 1 .. k + 1 |-> Table(m)]
          /\ [m \in 1 .. k + 1 |-> Strides(m, Groups(m))'] = [m \in 1 .. k + 1 |-> Strides(m, Groups(m))]
          /\ [m \in 1 .. k + 1 |-> NextOverriders(m, Groups(m))']
               = [m \in 1 .. k + 1 |-> NextOverriders(m, Groups(m))]
      BY <1>4, TablesKept
    <2> QED BY <2>2, <2>5, <2>6, <2>7, <2>8 DEF TablesMade
  <1>5. CASE ~ UNCHANGED vars
    BY <1>1, <1>2, <1>5, StepIs
  <1>6. CASE UNCHANGED vars /\ ~ BuildDispatchTables
    BY <1>1, <1>3, <1>6, MadeKept
  <1> QED BY <1>4, <1>5, <1>6

-----------------------------------------------------------------------------
(* The entries of the v-table of a class, as those of a method are placed  *)
(* one after the other.                                                    *)
PlacesIn(T, m, c) ==
  /\ vtbl[c] \in T
  /\ \A d \in 1 .. Arity(m) : \A v \in T : Place(m, Groups(m), c, v, d) \in T

IsPlaced(w, m, c, T) ==
  /\ w \in [0 .. Arity(m) -> T]
  /\ w[0] = vtbl[c]
  /\ \A d \in 1 .. Arity(m) : w[d] = Place(m, Groups(m), c, w[d - 1], d)
  /\ WithEntries(m, Groups(m))[c] = w[Arity(m)]

LEMMA WithEntriesIs ==
  ASSUME NEW m, NEW c \in Class, NEW T, Arity(m) \in Nat, PlacesIn(T, m, c)
  PROVE  \E w : IsPlaced(w, m, c, T)
  <1> DEFINE N == Arity(m)
             b == vtbl[c]
             Op(v, d) == Place(m, Groups(m), c, v, d)
             s == [d \in 1 .. N |-> d]
             F == CHOOSE f : f = [u \in SUBSET DOMAIN s |->
                                    IF u = {} THEN b ELSE Op(f[u \ {Max(u)}], s[Max(u)])]
             step == [k \in 1 .. N |-> [v \in T |-> Op(v, k)]]
  <1>1. N \in Nat /\ b \in T /\ \A d \in 1 .. N : \A v \in T : Op(v, d) \in T
    BY DEF PlacesIn
  <1>2. s \in Seq(Nat) /\ Len(s) = N /\ DOMAIN s = 1 .. N /\ \A d \in 1 .. N : s[d] = d
    BY <1>1
  <1>3. WithEntries(m, Groups(m))[c] = F[1 .. N]
    <2>1. WithEntries(m, Groups(m))[c] = FoldLeft(LAMBDA v, d : Op(v, d), b, s)
      BY DEF WithEntries
    <2>2. FoldLeft(LAMBDA v, d : Op(v, d), b, s) = F[DOMAIN s]
      <3> HIDE DEF Op, b, N
      <3> QED BY DEF FoldLeft, MapThenFoldSet
    <2> QED BY <1>2, <2>1, <2>2
  <1> HIDE DEF N, s, b
  <1>4. step \in [1 .. N -> [T -> T]]
    <2> HIDE DEF Op
    <2> QED BY <1>1
  <1>5. \E fold \in [SUBSET (1 .. N) -> T] : IsFold(fold, N, b, step)
    <2> HIDE DEF step
    <2> QED BY <1>1, <1>4, FoldExists
  <1>6. PICK fold \in [SUBSET (1 .. N) -> T] : IsFold(fold, N, b, step)
    BY <1>5
  <1>7. fold = [u \in SUBSET DOMAIN s |->
                  IF u = {} THEN b ELSE Op(fold[u \ {Max(u)}], s[Max(u)])]
    <2>1. ASSUME NEW u \in SUBSET (1 .. N)
          PROVE  fold[u] = IF u = {} THEN b ELSE Op(fold[u \ {Max(u)}], s[Max(u)])
      <3>1. CASE u = {}
        BY <1>6, <3>1 DEF IsFold
      <3>2. ASSUME u # {} PROVE fold[u] = Op(fold[u \ {Max(u)}], s[Max(u)])
        <4>1. u \in SUBSET Nat /\ N \in Nat /\ \A k \in u : k <= N
          BY <1>1
        <4>2. Max(u) \in u
          BY <3>2, <4>1, GreatestOfNat
        <4>3. fold[u] = step[Max(u)][fold[u \ {Max(u)}]]
          BY <1>6, <3>2 DEF IsFold
        <4>4. Max(u) \in 1 .. N /\ u \ {Max(u)} \in SUBSET (1 .. N) /\ s[Max(u)] = Max(u)
          BY <1>2, <4>2
        <4>5. fold[u \ {Max(u)}] \in T
          BY <4>4
        <4> HIDE DEF Op
        <4> QED BY <4>3, <4>4, <4>5
      <3> QED BY <3>1, <3>2
    <2> HIDE DEF Op
    <2> QED BY <1>2, <2>1
  <1>8. F = [u \in SUBSET DOMAIN s |->
               IF u = {} THEN b ELSE Op(F[u \ {Max(u)}], s[Max(u)])]
    <2> HIDE DEF Op
    <2> QED BY <1>7
  <1> HIDE DEF F
  <1>9. F[1 .. 0] = b /\ \A k \in 1 .. N : F[1 .. k] = Op(F[1 .. k - 1], k)
    <2>1. 1 .. 0 = {} /\ {} \in SUBSET DOMAIN s
      OBVIOUS
    <2>2. F[{}] = b
      <3> HIDE DEF Op
      <3> QED BY <1>8, <2>1
    <2>3. ASSUME NEW k \in 1 .. N PROVE F[1 .. k] = Op(F[1 .. k - 1], k)
      <3>1. k \in Nat \ {0} /\ s[k] = k
        BY <1>1, <1>2
      <3>2. Max(1 .. k) = k
        BY <3>1, MaxOfInterval
      <3>3. (1 .. k) \ {k} = 1 .. k - 1 /\ 1 .. k # {}
        BY <3>1
      <3>4. (1 .. k) \in SUBSET DOMAIN s
        BY <1>1, <1>2
      <3>5. F[1 .. k] = Op(F[(1 .. k) \ {Max(1 .. k)}], s[Max(1 .. k)])
        <4> HIDE DEF Op
        <4> QED BY <1>8, <3>3, <3>4
      <3> QED BY <3>1, <3>2, <3>3, <3>5
    <2> QED BY <2>1, <2>2, <2>3
  <1>10. \A k \in 0 .. N : F[1 .. k] \in T
    <2> DEFINE R == {k \in 0 .. N : F[1 .. k] \in T}
    <2>1. 0 \in R
      BY <1>1, <1>9
    <2>2. ASSUME NEW k \in 1 .. N, k - 1 \in R PROVE k \in R
      <3>1. F[1 .. k - 1] \in T /\ k \in 0 .. N
        BY <1>1, <2>2
      <3>2. F[1 .. k] \in T
        <4> HIDE DEF Op
        <4> QED BY <1>1, <1>9, <3>1
      <3> QED BY <3>1, <3>2
    <2> HIDE DEF R
    <2>3. 0 .. N \subseteq R
      BY <1>1, <2>1, <2>2, InductionTo
    <2> QED BY <2>3 DEF R
  <1> DEFINE w == [k \in 0 .. N |-> F[1 .. k]]
  <1>11. w \in [0 .. N -> T]
    BY <1>10
  <1>12. /\ w[0] = b /\ w[N] = F[1 .. N]
         /\ \A k \in 1 .. N : w[k] = Op(w[k - 1], k)
    <2>1. w[0] = b /\ w[N] = F[1 .. N]
      BY <1>1, <1>9
    <2>2. ASSUME NEW k \in 1 .. N PROVE w[k] = Op(w[k - 1], k)
      <3>1. k \in 0 .. N /\ k - 1 \in 0 .. N
        BY <1>1
      <3>2. w[k] = F[1 .. k] /\ w[k - 1] = F[1 .. k - 1]
        BY <3>1
      <3> HIDE DEF w, Op
      <3> QED BY <1>9, <3>2
    <2> QED BY <2>1, <2>2
  <1> HIDE DEF w
  <1>13. IsPlaced(w, m, c, T)
    BY <1>3, <1>11, <1>12 DEF IsPlaced, N, b
  <1> QED BY <1>13

(* What the entries of the v-table of class c can be, when the tables of   *)
(* the first k methods are made.                                           *)
Placed(c, k) ==
  {NoEntry} \cup
  UNION {{Entry(m, Groups(m), d, c) : d \in {i \in 1 .. Arity(m) : c \in Passable(m, i)}} :
         m \in 1 .. k}

EntriesTyped ==
  stage # "compile" =>
    \A c \in Class : vtbl[c] \in [1 .. vtbl_size[c] -> Placed(c, MethodsMade)]

(* Of the methods before the k-th, and the first j parameters of that one. *)
Before(m, d, k, j) == m < k \/ (m = k /\ d <= j)

FoundIn(v, c, k, j) ==
  \A m \in Method : \A d \in 1 .. Arity(m) :
    c \in Passable(m, d) /\ Before(m, d, k, j)
      => v[PlaceOf(m, d, c)] = Entry(m, Groups(m), d, c)

EntriesFound ==
  stage # "compile" /\ Classes!Orderly => \A c \in Class : FoundIn(vtbl[c], c, MethodsMade + 1, 0)

LEMMA PlacedKept ==
  ASSUME UNCHANGED vars
  PROVE  /\ \A c, k : Placed(c, k)' = Placed(c, k)
         /\ \A m, d, c : PlaceOf(m, d, c)' = PlaceOf(m, d, c)
         /\ \A m, d : Passable(m, d)' = Passable(m, d)
         /\ \A v, c, k, j : FoundIn(v, c, k, j)' <=> FoundIn(v, c, k, j)
  <1>1. /\ methods' = methods /\ slots' = slots /\ first_slot' = first_slot
        /\ transitive_derived' = transitive_derived /\ \A m : Arity(m)' = Arity(m)
        /\ Method' = Method
        /\ \A m, d, c : Entry(m, Groups(m), d, c)' = Entry(m, Groups(m), d, c)
    BY MethodsKept, GroupsKept
  <1>2. \A m, d, c : PlaceOf(m, d, c)' = PlaceOf(m, d, c)
    BY <1>1 DEF PlaceOf
  <1>3. \A m, d : Passable(m, d)' = Passable(m, d)
    BY <1>1 DEF Passable
  <1>4. \A c, k : Placed(c, k)' = Placed(c, k)
    BY <1>1, <1>3 DEF Placed, NoEntry
  <1>5. \A v, c, k, j : FoundIn(v, c, k, j)' <=> FoundIn(v, c, k, j)
    BY <1>1, <1>2, <1>3 DEF FoundIn, Before
  <1> QED BY <1>2, <1>3, <1>4, <1>5

(* The entries of a method go to the v-table of a class.                   *)
LEMMA EntriesArePlaced ==
  ASSUME NEW m \in Nat \ {0}, NEW c \in Class, Arity(m) \in Nat,
         vtbl[c] \in [1 .. vtbl_size[c] -> Placed(c, m - 1)]
  PROVE  \E w : IsPlaced(w, m, c, [1 .. vtbl_size[c] -> Placed(c, m)])
  <1>1. PICK T : T = [1 .. vtbl_size[c] -> Placed(c, m)]
    OBVIOUS
  <1>2. Placed(c, m - 1) \subseteq Placed(c, m)
    <2>1. 1 .. m - 1 \subseteq 1 .. m
      OBVIOUS
    <2> QED BY <2>1 DEF Placed
  <1>3. vtbl[c] \in T
    BY <1>1, <1>2
  <1>4. ASSUME NEW d \in 1 .. Arity(m), NEW v \in T PROVE Place(m, Groups(m), c, v, d) \in T
    <2>1. CASE c \in Passable(m, d)
      <3>1. Entry(m, Groups(m), d, c) \in Placed(c, m)
        <4>1. m \in 1 .. m
          OBVIOUS
        <4> QED BY <2>1, <4>1 DEF Placed
      <3>2. v \in [1 .. vtbl_size[c] -> Placed(c, m)]
        BY <1>1
      <3>3. PICK e, i : e = Entry(m, Groups(m), d, c) /\ i = slots[<<m, d>>] - first_slot[c] + 1
        OBVIOUS
      <3>4. Place(m, Groups(m), c, v, d) = [v EXCEPT ![i] = e]
        BY <2>1, <3>3 DEF Place, Passable
      <3>5. [v EXCEPT ![i] = e] \in [1 .. vtbl_size[c] -> Placed(c, m)]
        BY <3>1, <3>2, <3>3
      <3> QED BY <1>1, <3>4, <3>5
    <2>2. CASE c \notin Passable(m, d)
      BY <2>2 DEF Place, Passable
    <2> QED BY <2>1, <2>2
  <1>5. PlacesIn(T, m, c)
    BY <1>3, <1>4 DEF PlacesIn
  <1>6. PICK w : IsPlaced(w, m, c, T)
    BY <1>5, WithEntriesIs
  <1> QED BY <1>1, <1>6

LEMMA EntriesTypedAfter ==
  ASSUME NEW m \in Nat \ {0}, NEW c \in Class, Arity(m) \in Nat,
         vtbl[c] \in [1 .. vtbl_size[c] -> Placed(c, m - 1)]
  PROVE  WithEntries(m, Groups(m))[c] \in [1 .. vtbl_size[c] -> Placed(c, m)]
  <1>1. PICK w : IsPlaced(w, m, c, [1 .. vtbl_size[c] -> Placed(c, m)])
    BY EntriesArePlaced
  <1> QED BY <1>1 DEF IsPlaced

MethodsNumbered == \A m \in Method : m \in Nat \ {0} /\ Arity(m) \in Nat \ {0}

LEMMA EntriesFoundAfter ==
  ASSUME NEW m \in Method, NEW c \in Class, MethodsNumbered,
         vtbl[c] \in [1 .. vtbl_size[c] -> Placed(c, m - 1)],
         FoundIn(vtbl[c], c, m, 0), SlotsApart
  PROVE  FoundIn(WithEntries(m, Groups(m))[c], c, m + 1, 0)
  <1> DEFINE T == [1 .. vtbl_size[c] -> Placed(c, m)]
             N == Arity(m)
  <1>1. /\ m \in Nat \ {0} /\ Arity(m) \in Nat
        /\ \A n \in Method : n \in Nat \ {0} /\ Arity(n) \in Nat
    BY DEF MethodsNumbered
  <1>2. PICK w : IsPlaced(w, m, c, T)
    BY <1>1, EntriesArePlaced
  <1>3. /\ N \in Nat /\ w \in [0 .. N -> T] /\ w[0] = vtbl[c]
        /\ \A d \in 1 .. N : w[d] = Place(m, Groups(m), c, w[d - 1], d)
        /\ WithEntries(m, Groups(m))[c] = w[N]
    BY <1>1, <1>2 DEF IsPlaced
  <1> DEFINE R == {j \in 0 .. N : FoundIn(w[j], c, m, j)}
  <1>4. 0 \in R
    BY <1>3
  <1>5. ASSUME NEW j \in 1 .. N, j - 1 \in R PROVE j \in R
    <2>1. j \in 0 .. N /\ FoundIn(w[j - 1], c, m, j - 1) /\ w[j - 1] \in T
      BY <1>3, <1>5
    <2>2. w[j] = Place(m, Groups(m), c, w[j - 1], j)
      BY <1>3
    <2>3. ASSUME NEW n \in Method, NEW e \in 1 .. Arity(n), c \in Passable(n, e),
                 Before(n, e, m, j)
          PROVE  w[j][PlaceOf(n, e, c)] = Entry(n, Groups(n), e, c)
      <3>1. CASE n = m /\ e = j
        <4>1. PlaceOf(m, j, c) \in 1 .. vtbl_size[c]
          BY <2>3, <3>1 DEF SlotsApart
        <4>2. PICK i, x : i = PlaceOf(m, j, c) /\ x = Entry(m, Groups(m), j, c)
          OBVIOUS
        <4>3. w[j] = [w[j - 1] EXCEPT ![i] = x]
          BY <2>2, <2>3, <3>1, <4>2 DEF Place, Passable, PlaceOf
        <4>4. i \in DOMAIN w[j - 1]
          BY <2>1, <4>1, <4>2
        <4> QED BY <3>1, <4>2, <4>3, <4>4
      <3>2. CASE ~ (n = m /\ e = j)
        <4>1. n \in Nat /\ m \in Nat /\ e \in Nat /\ j \in Nat
          BY <1>1, <1>3
        <4>2. Before(n, e, m, j - 1)
          BY <2>3, <3>2, <4>1 DEF Before
        <4>3. w[j - 1][PlaceOf(n, e, c)] = Entry(n, Groups(n), e, c)
          BY <2>1, <2>3, <4>2 DEF FoundIn
        <4>4. CASE c \in Passable(m, j)
          <5>1. PlaceOf(m, j, c) # PlaceOf(n, e, c) /\ PlaceOf(n, e, c) \in 1 .. vtbl_size[c]
            <6>1. <<m, j>> # <<n, e>>
              BY <3>2
            <6>2. j \in 1 .. Arity(m)
              OBVIOUS
            <6> HIDE DEF N
            <6> QED BY <2>3, <4>4, <6>1, <6>2 DEF SlotsApart
          <5>2. PICK i, x, k : /\ i = PlaceOf(m, j, c) /\ x = Entry(m, Groups(m), j, c)
                               /\ k = PlaceOf(n, e, c)
            OBVIOUS
          <5>3. w[j] = [w[j - 1] EXCEPT ![i] = x]
            BY <2>2, <4>4, <5>2 DEF Place, Passable, PlaceOf
          <5>4. k \in DOMAIN w[j - 1] /\ k # i
            BY <2>1, <5>1, <5>2
          <5>5. w[j][k] = w[j - 1][k]
            BY <5>3, <5>4
          <5> QED BY <4>3, <5>2, <5>5
        <4>5. CASE c \notin Passable(m, j)
          BY <2>2, <4>3, <4>5 DEF Place, Passable
        <4> QED BY <4>4, <4>5
      <3> QED BY <3>1, <3>2
    <2> QED BY <2>1, <2>3 DEF FoundIn
  <1> HIDE DEF R
  <1>6. 0 .. N \subseteq R
    BY <1>3, <1>4, <1>5, InductionTo
  <1>7. FoundIn(w[N], c, m, N)
    BY <1>3, <1>6 DEF R
  <1>8. ASSUME NEW n \in Method, NEW e \in 1 .. Arity(n), Before(n, e, m + 1, 0)
        PROVE  Before(n, e, m, N)
    <2>1. n \in Nat /\ m \in Nat /\ e \in Nat /\ e # 0 /\ (n = m => e <= N)
      BY <1>1
    <2>2. n < m + 1
      BY <1>8, <2>1 DEF Before
    <2>3. n < m \/ n = m
      BY <2>1, <2>2
    <2> QED BY <2>1, <2>3 DEF Before
  <1> QED BY <1>3, <1>7, <1>8 DEF FoundIn

VtablesInv == EntriesTyped /\ EntriesFound

LEMMA Numbered == CompilerInv /\ CompiledWell /\ pass = "done" => MethodsNumbered
  BY Compiled DEF MethodsNumbered

LEMMA NothingBefore == MethodsNumbered => \A v, c : FoundIn(v, c, 1, 0)
  <1> SUFFICES ASSUME MethodsNumbered, NEW m \in Method, NEW d \in 1 .. Arity(m)
               PROVE  ~ Before(m, d, 1, 0)
    BY DEF FoundIn
  <1>1. m \in Nat \ {0} /\ d \in Nat \ {0}
    BY DEF MethodsNumbered
  <1> QED BY <1>1 DEF Before

LEMMA VtablesInit == InitGlobals => VtablesInv
  BY DEF InitGlobals, VtablesInv, EntriesTyped, EntriesFound

LEMMA VtablesStep ==
  ASSUME PipelineInv, VtablesInv, CompiledWell', [NextGlobals]_allVars
  PROVE  VtablesInv'
  <1>1. /\ PipelineInv' /\ StageInv /\ StageInv' /\ Len(methods) \in Nat
        /\ CompilerInv /\ CompiledWell
    BY PipelineStep, MethodCount DEF PipelineInv
  <1>2. ASSUME Compile, stage = "compile" PROVE VtablesInv'
    <2>1. CASE pass' # "done"
      BY <1>2, <2>1 DEF Compile, VtablesInv, EntriesTyped, EntriesFound
    <2>2. CASE pass' = "done"
      <3>1. /\ stage' = "tables" /\ MethodsMade' = 0
            /\ vtbl' = [c \in Class |-> [i \in 1 .. vtbl_size'[c] |-> NoEntry]]
        BY <1>1, <1>2, <2>2 DEF Compile, MethodsMade, StageInv
      <3>2. EntriesTyped'
        <4>1. ASSUME NEW c \in Class
              PROVE  vtbl'[c] \in [1 .. vtbl_size'[c] -> Placed(c, MethodsMade)']
          <5>1. NoEntry \in Placed(c, MethodsMade)'
            BY DEF Placed, NoEntry
          <5>2. vtbl'[c] = [i \in 1 .. vtbl_size'[c] |-> NoEntry]
            BY <3>1
          <5> QED BY <5>1, <5>2
        <4> QED BY <4>1 DEF EntriesTyped
      <3>3. MethodsNumbered'
        <4>1. (CompilerInv /\ CompiledWell /\ pass = "done" => MethodsNumbered)'
          BY Numbered, PTL
        <4> QED BY <1>1, <2>2, <4>1 DEF PipelineInv
      <3>4. \A v, c : FoundIn(v, c, 1, 0)'
        <4>1. (MethodsNumbered => \A v, c : FoundIn(v, c, 1, 0))'
          BY NothingBefore, PTL
        <4> QED BY <3>3, <4>1
      <3>5. ASSUME NEW c \in Class PROVE FoundIn(vtbl[c], c, MethodsMade + 1, 0)'
        <4>1. PICK v, k : v = vtbl'[c] /\ k = MethodsMade' + 1
          OBVIOUS
        <4>2. k = 1
          BY <3>1, <4>1
        <4>3. FoundIn(v, c, 1, 0)'
          BY <3>4
        <4> QED BY <4>1, <4>2, <4>3 DEF FoundIn
      <3> QED BY <3>2, <3>5 DEF VtablesInv, EntriesFound
    <2> QED BY <2>1, <2>2
  <1>3. ASSUME UNCHANGED vars, MethodsMade' = MethodsMade, UNCHANGED tableVars
        PROVE  VtablesInv'
    <2>1. vtbl' = vtbl /\ vtbl_size' = vtbl_size /\ (Classes!Orderly' <=> Classes!Orderly)
      BY <1>3, MethodsKept DEF tableVars
    <2>2. stage' = "compile" <=> stage = "compile"
      BY <1>1, <1>3, MethodsKept DEF StageInv
    <2>3. CASE stage = "compile"
      BY <2>2, <2>3 DEF VtablesInv, EntriesTyped, EntriesFound
    <2>4. CASE stage # "compile"
      <3>1. EntriesTyped'
        <4>1. ASSUME NEW c \in Class
              PROVE  vtbl'[c] \in [1 .. vtbl_size'[c] -> Placed(c, MethodsMade)']
          <5>1. vtbl[c] \in [1 .. vtbl_size[c] -> Placed(c, MethodsMade)]
            BY <2>4 DEF VtablesInv, EntriesTyped
          <5>2. PICK k : k = MethodsMade
            OBVIOUS
          <5>3. Placed(c, k)' = Placed(c, k) /\ k = MethodsMade'
            BY <1>3, <5>2, PlacedKept
          <5> QED BY <2>1, <5>1, <5>2, <5>3
        <4> QED BY <4>1 DEF EntriesTyped
      <3>2. ASSUME Classes!Orderly', NEW c \in Class PROVE FoundIn(vtbl[c], c, MethodsMade + 1, 0)'
        <4>1. FoundIn(vtbl[c], c, MethodsMade + 1, 0)
          BY <2>1, <2>4, <3>2 DEF VtablesInv, EntriesFound
        <4>2. PICK v, k : v = vtbl[c] /\ k = MethodsMade + 1
          OBVIOUS
        <4>3. v = vtbl'[c] /\ k = MethodsMade' + 1
          BY <1>3, <2>1, <4>2
        <4>4. FoundIn(v, c, k, 0)
          BY <4>1, <4>2
        <4>5. FoundIn(v, c, k, 0)'
          BY <1>3, <4>4, PlacedKept
        <4> QED BY <4>3, <4>5 DEF FoundIn
      <3> QED BY <3>1, <3>2 DEF VtablesInv, EntriesFound
    <2> QED BY <2>3, <2>4
  <1>4. ASSUME UNCHANGED vars, BuildDispatchTables PROVE VtablesInv'
    <2> DEFINE m == next_item
    <2>1. /\ stage = "tables" /\ stage' = "tables" /\ next_item' = m + 1 /\ m \in 1 .. Len(methods)
          /\ vtbl' = WithEntries(m, Groups(m)) /\ pass = "done"
      BY <1>1, <1>4 DEF BuildDispatchTables, Iterate, StageInv, Items
    <2>2. MethodsMade = m - 1 /\ MethodsMade' = m /\ m \in Nat \ {0} /\ MethodsMade + 1 = m
      BY <1>1, <2>1 DEF MethodsMade
    <2>3. MethodsNumbered /\ m \in Method
      BY <1>1, <2>1, Numbered, Compiled
    <2>4. Arity(m) \in Nat
      BY <2>3 DEF MethodsNumbered
    <2>5. PICK k : k = m
      OBVIOUS
    <2>6. /\ k \in Nat \ {0} /\ k \in Method /\ Arity(k) \in Nat /\ k = MethodsMade'
          /\ MethodsMade = k - 1 /\ MethodsMade + 1 = k /\ MethodsMade' + 1 = k + 1
          /\ vtbl' = WithEntries(k, Groups(k))
      BY <2>1, <2>2, <2>3, <2>4, <2>5
    <2> HIDE DEF m
    <2>7. vtbl_size' = vtbl_size /\ (Classes!Orderly' <=> Classes!Orderly)
      BY <1>4, MethodsKept
    <2>8. ASSUME NEW c \in Class PROVE vtbl[c] \in [1 .. vtbl_size[c] -> Placed(c, k - 1)]
      BY <2>1, <2>6 DEF VtablesInv, EntriesTyped
    <2>9. EntriesTyped'
      <3>1. ASSUME NEW c \in Class
            PROVE  vtbl'[c] \in [1 .. vtbl_size'[c] -> Placed(c, MethodsMade)']
        <4>1. WithEntries(k, Groups(k))[c] \in [1 .. vtbl_size[c] -> Placed(c, k)]
          BY <2>6, <2>8, EntriesTypedAfter
        <4>2. Placed(c, k)' = Placed(c, k)
          BY <1>4, PlacedKept
        <4> QED BY <2>6, <2>7, <4>1, <4>2
      <3> QED BY <3>1 DEF EntriesTyped
    <2>10. ASSUME Classes!Orderly', NEW c \in Class PROVE FoundIn(vtbl[c], c, MethodsMade + 1, 0)'
      <3>1. FoundIn(vtbl[c], c, k, 0)
        BY <2>1, <2>6, <2>7, <2>10 DEF VtablesInv, EntriesFound
      <3>2. SlotsApart
        BY <1>1, <2>1, <2>7, <2>10, SlotsAreApart
      <3>3. FoundIn(WithEntries(k, Groups(k))[c], c, k + 1, 0)
        BY <2>3, <2>6, <2>8, <3>1, <3>2, EntriesFoundAfter
      <3>4. PICK v, n : v = WithEntries(k, Groups(k))[c] /\ n = k + 1
        OBVIOUS
      <3>5. v = vtbl'[c] /\ n = MethodsMade' + 1 /\ FoundIn(v, c, n, 0)
        BY <2>6, <3>3, <3>4
      <3>6. FoundIn(v, c, n, 0)'
        BY <1>4, <3>5, PlacedKept
      <3> QED BY <3>5, <3>6 DEF FoundIn
    <2> QED BY <2>9, <2>10 DEF VtablesInv, EntriesFound
  <1>5. CASE ~ UNCHANGED vars
    BY <1>1, <1>2, <1>5, StepIs
  <1>6. CASE UNCHANGED vars /\ ~ BuildDispatchTables
    BY <1>1, <1>3, <1>6, MadeKept
  <1> QED BY <1>4, <1>5, <1>6

-----------------------------------------------------------------------------
(* Sums of sizes.                                                          *)
IsPartial(p, n, s) ==
  /\ p \in [0 .. n -> Nat]
  /\ p[0] = 0
  /\ \A k \in 1 .. n : p[k] = p[k - 1] + s[k]
  /\ p[n] = Sum(s)

LEMMA SumIs ==
  ASSUME NEW n \in Nat, NEW s \in [1 .. n -> Nat]
  PROVE  \E p : IsPartial(p, n, s)
  <1> DEFINE T == Nat
             Op(v, size) == v + size
             F == CHOOSE f : f = [u \in SUBSET DOMAIN s |->
                                    IF u = {} THEN 0 ELSE Op(f[u \ {Max(u)}], s[Max(u)])]
             step == [k \in 1 .. n |-> [v \in T |-> Op(v, s[k])]]
  <1>1. n \in Nat /\ 0 \in T /\ \A k \in 1 .. n : \A v \in T : Op(v, s[k]) \in T
    OBVIOUS
  <1>2. DOMAIN s = 1 .. n /\ \A k \in 1 .. n : s[k] \in Nat
    OBVIOUS
  <1>3. Sum(s) = F[1 .. n]
    BY <1>2 DEF Sum, FoldLeft, MapThenFoldSet
  <1>4. step \in [1 .. n -> [T -> T]]
    <2> HIDE DEF Op
    <2> QED BY <1>1
  <1>5. \E fold \in [SUBSET (1 .. n) -> T] : IsFold(fold, n, 0, step)
    <2> HIDE DEF step
    <2> QED BY <1>1, <1>4, FoldExists
  <1>6. PICK fold \in [SUBSET (1 .. n) -> T] : IsFold(fold, n, 0, step)
    BY <1>5
  <1>7. fold = [u \in SUBSET DOMAIN s |->
                  IF u = {} THEN 0 ELSE Op(fold[u \ {Max(u)}], s[Max(u)])]
    <2>1. ASSUME NEW u \in SUBSET (1 .. n)
          PROVE  fold[u] = IF u = {} THEN 0 ELSE Op(fold[u \ {Max(u)}], s[Max(u)])
      <3>1. CASE u = {}
        BY <1>6, <3>1 DEF IsFold
      <3>2. ASSUME u # {} PROVE fold[u] = Op(fold[u \ {Max(u)}], s[Max(u)])
        <4>1. u \in SUBSET Nat /\ n \in Nat /\ \A k \in u : k <= n
          BY <1>1
        <4>2. Max(u) \in u
          BY <3>2, <4>1, GreatestOfNat
        <4>3. fold[u] = step[Max(u)][fold[u \ {Max(u)}]]
          BY <1>6, <3>2 DEF IsFold
        <4>4. Max(u) \in 1 .. n /\ u \ {Max(u)} \in SUBSET (1 .. n) /\ s[Max(u)] \in Nat
          BY <1>2, <4>2
        <4>5. fold[u \ {Max(u)}] \in T
          BY <4>4
        <4> HIDE DEF Op
        <4> QED BY <4>3, <4>4, <4>5
      <3> QED BY <3>1, <3>2
    <2> HIDE DEF Op
    <2> QED BY <1>2, <2>1
  <1>8. F = [u \in SUBSET DOMAIN s |->
               IF u = {} THEN 0 ELSE Op(F[u \ {Max(u)}], s[Max(u)])]
    <2> HIDE DEF Op
    <2> QED BY <1>7
  <1> HIDE DEF F
  <1>9. F[1 .. 0] = 0 /\ \A k \in 1 .. n : F[1 .. k] = Op(F[1 .. k - 1], s[k])
    <2>1. 1 .. 0 = {} /\ {} \in SUBSET DOMAIN s
      OBVIOUS
    <2>2. F[{}] = 0
      <3> HIDE DEF Op
      <3> QED BY <1>8, <2>1
    <2>3. ASSUME NEW k \in 1 .. n PROVE F[1 .. k] = Op(F[1 .. k - 1], s[k])
      <3>1. k \in Nat \ {0}
        BY <1>1, <1>2
      <3>2. Max(1 .. k) = k
        BY <3>1, MaxOfInterval
      <3>3. (1 .. k) \ {k} = 1 .. k - 1 /\ 1 .. k # {}
        BY <3>1
      <3>4. (1 .. k) \in SUBSET DOMAIN s
        BY <1>1, <1>2
      <3>5. F[1 .. k] = Op(F[(1 .. k) \ {Max(1 .. k)}], s[Max(1 .. k)])
        <4> HIDE DEF Op
        <4> QED BY <1>8, <3>3, <3>4
      <3> QED BY <3>1, <3>2, <3>3, <3>5
    <2> QED BY <2>1, <2>2, <2>3
  <1>10. \A k \in 0 .. n : F[1 .. k] \in T
    <2> DEFINE R == {k \in 0 .. n : F[1 .. k] \in T}
    <2>1. 0 \in R
      BY <1>1, <1>9
    <2>2. ASSUME NEW k \in 1 .. n, k - 1 \in R PROVE k \in R
      <3>1. F[1 .. k - 1] \in T /\ k \in 0 .. n
        BY <1>1, <2>2
      <3>2. F[1 .. k] = F[1 .. k - 1] + s[k] /\ s[k] \in Nat
        BY <1>2, <1>9
      <3>3. F[1 .. k] \in T
        BY <3>1, <3>2
      <3> QED BY <3>1, <3>3
    <2> HIDE DEF R
    <2>3. 0 .. n \subseteq R
      BY <1>1, <2>1, <2>2, InductionTo
    <2> QED BY <2>3 DEF R
  <1> DEFINE p == [k \in 0 .. n |-> F[1 .. k]]
  <1>11. p \in [0 .. n -> Nat]
    BY <1>10
  <1>12. p[0] = 0 /\ p[n] = F[1 .. n]
    BY <1>1, <1>9
  <1>13. ASSUME NEW k \in 1 .. n PROVE p[k] = p[k - 1] + s[k]
    <2>1. k \in 0 .. n /\ k - 1 \in 0 .. n
      BY <1>1
    <2>2. p[k] = F[1 .. k] /\ p[k - 1] = F[1 .. k - 1]
      BY <2>1
    <2> HIDE DEF p
    <2> QED BY <1>9, <2>2
  <1> HIDE DEF p
  <1>14. IsPartial(p, n, s)
    BY <1>3, <1>11, <1>12, <1>13 DEF IsPartial
  <1> QED BY <1>14

LEMMA PartialsGrow ==
  ASSUME NEW n \in Nat, NEW s \in [1 .. n -> Nat], NEW p, IsPartial(p, n, s), NEW k \in 0 .. n
  PROVE  p[k] \in Nat /\ p[k] <= Sum(s)
  <1>1. /\ p \in [0 .. n -> Nat] /\ p[n] = Sum(s)
        /\ \A j \in 1 .. n : p[j] = p[j - 1] + s[j]
    BY DEF IsPartial
  <1> DEFINE R == {d \in 0 .. n : p[n - d] <= p[n]}
  <1>2. 0 \in R
    BY <1>1
  <1>3. ASSUME NEW d \in 1 .. n, d - 1 \in R PROVE d \in R
    <2>1. n - (d - 1) \in 1 .. n /\ (n - (d - 1)) - 1 = n - d /\ n - d \in 0 .. n
      OBVIOUS
    <2>2. PICK j \in 1 .. n : j = n - (d - 1)
      BY <2>1
    <2>3. p[j] = p[j - 1] + s[j] /\ j - 1 = n - d /\ s[j] \in Nat /\ p[j - 1] \in Nat /\ p[j] \in Nat
      BY <1>1, <2>1, <2>2
    <2>4. p[j] <= p[n] /\ p[n] \in Nat
      BY <1>1, <1>3, <2>2
    <2>5. p[n - d] <= p[n]
      BY <2>3, <2>4
    <2> QED BY <2>1, <2>5
  <1> HIDE DEF R
  <1>4. 0 .. n \subseteq R
    BY <1>2, <1>3, InductionTo
  <1>5. n - k \in 0 .. n /\ n - (n - k) = k
    OBVIOUS
  <1>6. p[n - (n - k)] <= p[n]
    BY <1>4, <1>5 DEF R
  <1> QED BY <1>1, <1>5, <1>6

-----------------------------------------------------------------------------
(* How many items are done, after each step.                               *)

TablesInv == PipelineInv /\ TablesMade /\ VtablesInv

LEMMA TablesInvInit == InitGlobals => TablesInv
  BY PipelineInit, TablesInit, VtablesInit DEF TablesInv

LEMMA TablesInvStep == TablesInv /\ CompiledWell' /\ [NextGlobals]_allVars => TablesInv'
  BY PipelineStep, TablesStep, VtablesStep DEF TablesInv

LEMMA Counts ==
  ASSUME TablesInv
  PROVE  /\ StageInv /\ Len(methods) \in Nat
         /\ (stage # "compile" => /\ pass = "done" /\ Len(classes) \in Nat
                                  /\ Method = 1 .. Len(methods) /\ MethodsNumbered)
  <1>1. CompilerInv /\ CompiledWell /\ StageInv
    BY DEF TablesInv, PipelineInv
  <1>2. stage # "compile" => pass = "done"
    BY <1>1 DEF StageInv
  <1> QED BY <1>1, <1>2, MethodCount, Compiled, Numbered

WrittenKept ==
  /\ MethodsWritten' = MethodsWritten
  /\ NextsWritten' = NextsWritten
  /\ VtablesWritten' = VtablesWritten

LEMMA LoopDoneKeeps ==
  ASSUME TablesInv, LoopDone
  PROVE  WrittenKept
  <1>1. StageInv /\ Len(methods) \in Nat /\ (stage # "compile" => Len(classes) \in Nat)
    BY Counts
  <1>2. methods' = methods /\ classes' = classes
    BY MethodsKept DEF LoopDone
  <1>3. /\ stage \in {"tables", "methods", "next", "vtables"} /\ next_item' = 1
        /\ stage' = Following[stage] /\ next_item > Items
    BY DEF LoopDone, Following
  <1>4. Items \in Nat
    BY <1>1, <1>3 DEF Items
  <1>5. next_item = Items + 1
    BY <1>1, <1>3, <1>4 DEF StageInv
  <1> QED BY <1>1, <1>2, <1>3, <1>5
        DEF Following, Items, WrittenKept, MethodsWritten, NextsWritten, VtablesWritten

LEMMA EarlyStepsKeep ==
  ASSUME TablesInv, Compile \/ BuildDispatchTables \/ Resize
  PROVE  /\ WrittenKept /\ MethodsWritten = 0 /\ NextsWritten = 0 /\ VtablesWritten = 0
         /\ stage \in {"compile", "tables", "resize"}
  <1>1. StageInv
    BY Counts
  <1>2. CASE Compile
    BY <1>2 DEF Compile, WrittenKept, MethodsWritten, NextsWritten, VtablesWritten
  <1>3. CASE BuildDispatchTables
    BY <1>3 DEF BuildDispatchTables, Iterate, WrittenKept, MethodsWritten, NextsWritten,
      VtablesWritten
  <1>4. CASE Resize
    BY <1>1, <1>4 DEF Resize, StageInv, WrittenKept, MethodsWritten, NextsWritten, VtablesWritten
  <1> QED BY <1>2, <1>3, <1>4

LEMMA StutterKeeps ==
  ASSUME UNCHANGED allVars
  PROVE  WrittenKept
  <1>1. methods' = methods /\ classes' = classes /\ stage' = stage /\ next_item' = next_item
    BY MethodsKept DEF allVars
  <1> QED BY <1>1 DEF WrittenKept, MethodsWritten, NextsWritten, VtablesWritten

(* The loops of write_global_data take the next item.                      *)
LEMMA NextMethod ==
  ASSUME TablesInv, WriteMethod
  PROVE  /\ next_item \in Method /\ next_item \in Nat \ {0} /\ next_item <= Len(methods)
         /\ stage = "methods" /\ stage' = "methods"
         /\ MethodsWritten = next_item - 1 /\ MethodsWritten' = next_item
         /\ NextsWritten = 0 /\ NextsWritten' = 0 /\ VtablesWritten = 0 /\ VtablesWritten' = 0
  <1>1. StageInv /\ Len(methods) \in Nat
    BY Counts
  <1>2. /\ stage = "methods" /\ stage' = "methods" /\ next_item <= Len(methods)
        /\ next_item' = next_item + 1
    BY DEF WriteMethod, Iterate, Items
  <1>3. next_item \in 1 .. Len(methods)
    BY <1>1, <1>2 DEF StageInv, Items
  <1>4. Method = 1 .. Len(methods)
    BY <1>2, Counts
  <1> QED BY <1>1, <1>2, <1>3, <1>4 DEF MethodsWritten, NextsWritten, VtablesWritten

LEMMA NextOfMethod ==
  ASSUME TablesInv, WriteNext
  PROVE  /\ next_item \in Method /\ next_item \in Nat \ {0} /\ next_item <= Len(methods)
         /\ stage = "next" /\ stage' = "next"
         /\ NextsWritten = next_item - 1 /\ NextsWritten' = next_item
         /\ MethodsWritten = Len(methods) /\ MethodsWritten' = Len(methods)
         /\ VtablesWritten = 0 /\ VtablesWritten' = 0
  <1>1. StageInv /\ Len(methods) \in Nat
    BY Counts
  <1>2. /\ stage = "next" /\ stage' = "next" /\ next_item <= Len(methods)
        /\ next_item' = next_item + 1
    BY DEF WriteNext, Iterate, Items
  <1>3. next_item \in 1 .. Len(methods)
    BY <1>1, <1>2 DEF StageInv, Items
  <1>4. Method = 1 .. Len(methods)
    BY <1>2, Counts
  <1>5. methods' = methods
    BY MethodsKept DEF WriteNext
  <1> QED BY <1>1, <1>2, <1>3, <1>4, <1>5 DEF MethodsWritten, NextsWritten, VtablesWritten

LEMMA NextVtable ==
  ASSUME TablesInv, WriteVtable
  PROVE  /\ next_item \in 1 .. Len(classes) /\ Len(classes) \in Nat
         /\ stage = "vtables" /\ stage' = "vtables"
         /\ VtablesWritten = next_item - 1 /\ VtablesWritten' = next_item
         /\ MethodsWritten = Len(methods) /\ MethodsWritten' = Len(methods)
         /\ NextsWritten = Len(methods) /\ NextsWritten' = Len(methods)
  <1>1. stage = "vtables"
    BY DEF WriteVtable, Iterate
  <1>2. StageInv /\ Len(methods) \in Nat /\ Len(classes) \in Nat
    BY <1>1, Counts
  <1>3. /\ stage' = "vtables" /\ next_item <= Len(classes)
        /\ next_item' = next_item + 1
    BY <1>1 DEF WriteVtable, Iterate, Items
  <1>4. next_item \in 1 .. Len(classes)
    BY <1>1, <1>2, <1>3 DEF StageInv, Items
  <1>5. methods' = methods
    BY MethodsKept DEF WriteVtable
  <1> QED BY <1>1, <1>2, <1>3, <1>4, <1>5 DEF MethodsWritten, NextsWritten, VtablesWritten

-----------------------------------------------------------------------------
(* There is room for what is still to be written.                          *)
LEMMA SizesTyped ==
  ASSUME TablesInv, stage \notin {"compile", "tables"}
  PROVE  /\ TableSizes \in [1 .. Len(methods) -> Nat]
         /\ VtblSizes \in [1 .. Len(classes) -> Nat]
  <1>1. CompilerInv /\ CompiledWell /\ StageInv /\ TablesMade /\ EntriesTyped
    BY DEF TablesInv, PipelineInv, VtablesInv
  <1>2. pass = "done" /\ MethodsMade = Len(methods)
    BY <1>1 DEF StageInv, MethodsMade
  <1>3. /\ Len(methods) \in Nat /\ Method = 1 .. Len(methods) /\ \A m \in Method : TablesWork(m)
        /\ classes \in Seq(Class) /\ vtbl_size \in [Class -> Nat]
    BY <1>1, <1>2, Compiled
  <1>4. ASSUME NEW m \in Method PROVE Len(dispatch_tables[m]) \in Nat
    <2>1. dispatch_tables[m] = Table(m)
      BY <1>1, <1>2, <1>3 DEF TablesMade
    <2>2. PICK k \in Nat : k = Tables(m, Groups(m))!Cells
      BY <1>3 DEF TablesWork
    <2>3. Table(m) = [n \in 1 .. k |-> Tables(m, Groups(m))!OverriderOfCell(n - 1)]
      BY <2>2 DEF Table
    <2> QED BY <2>1, <2>3
  <1>5. ASSUME NEW i \in 1 .. Len(classes) PROVE Len(vtbl[classes[i]]) \in Nat
    <2>1. classes[i] \in Class
      BY <1>3
    <2>2. PICK k \in Nat : k = vtbl_size[classes[i]]
      BY <1>3, <2>1
    <2>3. DOMAIN vtbl[classes[i]] = 1 .. k /\ vtbl[classes[i]] = [j \in 1 .. k |-> vtbl[classes[i]][j]]
      BY <1>1, <2>1, <2>2, <1>2 DEF EntriesTyped, StageInv
    <2>4. PICK v : v = vtbl[classes[i]]
      OBVIOUS
    <2>5. v = [j \in 1 .. k |-> v[j]]
      BY <2>3, <2>4
    <2> QED BY <2>4, <2>5
  <1>6. DOMAIN classes = 1 .. Len(classes)
    BY <1>3
  <1> QED BY <1>3, <1>4, <1>5, <1>6 DEF TableSizes, VtblSizes

LEMMA SizesKept ==
  ASSUME UNCHANGED vars, UNCHANGED tableVars
  PROVE  TableSizes' = TableSizes /\ VtblSizes' = VtblSizes /\ DataSize' = DataSize
  <1>1. /\ Method' = Method /\ classes' = classes /\ dispatch_tables' = dispatch_tables
        /\ vtbl' = vtbl
    BY MethodsKept DEF tableVars
  <1>2. TableSizes' = TableSizes /\ VtblSizes' = VtblSizes
    BY <1>1 DEF TableSizes, VtblSizes
  <1> QED BY <1>2 DEF DataSize

Filled ==
  \E p, q : /\ IsPartial(p, Len(methods), TableSizes) /\ IsPartial(q, Len(classes), VtblSizes)
            /\ gv_iter <= p[MethodsWritten] + q[VtablesWritten]

RoomLeft ==
  /\ stage \in {"compile", "tables", "resize"} => dispatch_data = <<>> /\ gv_iter = 0
  /\ stage \in {"methods", "next", "vtables", "ready"} =>
       /\ DOMAIN dispatch_data = 1 .. DataSize
       /\ dispatch_data = [i \in 1 .. DataSize |-> dispatch_data[i]]
       /\ gv_iter \in Nat
       /\ Filled

LEMMA FilledKept ==
  ASSUME Filled, MethodsWritten' = MethodsWritten, VtablesWritten' = VtablesWritten,
         UNCHANGED vars, UNCHANGED tableVars, UNCHANGED gv_iter
  PROVE  Filled'
  <1>1. PICK p, q : /\ IsPartial(p, Len(methods), TableSizes)
                    /\ IsPartial(q, Len(classes), VtblSizes)
                    /\ gv_iter <= p[MethodsWritten] + q[VtablesWritten]
    BY DEF Filled
  <1>2. /\ TableSizes' = TableSizes /\ VtblSizes' = VtblSizes
        /\ methods' = methods /\ classes' = classes
    BY SizesKept, MethodsKept
  <1>3. (IsPartial(p, Len(methods), TableSizes) /\ IsPartial(q, Len(classes), VtblSizes))'
    BY <1>1, <1>2 DEF IsPartial
  <1>4. gv_iter' <= p[MethodsWritten'] + q[VtablesWritten']
    BY <1>1
  <1> QED BY <1>3, <1>4 DEF Filled

(* More words are written, no more than the next item has.                 *)
LEMMA FilledMore ==
  ASSUME Filled, UNCHANGED vars, UNCHANGED tableVars, gv_iter \in Nat,
         TableSizes \in [1 .. Len(methods) -> Nat], VtblSizes \in [1 .. Len(classes) -> Nat],
         Len(methods) \in Nat, Len(classes) \in Nat, NEW k \in Nat, gv_iter' = gv_iter + k,
         \/ /\ MethodsWritten' \in 1 .. Len(methods) /\ MethodsWritten = MethodsWritten' - 1
            /\ VtablesWritten = 0 /\ VtablesWritten' = 0
            /\ k <= TableSizes[MethodsWritten']
         \/ /\ VtablesWritten' \in 1 .. Len(classes) /\ VtablesWritten = VtablesWritten' - 1
            /\ MethodsWritten' = MethodsWritten /\ MethodsWritten = Len(methods)
            /\ k <= VtblSizes[VtablesWritten']
  PROVE  Filled'
  <1>1. PICK p, q : /\ IsPartial(p, Len(methods), TableSizes)
                    /\ IsPartial(q, Len(classes), VtblSizes)
                    /\ gv_iter <= p[MethodsWritten] + q[VtablesWritten]
    BY DEF Filled
  <1>2. /\ TableSizes' = TableSizes /\ VtblSizes' = VtblSizes
        /\ methods' = methods /\ classes' = classes
    BY SizesKept, MethodsKept
  <1>3. (IsPartial(p, Len(methods), TableSizes) /\ IsPartial(q, Len(classes), VtblSizes))'
    BY <1>1, <1>2 DEF IsPartial
  <1>4. /\ p \in [0 .. Len(methods) -> Nat] /\ q \in [0 .. Len(classes) -> Nat]
        /\ \A i \in 1 .. Len(methods) : p[i] = p[i - 1] + TableSizes[i]
        /\ \A i \in 1 .. Len(classes) : q[i] = q[i - 1] + VtblSizes[i]
    BY <1>1 DEF IsPartial
  <1>5. PICK N, K : N \in Nat /\ K \in Nat /\ N = Len(methods) /\ K = Len(classes)
    OBVIOUS
  <1>6. gv_iter' <= p[MethodsWritten'] + q[VtablesWritten']
    <2>1. CASE /\ MethodsWritten' \in 1 .. Len(methods) /\ MethodsWritten = MethodsWritten' - 1
               /\ VtablesWritten = 0 /\ VtablesWritten' = 0
               /\ k <= TableSizes[MethodsWritten']
      <3>1. PICK i \in 1 .. N : i = MethodsWritten'
        BY <1>5, <2>1
      <3>2. i - 1 \in 0 .. N /\ i \in 0 .. N /\ 0 \in 0 .. K
        BY <1>5
      <3>3. /\ p[i] = p[i - 1] + TableSizes[i] /\ p[i - 1] \in Nat /\ p[i] \in Nat /\ q[0] \in Nat
            /\ TableSizes[i] \in Nat
        BY <1>5, <1>4, <3>2
      <3>4. gv_iter <= p[i - 1] + q[0] /\ k <= TableSizes[i]
        BY <1>1, <2>1, <3>1
      <3>5. gv_iter + k <= p[i] + q[0]
        <4>1. PICK x \in Nat, y \in Nat, z \in Nat, u \in Nat, g \in Nat :
                x = p[i - 1] /\ y = p[i] /\ z = q[0] /\ u = TableSizes[i] /\ g = gv_iter
          BY <3>3
        <4>2. y = x + u /\ g <= x + z /\ k <= u
          BY <3>3, <3>4, <4>1
        <4>3. g + k <= y + z
          BY ONLY <4>2, k \in Nat, g \in Nat, x \in Nat, y \in Nat, z \in Nat, u \in Nat
        <4> QED BY <4>1, <4>3
      <3> QED BY <2>1, <3>1, <3>5
    <2>2. CASE /\ VtablesWritten' \in 1 .. Len(classes) /\ VtablesWritten = VtablesWritten' - 1
               /\ MethodsWritten' = MethodsWritten /\ MethodsWritten = Len(methods)
               /\ k <= VtblSizes[VtablesWritten']
      <3>1. PICK i \in 1 .. K : i = VtablesWritten'
        BY <1>5, <2>2
      <3>3. i - 1 \in 0 .. K /\ i \in 0 .. K /\ N \in 0 .. N
        BY <1>5
      <3>4. /\ q[i] = q[i - 1] + VtblSizes[i] /\ q[i - 1] \in Nat /\ q[i] \in Nat /\ p[N] \in Nat
            /\ VtblSizes[i] \in Nat
        BY <1>5, <1>4, <3>3
      <3>5. gv_iter <= p[N] + q[i - 1] /\ k <= VtblSizes[i]
        BY <1>5, <1>1, <2>2, <3>1
      <3>6. gv_iter + k <= p[N] + q[i]
        <4>1. PICK x \in Nat, y \in Nat, z \in Nat, u \in Nat, g \in Nat :
                x = q[i - 1] /\ y = q[i] /\ z = p[N] /\ u = VtblSizes[i] /\ g = gv_iter
          BY <3>4
        <4>2. y = x + u /\ g <= z + x /\ k <= u
          BY <3>4, <3>5, <4>1
        <4>3. g + k <= z + y
          BY ONLY <4>2, k \in Nat, g \in Nat, x \in Nat, y \in Nat, z \in Nat, u \in Nat
        <4> QED BY <4>1, <4>3
      <3> QED BY <1>5, <2>2, <3>1, <3>6
    <2> QED BY <2>1, <2>2
  <1> QED BY <1>3, <1>6 DEF Filled

RoomInv == TablesInv /\ RoomLeft

LEMMA RoomInit == InitGlobals => RoomInv
  <1> SUFFICES ASSUME InitGlobals PROVE RoomInv
    OBVIOUS
  <1>1. TablesInv
    BY TablesInvInit
  <1>2. RoomLeft
    BY DEF InitGlobals, RoomLeft
  <1> QED BY <1>1, <1>2 DEF RoomInv

LEMMA DataSizeIs ==
  ASSUME TablesInv, stage \notin {"compile", "tables"}
  PROVE  DataSize \in Nat /\ Sum(TableSizes) \in Nat /\ Sum(VtblSizes) \in Nat
  <1>1. stage # "compile"
    OBVIOUS
  <1>2. Len(methods) \in Nat /\ Len(classes) \in Nat
    BY <1>1, Counts
  <1>3. TableSizes \in [1 .. Len(methods) -> Nat] /\ VtblSizes \in [1 .. Len(classes) -> Nat]
    BY SizesTyped
  <1>4. PICK n, k, s, t : /\ n \in Nat /\ k \in Nat
                           /\ n = Len(methods) /\ k = Len(classes)
                           /\ s = TableSizes /\ t = VtblSizes
    BY <1>2
  <1>5. s \in [1 .. n -> Nat] /\ t \in [1 .. k -> Nat]
    BY <1>3, <1>4
  <1>6. \E p : IsPartial(p, n, s)
    BY <1>4, <1>5, SumIs
  <1>7. \E q : IsPartial(q, k, t)
    BY <1>4, <1>5, SumIs
  <1>8. Sum(s) \in Nat
    <2>1. PICK p : IsPartial(p, n, s)
      BY <1>6
    <2>2. p[n] \in Nat /\ p[n] = Sum(s)
      BY <1>4, <2>1 DEF IsPartial
    <2> QED BY <2>2
  <1>9. Sum(t) \in Nat
    <2>1. PICK q : IsPartial(q, k, t)
      BY <1>7
    <2>2. q[k] \in Nat /\ q[k] = Sum(t)
      BY <1>4, <2>1 DEF IsPartial
    <2> QED BY <2>2
  <1> QED BY <1>4, <1>8, <1>9 DEF DataSize

LEMMA RoomStart ==
  ASSUME TablesInv, Resize
  PROVE  /\ DOMAIN dispatch_data' = 1 .. DataSize'
         /\ dispatch_data' = [i \in 1 .. DataSize' |-> dispatch_data'[i]]
         /\ gv_iter' = 0 /\ stage' = "methods"
         /\ Filled'
  <1>1. /\ stage = "resize" /\ stage' = "methods" /\ UNCHANGED vars /\ UNCHANGED tableVars
        /\ dispatch_data' = [i \in 1 .. DataSize |-> <<"none", Null>>] /\ gv_iter' = 0
    BY DEF Resize
  <1>2. /\ TableSizes' = TableSizes /\ VtblSizes' = VtblSizes /\ DataSize' = DataSize
        /\ methods' = methods /\ classes' = classes
    BY <1>1, SizesKept, MethodsKept
  <1>3. Len(methods) \in Nat /\ Len(classes) \in Nat
    BY <1>1, Counts
  <1>4. TableSizes \in [1 .. Len(methods) -> Nat] /\ VtblSizes \in [1 .. Len(classes) -> Nat]
    BY <1>1, SizesTyped
  <1>5. PICK n, k, s, t : /\ n \in Nat /\ k \in Nat
                           /\ n = Len(methods) /\ k = Len(classes)
                           /\ s = TableSizes /\ t = VtblSizes
    BY <1>3
  <1>6. s \in [1 .. n -> Nat] /\ t \in [1 .. k -> Nat]
    BY <1>4, <1>5
  <1>7. PICK p : IsPartial(p, n, s)
    BY <1>5, <1>6, SumIs
  <1>8. PICK q : IsPartial(q, k, t)
    BY <1>5, <1>6, SumIs
  <1>9. p[0] = 0 /\ q[0] = 0
    BY <1>7, <1>8 DEF IsPartial
  <1>10. MethodsWritten' = 0 /\ VtablesWritten' = 0
    <2>1. WrittenKept /\ MethodsWritten = 0 /\ VtablesWritten = 0
      BY EarlyStepsKeep
    <2> QED BY <2>1 DEF WrittenKept
  <1>11. (IsPartial(p, Len(methods), TableSizes) /\ IsPartial(q, Len(classes), VtblSizes))'
    BY <1>2, <1>5, <1>7, <1>8 DEF IsPartial
  <1>12. gv_iter' <= p[MethodsWritten'] + q[VtablesWritten']
    BY <1>1, <1>9, <1>10
  <1>13. Filled'
    BY <1>11, <1>12 DEF Filled
  <1> QED BY <1>1, <1>2, <1>13

(* Words are written where there is room; the array keeps its size.        *)
LEMMA WriteKeeps ==
  ASSUME NEW words, Write(words), DOMAIN dispatch_data = 1 .. DataSize, DataSize' = DataSize
  PROVE  /\ DOMAIN dispatch_data' = 1 .. DataSize'
         /\ dispatch_data' = [i \in 1 .. DataSize' |-> dispatch_data'[i]]
         /\ gv_iter' = gv_iter + Len(words)
  <1>1. PICK f : /\ dispatch_data' = [i \in DOMAIN dispatch_data |-> f[i]]
                 /\ gv_iter' = gv_iter + Len(words)
    <2> DEFINE f == [i \in DOMAIN dispatch_data |->
                       IF i - gv_iter \in DOMAIN words THEN words[i - gv_iter]
                       ELSE dispatch_data[i]]
    <2>1. dispatch_data' = [i \in DOMAIN dispatch_data |-> f[i]]
      BY DEF Write
    <2> QED BY <2>1 DEF Write
  <1> QED BY <1>1

LEMMA RoomStep == RoomInv /\ CompiledWell' /\ [NextGlobals]_allVars => RoomInv'
  <1> SUFFICES ASSUME RoomInv, CompiledWell', [NextGlobals]_allVars PROVE RoomInv'
    OBVIOUS
  <1>1. TablesInv /\ TablesInv' /\ RoomLeft
    BY TablesInvStep DEF RoomInv
  <1>2. StageInv /\ StageInv' /\ Len(methods) \in Nat
    BY <1>1, Counts DEF TablesInv, PipelineInv
  <1>3. CASE Compile \/ BuildDispatchTables
    <2>1. stage' \in {"compile", "tables"} /\ stage \in {"compile", "tables"}
      BY <1>3 DEF Compile, BuildDispatchTables, Iterate
    <2>2. dispatch_data' = dispatch_data /\ gv_iter' = gv_iter
      BY <1>3 DEF Compile, BuildDispatchTables, globalVars
    <2> QED BY <1>1, <2>1, <2>2 DEF RoomInv, RoomLeft
  <1>4. CASE Resize
    <2>1. /\ DOMAIN dispatch_data' = 1 .. DataSize'
          /\ dispatch_data' = [i \in 1 .. DataSize' |-> dispatch_data'[i]]
          /\ gv_iter' = 0 /\ stage' = "methods" /\ Filled'
      BY <1>1, <1>4, RoomStart
    <2> QED BY <1>1, <2>1 DEF RoomInv, RoomLeft
  <1>5. ASSUME stage \in {"methods", "next", "vtables", "ready"}
        PROVE  /\ DOMAIN dispatch_data = 1 .. DataSize
               /\ dispatch_data = [i \in 1 .. DataSize |-> dispatch_data[i]]
               /\ gv_iter \in Nat /\ Filled
               /\ TableSizes \in [1 .. Len(methods) -> Nat]
               /\ VtblSizes \in [1 .. Len(classes) -> Nat]
               /\ Len(classes) \in Nat
    <2>1. stage \notin {"compile", "tables"} /\ stage # "compile"
      BY <1>5
    <2> QED BY <1>1, <1>5, <2>1, SizesTyped, Counts DEF RoomLeft
  <1>6. ASSUME stage' \in {"methods", "next", "vtables", "ready"},
               DOMAIN dispatch_data' = 1 .. DataSize',
               dispatch_data' = [i \in 1 .. DataSize' |-> dispatch_data'[i]],
               gv_iter' \in Nat, Filled'
        PROVE  RoomInv'
    BY <1>1, <1>6 DEF RoomInv, RoomLeft
  <1>7. ASSUME stage \in {"methods", "next", "vtables", "ready"},
               stage' \in {"methods", "next", "vtables", "ready"},
               MethodsWritten' = MethodsWritten, VtablesWritten' = VtablesWritten,
               UNCHANGED vars, UNCHANGED tableVars, UNCHANGED <<dispatch_data, gv_iter>>
        PROVE  RoomInv'
    <2>1. DataSize' = DataSize
      BY <1>7, SizesKept
    <2>2. Filled'
      BY <1>5, <1>7, FilledKept
    <2> QED BY <1>5, <1>6, <1>7, <2>1, <2>2
  <1>8. CASE WriteMethod
    <2>1. /\ next_item \in Method /\ next_item \in Nat \ {0} /\ next_item <= Len(methods)
          /\ stage = "methods" /\ stage' = "methods"
          /\ MethodsWritten = next_item - 1 /\ MethodsWritten' = next_item
          /\ VtablesWritten = 0 /\ VtablesWritten' = 0
      BY <1>1, <1>8, NextMethod
    <2>2. UNCHANGED vars /\ UNCHANGED tableVars
      BY <1>8 DEF WriteMethod
    <2>3. DataSize' = DataSize
      BY <2>2, SizesKept
    <2>4. next_item \in 1 .. Len(methods)
      BY <1>2, <2>1
    <2>5. \E k \in Nat : gv_iter' = gv_iter + k /\ k <= TableSizes[next_item]
      <3>1. PICK t \in Nat : t = TableSizes[next_item]
        BY <1>5, <2>1, <2>4
      <3>2. CASE Arity(next_item) = 1
        <4>1. gv_iter' = gv_iter + 0 /\ 0 <= t
          BY <1>5, <1>8, <2>1, <3>2 DEF WriteMethod
        <4> QED BY <3>1, <4>1
      <3>3. CASE Arity(next_item) # 1
        <4> DEFINE words == [n \in DOMAIN dispatch_tables[next_item] |->
                               <<"pf", <<next_item, dispatch_tables[next_item][n]>>>>]
        <4>1. gv_iter' = gv_iter + Len(words)
          BY <1>8, <3>3 DEF WriteMethod, Write
        <4>2. Len(words) = t
          <5>1. Len(dispatch_tables[next_item]) = t
            BY <2>1, <3>1 DEF TableSizes
          <5>2. DOMAIN dispatch_tables[next_item] = 1 .. t
            <6>1. MethodsMade = Len(methods) /\ TablesMade /\ Method = 1 .. Len(methods)
              BY <1>1, <2>1, Counts DEF MethodsMade, TablesInv
            <6>2. dispatch_tables[next_item] = Table(next_item)
              BY <2>1, <6>1 DEF TablesMade
            <6>3. TablesWork(next_item)
              <7>1. CompilerInv /\ CompiledWell /\ pass = "done"
                BY <1>1, <1>2, <2>1 DEF TablesInv, PipelineInv, StageInv
              <7> QED BY <2>1, <7>1, Compiled
            <6>4. PICK k \in Nat : k = Tables(next_item, Groups(next_item))!Cells
              BY <6>3 DEF TablesWork
            <6>5. DOMAIN Table(next_item) = 1 .. k /\ Len(Table(next_item)) = k
              BY <6>4 DEF Table
            <6> QED BY <5>1, <6>2, <6>5
          <5> QED BY <5>2
        <4> QED BY <3>1, <4>1, <4>2
      <3> QED BY <3>2, <3>3
    <2>6. PICK k \in Nat : gv_iter' = gv_iter + k /\ k <= TableSizes[next_item]
      BY <2>5
    <2>7. Filled'
      BY <1>2, <1>5, <2>1, <2>2, <2>4, <2>6, FilledMore
    <2>8. gv_iter' \in Nat
      BY <1>5, <2>1, <2>6
    <2>9. /\ DOMAIN dispatch_data' = 1 .. DataSize'
          /\ dispatch_data' = [i \in 1 .. DataSize' |-> dispatch_data'[i]]
      <3>1. CASE Arity(next_item) = 1
        <4>1. dispatch_data' = dispatch_data
          BY <1>8, <3>1 DEF WriteMethod
        <4> QED BY <1>5, <2>1, <2>3, <4>1
      <3>2. CASE Arity(next_item) # 1
        <4>1. PICK words : Write(words)
          BY <1>8, <3>2 DEF WriteMethod
        <4> QED BY <1>5, <2>1, <2>3, <4>1, WriteKeeps
      <3> QED BY <3>1, <3>2
    <2> QED BY <1>6, <2>1, <2>7, <2>8, <2>9
  <1>9. CASE WriteVtable
    <2>1. /\ next_item \in 1 .. Len(classes) /\ Len(classes) \in Nat
          /\ stage = "vtables" /\ stage' = "vtables"
          /\ VtablesWritten = next_item - 1 /\ VtablesWritten' = next_item
          /\ MethodsWritten = Len(methods) /\ MethodsWritten' = Len(methods)
      BY <1>1, <1>9, NextVtable
    <2>2. UNCHANGED vars /\ UNCHANGED tableVars
      BY <1>9 DEF WriteVtable
    <2>3. DataSize' = DataSize
      BY <2>2, SizesKept
    <2> DEFINE c == classes[next_item]
               words == [i \in DOMAIN vtbl[c] |-> Word(vtbl[c][i])]
    <2>4. Write(words)
      BY <1>9 DEF WriteVtable
    <2>5. PICK t \in Nat : t = VtblSizes[next_item]
      BY <1>5, <2>1
    <2>6. Len(words) = t
      <3>1. CompilerInv /\ CompiledWell /\ pass = "done" /\ EntriesTyped
        BY <1>1, <1>2, <2>1 DEF TablesInv, PipelineInv, StageInv, VtablesInv
      <3>2. c \in Class /\ vtbl_size \in [Class -> Nat] /\ DOMAIN classes = 1 .. Len(classes)
        BY <2>1, <3>1, Compiled
      <3>3. PICK k \in Nat : k = vtbl_size[c]
        BY <3>2
      <3>4. vtbl[c] \in [1 .. k -> Placed(c, MethodsMade)]
        BY <2>1, <3>1, <3>2, <3>3 DEF EntriesTyped
      <3>5. Len(vtbl[c]) = t
        BY <2>1, <2>5, <3>2 DEF VtblSizes
      <3>6. DOMAIN vtbl[c] = 1 .. k /\ Len(vtbl[c]) = k
        <4> HIDE DEF c, words
        <4>1. PICK T : T = Placed(c, MethodsMade)
          OBVIOUS
        <4>2. vtbl[c] \in [1 .. k -> T]
          BY <3>4, <4>1
        <4> QED BY <4>2
      <3>7. words = [i \in 1 .. t |-> Word(vtbl[c][i])]
        BY <3>5, <3>6
      <3> HIDE DEF words, c
      <3> QED BY <3>7
    <2> HIDE DEF words, c
    <2>7. gv_iter' = gv_iter + t /\ t <= VtblSizes[next_item]
      BY <2>4, <2>5, <2>6 DEF Write
    <2>8. Filled'
      BY <1>2, <1>5, <2>1, <2>2, <2>7, FilledMore
    <2>9. gv_iter' \in Nat
      BY <1>5, <2>1, <2>7
    <2>10. /\ DOMAIN dispatch_data' = 1 .. DataSize'
           /\ dispatch_data' = [i \in 1 .. DataSize' |-> dispatch_data'[i]]
      BY <1>5, <2>1, <2>3, <2>4, WriteKeeps
    <2> QED BY <1>6, <2>1, <2>8, <2>9, <2>10
  <1>10. CASE WriteNext
    <2>1. /\ stage = "next" /\ stage' = "next"
          /\ MethodsWritten' = MethodsWritten /\ VtablesWritten' = VtablesWritten
      BY <1>1, <1>10, NextOfMethod
    <2>2. UNCHANGED vars /\ UNCHANGED tableVars /\ UNCHANGED <<dispatch_data, gv_iter>>
      BY <1>10 DEF WriteNext
    <2>3. DataSize' = DataSize
      BY <2>2, SizesKept
    <2>4. Filled'
      BY <1>5, <2>1, <2>2, FilledKept
    <2> QED BY <1>5, <1>6, <2>1, <2>2, <2>3, <2>4
  <1>11. CASE LoopDone
    <2>1. WrittenKept
      BY <1>1, <1>11, LoopDoneKeeps
    <2>2. /\ UNCHANGED vars /\ UNCHANGED tableVars /\ UNCHANGED <<dispatch_data, gv_iter>>
          /\ \/ stage = "tables" /\ stage' = "resize"
             \/ /\ stage \in {"methods", "next", "vtables"}
                /\ stage' \in {"methods", "next", "vtables", "ready"}
      BY <1>11 DEF LoopDone, Following, globalVars
    <2>3. CASE stage = "tables" /\ stage' = "resize"
      BY <1>1, <2>2, <2>3 DEF RoomInv, RoomLeft
    <2>4. CASE stage # "tables"
      BY <1>7, <2>1, <2>2, <2>4 DEF WrittenKept
    <2> QED BY <2>2, <2>3, <2>4
  <1>12. CASE UNCHANGED allVars
    <2>1. /\ WrittenKept /\ UNCHANGED vars /\ UNCHANGED tableVars
          /\ UNCHANGED <<dispatch_data, gv_iter>> /\ stage' = stage
      BY <1>12, StutterKeeps DEF allVars, globalVars
    <2>2. CASE stage \in {"compile", "tables", "resize"}
      BY <1>1, <2>1, <2>2 DEF RoomInv, RoomLeft
    <2>3. CASE stage \notin {"compile", "tables", "resize"}
      <3>1. stage \in {"methods", "next", "vtables", "ready"}
        BY <1>2, <2>3 DEF StageInv
      <3> QED BY <1>7, <2>1, <3>1 DEF WrittenKept
    <2> QED BY <2>2, <2>3
  <1> QED BY <1>3, <1>4, <1>8, <1>9, <1>10, <1>11, <1>12 DEF NextGlobals

LEMMA RoomFits == RoomInv => DataFits
  <1> SUFFICES ASSUME RoomInv PROVE DataFits
    OBVIOUS
  <1>1. TablesInv /\ RoomLeft /\ StageInv
    BY Counts DEF RoomInv
  <1>2. CASE stage \in {"compile", "tables", "resize"}
    <2>1. dispatch_data = <<>> /\ gv_iter = 0
      BY <1>1, <1>2 DEF RoomLeft
    <2> QED BY <2>1 DEF DataFits
  <1>3. CASE stage \notin {"compile", "tables", "resize"}
    <2>1. stage \notin {"compile", "tables"} /\ stage # "compile"
          /\ stage \in {"methods", "next", "vtables", "ready"}
      BY <1>1, <1>3 DEF StageInv
    <2>2. /\ dispatch_data = [i \in 1 .. DataSize |-> dispatch_data[i]]
          /\ gv_iter \in Nat /\ Filled
      BY <1>1, <2>1 DEF RoomLeft
    <2>3. PICK size \in Nat : size = DataSize
      BY <1>1, <2>1, DataSizeIs
    <2>4. Len(dispatch_data) = size
      BY <2>2, <2>3
    <2>5. PICK p, q : /\ IsPartial(p, Len(methods), TableSizes)
                      /\ IsPartial(q, Len(classes), VtblSizes)
                      /\ gv_iter <= p[MethodsWritten] + q[VtablesWritten]
      BY <2>2 DEF Filled
    <2>6. PICK n, k, s, t : /\ n = Len(methods) /\ k = Len(classes)
                            /\ s = TableSizes /\ t = VtblSizes
      OBVIOUS
    <2>7. n \in Nat /\ k \in Nat /\ s \in [1 .. n -> Nat] /\ t \in [1 .. k -> Nat]
      BY <1>1, <2>1, <2>6, Counts, SizesTyped
    <2>8. MethodsWritten \in 0 .. n /\ VtablesWritten \in 0 .. k
      <3>1. next_item \in 1 .. Items + 1
        BY <1>1 DEF StageInv
      <3> QED BY <2>1, <2>6, <2>7, <3>1 DEF MethodsWritten, VtablesWritten, Items
    <2>9. PICK i \in 0 .. n, j \in 0 .. k : i = MethodsWritten /\ j = VtablesWritten
      BY <2>8
    <2>10. IsPartial(p, n, s) /\ IsPartial(q, k, t)
      BY <2>5, <2>6
    <2>11. p[i] \in Nat /\ p[i] <= Sum(s)
      BY <2>7, <2>10, PartialsGrow
    <2>12. q[j] \in Nat /\ q[j] <= Sum(t)
      BY <2>7, <2>10, PartialsGrow
    <2>13. size = Sum(s) + Sum(t) /\ Sum(s) \in Nat /\ Sum(t) \in Nat
      BY <1>1, <2>1, <2>3, <2>6, DataSizeIs DEF DataSize
    <2>14. gv_iter <= p[i] + q[j]
      BY <2>5, <2>9
    <2>15. gv_iter <= size
      BY <2>2, <2>11, <2>12, <2>13, <2>14
    <2> QED BY <2>4, <2>15 DEF DataFits
  <1> QED BY <1>2, <1>3

-----------------------------------------------------------------------------
(* The variables that calls read have a value for each method or class, and*)
(* once written the `next` are those of the tables.                        *)
DomainsInv ==
  /\ DOMAIN gv_dispatch_table = Method
  /\ DOMAIN slots_strides = Method
  /\ DOMAIN next_pointers = Method
  /\ \A m \in Method : DOMAIN next_pointers[m] = DOMAIN methods[m].specs
  /\ DOMAIN vptrs = Class

LEMMA ProgramKept == [NextGlobals]_allVars /\ StageInv => methods' = methods
  <1> SUFFICES ASSUME [NextGlobals]_allVars, StageInv PROVE methods' = methods
    OBVIOUS
  <1>1. CASE UNCHANGED vars
    BY <1>1, MethodsKept
  <1>2. CASE Next
    <2>1. program' = program
      BY <1>2 DEF Next, AugmentClasses, AugmentMethod, UnknownClass, LinkParameters, AssignSlots,
        classVars, Classes!Next, Classes!RegisterClass, Classes!CollectBases,
        Classes!FindDirectBases, Classes!CalculateDerived
    <2> QED BY <2>1 DEF methods
  <1> QED BY <1>1, <1>2, StepIs DEF Compile

LEMMA DomainsInit == InitGlobals => DomainsInv
  BY DEF InitGlobals, DomainsInv

LEMMA DomainsStep ==
  ASSUME DomainsInv, StageInv, [NextGlobals]_allVars
  PROVE  DomainsInv'
  <1>1. methods' = methods /\ Method' = Method
    BY ProgramKept DEF Method
  <1>2. CASE WriteMethod
    <2>1. /\ DOMAIN slots_strides' = DOMAIN slots_strides /\ next_pointers' = next_pointers
          /\ DOMAIN gv_dispatch_table' = DOMAIN gv_dispatch_table /\ vptrs' = vptrs
      BY <1>2 DEF WriteMethod
    <2> QED BY <1>1, <2>1 DEF DomainsInv
  <1>3. CASE WriteNext
    <2> DEFINE m == next_item
               p == [s \in DOMAIN next_pointers[m] |-> NextPointer(m, s)]
    <2>1. /\ slots_strides' = slots_strides /\ gv_dispatch_table' = gv_dispatch_table
          /\ vptrs' = vptrs /\ next_pointers' = [next_pointers EXCEPT ![m] = p]
      BY <1>3 DEF WriteNext
    <2>2. DOMAIN p = DOMAIN next_pointers[m]
      OBVIOUS
    <2> HIDE DEF m, p
    <2>3. DOMAIN next_pointers' = DOMAIN next_pointers
      BY <2>1
    <2>4. ASSUME NEW n \in Method PROVE DOMAIN next_pointers'[n] = DOMAIN next_pointers[n]
      BY <2>1, <2>2 DEF DomainsInv
    <2> QED BY <1>1, <2>1, <2>3, <2>4 DEF DomainsInv
  <1>4. CASE WriteVtable
    <2>1. /\ slots_strides' = slots_strides /\ gv_dispatch_table' = gv_dispatch_table
          /\ DOMAIN vptrs' = DOMAIN vptrs /\ next_pointers' = next_pointers
      BY <1>4 DEF WriteVtable
    <2> QED BY <1>1, <2>1 DEF DomainsInv
  <1>5. CASE UNCHANGED <<slots_strides, gv_dispatch_table, vptrs, next_pointers>>
    BY <1>1, <1>5 DEF DomainsInv
  <1>6. Compile \/ BuildDispatchTables \/ Resize \/ LoopDone \/ UNCHANGED allVars
          => UNCHANGED <<slots_strides, gv_dispatch_table, vptrs, next_pointers>>
    BY DEF Compile, BuildDispatchTables, Resize, LoopDone, allVars, globalVars
  <1> QED BY <1>2, <1>3, <1>4, <1>5, <1>6 DEF NextGlobals

NextData ==
  \A m \in 1 .. NextsWritten : \A s \in DOMAIN methods[m].specs :
    nexts[m][s] # Null => next_pointers[m][s] = <<m, nexts[m][s]>>

LEMMA NextDataStep ==
  ASSUME TablesInv, DomainsInv, NextData, [NextGlobals]_allVars
  PROVE  NextData'
  <1>1. methods' = methods /\ StageInv /\ Len(methods) \in Nat
    BY ProgramKept, Counts
  <1>2. CASE WriteNext
    <2>1. /\ next_item \in Method /\ next_item \in Nat \ {0}
          /\ NextsWritten = next_item - 1 /\ NextsWritten' = next_item
      BY <1>2, NextOfMethod
    <2>2. PICK m \in Method : m = next_item
      BY <2>1
    <2> DEFINE p == [s \in DOMAIN next_pointers[m] |-> NextPointer(m, s)]
    <2>3. next_pointers' = [next_pointers EXCEPT ![m] = p] /\ nexts' = nexts
      BY <1>2, <2>2 DEF WriteNext, tableVars
    <2>4. \A s \in DOMAIN methods[m].specs :
            p[s] = IF nexts[m][s] # Null THEN <<m, nexts[m][s]>> ELSE next_pointers[m][s]
      BY DEF DomainsInv, NextPointer
    <2> HIDE DEF p
    <2>5. ASSUME NEW n \in 1 .. NextsWritten', NEW s \in DOMAIN methods[n].specs,
                 nexts[n][s] # Null
          PROVE  next_pointers'[n][s] = <<n, nexts[n][s]>>
      <3>1. CASE n = m
        <4>1. next_pointers'[m] = p
          BY <2>3 DEF DomainsInv
        <4> QED BY <2>4, <2>5, <3>1, <4>1
      <3>2. CASE n # m
        <4>1. n \in 1 .. NextsWritten
          BY <2>1, <2>2, <3>2
        <4>2. next_pointers[n][s] = <<n, nexts[n][s]>>
          BY <2>5, <4>1 DEF NextData
        <4>3. n \in Method
          <5>1. stage # "compile" /\ next_item <= Len(methods)
            BY <1>2, NextOfMethod
          <5>2. Method = 1 .. Len(methods)
            BY <5>1, Counts
          <5> QED BY <1>1, <2>1, <2>2, <4>1, <5>1, <5>2
        <4>4. next_pointers'[n] = next_pointers[n]
          BY <2>3, <3>2, <4>3 DEF DomainsInv
        <4> QED BY <4>2, <4>4
      <3> QED BY <3>1, <3>2
    <2> QED BY <1>1, <2>3, <2>5 DEF NextData
  <1>3. CASE Compile \/ BuildDispatchTables \/ Resize
    <2>1. NextsWritten' = 0
      BY <1>3, EarlyStepsKeep DEF WrittenKept
    <2> QED BY <2>1 DEF NextData
  <1>4. CASE WriteMethod
    <2>1. NextsWritten' = 0
      BY <1>4, NextMethod
    <2> QED BY <2>1 DEF NextData
  <1>5. CASE WriteVtable
    <2>1. /\ NextsWritten' = NextsWritten /\ nexts' = nexts /\ next_pointers' = next_pointers
      BY <1>5, NextVtable DEF WriteVtable, tableVars
    <2> QED BY <1>1, <2>1 DEF NextData
  <1>6. CASE LoopDone
    <2>1. /\ NextsWritten' = NextsWritten /\ nexts' = nexts /\ next_pointers' = next_pointers
      BY <1>6, LoopDoneKeeps DEF LoopDone, tableVars, globalVars, WrittenKept
    <2> QED BY <1>1, <2>1 DEF NextData
  <1>7. CASE UNCHANGED allVars
    <2>1. /\ NextsWritten' = NextsWritten /\ nexts' = nexts /\ next_pointers' = next_pointers
      BY <1>7, StutterKeeps DEF allVars, tableVars, globalVars, WrittenKept
    <2> QED BY <1>1, <2>1 DEF NextData
  <1> QED BY <1>2, <1>3, <1>4, <1>5, <1>6, <1>7 DEF NextGlobals

LEMMA CallsAre ==
  \A m : Calls(m) = {t \in [1 .. Arity(m) -> Class] : \A i \in 1 .. Arity(m) : t[i] \in Passable(m, i)}
  BY DEF Calls, Tables!Calls, Tables!arity, Tables!Covariant, Passable, Arity

(* The table of a method, once it is made.                                 *)
LEMMA TableIs ==
  ASSUME TablesInv, stage \notin {"compile", "tables"}, NEW m \in Method
  PROVE  /\ TablesWork(m) /\ Arity(m) \in Nat \ {0}
         /\ DOMAIN dispatch_tables[m] = 1 .. Tables(m, Groups(m))!Cells
         /\ Len(dispatch_tables[m]) = Tables(m, Groups(m))!Cells
         /\ \A n \in DOMAIN dispatch_tables[m] :
              dispatch_tables[m][n] = Tables(m, Groups(m))!OverriderOfCell(n - 1)
         /\ strides[m] = Strides(m, Groups(m))
         /\ nexts[m] = NextOverriders(m, Groups(m))
  <1>1. CompilerInv /\ CompiledWell /\ StageInv /\ TablesMade
    BY DEF TablesInv, PipelineInv
  <1>2. pass = "done" /\ MethodsMade = Len(methods)
    BY <1>1 DEF StageInv, MethodsMade
  <1>3. Method = 1 .. Len(methods) /\ TablesWork(m) /\ Arity(m) \in Nat \ {0}
    BY <1>1, <1>2, Compiled
  <1>4. /\ dispatch_tables[m] = Table(m) /\ strides[m] = Strides(m, Groups(m))
        /\ nexts[m] = NextOverriders(m, Groups(m))
    BY <1>1, <1>2, <1>3 DEF TablesMade
  <1>5. PICK k \in Nat : k = Tables(m, Groups(m))!Cells
    BY <1>3 DEF TablesWork
  <1>6. Table(m) = [n \in 1 .. k |-> Tables(m, Groups(m))!OverriderOfCell(n - 1)]
    BY <1>5 DEF Table
  <1> QED BY <1>3, <1>4, <1>5, <1>6

(* The groups of a uni-method are the cells of its table.                  *)
LEMMA UniGroups ==
  ASSUME TablesInv, stage \notin {"compile", "tables"}, NEW m \in Method, Arity(m) = 1
  PROVE  /\ 1 \in DOMAIN dispatch_tables[m]
         /\ \A c \in Class : c \in Passable(m, 1)
              => Entry(m, Groups(m), 1, c).group_index + 1 \in DOMAIN dispatch_tables[m]
  <1>1. TablesWork(m) /\ DOMAIN dispatch_tables[m] = 1 .. Tables(m, Groups(m))!Cells
    BY TableIs
  <1>2. PICK k \in Nat \ {0} : k = Tables(m, Groups(m))!Cells
    BY <1>1 DEF TablesWork
  <1>3. ASSUME NEW c \in Class, c \in Passable(m, 1)
        PROVE  Entry(m, Groups(m), 1, c).group_index + 1 \in DOMAIN dispatch_tables[m]
    <2> DEFINE t == [i \in 1 .. 1 |-> c]
    <2>1. t \in Calls(m) /\ t[1] = c
      <3>1. t \in [1 .. Arity(m) -> Class] /\ t[1] = c
        OBVIOUS
      <3>2. \A i \in 1 .. Arity(m) : t[i] \in Passable(m, i)
        <4>1. \A i \in 1 .. Arity(m) : i = 1
          OBVIOUS
        <4> HIDE DEF t
        <4> QED BY <1>3, <3>1, <4>1
      <3> HIDE DEF t
      <3>3. Calls(m) = {u \in [1 .. Arity(m) -> Class] :
                          \A i \in 1 .. Arity(m) : u[i] \in Passable(m, i)}
        BY CallsAre
      <3> QED BY <3>1, <3>2, <3>3
    <2> HIDE DEF t
    <2>2. PICK f : IsPath(m, t, f) /\ CellWorks(m, t, f[Arity(m)])
      BY <1>1, <2>1 DEF TablesWork
    <2>3. PICK g \in Nat : g = Entry(m, Groups(m), 1, c).group_index
      <3>1. 1 \in 1 .. Arity(m) /\ c \in transitive_derived[methods[m].vp[1]]
        BY <1>3 DEF Passable
      <3> QED BY <1>1, <3>1 DEF TablesWork
    <2>4. f[1] = f[0] + g * 1 /\ f[0] = 0
      <3>1. 1 \in 1 .. Arity(m) /\ 1 - 1 = 0
        OBVIOUS
      <3>2. Tables(m, Groups(m))!Stride(1) = 1
        BY <1>1 DEF TablesWork
      <3> QED BY <2>1, <2>2, <2>3, <3>1, <3>2 DEF IsPath
    <2>5. f[1] \in 0 .. k - 1
      BY <1>2, <2>2 DEF CellWorks
    <2>6. g + 1 \in 1 .. k
      BY <2>4, <2>5
    <2> QED BY <1>1, <1>2, <2>3, <2>6
  <1>4. 1 \in DOMAIN dispatch_tables[m]
    BY <1>1, <1>2
  <1> QED BY <1>3, <1>4

-----------------------------------------------------------------------------
(* The functions among the words are those of the tables.                  *)
IsFromTables(word) ==
  word[1] = "pf" =>
    \E m \in Method : \E n \in DOMAIN dispatch_tables[m] : word[2] = <<m, dispatch_tables[m][n]>>

WordsFromTables == Method # {} => \A i \in DOMAIN dispatch_data : IsFromTables(dispatch_data[i])

LEMMA WrittenFromTables ==
  ASSUME WordsFromTables, NEW words, Write(words), UNCHANGED vars, UNCHANGED tableVars,
         Method # {} => \A i \in DOMAIN words : IsFromTables(words[i])
  PROVE  WordsFromTables'
  <1>1. Method' = Method /\ dispatch_tables' = dispatch_tables
    BY MethodsKept DEF tableVars
  <1>2. \A w : IsFromTables(w)' <=> IsFromTables(w)
    BY <1>1 DEF IsFromTables
  <1> SUFFICES ASSUME Method # {}, NEW i \in DOMAIN dispatch_data' PROVE IsFromTables(dispatch_data[i])'
    BY <1>1 DEF WordsFromTables
  <1>3. i \in DOMAIN dispatch_data
    BY DEF Write
  <1>4. PICK w : w = dispatch_data'[i]
    OBVIOUS
  <1>5. IsFromTables(w)
    <2>1. CASE i - gv_iter \in DOMAIN words
      <3>1. w = words[i - gv_iter]
        BY <1>3, <1>4, <2>1 DEF Write
      <3> QED BY <2>1, <3>1
    <2>2. CASE i - gv_iter \notin DOMAIN words
      <3>1. w = dispatch_data[i]
        BY <1>3, <1>4, <2>2 DEF Write
      <3> QED BY <1>3, <3>1 DEF WordsFromTables
    <2> QED BY <2>1, <2>2
  <1>6. IsFromTables(w)'
    BY <1>2, <1>5
  <1> QED BY <1>4, <1>6 DEF IsFromTables

LEMMA WordsStep ==
  ASSUME TablesInv, RoomLeft, WordsFromTables, [NextGlobals]_allVars
  PROVE  WordsFromTables'
  <1>1. StageInv /\ Len(methods) \in Nat
    BY Counts
  <1>2. CASE Compile \/ BuildDispatchTables
    <2>1. dispatch_data' = dispatch_data /\ stage \in {"compile", "tables"}
      BY <1>2 DEF Compile, BuildDispatchTables, Iterate, globalVars
    <2>2. dispatch_data' = <<>>
      BY <2>1 DEF RoomLeft
    <2> QED BY <2>2 DEF WordsFromTables
  <1>3. CASE Resize
    <2>1. \A i \in DOMAIN dispatch_data' : dispatch_data'[i] = <<"none", Null>>
      BY <1>3 DEF Resize
    <2>2. ASSUME NEW i \in DOMAIN dispatch_data' PROVE dispatch_data'[i][1] # "pf"
      BY <2>1
    <2> QED BY <2>2 DEF WordsFromTables, IsFromTables
  <1>4. ASSUME UNCHANGED vars, UNCHANGED tableVars, UNCHANGED dispatch_data
        PROVE  WordsFromTables'
    <2>1. Method' = Method /\ dispatch_tables' = dispatch_tables
      BY <1>4, MethodsKept DEF tableVars
    <2> QED BY <1>4, <2>1 DEF WordsFromTables, IsFromTables
  <1>5. CASE WriteMethod
    <2>1. UNCHANGED vars /\ UNCHANGED tableVars /\ next_item \in Method
      BY <1>5, NextMethod DEF WriteMethod
    <2>2. CASE Arity(next_item) = 1
      BY <1>4, <1>5, <2>1, <2>2 DEF WriteMethod
    <2>3. CASE Arity(next_item) # 1
      <3> DEFINE words == [n \in DOMAIN dispatch_tables[next_item] |->
                             <<"pf", <<next_item, dispatch_tables[next_item][n]>>>>]
      <3>1. Write(words)
        BY <1>5, <2>3 DEF WriteMethod
      <3>2. \A i \in DOMAIN words : IsFromTables(words[i])
        BY <2>1 DEF IsFromTables
      <3> HIDE DEF words
      <3>3. PICK ws : ws = words
        OBVIOUS
      <3>4. Write(ws) /\ \A i \in DOMAIN ws : IsFromTables(ws[i])
        BY <3>1, <3>2, <3>3
      <3> QED BY <2>1, <3>4, WrittenFromTables
    <2> QED BY <2>2, <2>3
  <1>6. CASE WriteVtable
    <2>1. UNCHANGED vars /\ UNCHANGED tableVars /\ next_item \in 1 .. Len(classes) /\ stage = "vtables"
      BY <1>6, NextVtable DEF WriteVtable
    <2> DEFINE c == classes[next_item]
               words == [i \in DOMAIN vtbl[c] |-> Word(vtbl[c][i])]
    <2>2. Write(words)
      BY <1>6 DEF WriteVtable
    <2>3. ASSUME Method # {}, NEW i \in DOMAIN vtbl[c] PROVE IsFromTables(Word(vtbl[c][i]))
      <3>1. CompilerInv /\ CompiledWell /\ pass = "done" /\ EntriesTyped
        BY <1>1, <2>1 DEF TablesInv, PipelineInv, StageInv, VtablesInv
      <3>2. c \in Class /\ Method = 1 .. Len(methods)
        BY <2>1, <3>1, Compiled
      <3>3. MethodsMade = Len(methods)
        BY <2>1 DEF MethodsMade
      <3>4. vtbl[c][i] \in Placed(c, Len(methods))
        BY <2>1, <3>1, <3>2, <3>3 DEF EntriesTyped
      <3>5. PICK e : e = vtbl[c][i]
        OBVIOUS
      <3>6. CASE e = NoEntry
        <4>1. 1 \in Method /\ e.method_index = 1 /\ e.vp_index = 1 /\ e.group_index = 0
          BY <1>1, <2>3, <3>2, <3>6 DEF NoEntry
        <4>2. CASE Arity(1) = 1
          <5>1. 1 \in DOMAIN dispatch_tables[1]
            BY <2>1, <4>1, <4>2, UniGroups
          <5>2. Word(e) = <<"pf", <<1, dispatch_tables[1][1]>>>>
            BY <4>1, <4>2 DEF Word
          <5> QED BY <3>5, <4>1, <5>1, <5>2 DEF IsFromTables
        <4>3. CASE Arity(1) # 1
          <5>1. Word(e)[1] = "pw"
            BY <4>1, <4>3 DEF Word
          <5> QED BY <3>5, <5>1 DEF IsFromTables
        <4> QED BY <4>2, <4>3
      <3>7. CASE e # NoEntry
        <4>0. PICK m \in 1 .. Len(methods) :
                \E d \in 1 .. Arity(m) : c \in Passable(m, d) /\ e = Entry(m, Groups(m), d, c)
          BY <3>4, <3>5, <3>7 DEF Placed
        <4>1. PICK d \in 1 .. Arity(m) : c \in Passable(m, d) /\ e = Entry(m, Groups(m), d, c)
          BY <4>0
        <4>2. /\ m \in Method /\ e.method_index = m /\ e.vp_index = d
              /\ e.group_index = Entry(m, Groups(m), d, c).group_index
          BY <3>2, <4>1 DEF Entry
        <4>3. CASE Arity(m) = 1
          <5>1. d = 1
            BY <4>1, <4>3
          <5>2. Entry(m, Groups(m), 1, c).group_index + 1 \in DOMAIN dispatch_tables[m]
            BY <2>1, <3>2, <4>1, <4>2, <4>3, <5>1, UniGroups
          <5>3. PICK n \in DOMAIN dispatch_tables[m] : n = e.group_index + 1
            BY <4>2, <5>1, <5>2
          <5>4. Word(e) = <<"pf", <<m, dispatch_tables[m][n]>>>>
            BY <4>2, <4>3, <5>3 DEF Word
          <5> QED BY <3>5, <4>2, <5>4 DEF IsFromTables
        <4>4. CASE Arity(m) # 1
          <5>1. Word(e)[1] # "pf"
            BY <4>2, <4>4 DEF Word
          <5> QED BY <3>5, <5>1 DEF IsFromTables
        <4> QED BY <4>3, <4>4
      <3> QED BY <3>6, <3>7
    <2>4. Method # {} => \A i \in DOMAIN words : IsFromTables(words[i])
      BY <2>3
    <2> HIDE DEF c, words
    <2>5. PICK ws : ws = words
      OBVIOUS
    <2>6. Write(ws) /\ (Method # {} => \A i \in DOMAIN ws : IsFromTables(ws[i]))
      BY <2>2, <2>4, <2>5
    <2> QED BY <2>1, <2>6, WrittenFromTables
  <1>7. CASE WriteNext \/ LoopDone \/ UNCHANGED allVars
    BY <1>4, <1>7 DEF WriteNext, LoopDone, allVars, globalVars
  <1> QED BY <1>2, <1>3, <1>5, <1>6, <1>7 DEF NextGlobals

NextInv == RoomInv /\ DomainsInv /\ NextData /\ WordsFromTables

LEMMA NextInit == InitGlobals => NextInv
  <1> SUFFICES ASSUME InitGlobals PROVE NextInv
    OBVIOUS
  <1>1. NextsWritten = 0 /\ dispatch_data = <<>>
    BY DEF InitGlobals, NextsWritten
  <1>2. NextData /\ WordsFromTables
    BY <1>1 DEF NextData, WordsFromTables
  <1> QED BY <1>2, RoomInit, DomainsInit DEF NextInv

LEMMA NextStep == NextInv /\ CompiledWell' /\ [NextGlobals]_allVars => NextInv'
  <1> SUFFICES ASSUME NextInv, CompiledWell', [NextGlobals]_allVars PROVE NextInv'
    OBVIOUS
  <1>1. RoomInv /\ RoomInv' /\ TablesInv /\ RoomLeft /\ DomainsInv /\ NextData /\ WordsFromTables
    BY RoomStep DEF NextInv, RoomInv
  <1>2. StageInv
    BY <1>1, Counts
  <1>3. DomainsInv' /\ NextData' /\ WordsFromTables'
    BY <1>1, <1>2, DomainsStep, NextDataStep, WordsStep
  <1> QED BY <1>1, <1>3 DEF NextInv

(* What a call runs is a word that holds a function.                       *)
LEMMA RunIsRead ==
  ASSUME NEW m, NEW t, NEW f, Run(m, t) = f, f # Garbage
  PROVE  \E i \in DOMAIN dispatch_data : dispatch_data[i][1] = "pf" /\ dispatch_data[i][2] = f
  <1>1. ASSUME NEW args, resolve_uni(m, args) = f
        PROVE  \E x : Read(x, "pf") = f
    BY <1>1 DEF resolve_uni
  <1>2. ASSUME NEW args, resolve_multi(m, args) = f
        PROVE  \E x : Read(x, "pf") = f
    BY <1>2 DEF resolve_multi
  <1>3. \E x : Read(x, "pf") = f
    BY <1>1, <1>2 DEF Run, resolve
  <1> QED BY <1>3 DEF Read

LEMMA NextFollows == NextInv => NextPointersSet
  <1> SUFFICES ASSUME NextInv, stage = "ready", NEW m \in Method, NEW t \in Calls(m),
                      NEW s \in DOMAIN methods[m].specs, Run(m, t) = <<m, s>>
               PROVE  next_pointers[m][s] # Null
    BY DEF NextPointersSet
  <1> DEFINE g == Groups(m)
             Cells == Tables(m, g)!Cells
             Selecting == {n \in 0 .. Cells - 1 : Tables(m, g)!OverriderOfCell(n) = s}
  <1>1. TablesInv /\ NextData /\ WordsFromTables
    BY DEF NextInv, RoomInv
  <1>2. stage # "compile" /\ stage \notin {"compile", "tables"}
    OBVIOUS
  <1>3. Method = 1 .. Len(methods) /\ Len(methods) \in Nat
    BY <1>1, <1>2, Counts
  <1>4. methods[m].specs \in Seq(Seq(Class)) /\ m \in Nat
    <2>1. ClassInv /\ PlaceInv
      BY <1>1 DEF TablesInv, PipelineInv, CompilerInv, ClassInv
    <2> QED BY <1>3, <2>1, MethodFacts
  <1>5. s \in Nat /\ DOMAIN methods[m].specs \subseteq Nat
    <2>1. PICK ss : ss = methods[m].specs
      OBVIOUS
    <2>2. ss \in Seq(Seq(Class))
      BY <1>4, <2>1
    <2>3. DOMAIN ss \subseteq Nat
      BY <2>2
    <2> QED BY <2>1, <2>3
  <1>6. <<m, s>> # Garbage
    <2>1. <<m, s>> \in Nat \X (Nat \cup {not_implemented, ambiguous})
      BY <1>4, <1>5
    <2> QED BY <2>1, PointersAssumption
  <1>7. PICK i \in DOMAIN dispatch_data : dispatch_data[i][1] = "pf" /\ dispatch_data[i][2] = <<m, s>>
    <2>1. PICK f : f = <<m, s>>
      OBVIOUS
    <2>2. \E i \in DOMAIN dispatch_data : dispatch_data[i][1] = "pf" /\ dispatch_data[i][2] = f
      BY <1>6, <2>1, RunIsRead
    <2> QED BY <2>1, <2>2
  <1>8. PICK n \in DOMAIN dispatch_tables[m] : dispatch_tables[m][n] = s
    <2>1. IsFromTables(dispatch_data[i])
      BY <1>1 DEF WordsFromTables
    <2>2. PICK k \in Method :
            \E n \in DOMAIN dispatch_tables[k] : <<m, s>> = <<k, dispatch_tables[k][n]>>
      BY <1>7, <2>1 DEF IsFromTables
    <2> QED BY <2>2
  <1>9. /\ TablesWork(m) /\ DOMAIN dispatch_tables[m] = 1 .. Cells
        /\ dispatch_tables[m][n] = Tables(m, g)!OverriderOfCell(n - 1)
        /\ nexts[m] = NextOverriders(m, g)
    BY <1>1, <1>2, TableIs
  <1>10. Selecting # {}
    <2>1. PICK k \in Nat : k = Cells
      BY <1>9 DEF TablesWork
    <2>2. n - 1 \in 0 .. k - 1
      BY <1>9, <2>1
    <2>3. n - 1 \in Selecting
      BY <1>8, <1>9, <2>1, <2>2
    <2> QED BY <2>3
  <1>11. nexts[m][s] = Tables(m, g)!NextOf(Tables(m, g)!MaskOfCell(Max(Selecting)))
    BY <1>9, <1>10 DEF NextOverriders
  <1>12. nexts[m][s] \in DOMAIN methods[m].specs \cup {not_implemented, ambiguous}
    <2>1. PICK x : x = Max(Selecting)
      OBVIOUS
    <2>2. Tables(m, g)!NextOf(Tables(m, g)!MaskOfCell(x)) \in DOMAIN methods[m].specs \cup {not_implemented, ambiguous}
      BY <1>9 DEF TablesWork
    <2> HIDE DEF Selecting, g
    <2> QED BY <1>11, <2>1, <2>2
  <1>13. nexts[m][s] # Null
    BY <1>5, <1>12, PointersAssumption
  <1>14. next_pointers[m][s] = <<m, nexts[m][s]>>
    <2>1. NextsWritten = Len(methods)
      BY DEF NextsWritten
    <2> QED BY <1>1, <1>3, <1>13, <2>1 DEF NextData
  <1>15. <<m, nexts[m][s]>> \in Nat \X (Nat \cup {not_implemented, ambiguous})
    BY <1>4, <1>5, <1>12
  <1> QED BY <1>14, <1>15, PointersAssumption

-----------------------------------------------------------------------------
(* The words of the tables and of the v-tables stay where they are written.*)
Holds(b, words) ==
  /\ b \in Nat
  /\ DOMAIN words = 1 .. Len(words) /\ Len(words) \in Nat
  /\ b + Len(words) <= gv_iter
  /\ \A n \in 1 .. Len(words) : dispatch_data[b + n] = words[n]

Room == DOMAIN dispatch_data = 1 .. DataSize /\ DataSize \in Nat /\ gv_iter \in Nat /\ gv_iter <= DataSize

LEMMA RoomIs == RoomInv /\ stage \notin {"compile", "tables", "resize"} => Room
  <1> SUFFICES ASSUME RoomInv, stage \notin {"compile", "tables", "resize"} PROVE Room
    OBVIOUS
  <1>1. TablesInv /\ RoomLeft /\ StageInv
    BY Counts DEF RoomInv
  <1>2. stage \notin {"compile", "tables"} /\ stage \in {"methods", "next", "vtables", "ready"}
    BY <1>1 DEF StageInv
  <1>3. /\ DOMAIN dispatch_data = 1 .. DataSize /\ gv_iter \in Nat
        /\ dispatch_data = [i \in 1 .. DataSize |-> dispatch_data[i]]
    BY <1>1, <1>2 DEF RoomLeft
  <1>4. DataSize \in Nat
    BY <1>1, <1>2, DataSizeIs
  <1>5. Len(dispatch_data) = DataSize
    <2>1. PICK k \in Nat : k = DataSize
      BY <1>4
    <2> QED BY <1>3, <2>1
  <1>6. gv_iter <= DataSize
    BY <1>5, RoomFits DEF DataFits
  <1> QED BY <1>3, <1>4, <1>6 DEF Room

LEMMA HoldsKept ==
  ASSUME NEW b, NEW words, NEW ws, Room, Holds(b, words), Write(ws),
         DOMAIN ws = 1 .. Len(ws), Len(ws) \in Nat
  PROVE  Holds(b, words)'
  <1>1. PICK len \in Nat : len = Len(words)
    BY DEF Holds
  <1>2. PICK size \in Nat : size = DataSize
    BY DEF Room
  <1>3. PICK it \in Nat : it = gv_iter
    BY DEF Room
  <1>4. b \in Nat /\ b + len <= it /\ it <= size /\ DOMAIN dispatch_data = 1 .. size
    BY <1>1, <1>2, <1>3 DEF Holds, Room
  <1>5. gv_iter' = it + Len(ws)
    BY <1>3 DEF Write
  <1>6. ASSUME NEW n \in 1 .. len PROVE dispatch_data'[b + n] = words[n]
    <2>1. b + n \in 1 .. size /\ (b + n) - it <= 0
      BY <1>4
    <2>2. (b + n) - it \notin DOMAIN ws
      BY <2>1
    <2>3. dispatch_data'[b + n] = dispatch_data[b + n]
      BY <1>3, <1>4, <2>1, <2>2 DEF Write
    <2>4. dispatch_data[b + n] = words[n]
      BY <1>1 DEF Holds
    <2> QED BY <2>3, <2>4
  <1>7. b + len <= gv_iter'
    BY <1>4, <1>5
  <1> QED BY <1>1, <1>6, <1>7, SMTT(30) DEF Holds

LEMMA HoldsNew ==
  ASSUME NEW b, NEW words, Room, b = gv_iter, Write(words),
         DOMAIN words = 1 .. Len(words), Len(words) \in Nat, gv_iter' <= DataSize
  PROVE  Holds(b, words)'
  <1>1. PICK len \in Nat : len = Len(words)
    OBVIOUS
  <1>2. PICK size \in Nat : size = DataSize
    BY DEF Room
  <1>3. b \in Nat /\ gv_iter' = b + len /\ b + len <= size /\ DOMAIN dispatch_data = 1 .. size
    BY <1>1, <1>2 DEF Room, Write
  <1>4. ASSUME NEW n \in 1 .. len PROVE dispatch_data'[b + n] = words[n]
    <2>1. b + n \in 1 .. size /\ (b + n) - b = n /\ n \in DOMAIN words
      BY <1>1, <1>3
    <2> QED BY <1>3, <2>1 DEF Write
  <1> QED BY <1>1, <1>3, <1>4, SMTT(30) DEF Holds

MethodWords(m) == [n \in DOMAIN dispatch_tables[m] |-> <<"pf", <<m, dispatch_tables[m][n]>>>>]

ClassWords(c) == [i \in DOMAIN vtbl[c] |-> Word(vtbl[c][i])]

MethodData(m) ==
  /\ slots_strides[m] = SlotList(m) \o strides[m]
  /\ Arity(m) # 1 => Holds(gv_dispatch_table[m], MethodWords(m))

ClassData(c) == Holds(vptrs[c] + first_slot[c], ClassWords(c)) /\ vptrs[c] \in Int

DataInv ==
  /\ \A m \in 1 .. MethodsWritten : MethodData(m)
  /\ \A i \in 1 .. VtablesWritten : ClassData(classes[i])

LEMMA MethodWordsAre ==
  ASSUME TablesInv, stage \notin {"compile", "tables"}, NEW m \in Method
  PROVE  DOMAIN MethodWords(m) = 1 .. Len(MethodWords(m)) /\ Len(MethodWords(m)) \in Nat
  <1>1. TablesWork(m) /\ DOMAIN dispatch_tables[m] = 1 .. Tables(m, Groups(m))!Cells
    BY TableIs
  <1>2. PICK k \in Nat : k = Tables(m, Groups(m))!Cells
    BY <1>1 DEF TablesWork
  <1>3. MethodWords(m) = [n \in 1 .. k |-> <<"pf", <<m, dispatch_tables[m][n]>>>>]
    BY <1>1, <1>2 DEF MethodWords
  <1> QED BY <1>3

LEMMA ClassWordsAre ==
  ASSUME TablesInv, stage # "compile", NEW c \in Class
  PROVE  /\ DOMAIN ClassWords(c) = 1 .. Len(ClassWords(c)) /\ Len(ClassWords(c)) \in Nat
         /\ Len(ClassWords(c)) = vtbl_size[c]
         /\ \A i \in 1 .. vtbl_size[c] : ClassWords(c)[i] = Word(vtbl[c][i])
  <1>1. CompilerInv /\ CompiledWell /\ EntriesTyped /\ pass = "done"
    BY DEF TablesInv, PipelineInv, VtablesInv, StageInv
  <1>2. PICK k \in Nat : k = vtbl_size[c]
    BY <1>1, Compiled
  <1>3. PICK T : T = Placed(c, MethodsMade)
    OBVIOUS
  <1>4. vtbl[c] \in [1 .. k -> T]
    BY <1>1, <1>2, <1>3 DEF EntriesTyped
  <1>5. ClassWords(c) = [i \in 1 .. k |-> Word(vtbl[c][i])]
    BY <1>4 DEF ClassWords
  <1> QED BY <1>2, <1>5

LEMMA DataInit == InitGlobals => DataInv
  BY DEF InitGlobals, DataInv, MethodsWritten, VtablesWritten

(* The words of a method or a class depend on what does not change.        *)
LEMMA WordsKept ==
  ASSUME UNCHANGED vars, UNCHANGED tableVars
  PROVE  /\ \A m : MethodWords(m)' = MethodWords(m) /\ SlotList(m)' = SlotList(m)
         /\ \A m : (SlotList(m) \o strides[m])' = SlotList(m) \o strides[m]
         /\ UNCHANGED gv_dispatch_table => \A c : ClassWords(c)' = ClassWords(c)
  <1>1. /\ dispatch_tables' = dispatch_tables /\ vtbl' = vtbl /\ strides' = strides
        /\ slots' = slots /\ \A m : Arity(m)' = Arity(m)
    BY MethodsKept DEF tableVars
  <1>2. \A m : MethodWords(m)' = MethodWords(m) /\ SlotList(m)' = SlotList(m)
    BY <1>1 DEF MethodWords, SlotList
  <1>3. ASSUME UNCHANGED gv_dispatch_table PROVE \A c : ClassWords(c)' = ClassWords(c)
    <2>1. \A e : Word(e)' = Word(e)
      BY <1>1, <1>3 DEF Word
    <2> QED BY <1>1, <2>1 DEF ClassWords
  <1> QED BY <1>1, <1>2, <1>3

Preserves == \A b, words : Holds(b, words) => Holds(b, words)'

LEMMA SamePreserves == UNCHANGED <<dispatch_data, gv_iter>> => Preserves
  BY DEF Preserves, Holds

LEMMA WritePreserves ==
  ASSUME NEW ws, Room, Write(ws), DOMAIN ws = 1 .. Len(ws), Len(ws) \in Nat
  PROVE  Preserves
  BY HoldsKept DEF Preserves

LEMMA MethodDataKept ==
  ASSUME UNCHANGED vars, UNCHANGED tableVars, Preserves, NEW m, MethodData(m),
         slots_strides'[m] = slots_strides[m], gv_dispatch_table'[m] = gv_dispatch_table[m]
  PROVE  MethodData(m)'
  <1>1. /\ MethodWords(m)' = MethodWords(m) /\ Arity(m)' = Arity(m)
        /\ (SlotList(m) \o strides[m])' = SlotList(m) \o strides[m]
    BY WordsKept, MethodsKept
  <1>2. PICK b, words : b = gv_dispatch_table[m] /\ words = MethodWords(m)
    OBVIOUS
  <1>3. Arity(m) # 1 => Holds(b, words)
    BY <1>2 DEF MethodData
  <1>4. Arity(m) # 1 => Holds(b, words)'
    BY <1>3 DEF Preserves
  <1>5. b = gv_dispatch_table'[m] /\ words = MethodWords(m)'
    BY <1>1, <1>2
  <1>6. Arity(m)' # 1 => Holds(gv_dispatch_table[m], MethodWords(m))'
    BY <1>1, <1>4, <1>5 DEF Holds
  <1>7. (slots_strides[m] = SlotList(m) \o strides[m])'
    BY <1>1 DEF MethodData
  <1> QED BY <1>6, <1>7 DEF MethodData

LEMMA ClassDataKept ==
  ASSUME UNCHANGED vars, UNCHANGED tableVars, UNCHANGED gv_dispatch_table, Preserves,
         NEW c, ClassData(c), vptrs'[c] = vptrs[c]
  PROVE  ClassData(c)'
  <1>1. ClassWords(c)' = ClassWords(c) /\ first_slot' = first_slot
    BY WordsKept, MethodsKept
  <1>2. PICK b, words : b = vptrs[c] + first_slot[c] /\ words = ClassWords(c)
    OBVIOUS
  <1>3. Holds(b, words)'
    BY <1>2 DEF ClassData, Preserves
  <1>4. b = vptrs'[c] + first_slot'[c] /\ words = ClassWords(c)'
    BY <1>1, <1>2
  <1>5. Holds(vptrs[c] + first_slot[c], ClassWords(c))'
    BY <1>3, <1>4 DEF Holds
  <1> QED BY <1>5 DEF ClassData

LEMMA DataStep ==
  ASSUME RoomInv, DomainsInv, DataInv, CompiledWell', [NextGlobals]_allVars
  PROVE  DataInv'
  <1>1. TablesInv /\ RoomInv' /\ StageInv /\ Len(methods) \in Nat
    BY RoomStep, Counts DEF RoomInv
  <1>2. CASE Compile \/ BuildDispatchTables \/ Resize
    <2>1. MethodsWritten' = 0 /\ VtablesWritten' = 0
      BY <1>1, <1>2, EarlyStepsKeep DEF WrittenKept
    <2> QED BY <2>1 DEF DataInv
  <1>3. ASSUME UNCHANGED vars, UNCHANGED tableVars, UNCHANGED globalVars,
               MethodsWritten' = MethodsWritten, VtablesWritten' = VtablesWritten
        PROVE  DataInv'
    <2>1. /\ UNCHANGED gv_dispatch_table /\ slots_strides' = slots_strides /\ vptrs' = vptrs
          /\ UNCHANGED <<dispatch_data, gv_iter>> /\ classes' = classes
      BY <1>3, MethodsKept DEF globalVars
    <2>2. Preserves
      BY <2>1, SamePreserves
    <2>3. ASSUME NEW m \in 1 .. MethodsWritten PROVE MethodData(m)'
      BY <1>3, <2>1, <2>2, MethodDataKept DEF DataInv
    <2>4. ASSUME NEW i \in 1 .. VtablesWritten PROVE ClassData(classes[i])'
      <3>1. PICK c : c = classes[i]
        OBVIOUS
      <3>2. ClassData(c)
        BY <3>1 DEF DataInv
      <3>3. ClassData(c)'
        BY <1>3, <2>1, <2>2, <3>2, ClassDataKept
      <3> QED BY <2>1, <3>1, <3>3 DEF ClassData
    <2> QED BY <1>3, <2>3, <2>4 DEF DataInv
  <1>4. CASE LoopDone
    BY <1>1, <1>3, <1>4, LoopDoneKeeps DEF LoopDone, WrittenKept
  <1>5. CASE UNCHANGED allVars
    BY <1>3, <1>5, StutterKeeps DEF allVars, WrittenKept
  <1>6. CASE WriteNext
    <2>1. /\ UNCHANGED vars /\ UNCHANGED tableVars
          /\ UNCHANGED gv_dispatch_table /\ slots_strides' = slots_strides /\ vptrs' = vptrs
          /\ UNCHANGED <<dispatch_data, gv_iter>> /\ classes' = classes
      BY <1>6, MethodsKept DEF WriteNext
    <2>2. MethodsWritten' = MethodsWritten /\ VtablesWritten' = 0
      BY <1>1, <1>6, NextOfMethod
    <2>3. Preserves
      BY <2>1, SamePreserves
    <2>4. ASSUME NEW m \in 1 .. MethodsWritten PROVE MethodData(m)'
      BY <2>1, <2>3, MethodDataKept DEF DataInv
    <2> QED BY <2>2, <2>4 DEF DataInv
  <1>7. CASE WriteMethod
    <2>1. /\ next_item \in Method /\ next_item \in Nat \ {0} /\ next_item <= Len(methods)
          /\ stage = "methods" /\ stage' = "methods"
          /\ MethodsWritten = next_item - 1 /\ MethodsWritten' = next_item
          /\ VtablesWritten' = 0
      BY <1>1, <1>7, NextMethod
    <2>2. PICK m \in Method : m = next_item
      BY <2>1
    <2>3. UNCHANGED vars /\ UNCHANGED tableVars
      BY <1>7 DEF WriteMethod
    <2>4. stage \notin {"compile", "tables"} /\ stage \notin {"compile", "tables", "resize"}
          /\ stage' \notin {"compile", "tables", "resize"}
      BY <2>1
    <2>5. Room /\ Room' /\ DataSize' = DataSize
      <3>1. (RoomInv /\ stage \notin {"compile", "tables", "resize"} => Room)'
        BY RoomIs, PTL
      <3> QED BY <1>1, <2>3, <2>4, <3>1, RoomIs, SizesKept
    <2>6. slots_strides'[m] = SlotList(m) \o strides[m]
          /\ \A n \in Method : n # m => slots_strides'[n] = slots_strides[n]
      BY <1>7, <2>2 DEF WriteMethod, DomainsInv
    <2>7. Method = 1 .. Len(methods)
      <3>1. stage # "compile"
        BY <2>4
      <3> QED BY <1>1, <3>1, Counts
    <2>8. ASSUME NEW n \in 1 .. MethodsWritten PROVE n \in Method /\ n # m
      BY <1>1, <2>1, <2>2, <2>7
    <2>9. CASE Arity(m) = 1
      <3>1. UNCHANGED gv_dispatch_table /\ UNCHANGED <<dispatch_data, gv_iter>>
        BY <1>7, <2>2, <2>9 DEF WriteMethod
      <3>2. Preserves
        BY <3>1, SamePreserves
      <3>3. ASSUME NEW n \in 1 .. MethodsWritten PROVE MethodData(n)'
        BY <2>3, <2>6, <2>8, <3>1, <3>2, MethodDataKept DEF DataInv
      <3>4. MethodData(m)'
        BY <2>3, <2>6, <2>9, WordsKept, MethodsKept DEF MethodData
      <3>5. \A n \in 1 .. MethodsWritten' : n \in 1 .. MethodsWritten \/ n = m
        BY <2>1, <2>2
      <3> QED BY <2>1, <3>3, <3>4, <3>5 DEF DataInv
    <2>10. CASE Arity(m) # 1
      <3>1. gv_dispatch_table' = [gv_dispatch_table EXCEPT ![m] = gv_iter] /\ Write(MethodWords(m))
        BY <1>7, <2>2, <2>10 DEF WriteMethod, MethodWords
      <3>2. PICK ws, b : ws = MethodWords(m) /\ b = gv_iter
        OBVIOUS
      <3>3. Write(ws) /\ DOMAIN ws = 1 .. Len(ws) /\ Len(ws) \in Nat
        BY <1>1, <2>4, <3>1, <3>2, MethodWordsAre
      <3>4. Preserves
        BY <2>5, <3>3, WritePreserves
      <3>5. gv_iter' <= DataSize
        BY <2>5 DEF Room
      <3>6. Holds(b, ws)'
        BY <2>5, <3>2, <3>3, <3>5, HoldsNew
      <3>7. gv_dispatch_table'[m] = b /\ MethodWords(m)' = ws
        BY <2>3, <3>1, <3>2, WordsKept DEF DomainsInv
      <3>8. MethodData(m)'
        <4>1. Holds(gv_dispatch_table[m], MethodWords(m))'
          BY <3>6, <3>7 DEF Holds
        <4>2. (slots_strides[m] = SlotList(m) \o strides[m])'
          BY <2>3, <2>6, WordsKept
        <4> QED BY <4>1, <4>2 DEF MethodData
      <3>9. ASSUME NEW n \in 1 .. MethodsWritten PROVE MethodData(n)'
        <4>1. n \in Method /\ n # m
          BY <2>8
        <4>2. gv_dispatch_table'[n] = gv_dispatch_table[n]
          BY <3>1, <4>1 DEF DomainsInv
        <4>3. slots_strides'[n] = slots_strides[n]
          BY <2>6, <4>1
        <4>4. MethodData(n)
          BY DEF DataInv
        <4> QED BY <2>3, <3>4, <4>2, <4>3, <4>4, MethodDataKept
      <3>10. \A n \in 1 .. MethodsWritten' : n \in 1 .. MethodsWritten \/ n = m
        BY <2>1, <2>2
      <3> QED BY <2>1, <3>8, <3>9, <3>10 DEF DataInv
    <2> QED BY <2>9, <2>10
  <1>8. CASE WriteVtable
    <2>1. /\ next_item \in 1 .. Len(classes) /\ Len(classes) \in Nat
          /\ stage = "vtables" /\ stage' = "vtables"
          /\ VtablesWritten = next_item - 1 /\ VtablesWritten' = next_item
          /\ MethodsWritten' = MethodsWritten
      BY <1>1, <1>8, NextVtable
    <2>2. /\ UNCHANGED vars /\ UNCHANGED tableVars /\ UNCHANGED gv_dispatch_table
          /\ slots_strides' = slots_strides /\ classes' = classes /\ first_slot' = first_slot
      BY <1>8, MethodsKept DEF WriteVtable
    <2>3. stage # "compile" /\ stage \notin {"compile", "tables", "resize"}
          /\ stage' \notin {"compile", "tables", "resize"}
      BY <2>1
    <2>4. Room /\ Room' /\ DataSize' = DataSize
      <3>1. (RoomInv /\ stage \notin {"compile", "tables", "resize"} => Room)'
        BY RoomIs, PTL
      <3> QED BY <1>1, <2>2, <2>3, <3>1, RoomIs, SizesKept
    <2>5. /\ classes \in Seq(Class) /\ IsInjective(classes) /\ first_slot \in [Class -> Nat]
      <3>1. CompilerInv /\ CompiledWell /\ pass = "done"
        BY <1>1, <2>3 DEF TablesInv, PipelineInv, StageInv
      <3> QED BY <3>1, Compiled
    <2>6. PICK c \in Class : c = classes[next_item]
      BY <2>1, <2>5
    <2>7. PICK ws, b : ws = ClassWords(c) /\ b = gv_iter
      OBVIOUS
    <2>8. Write(ws) /\ vptrs' = [vptrs EXCEPT ![c] = b - first_slot[c]]
      BY <1>8, <2>6, <2>7 DEF WriteVtable, ClassWords
    <2>9. DOMAIN ws = 1 .. Len(ws) /\ Len(ws) \in Nat
      BY <1>1, <2>3, <2>7, ClassWordsAre
    <2>10. Preserves
      BY <2>4, <2>8, <2>9, WritePreserves
    <2>11. gv_iter' <= DataSize
      BY <2>4 DEF Room
    <2>12. Holds(b, ws)'
      BY <2>4, <2>7, <2>8, <2>9, <2>11, HoldsNew
    <2>13. ClassData(c)'
      <3>1. b \in Nat /\ first_slot[c] \in Nat
        BY <2>4, <2>5, <2>7 DEF Room
      <3>2. vptrs'[c] = b - first_slot[c]
        BY <2>8 DEF DomainsInv
      <3>3. vptrs'[c] \in Int /\ vptrs'[c] + first_slot'[c] = b
        BY <2>2, <3>1, <3>2
      <3>4. ClassWords(c)' = ws
        BY <2>2, <2>7, WordsKept
      <3>5. Holds(vptrs[c] + first_slot[c], ClassWords(c))'
        BY <2>12, <3>3, <3>4 DEF Holds
      <3> QED BY <3>3, <3>5 DEF ClassData
    <2>14. ASSUME NEW m \in 1 .. MethodsWritten PROVE MethodData(m)'
      <3>1. MethodData(m)
        BY DEF DataInv
      <3> QED BY <2>2, <2>10, <3>1, MethodDataKept
    <2>15. ASSUME NEW i \in 1 .. VtablesWritten' PROVE ClassData(classes[i])'
      <3>1. PICK d : d = classes[i]
        OBVIOUS
      <3>2. CASE i = next_item
        <4>1. d = c
          BY <2>6, <3>1, <3>2
        <4> QED BY <2>2, <2>13, <3>1, <4>1 DEF ClassData
      <3>3. CASE i # next_item
        <4>1. i \in 1 .. VtablesWritten /\ i \in 1 .. Len(classes)
          BY <2>1, <3>3
        <4>2. d # c
          BY <2>1, <2>5, <2>6, <3>1, <3>3, <4>1 DEF IsInjective
        <4>3. d \in Class
          BY <2>5, <3>1, <4>1
        <4>4. vptrs'[d] = vptrs[d]
          BY <2>8, <4>2, <4>3 DEF DomainsInv
        <4>5. ClassData(d)
          BY <3>1, <4>1 DEF DataInv
        <4>6. ClassData(d)'
          BY <2>2, <2>10, <4>4, <4>5, ClassDataKept
        <4> QED BY <2>2, <3>1, <4>6 DEF ClassData
      <3> QED BY <3>2, <3>3
    <2> QED BY <2>1, <2>14, <2>15 DEF DataInv
  <1> QED BY <1>2, <1>4, <1>5, <1>6, <1>7, <1>8 DEF NextGlobals

-----------------------------------------------------------------------------
(* The calls.  Virtual parameters that follow one another are found by     *)
(* counting.                                                               *)
LEMMA VirtualsFollow ==
  ASSUME PlaceInv, NEW m \in Method, Arity(m) \in Nat \ {0}, Adjacent(m)
  PROVE  /\ First(m) \in Nat
         /\ VirtualParameters(m) = First(m) .. First(m) + Arity(m) - 1
  <1> DEFINE V == VirtualParameters(m)
  <1>1. methods[m].is_virtual \in Seq(BOOLEAN) /\ Cardinality(V) = Arity(m)
    <2>1. HasParameters(program)
      BY ParametersAssumption DEF PlaceInv
    <2>2. m \in DOMAIN program.methods /\ methods[m] = program.methods[m]
      BY DEF Method, methods
    <2> QED BY <2>1, <2>2 DEF HasParameters, VirtualParameters, Arity
  <1>2. PICK n \in Nat : V \subseteq 1 .. n
    <2>1. PICK s \in Seq(BOOLEAN) : s = methods[m].is_virtual
      BY <1>1
    <2>2. V \subseteq 1 .. Len(s)
      BY <2>1 DEF VirtualParameters
    <2> QED BY <2>2
  <1>3. \A i, j \in V : i .. j \subseteq V
    BY DEF Adjacent
  <1>4. PICK a \in Nat \ {0} : a = Arity(m)
    OBVIOUS
  <1> HIDE DEF V
  <1>5. V # {} /\ V \in SUBSET Nat /\ \A y \in V : y <= n
    <2>1. V # {}
      <3>1. Cardinality({}) = 0
        BY FS_EmptySet
      <3> QED BY <1>1, <1>4, <3>1
    <2>2. \A y \in 1 .. n : y \in Nat /\ y <= n
      OBVIOUS
    <2> QED BY <1>2, <2>1, <2>2
  <1>6. PICK x \in V : \A y \in V : x <= y
    BY <1>5, LeastOfNat
  <1>7. Min(V) \in V /\ \A y \in V : Min(V) <= y
    BY <1>6 DEF Min
  <1>8. Max(V) \in V /\ \A y \in V : y <= Max(V)
    BY <1>5, GreatestOfNat
  <1>9. PICK lo \in Nat, hi \in Nat : lo = Min(V) /\ hi = Max(V)
    BY <1>5, <1>7, <1>8
  <1>10. V = lo .. hi /\ lo <= hi
    <2>1. lo .. hi \subseteq V /\ lo <= hi
      BY <1>3, <1>7, <1>8, <1>9
    <2>2. \A y \in V : y \in Nat /\ lo <= y /\ y <= hi
      BY <1>5, <1>7, <1>8, <1>9
    <2>3. V \subseteq lo .. hi
      BY <2>2
    <2> QED BY <2>1, <2>3
  <1>11. Cardinality(lo .. hi) = hi - lo + 1
    BY <1>10, FS_Interval
  <1>12. hi = lo + a - 1
    BY <1>1, <1>4, <1>10, <1>11
  <1> QED BY <1>4, <1>9, <1>10, <1>12 DEF First, V

LEMMA ArgumentsAre ==
  ASSUME NEW m, NEW t, NEW a \in Nat \ {0}, NEW lo \in Nat, a = Arity(m), lo = First(m),
         VirtualParameters(m) = lo .. lo + a - 1
  PROVE  /\ Looked(m) = 1 .. a - 1
         /\ \A k \in 0 .. a - 1 : Arguments(m, t)[lo + k] = t[k + 1]
  <1>1. Looked(m) = 1 .. a - 1
    <2>1. \A k \in 1 .. a - 1 : lo + k \in lo .. lo + a - 1
      OBVIOUS
    <2> QED BY <2>1 DEF Looked
  <1>2. ASSUME NEW k \in 0 .. a - 1 PROVE Arguments(m, t)[lo + k] = t[k + 1]
    <2>1. {j \in lo .. lo + a - 1 : j <= lo + k} = lo .. lo + k
      OBVIOUS
    <2>2. Cardinality(lo .. lo + k) = k + 1
      <3>1. Cardinality(lo .. lo + k) = (lo + k) - lo + 1
        BY FS_Interval
      <3> QED BY <3>1
    <2>3. lo + k \in lo .. lo + a - 1
      OBVIOUS
    <2>4. Arguments(m, t)[lo + k] = t[Cardinality({j \in VirtualParameters(m) : j <= lo + k})]
      BY <2>3 DEF Arguments
    <2> QED BY <2>1, <2>2, <2>4
  <1> QED BY <1>1, <1>2

CallInv == NextInv /\ DataInv

LEMMA CallInit == InitGlobals => CallInv
  BY NextInit, DataInit DEF CallInv

LEMMA CallStep == CallInv /\ CompiledWell' /\ [NextGlobals]_allVars => CallInv'
  BY NextStep, DataStep DEF CallInv, NextInv

(* What initialize() leaves behind.                                        *)
LEMMA ReadyFacts ==
  ASSUME CallInv, stage = "ready"
  PROVE  /\ TablesInv /\ Room /\ CompilerInv /\ CompiledWell /\ PlaceInv /\ pass = "done"
         /\ Method = 1 .. Len(methods) /\ MethodsMade = Len(methods)
         /\ \A m \in Method : MethodData(m) /\ TablesWork(m) /\ Arity(m) \in Nat \ {0}
         /\ classes \in Seq(Class) /\ \A i \in 1 .. Len(classes) : ClassData(classes[i])
  <1>1. TablesInv /\ RoomInv /\ DataInv
    BY DEF CallInv, NextInv, RoomInv
  <1>2. Room
    BY <1>1, RoomIs
  <1>3. CompilerInv /\ CompiledWell /\ StageInv
    BY <1>1 DEF TablesInv, PipelineInv
  <1>4. pass = "done" /\ PlaceInv
    BY <1>3 DEF StageInv, CompilerInv, ClassInv
  <1>5. /\ Method = 1 .. Len(methods) /\ classes \in Seq(Class)
        /\ \A m \in Method : TablesWork(m) /\ Arity(m) \in Nat \ {0}
    BY <1>3, <1>4, Compiled
  <1>6. MethodsMade = Len(methods) /\ MethodsWritten = Len(methods) /\ VtablesWritten = Len(classes)
    BY DEF MethodsMade, MethodsWritten, VtablesWritten
  <1>7. /\ \A m \in Method : MethodData(m)
        /\ \A i \in 1 .. Len(classes) : ClassData(classes[i])
    BY <1>1, <1>5, <1>6 DEF DataInv
  <1> QED BY <1>1, <1>2, <1>3, <1>4, <1>5, <1>6, <1>7

(* The word that the v-table pointer and the slot lead to.                 *)
LEMMA EntryIsRead ==
  ASSUME CallInv, stage = "ready", Classes!Orderly,
         NEW m \in Method, NEW d \in 1 .. Arity(m), NEW c \in Passable(m, d)
  PROVE  /\ vptrs[c] + slots[<<m, d>>] + 1 \in DOMAIN dispatch_data
         /\ dispatch_data[vptrs[c] + slots[<<m, d>>] + 1] = Word(Entry(m, Groups(m), d, c))
  <1>1. /\ TablesInv /\ Room /\ CompilerInv /\ CompiledWell /\ pass = "done"
        /\ Method = 1 .. Len(methods) /\ MethodsMade = Len(methods)
        /\ classes \in Seq(Class) /\ \A i \in 1 .. Len(classes) : ClassData(classes[i])
    BY ReadyFacts
  <1>2. SlotsApart /\ MethodsNumbered
    BY <1>1, SlotsAreApart, Numbered
  <1>3. ClassInv /\ class_pc = "done" /\ AllKnown
    BY <1>1, AfterTheMethods
  <1>4. c \in Class /\ \E i \in 1 .. Len(classes) : classes[i] = c
    <2>1. methods[m].vp \in Seq(Class) /\ d \in DOMAIN methods[m].vp
      <3>1. methods[m].vp \in Seq(Class)
        BY <1>1, ReadyFacts, MethodFacts
      <3> QED BY <3>1 DEF Arity
    <2>2. c \in ToSet(classes)
      <3>1. c \in transitive_derived[methods[m].vp[d]] /\ methods[m].vp[d] \in Class
        BY <2>1 DEF Passable
      <3>2. PICK b \in Class : b = methods[m].vp[d] /\ c \in transitive_derived[b]
        BY <3>1
      <3>3. transitive_derived[b] \subseteq ToSet(classes)
        <4>1. b \in Known /\ ToSet(classes) = Known /\ Known \subseteq Class
          BY <1>3, <3>2, EndFacts, KnownFacts
        <4>2. \A k \in Known : ToSet(direct_derived[k]) \subseteq Known
          BY <1>3, <4>1, EndFacts
        <4>3. \A S \in SUBSET Class :
                b \in S /\ (\A k \in S : ToSet(direct_derived[k]) \subseteq S)
                  => transitive_derived[b] \subseteq S
          BY <1>3, <4>1, EndFacts
        <4> QED BY <4>1, <4>2, <4>3
      <3> QED BY <3>2, <3>3
    <2> QED BY <1>1, <2>2 DEF ToSet
  <1>5. ClassData(c)
    BY <1>1, <1>4
  <1>6. PICK s \in Nat, f \in Nat, k \in Nat :
          s = slots[<<m, d>>] /\ f = first_slot[c] /\ k = vtbl_size[c]
    <2>1. slots[<<m, d>>] \in Nat
      BY <1>2 DEF SlotsApart
    <2>2. first_slot[c] \in Nat /\ vtbl_size[c] \in Nat
      BY <1>1, <1>4, Compiled
    <2> QED BY <2>1, <2>2
  <1>7. PICK v \in Int : v = vptrs[c]
    BY <1>5 DEF ClassData
  <1>8. PlaceOf(m, d, c) = s - f + 1 /\ s - f + 1 \in 1 .. k
    <2>1. PlaceOf(m, d, c) \in 1 .. vtbl_size[c]
      BY <1>2 DEF SlotsApart
    <2> QED BY <1>6, <2>1 DEF PlaceOf
  <1>9. vtbl[c][s - f + 1] = Entry(m, Groups(m), d, c)
    <2>1. FoundIn(vtbl[c], c, MethodsMade + 1, 0)
      BY <1>1, <1>4 DEF TablesInv, VtablesInv, EntriesFound
    <2>2. Before(m, d, MethodsMade + 1, 0)
      <3>1. PICK l \in Nat : l = Len(methods)
        BY <1>1, MethodCount
      <3>2. m \in 1 .. l /\ MethodsMade + 1 = l + 1
        BY <1>1, <3>1
      <3> QED BY <3>2 DEF Before
    <2> QED BY <1>8, <2>1, <2>2 DEF FoundIn
  <1>10. PICK words : words = ClassWords(c)
    OBVIOUS
  <1>11. Len(words) = k /\ words[s - f + 1] = Word(Entry(m, Groups(m), d, c))
    <2>1. Len(words) = k /\ \A i \in 1 .. k : words[i] = Word(vtbl[c][i])
      BY <1>1, <1>4, <1>6, <1>10, ClassWordsAre
    <2> QED BY <1>8, <1>9, <2>1
  <1>12. Holds(v + f, words)
    BY <1>5, <1>6, <1>7, <1>10 DEF ClassData
  <1>13. dispatch_data[(v + f) + (s - f + 1)] = Word(Entry(m, Groups(m), d, c))
    BY <1>8, <1>11, <1>12 DEF Holds
  <1>14. (v + f) + (s - f + 1) = v + s + 1
    OBVIOUS
  <1>15. v + s + 1 \in DOMAIN dispatch_data
    <2>1. PICK size \in Nat, it \in Nat :
            size = DataSize /\ it = gv_iter /\ it <= size /\ DOMAIN dispatch_data = 1 .. size
      BY <1>1 DEF Room
    <2>2. v + f \in Nat /\ v + f + k <= it
      BY <1>11, <1>12, <2>1 DEF Holds
    <2>3. v + s + 1 \in 1 .. size
      BY <1>8, <2>1, <2>2
    <2> QED BY <2>1, <2>3
  <1> QED BY <1>6, <1>7, <1>13, <1>14, <1>15

StrideOf(m, d) == Tables(m, Groups(m))!Stride(d)

GroupIn(m, d, c) == Entry(m, Groups(m), d, c).group_index

(* The slots and the strides that a call reads.                            *)
LEMMA SlotsStridesAre ==
  ASSUME CallInv, stage = "ready", Classes!Orderly, NEW m \in Method,
         \A d \in 1 .. Arity(m) : slots[<<m, d>>] \in Nat
  PROVE  /\ \A d \in 1 .. Arity(m) : slots_strides[m][d] = slots[<<m, d>>]
         /\ \A d \in 1 .. Arity(m) - 1 : slots_strides[m][Arity(m) + d] = StrideOf(m, d + 1)
  <1>1. MethodData(m) /\ TablesWork(m) /\ Arity(m) \in Nat \ {0} /\ TablesInv
    BY ReadyFacts
  <1>2. PICK a \in Nat \ {0} : a = Arity(m)
    BY <1>1
  <1>3. strides[m] = Strides(m, Groups(m))
    BY <1>1, TableIs
  <1>4. PICK S, R : S = SlotList(m) /\ R = strides[m]
    OBVIOUS
  <1>5. /\ S \in Seq(Nat) /\ Len(S) = a /\ \A d \in 1 .. a : S[d] = slots[<<m, d>>]
    <2>1. S = [d \in 1 .. a |-> slots[<<m, d>>]]
      BY <1>2, <1>4 DEF SlotList
    <2>2. ASSUME NEW d \in 1 .. a PROVE S[d] = slots[<<m, d>>] /\ S[d] \in Nat
      BY <1>2, <2>1
    <2>3. DOMAIN S = 1 .. a /\ S = [d \in 1 .. a |-> S[d]]
      BY <2>1
    <2>4. S \in [1 .. a -> Nat]
      BY <2>2, <2>3
    <2>5. S \in Seq(Nat) /\ Len(S) = a
      BY <2>4
    <2> QED BY <2>2, <2>5
  <1>6. /\ R \in Seq(Nat) /\ Len(R) = a - 1 /\ \A d \in 1 .. a - 1 : R[d] = StrideOf(m, d + 1)
    <2>1. R = [d \in 1 .. a - 1 |-> StrideOf(m, d + 1)]
      BY <1>2, <1>3, <1>4 DEF Strides, StrideOf
    <2>2. \A d \in 1 .. a - 1 : StrideOf(m, d + 1) \in Nat
      <3>1. \A d \in 1 .. a : StrideOf(m, d) \in Nat
        BY <1>1, <1>2 DEF TablesWork, StrideOf
      <3>2. \A d \in 1 .. a - 1 : d + 1 \in 1 .. a
        OBVIOUS
      <3> QED BY <3>1, <3>2
    <2>3. a - 1 \in Nat
      OBVIOUS
    <2> QED BY <2>1, <2>2, <2>3
  <1>7. slots_strides[m] = S \o R
    BY <1>1, <1>4 DEF MethodData
  <1>8. /\ \A d \in 1 .. a : (S \o R)[d] = S[d]
        /\ \A d \in 1 .. a - 1 : (S \o R)[a + d] = R[d]
    <2>1. S \in Seq(Nat) /\ R \in Seq(Nat) /\ Len(S) = a /\ Len(R) = a - 1
      BY <1>5, <1>6
    <2>2. \A i \in 1 .. Len(S) + Len(R) :
            (S \o R)[i] = IF i <= Len(S) THEN S[i] ELSE R[i - Len(S)]
      BY <2>1, ConcatProperties
    <2>3. Len(S) + Len(R) = a + (a - 1)
      BY <2>1
    <2>4. ASSUME NEW d \in 1 .. a PROVE (S \o R)[d] = S[d]
      BY <2>1, <2>2, <2>3
    <2>5. ASSUME NEW d \in 1 .. a - 1 PROVE (S \o R)[a + d] = R[d]
      <3>1. a + d \in 1 .. a + (a - 1) /\ ~ (a + d <= a) /\ (a + d) - a = d
        OBVIOUS
      <3> QED BY <2>1, <2>2, <2>3, <3>1
    <2> QED BY <2>4, <2>5
  <1>10. ASSUME NEW d \in 1 .. Arity(m) PROVE slots_strides[m][d] = slots[<<m, d>>]
    BY <1>2, <1>5, <1>7, <1>8
  <1>11. ASSUME NEW d \in 1 .. Arity(m) - 1
         PROVE  slots_strides[m][Arity(m) + d] = StrideOf(m, d + 1)
    BY <1>2, <1>6, <1>7, <1>8
  <1> QED BY <1>10, <1>11

(* What the parameters of a call are, and the words it reads for each.     *)
LEMMA ArgumentsRead ==
  ASSUME CallInv, stage = "ready", Classes!Orderly, NEW m \in Method, NEW t \in Calls(m),
         Adjacent(m)
  PROVE  /\ First(m) \in Nat /\ Looked(m) = 1 .. Arity(m) - 1
         /\ \A k \in 0 .. Arity(m) - 1 :
              /\ k + 1 \in 1 .. Arity(m) /\ t[k + 1] \in Passable(m, k + 1)
              /\ Arguments(m, t)[First(m) + k] = t[k + 1]
              /\ slots_strides[m][k + 1] = slots[<<m, k + 1>>]
              /\ vptrs[t[k + 1]] + slots[<<m, k + 1>>] + 1 \in DOMAIN dispatch_data
              /\ dispatch_data[vptrs[t[k + 1]] + slots[<<m, k + 1>>] + 1]
                   = Word(Entry(m, Groups(m), k + 1, t[k + 1]))
         /\ \A d \in 1 .. Arity(m) - 1 : slots_strides[m][Arity(m) + d] = StrideOf(m, d + 1)
  <1>1. /\ PlaceInv /\ Arity(m) \in Nat \ {0}
        /\ CompilerInv /\ CompiledWell /\ pass = "done"
    BY ReadyFacts
  <1>2. PICK a \in Nat \ {0} : a = Arity(m)
    BY <1>1
  <1>3. /\ First(m) \in Nat /\ VirtualParameters(m) = First(m) .. First(m) + a - 1
    BY <1>1, <1>2, VirtualsFollow
  <1>4. PICK lo \in Nat : lo = First(m)
    BY <1>3
  <1>5. PICK u : u = t
    OBVIOUS
  <1>6. /\ Looked(m) = 1 .. a - 1
        /\ \A k \in 0 .. a - 1 : Arguments(m, u)[lo + k] = u[k + 1]
    <2>1. VirtualParameters(m) = lo .. lo + a - 1
      BY <1>3, <1>4
    <2> QED BY <1>2, <1>4, <2>1, ArgumentsAre
  <1>7. \A i \in 1 .. a : t[i] \in Passable(m, i)
    <2>1. Calls(m) = {w \in [1 .. Arity(m) -> Class] : \A i \in 1 .. Arity(m) : w[i] \in Passable(m, i)}
      BY CallsAre
    <2> QED BY <1>2, <2>1
  <1>8. \A d \in 1 .. Arity(m) : slots[<<m, d>>] \in Nat
    <2>1. SlotsApart
      BY <1>1, SlotsAreApart
    <2> QED BY <1>2, <1>7, <2>1 DEF SlotsApart
  <1>9. /\ \A d \in 1 .. Arity(m) : slots_strides[m][d] = slots[<<m, d>>]
        /\ \A d \in 1 .. Arity(m) - 1 : slots_strides[m][Arity(m) + d] = StrideOf(m, d + 1)
    BY <1>8, SlotsStridesAre
  <1>10. ASSUME NEW k \in 0 .. a - 1
         PROVE  /\ k + 1 \in 1 .. a /\ t[k + 1] \in Passable(m, k + 1)
                /\ vptrs[t[k + 1]] + slots[<<m, k + 1>>] + 1 \in DOMAIN dispatch_data
                /\ dispatch_data[vptrs[t[k + 1]] + slots[<<m, k + 1>>] + 1]
                     = Word(Entry(m, Groups(m), k + 1, t[k + 1]))
    <2>1. PICK d \in 1 .. a : d = k + 1
      OBVIOUS
    <2>2. PICK c : c = t[d]
      OBVIOUS
    <2>3. c \in Passable(m, d) /\ d \in 1 .. Arity(m)
      BY <1>2, <1>7, <2>2
    <2>4. /\ vptrs[c] + slots[<<m, d>>] + 1 \in DOMAIN dispatch_data
          /\ dispatch_data[vptrs[c] + slots[<<m, d>>] + 1] = Word(Entry(m, Groups(m), d, c))
      BY <2>3, EntryIsRead
    <2> QED BY <2>1, <2>2, <2>3, <2>4
  <1> QED BY <1>2, <1>3, <1>4, <1>5, <1>6, <1>9, <1>10

LEMMA UniRuns ==
  ASSUME CallInv, stage = "ready", Classes!Orderly, NEW m \in Method, NEW t \in Calls(m),
         Adjacent(m), Arity(m) = 1, NEW f, IsPath(m, t, f),
         f[1] \in 0 .. Tables(m, Groups(m))!Cells - 1
  PROVE  Run(m, t) = <<m, Tables(m, Groups(m))!OverriderOfCell(f[1])>>
  <1>1. TablesInv /\ TablesWork(m)
    BY ReadyFacts
  <1>2. /\ First(m) \in Nat /\ t[1] \in Passable(m, 1)
        /\ Arguments(m, t)[First(m)] = t[1]
        /\ slots_strides[m][1] = slots[<<m, 1>>]
        /\ vptrs[t[1]] + slots[<<m, 1>>] + 1 \in DOMAIN dispatch_data
        /\ dispatch_data[vptrs[t[1]] + slots[<<m, 1>>] + 1] = Word(Entry(m, Groups(m), 1, t[1]))
    <2>1. 0 \in 0 .. Arity(m) - 1 /\ 0 + 1 = 1
      OBVIOUS
    <2>2. First(m) \in Nat
      BY ArgumentsRead
    <2>3. First(m) + 0 = First(m)
      BY <2>2
    <2> QED BY <2>1, <2>2, <2>3, ArgumentsRead
  <1>3. PICK g \in Nat : g = Entry(m, Groups(m), 1, t[1]).group_index
    <2>1. 1 \in 1 .. Arity(m)
      OBVIOUS
    <2> QED BY <1>1, <1>2, <2>1 DEF TablesWork, Passable
  <1>4. f[1] = g
    <2>1. 1 \in 1 .. Arity(m) /\ 1 - 1 = 0
      OBVIOUS
    <2>2. f[1] = f[0] + g * 1 /\ f[0] = 0
      BY <1>1, <1>3, <2>1 DEF IsPath, TablesWork
    <2> QED BY <2>2
  <1>5. dispatch_tables[m][g + 1] = Tables(m, Groups(m))!OverriderOfCell(g)
    <2>1. PICK n \in Nat : n = Tables(m, Groups(m))!Cells
      BY <1>1 DEF TablesWork
    <2>2. g + 1 \in 1 .. n /\ (g + 1) - 1 = g
      BY <1>4, <2>1
    <2>3. /\ DOMAIN dispatch_tables[m] = 1 .. Tables(m, Groups(m))!Cells
          /\ \A i \in DOMAIN dispatch_tables[m] :
               dispatch_tables[m][i] = Tables(m, Groups(m))!OverriderOfCell(i - 1)
      BY <1>1, TableIs
    <2> QED BY <2>1, <2>2, <2>3
  <1>6. Word(Entry(m, Groups(m), 1, t[1])) = <<"pf", <<m, dispatch_tables[m][g + 1]>>>>
    <2>1. PICK e : e = Entry(m, Groups(m), 1, t[1])
      OBVIOUS
    <2>2. e.method_index = m /\ e.group_index = g
      BY <1>3, <2>1 DEF Entry
    <2>3. Word(e) = <<"pf", <<m, dispatch_tables[m][g + 1]>>>>
      BY <2>2 DEF Word
    <2> QED BY <2>1, <2>3
  <1>7. Read(vptrs[t[1]] + slots[<<m, 1>>], "pf") = <<m, dispatch_tables[m][g + 1]>>
    <2>1. PICK i : i = vptrs[t[1]] + slots[<<m, 1>>]
      OBVIOUS
    <2>2. /\ i + 1 \in DOMAIN dispatch_data
          /\ dispatch_data[i + 1] = <<"pf", <<m, dispatch_tables[m][g + 1]>>>>
      BY <1>2, <1>6, <2>1
    <2> QED BY <2>1, <2>2 DEF Read
  <1>8. Run(m, t) = Read(vptrs[t[1]] + slots[<<m, 1>>], "pf")
    BY <1>2 DEF Run, resolve, resolve_uni
  <1> QED BY <1>4, <1>5, <1>7, <1>8

(* The words that a call of a multi-method reads for each argument.        *)
LEMMA WordsOfMulti ==
  ASSUME CallInv, stage = "ready", Classes!Orderly, NEW m \in Method, NEW t \in Calls(m),
         Adjacent(m), Arity(m) # 1
  PROVE  /\ Read(vptrs[Arguments(m, t)[First(m) + 0]] + slots_strides[m][0 + 1], "pw")
              = gv_dispatch_table[m] + GroupIn(m, 1, t[1])
         /\ \A k \in 1 .. Arity(m) - 1 :
              Read(vptrs[Arguments(m, t)[First(m) + k]] + slots_strides[m][k + 1], "i")
                = GroupIn(m, k + 1, t[k + 1])
  <1>1. PICK a \in Nat \ {0} : a = Arity(m)
    BY ReadyFacts
  <1>2. ASSUME NEW k \in 0 .. a - 1, NEW kind, NEW value,
               Word(Entry(m, Groups(m), k + 1, t[k + 1])) = <<kind, value>>
        PROVE  Read(vptrs[Arguments(m, t)[First(m) + k]] + slots_strides[m][k + 1], kind) = value
    <2>1. /\ Arguments(m, t)[First(m) + k] = t[k + 1]
          /\ slots_strides[m][k + 1] = slots[<<m, k + 1>>]
          /\ vptrs[t[k + 1]] + slots[<<m, k + 1>>] + 1 \in DOMAIN dispatch_data
          /\ dispatch_data[vptrs[t[k + 1]] + slots[<<m, k + 1>>] + 1]
               = Word(Entry(m, Groups(m), k + 1, t[k + 1]))
      BY <1>1, ArgumentsRead
    <2>2. PICK i : i = vptrs[t[k + 1]] + slots[<<m, k + 1>>]
      OBVIOUS
    <2>3. i + 1 \in DOMAIN dispatch_data /\ dispatch_data[i + 1] = <<kind, value>>
      BY <1>2, <2>1, <2>2
    <2> QED BY <2>1, <2>2, <2>3 DEF Read
  <1>3. Word(Entry(m, Groups(m), 1, t[1])) = <<"pw", gv_dispatch_table[m] + GroupIn(m, 1, t[1])>>
    <2>1. PICK e : e = Entry(m, Groups(m), 1, t[1])
      OBVIOUS
    <2>2. e.method_index = m /\ e.vp_index = 1 /\ e.group_index = GroupIn(m, 1, t[1])
      BY <2>1 DEF Entry, GroupIn
    <2>3. Word(e) = <<"pw", gv_dispatch_table[m] + GroupIn(m, 1, t[1])>>
      BY <2>2 DEF Word
    <2> QED BY <2>1, <2>3
  <1>4. ASSUME NEW d \in 2 .. a
        PROVE  Word(Entry(m, Groups(m), d, t[d])) = <<"i", GroupIn(m, d, t[d])>>
    <2>1. PICK e : e = Entry(m, Groups(m), d, t[d])
      OBVIOUS
    <2>2. e.method_index = m /\ e.vp_index # 1 /\ e.group_index = GroupIn(m, d, t[d])
      BY <2>1 DEF Entry, GroupIn
    <2>3. Word(e) = <<"i", GroupIn(m, d, t[d])>>
      BY <2>2 DEF Word
    <2> QED BY <2>1, <2>3
  <1>5. Read(vptrs[Arguments(m, t)[First(m) + 0]] + slots_strides[m][0 + 1], "pw")
          = gv_dispatch_table[m] + GroupIn(m, 1, t[1])
    <2>1. 0 \in 0 .. a - 1 /\ 0 + 1 = 1
      OBVIOUS
    <2>2. PICK value : value = gv_dispatch_table[m] + GroupIn(m, 1, t[1])
      OBVIOUS
    <2>3. Word(Entry(m, Groups(m), 0 + 1, t[0 + 1])) = <<"pw", value>>
      BY <1>3, <2>1, <2>2
    <2>4. Read(vptrs[Arguments(m, t)[First(m) + 0]] + slots_strides[m][0 + 1], "pw") = value
      BY <1>2, <2>1, <2>3
    <2> QED BY <2>2, <2>4
  <1>6. ASSUME NEW k \in 1 .. a - 1
        PROVE  Read(vptrs[Arguments(m, t)[First(m) + k]] + slots_strides[m][k + 1], "i")
                 = GroupIn(m, k + 1, t[k + 1])
    <2>1. k \in 0 .. a - 1 /\ k + 1 \in 2 .. a
      OBVIOUS
    <2>2. PICK value : value = GroupIn(m, k + 1, t[k + 1])
      OBVIOUS
    <2>3. Word(Entry(m, Groups(m), k + 1, t[k + 1])) = <<"i", value>>
      BY <1>4, <2>1, <2>2
    <2>4. Read(vptrs[Arguments(m, t)[First(m) + k]] + slots_strides[m][k + 1], "i") = value
      BY <1>2, <2>1, <2>3
    <2> QED BY <2>2, <2>4
  <1> QED BY <1>1, <1>5, <1>6

LEMMA MultiRuns ==
  ASSUME CallInv, stage = "ready", Classes!Orderly, NEW m \in Method, NEW t \in Calls(m),
         Adjacent(m), Arity(m) # 1, NEW f, IsPath(m, t, f),
         f[Arity(m)] \in 0 .. Tables(m, Groups(m))!Cells - 1
  PROVE  Run(m, t) = <<m, Tables(m, Groups(m))!OverriderOfCell(f[Arity(m)])>>
  <1> DEFINE Index(k)  == vptrs[Arguments(m, t)[First(m) + k]] + slots_strides[m][k + 1]
             Stride(k) == slots_strides[m][Arity(m) + k]
             first     == Read(Index(0), "pw")
             Group(k)  == Read(Index(k), "i")
             Loop(d)   == [k \in 0 .. Arity(m) - 1 |->
                             IF k = 0 THEN first
                             ELSE IF k \in Looked(m) THEN d[k - 1] + Group(k) * Stride(k)
                             ELSE d[k - 1]]
             D         == CHOOSE d : d = Loop(d)
  <1>1. Run(m, t) = IF first = Garbage \/ \E k \in Looked(m) : Group(k) = Garbage THEN Garbage
                    ELSE Read(D[Arity(m) - 1], "pf")
    BY DEF Run, resolve, resolve_multi
  <1>2. PICK a \in Nat \ {0} : a = Arity(m)
    BY ReadyFacts
  <1>3. TablesInv /\ TablesWork(m) /\ MethodData(m) /\ Room
    BY ReadyFacts
  <1>4. Looked(m) = 1 .. a - 1 /\ \A k \in 1 .. a - 1 : Stride(k) = StrideOf(m, k + 1)
    BY <1>2, ArgumentsRead
  <1>5. \A k \in 1 .. a : GroupIn(m, k, t[k]) \in Nat /\ StrideOf(m, k) \in Nat
    <2>1. \A k \in 1 .. a : t[k] \in Passable(m, k)
      <3>1. Calls(m) = {w \in [1 .. Arity(m) -> Class] :
                          \A i \in 1 .. Arity(m) : w[i] \in Passable(m, i)}
        BY CallsAre
      <3> QED BY <1>2, <3>1
    <2> QED BY <1>2, <1>3, <2>1 DEF TablesWork, GroupIn, StrideOf, Passable
  <1>6. PICK v \in Nat : v = gv_dispatch_table[m]
    BY <1>3 DEF MethodData, Holds
  <1>7. /\ first = v + GroupIn(m, 1, t[1])
        /\ \A k \in 1 .. a - 1 : Group(k) = GroupIn(m, k + 1, t[k + 1])
    BY <1>2, <1>6, WordsOfMulti
  <1> HIDE DEF Index, Stride, first, Group
  <1>8. /\ f \in [0 .. a -> Nat] /\ f[0] = 0
        /\ \A k \in 1 .. a : f[k] = f[k - 1] + GroupIn(m, k, t[k]) * StrideOf(m, k)
    BY <1>2 DEF IsPath, GroupIn, StrideOf
  <1>9. f[1] = GroupIn(m, 1, t[1])
    <2>1. 1 \in 1 .. a /\ 1 - 1 = 0
      OBVIOUS
    <2>2. StrideOf(m, 1) = 1
      BY <1>3 DEF TablesWork, StrideOf
    <2>3. PICK g \in Nat : g = GroupIn(m, 1, t[1])
      BY <1>5, <2>1
    <2>4. f[1] = 0 + g * 1
      BY <1>8, <2>1, <2>2, <2>3
    <2> QED BY <2>3, <2>4
  <1>10. ~ (first = Garbage \/ \E k \in Looked(m) : Group(k) = Garbage)
    <2>1. \A k \in 1 .. a - 1 : k + 1 \in 1 .. a
      OBVIOUS
    <2>2. \A k \in 1 .. a - 1 : Group(k) \in Nat
      BY <1>5, <1>7, <2>1
    <2>3. first \in Nat
      <3>1. GroupIn(m, 1, t[1]) \in Nat
        BY <1>5
      <3> QED BY <1>7, <3>1
    <2> QED BY <1>4, <2>2, <2>3, PointersAssumption
  <1> DEFINE E == [k \in 0 .. a - 1 |-> v + f[k + 1]]
  <1>11. /\ E[0] = first
         /\ \A k \in 1 .. a - 1 : E[k] = E[k - 1] + Group(k) * Stride(k)
    <2>1. E[0] = first
      <3>1. 0 \in 0 .. a - 1 /\ 0 + 1 = 1
        OBVIOUS
      <3> QED BY <1>7, <1>9, <3>1
    <2>2. ASSUME NEW k \in 1 .. a - 1 PROVE E[k] = E[k - 1] + Group(k) * Stride(k)
      <3>1. k \in 0 .. a - 1 /\ k - 1 \in 0 .. a - 1 /\ k + 1 \in 1 .. a /\ (k + 1) - 1 = k
            /\ (k - 1) + 1 = k /\ k \in 0 .. a
        OBVIOUS
      <3>2. PICK g \in Nat, s \in Nat, n \in Nat :
              g = GroupIn(m, k + 1, t[k + 1]) /\ s = StrideOf(m, k + 1) /\ n = f[k]
        BY <1>5, <1>8, <3>1
      <3>3. f[k + 1] = n + g * s
        BY <1>8, <3>1, <3>2
      <3>4. E[k] = v + (n + g * s) /\ E[k - 1] = v + n
        BY <3>1, <3>2, <3>3
      <3>5. Group(k) = g /\ Stride(k) = s
        BY <1>4, <1>7, <3>2
      <3>6. g * s \in Nat
        OBVIOUS
      <3>7. v + (n + g * s) = (v + n) + g * s
        BY <3>6
      <3> QED BY <3>4, <3>5, <3>7
    <2> QED BY <2>1, <2>2
  <1>12. Loop(E) = E
    <2>1. ASSUME NEW k \in 0 .. a - 1, k # 0 PROVE k \in 1 .. a - 1
      BY <2>1
    <2>2. E = [k \in 0 .. a - 1 |-> E[k]]
      OBVIOUS
    <2> HIDE DEF E
    <2>3. \A k \in 0 .. a - 1 :
            E[k] = IF k = 0 THEN first
                   ELSE IF k \in Looked(m) THEN E[k - 1] + Group(k) * Stride(k) ELSE E[k - 1]
      BY <1>4, <1>11, <2>1
    <2> QED BY <1>2, <2>2, <2>3
  <1>13. D = Loop(D)
    <2>1. \E d : d = Loop(d)
      BY <1>12
    <2> HIDE DEF Loop
    <2> QED BY <2>1
  <1>14. E[a - 1] = v + f[a]
    BY <1>8
  <1> HIDE DEF D, E
  <1>15. D[0] = first /\ \A k \in 1 .. a - 1 : D[k] = D[k - 1] + Group(k) * Stride(k)
    <2>1. \A k \in 1 .. a - 1 : k \in 0 .. a - 1 /\ k # 0
      OBVIOUS
    <2>2. 0 \in 0 .. a - 1
      OBVIOUS
    <2>3. \A k \in 0 .. a - 1 :
            D[k] = IF k = 0 THEN first
                   ELSE IF k \in Looked(m) THEN D[k - 1] + Group(k) * Stride(k) ELSE D[k - 1]
      BY <1>2, <1>13
    <2> QED BY <1>4, <2>1, <2>2, <2>3
  <1>16. D[a - 1] = E[a - 1]
    <2> DEFINE R == {k \in 0 .. a - 1 : D[k] = E[k]}
    <2>1. 0 \in R
      BY <1>11, <1>15
    <2>2. ASSUME NEW k \in 1 .. a - 1, k - 1 \in R PROVE k \in R
      BY <1>11, <1>15, <2>2
    <2>3. a - 1 \in Nat
      OBVIOUS
    <2> HIDE DEF R
    <2>4. 0 .. a - 1 \subseteq R
      BY <2>1, <2>2, <2>3, InductionTo
    <2> QED BY <2>3, <2>4 DEF R
  <1>17. Run(m, t) = Read(v + f[a], "pf")
    BY <1>1, <1>2, <1>10, <1>14, <1>16
  <1>18. PICK n \in Nat : n = f[a]
    BY <1>8
  <1>19. /\ v + n + 1 \in DOMAIN dispatch_data
         /\ dispatch_data[v + n + 1] = <<"pf", <<m, Tables(m, Groups(m))!OverriderOfCell(n)>>>>
    <2>1. PICK size \in Nat, it \in Nat, cells \in Nat :
            /\ size = DataSize /\ it = gv_iter /\ it <= size /\ DOMAIN dispatch_data = 1 .. size
            /\ cells = Tables(m, Groups(m))!Cells
      BY <1>3 DEF Room, TablesWork
    <2>2. n \in 0 .. cells - 1
      BY <1>2, <1>18, <2>1
    <2>3. PICK words : words = MethodWords(m)
      OBVIOUS
    <2>4. /\ DOMAIN dispatch_tables[m] = 1 .. cells
          /\ \A i \in DOMAIN dispatch_tables[m] :
               dispatch_tables[m][i] = Tables(m, Groups(m))!OverriderOfCell(i - 1)
      BY <1>3, <2>1, TableIs
    <2>5. n + 1 \in 1 .. cells /\ (n + 1) - 1 = n
      BY <2>2
    <2>6. /\ Len(words) = cells
          /\ words[n + 1] = <<"pf", <<m, Tables(m, Groups(m))!OverriderOfCell(n)>>>>
      <3>1. words = [i \in 1 .. cells |-> <<"pf", <<m, dispatch_tables[m][i]>>>>]
        BY <2>3, <2>4 DEF MethodWords
      <3>2. dispatch_tables[m][n + 1] = Tables(m, Groups(m))!OverriderOfCell(n)
        BY <2>4, <2>5
      <3> QED BY <2>5, <3>1, <3>2
    <2>7. Holds(v, words)
      BY <1>3, <1>6, <2>3 DEF MethodData
    <2>8. dispatch_data[v + (n + 1)] = words[n + 1] /\ v + cells <= it
      BY <2>1, <2>5, <2>6, <2>7 DEF Holds
    <2>9. v + n + 1 \in 1 .. size /\ v + (n + 1) = v + n + 1
      BY <2>1, <2>2, <2>8
    <2> QED BY <2>1, <2>6, <2>8, <2>9
  <1>20. Read(v + n, "pf") = <<m, Tables(m, Groups(m))!OverriderOfCell(n)>>
    <2>1. PICK i : i = v + n
      OBVIOUS
    <2>2. /\ i + 1 \in DOMAIN dispatch_data
          /\ dispatch_data[i + 1] = <<"pf", <<m, Tables(m, Groups(m))!OverriderOfCell(n)>>>>
      BY <1>19, <2>1
    <2> QED BY <2>1, <2>2 DEF Read
  <1> QED BY <1>2, <1>17, <1>18, <1>20

-----------------------------------------------------------------------------
LEMMA CallsRun == CallInv => CallsRunDocumentedIfAdjacent
  <1> SUFFICES ASSUME CallInv, stage = "ready", Classes!Orderly, NEW m \in Method, Adjacent(m),
                      NEW t \in Calls(m),
                      Tables(m, <<>>)!DominanceTransitive(Tables(m, <<>>)!Applicable(t))
               PROVE  {Run(m, t)} = Documented(m, t)
    BY DEF CallsRunDocumentedIfAdjacent, RunsDocumented
  <1>1. TablesWork(m)
    BY ReadyFacts
  <1>2. PICK f : IsPath(m, t, f) /\ CellWorks(m, t, f[Arity(m)])
    BY <1>1 DEF TablesWork
  <1>3. PICK n : n = f[Arity(m)]
    OBVIOUS
  <1>4. /\ n \in 0 .. Tables(m, Groups(m))!Cells - 1
        /\ {Tables(m, Groups(m))!OverriderOfCell(n)}
             = Tables(m, <<>>)!BestOf(Tables(m, <<>>)!Applicable(t))
    BY <1>2, <1>3 DEF CellWorks
  <1>5. Run(m, t) = <<m, Tables(m, Groups(m))!OverriderOfCell(n)>>
    <2>1. CASE Arity(m) = 1
      BY <1>2, <1>3, <1>4, <2>1, UniRuns
    <2>2. CASE Arity(m) # 1
      BY <1>2, <1>3, <1>4, <2>2, MultiRuns
    <2> QED BY <2>1, <2>2
  <1>6. PICK s : s = Tables(m, Groups(m))!OverriderOfCell(n)
    OBVIOUS
  <1>7. Documented(m, t) = {<<m, x>> : x \in {s}}
    BY <1>4, <1>6 DEF Documented
  <1>8. Run(m, t) = <<m, s>>
    BY <1>5, <1>6
  <1> QED BY <1>7, <1>8

-----------------------------------------------------------------------------
(* Why compile leaves them.                                                *)

SP == INSTANCE SlotAllocationProofs WITH pc <- slot_pc, Lattices <- {}

-----------------------------------------------------------------------------
(* The pass that assigns slots, proved about in SlotAllocationProofs.      *)

LEMMA SameLattices ==
  /\ SP!Start <=> Slots!Start
  /\ \A l : SP!IsLattice(l) <=> Slots!IsLattice(l)
  /\ \A l : SP!WellFormed(l) <=> Slots!WellFormed(l)
  <1>1. SP!Start <=> Slots!Start
    BY DEF SP!Start, Slots!Start
  <1>2. \A l : SP!IsLattice(l) <=> Slots!IsLattice(l)
    BY DEF SP!IsLattice, Slots!IsLattice, SP!ToSet, Slots!ToSet, SP!IsInjective, Slots!IsInjective
  <1>3. \A l : SP!WellFormed(l) <=> Slots!WellFormed(l)
    BY <1>2 DEF SP!WellFormed, Slots!WellFormed, SP!IsClosed, Slots!IsClosed, SP!TreesApart,
      Slots!TreesApart, SP!TreeRoot, Slots!TreeRoot, SP!Root, Slots!Root, SP!Cardinality,
      Slots!Cardinality, SP!AllReached, Slots!AllReached, SP!ToSet, Slots!ToSet
  <1> QED BY <1>1, <1>2, <1>3

LEMMA SameSteps == SP!Next <=> Slots!Next
  <1>1. SP!NextRoot <=> Slots!NextRoot
    BY DEF SP!NextRoot, Slots!NextRoot, SP!Root, Slots!Root, SP!TreeRoot, Slots!TreeRoot, SP!Cardinality, Slots!Cardinality, SP!classes, Slots!classes
  <1>2. SP!RootDone <=> Slots!RootDone
    BY DEF SP!RootDone, Slots!RootDone
  <1>3. SP!RootsDone <=> Slots!RootsDone
    BY DEF SP!RootsDone, Slots!RootsDone, SP!classes, Slots!classes
  <1>4. SP!EnterTree <=> Slots!EnterTree
    BY DEF SP!EnterTree, Slots!EnterTree, SP!used_by_vp, Slots!used_by_vp
  <1>5. SP!AssignTreeSlot <=> Slots!AssignTreeSlot
    BY DEF SP!AssignTreeSlot, Slots!AssignTreeSlot
  <1>6. SP!LeaveTree <=> Slots!LeaveTree
    BY DEF SP!LeaveTree, Slots!LeaveTree, SP!Calls, Slots!Calls, SP!direct_derived, Slots!direct_derived
  <1>7. SP!EnterLattice <=> Slots!EnterLattice
    BY DEF SP!EnterLattice, Slots!EnterLattice, SP!Visited, Slots!Visited, SP!used_by_vp, Slots!used_by_vp
  <1>8. SP!AssignLatticeSlot <=> Slots!AssignLatticeSlot
    BY DEF SP!AssignLatticeSlot, Slots!AssignLatticeSlot, SP!Size, Slots!Size, SP!Max, Slots!Max, SP!UsedWith, Slots!UsedWith, SP!ReservedWith, Slots!ReservedWith, SP!ProperDerived, Slots!ProperDerived, SP!transitive_derived, Slots!transitive_derived, SP!transitive_bases, Slots!transitive_bases
  <1>9. SP!LeaveLattice <=> Slots!LeaveLattice
    BY DEF SP!LeaveLattice, Slots!LeaveLattice, SP!Calls, Slots!Calls, SP!direct_derived, Slots!direct_derived
  <1>10. SP!AllocateVtbl <=> Slots!AllocateVtbl
    BY DEF SP!AllocateVtbl, Slots!AllocateVtbl, SP!VtblSize, Slots!VtblSize, SP!Size, Slots!Size, SP!Max, Slots!Max, SP!Min, Slots!Min, SP!classes, Slots!classes
  <1>11. SP!SlotsDone <=> Slots!SlotsDone
    BY DEF SP!SlotsDone, Slots!SlotsDone, SP!classes, Slots!classes
  <1> QED BY <1>1, <1>2, <1>3, <1>4, <1>5, <1>6, <1>7, <1>8, <1>9, <1>10, <1>11 DEF SP!Next, Slots!Next

SlotsInv ==
  /\ pass \notin {"slots", "done"} => Slots!Start
  /\ pass = "done" => slot_pc = "done"
  /\ pass \in {"slots", "done"} => SP!Typed
  /\ pass \in {"slots", "done"} /\ Classes!Orderly => SP!PassInv

LEMMA SlotsInit == Init => SlotsInv
  BY DEF Init, SlotsInv

LEMMA SlotsStarted ==
  CompilerInv /\ pass = "slots" /\ Slots!Start => SP!Typed /\ (Classes!Orderly => SP!PassInv)
  <1> SUFFICES ASSUME CompilerInv, pass = "slots", Slots!Start
               PROVE  SP!Typed /\ (Classes!Orderly => SP!PassInv)
    OBVIOUS
  <1>1. ClassInv /\ class_pc = "done" /\ AllKnown /\ lattice = Handover
    BY AfterTheMethods
  <1>2. SP!IsLattice(lattice) /\ SP!Start
    BY <1>1, HandoverIsLattice, SameLattices
  <1>3. SP!Typed
    BY <1>2, NoClassAssumption, UnassignedAssumption, SP!TypedStart
  <1>4. ASSUME Classes!Orderly PROVE SP!PassInv
    <2>1. SP!WellFormed(lattice)
      BY <1>1, <1>4, HandoverIsWellFormed, SameLattices
    <2> QED BY <1>2, <2>1, NoClassAssumption, UnassignedAssumption, SP!PassStart
  <1> QED BY <1>3, <1>4

LEMMA SlotsStep == CompilerInv /\ SlotsInv /\ [Next]_vars => SlotsInv'
  <1> SUFFICES ASSUME CompilerInv, SlotsInv, [Next]_vars PROVE SlotsInv'
    OBVIOUS
  <1>1. CASE AugmentClasses \/ AugmentMethod \/ UnknownClass
    <2>1. pass \notin {"slots", "done"} /\ pass' \notin {"slots", "done"} /\ UNCHANGED workVars
      BY <1>1 DEF AugmentClasses, AugmentMethod, UnknownClass
    <2>2. Slots!Start'
      BY <2>1 DEF SlotsInv, workVars, Slots!Start
    <2> QED BY <2>1, <2>2 DEF SlotsInv
  <1>2. CASE LinkParameters
    <2>1. pass = "methods" /\ pass' = "slots" /\ UNCHANGED workVars
      BY <1>2 DEF LinkParameters
    <2>2. Slots!Start'
      BY <2>1 DEF SlotsInv, workVars, Slots!Start
    <2>3. CompilerInv'
      BY CompilerStep
    <2>4. (CompilerInv /\ pass = "slots" /\ Slots!Start
             => SP!Typed /\ (Classes!Orderly => SP!PassInv))'
      BY SlotsStarted, PTL
    <2> QED BY <2>1, <2>2, <2>3, <2>4 DEF SlotsInv
  <1>3. CASE AssignSlots
    <2>1. pass = "slots" /\ SP!Next /\ UNCHANGED classVars
          /\ pass' = IF slot_pc' = "done" THEN "done" ELSE pass
      BY <1>3, SameSteps DEF AssignSlots
    <2>2. SP!Typed'
      BY <2>1, NoClassAssumption, UnassignedAssumption, SP!TypedStep DEF SlotsInv
    <2>3. ASSUME Classes!Orderly' PROVE SP!PassInv'
      <3>1. SP!PassInv
        BY <2>1, <2>3, OrderlyKept DEF SlotsInv
      <3> QED BY <2>1, <3>1, NoClassAssumption, UnassignedAssumption, SP!PassStep
    <2> QED BY <2>1, <2>2, <2>3 DEF SlotsInv
  <1>4. CASE UNCHANGED vars
    <2>1. UNCHANGED workVars /\ UNCHANGED classVars /\ pass' = pass /\ lattice' = lattice
      BY <1>4 DEF vars
    <2>2. Slots!Start' <=> Slots!Start
      BY <2>1 DEF workVars, Slots!Start
    <2>3. UNCHANGED SP!vars
      BY <2>1 DEF workVars, SP!vars
    <2>4. SP!Typed => SP!Typed'
      BY <2>3, NoClassAssumption, UnassignedAssumption, SP!TypedStep
    <2>5. SP!PassInv => SP!PassInv'
      BY <2>3, NoClassAssumption, UnassignedAssumption, SP!PassStep
    <2>6. slot_pc' = slot_pc
      BY <2>1 DEF workVars
    <2> QED BY <2>1, <2>2, <2>4, <2>5, <2>6, OrderlyKept DEF SlotsInv
  <1> QED BY <1>1, <1>2, <1>3, <1>4 DEF Next

-----------------------------------------------------------------------------
(* The tables of a method, proved about in DispatchTablesProofs: what all  *)
(* the methods have is proved of one that would not have it.               *)

Input(m) ==
  [transitive_derived |-> transitive_derived,
   abstract |-> {c \in Class : is_abstract[c]},
   vp |-> methods[m].vp, specs |-> methods[m].specs,
   n2216 |-> FALSE, returns |-> <<>>]

BadMethod == CHOOSE m \in Method : ~ TablesWork(m)

GroupIndexesOf(m) ==
  [d \in 1 .. Arity(m) |->
     [c \in transitive_derived[methods[m].vp[d]] |-> Entry(m, Groups(m), d, c).group_index]]

TD == INSTANCE DispatchTablesProofs WITH
        Methods <- {}, crash <- Garbage, method <- Input(BadMethod), groups <- Groups(BadMethod),
        entries <- GroupIndexesOf(BadMethod), pc <- "done", dim <- 1, dispatch_table <- <<>>,
        next <- <<>>, report <- <<>>

LEMMA SameGroups ==
  ASSUME NEW g, NEW d
  PROVE  Tables(BadMethod, g)!MakeGroups(d) = TD!MakeGroups(d)
  BY DEF Tables!MakeGroups, TD!MakeGroups, Tables!Group, TD!Group, Tables!GroupIndex, TD!GroupIndex,
    Tables!MaskLess, TD!MaskLess, Tables!Max, TD!Max, Tables!Cardinality, TD!Cardinality, Input,
    Tables!Mask, TD!Mask, Tables!Covariant, TD!Covariant, Tables!Overrider, TD!Overrider,
    Tables!Masks, TD!Masks, Tables!GroupedClasses, TD!GroupedClasses

LEMMA SameGrid ==
  /\ TD!arity = Arity(BadMethod)
  /\ Tables(BadMethod, Groups(BadMethod))!Cells = TD!Cells
  /\ \A d : Tables(BadMethod, Groups(BadMethod))!Stride(d) = TD!Stride(d)
  <1>1. TD!arity = Arity(BadMethod)
    BY DEF TD!arity, Arity, Input
  <1>2. Tables(BadMethod, Groups(BadMethod))!Cells = TD!Cells
    BY DEF Tables!Cells, TD!Cells, Tables!CellsUpTo, TD!CellsUpTo, Tables!Extent, TD!Extent,
      Tables!arity, TD!arity, Input
  <1>3. \A d : Tables(BadMethod, Groups(BadMethod))!Stride(d) = TD!Stride(d)
    BY DEF Tables!Stride, TD!Stride, Tables!CellsUpTo, TD!CellsUpTo, Tables!Extent, TD!Extent,
      Tables!arity, TD!arity, Input
  <1> QED BY <1>1, <1>2, <1>3

LEMMA SameDominants ==
  ASSUME NEW g, NEW S
  PROVE  Tables(BadMethod, g)!Dominants(S) = TD!Dominants(S)
  <1>1. ASSUME NEW c PROVE Tables(BadMethod, g)!Sift(c) = TD!Sift(c)
    BY DEF Input, Tables!Sift, TD!Sift, Tables!CompareWithNext, TD!CompareWithNext,
      Tables!Compare, TD!Compare, Tables!is_more_specific, TD!is_more_specific, Tables!arity,
      TD!arity, Tables!Derives, TD!Derives, Tables!Covariant, TD!Covariant
  <1>2. Tables(BadMethod, g)!Candidates(S) = TD!Candidates(S)
    BY DEF Input, Tables!Candidates, TD!Candidates, Tables!Overrider, TD!Overrider
  <1>3. Tables(BadMethod, g)!Dominants(S) = Tables(BadMethod, g)!Sift(Tables(BadMethod, g)!Candidates(S))
    BY DEF Tables!Dominants, Tables!select_dominant_overriders
  <1>4. TD!Dominants(S) = TD!Sift(TD!Candidates(S))
    BY DEF Input, TD!Dominants, TD!select_dominant_overriders
  <1> QED BY <1>1, <1>2, <1>3, <1>4

LEMMA SameSelected ==
  ASSUME NEW g, NEW D
  PROVE  Tables(BadMethod, g)!Selected(D) = TD!Selected(D) /\ Tables(BadMethod, g)!Remaining(D) = TD!Remaining(D)
  BY DEF Tables!Selected, TD!Selected, Tables!Remaining, TD!Remaining, Tables!Range, TD!Range,
    Tables!Cardinality, TD!Cardinality, Tables!Picked, TD!Picked, Tables!Max, TD!Max, Input

LEMMA SameMasks ==
  ASSUME NEW n
  PROVE  Tables(BadMethod, Groups(BadMethod))!MaskOfCell(n) = TD!MaskOfCell(n)
  BY SameGrid DEF Tables!MaskOfCell, TD!MaskOfCell, Tables!GroupOfCell, TD!GroupOfCell, Tables!Overrider, TD!Overrider,
   Tables!Extent, TD!Extent, Tables!arity, TD!arity, Input

LEMMA SameRules ==
  /\ Calls(BadMethod) = TD!Calls
  /\ \A t : Tables(BadMethod, <<>>)!Applicable(t) = TD!Applicable(t)
  /\ \A S : Tables(BadMethod, <<>>)!BestOf(S) = TD!BestOf(S)
  /\ \A S : Tables(BadMethod, <<>>)!DominanceTransitive(S) <=> TD!DominanceTransitive(S)
  <1>1. Calls(BadMethod) = TD!Calls
    BY DEF Calls, Tables!Calls, TD!Calls, Tables!arity, TD!arity, Tables!Covariant, TD!Covariant, Input
  <1>2. \A t : Tables(BadMethod, <<>>)!Applicable(t) = TD!Applicable(t)
    BY DEF Tables!Applicable, TD!Applicable, Tables!arity, TD!arity, Tables!Covariant, TD!Covariant, Input,
      Tables!Overrider, TD!Overrider
  <1>3. \A S : Tables(BadMethod, <<>>)!BestOf(S) = TD!BestOf(S)
    BY DEF Tables!BestOf, TD!BestOf, Tables!Dominates, TD!Dominates, Tables!Derives, TD!Derives,
     Tables!arity, TD!arity, Tables!Covariant, TD!Covariant, Input, Tables!Cardinality, TD!Cardinality
  <1>4. \A S : Tables(BadMethod, <<>>)!DominanceTransitive(S) <=> TD!DominanceTransitive(S)
    BY DEF Tables!DominanceTransitive, TD!DominanceTransitive, Tables!Dominates, TD!Dominates, Tables!Derives, TD!Derives,
     Tables!arity, TD!arity, Tables!Covariant, TD!Covariant, Input
  <1> QED BY <1>1, <1>2, <1>3, <1>4

LEMMA SameCells ==
  ASSUME NEW n
  PROVE  /\ Tables(BadMethod, Groups(BadMethod))!OverriderOfCell(n) = TD!OverriderOfCell(n)
         /\ Tables(BadMethod, Groups(BadMethod))!NextOf(Tables(BadMethod, Groups(BadMethod))!MaskOfCell(n))
              = TD!NextOf(TD!MaskOfCell(n))
  <1>1. Tables(BadMethod, Groups(BadMethod))!OverriderOfCell(n) = TD!OverriderOfCell(n)
    BY SameMasks, SameDominants, SameSelected DEF Tables!OverriderOfCell, TD!OverriderOfCell
  <1>2. Tables(BadMethod, Groups(BadMethod))!NextOf(Tables(BadMethod, Groups(BadMethod))!MaskOfCell(n))
              = TD!NextOf(TD!MaskOfCell(n))
    BY SameMasks, SameDominants, SameSelected DEF Tables!NextOf, TD!NextOf
  <1> QED BY <1>1, <1>2

LEMMA InputIsMethod ==
  ASSUME ClassInv, class_pc = "done", AllKnown
  PROVE  \A m \in Method : TD!IsMethod(Input(m))
  <1>1. /\ PlaceInv /\ ToSet(classes) = Known /\ Known \subseteq Class
        /\ transitive_derived \in [Class -> SUBSET Class]
        /\ \A c \in Class \ Known : transitive_derived[c] = {}
        /\ \A c \in Known : c \in transitive_derived[c]
    BY EndFacts, KnownFacts
  <1>2. \A c \in Known : \A d \in transitive_derived[c] :
          /\ d \in Known /\ (d = c \/ c \in KnownBases(d))
          /\ transitive_derived[d] \subseteq transitive_derived[c]
    BY DerivedIsSound
  <1>3. /\ \A c \in Class : c \notin KnownBases(c)
        /\ \A c \in Class : \A b \in KnownBases(c) : KnownBases(b) \subseteq KnownBases(c)
    BY <1>1, KnownFacts
  <1> DEFINE Registered == {c \in Class : c \in transitive_derived[c]}
  <1>4. Registered = Known
    BY <1>1
  <1>5. transitive_derived \in [Class -> SUBSET Known]
    <2>1. \A c \in Class : transitive_derived[c] \subseteq Known
      BY <1>1, <1>2
    <2> QED BY <1>1, <2>1
  <1>6. \A c \in Class : \A d \in transitive_derived[c] :
            /\ transitive_derived[d] \subseteq transitive_derived[c]
            /\ (c \in transitive_derived[d] => c = d)
    <2> SUFFICES ASSUME NEW c \in Class, NEW d \in transitive_derived[c]
                 PROVE  /\ transitive_derived[d] \subseteq transitive_derived[c]
                        /\ (c \in transitive_derived[d] => c = d)
      OBVIOUS
    <2>1. c \in Known
      BY <1>1
    <2>2. d \in Known /\ transitive_derived[d] \subseteq transitive_derived[c]
      BY <1>2, <2>1
    <2>3. ASSUME c \in transitive_derived[d], c # d PROVE FALSE
      <3>1. c \in KnownBases(d) /\ d \in KnownBases(c)
        BY <1>2, <2>1, <2>2, <2>3
      <3>2. c \in Class /\ d \in Class
        BY <1>1, <2>1, <2>2
      <3> QED BY <1>3, <3>1, <3>2
    <2> QED BY <2>2, <2>3
  <1> SUFFICES ASSUME NEW m \in Method PROVE TD!IsMethod(Input(m))
    OBVIOUS
  <1>7. /\ Method = 1 .. Len(methods)
        /\ methods[m].vp \in Seq(Class) /\ methods[m].specs \in Seq(Seq(Class))
    BY <1>1, MethodFacts DEF Method
  <1>8. ClassesOf(methods[m]) \subseteq Known
    BY <1>1, <1>7 DEF AllKnown
  <1>9. HasMethods(program) /\ HasParameters(program)
    BY <1>1, ProgramsAssumption, ParametersAssumption DEF PlaceInv
  <1>10. methods[m].vp # <<>>
    BY <1>9 DEF HasParameters, methods, Method
  <1>11. \A s \in ToSet(methods[m].specs) : DOMAIN s = DOMAIN methods[m].vp
    BY <1>9 DEF HasMethods, methods, Method
  <1>12. \A s \in DOMAIN methods[m].specs : methods[m].specs[s] \in ToSet(methods[m].specs)
    BY DEF ToSet
  <1>13. methods[m].vp \in Seq(Known)
    <2> DEFINE vp == methods[m].vp
    <2>1. \A i \in DOMAIN vp : vp[i] \in ToSet(vp)
      BY DEF ToSet
    <2>2. ToSet(vp) \subseteq Known
      BY <1>8 DEF ClassesOf
    <2>3. vp \in Seq(Class)
      BY <1>7
    <2> HIDE DEF vp
    <2>4. Len(vp) \in Nat /\ DOMAIN vp = 1 .. Len(vp) /\ vp = [i \in 1 .. Len(vp) |-> vp[i]]
      BY <2>3
    <2>5. \A i \in 1 .. Len(vp) : vp[i] \in Known
      BY <2>1, <2>2, <2>4
    <2>6. vp \in Seq(Known)
      BY <2>4, <2>5
    <2> QED BY <2>6 DEF vp
  <1>14. methods[m].specs \in Seq(Seq(Known))
    <2> DEFINE ss == methods[m].specs
    <2>1. \A s \in ToSet(ss) : ToSet(s) \subseteq Known
      BY <1>8 DEF ClassesOf
    <2>2. ss \in Seq(Seq(Class))
      BY <1>7
    <2>3. \A j \in DOMAIN ss : ss[j] \in ToSet(ss)
      BY <1>12
    <2> HIDE DEF ss
    <2>4. Len(ss) \in Nat /\ DOMAIN ss = 1 .. Len(ss) /\ ss = [i \in 1 .. Len(ss) |-> ss[i]]
      BY <2>2
    <2>5. ASSUME NEW j \in 1 .. Len(ss) PROVE ss[j] \in Seq(Known)
      <3> DEFINE s == ss[j]
      <3>1. s \in Seq(Class)
        BY <2>2, <2>4
      <3>2. ToSet(s) \subseteq Known
        BY <2>1, <2>3, <2>4
      <3> HIDE DEF s
      <3>3. Len(s) \in Nat /\ DOMAIN s = 1 .. Len(s) /\ s = [i \in 1 .. Len(s) |-> s[i]]
        BY <3>1
      <3>4. \A i \in 1 .. Len(s) : s[i] \in Known
        BY <3>2, <3>3 DEF ToSet
      <3>5. s \in Seq(Known)
        BY <3>3, <3>4
      <3> QED BY <3>5 DEF s
    <2>6. ss \in Seq(Seq(Known))
      <3> DEFINE T == Seq(Known)
      <3>1. \A j \in 1 .. Len(ss) : ss[j] \in T
        BY <2>5
      <3> HIDE DEF T
      <3>2. ss \in Seq(T)
        BY <2>4, <3>1
      <3> QED BY <3>2 DEF T
    <2> QED BY <2>6 DEF ss
  <1> DEFINE M == Input(m)
  <1>15. /\ M.transitive_derived = transitive_derived
         /\ M.abstract \subseteq Class
         /\ M.vp = methods[m].vp /\ M.specs = methods[m].specs /\ M.n2216 = FALSE /\ M.returns = <<>>
    BY DEF Input
  <1>16. {c \in Class : c \in M.transitive_derived[c]} = Known
    BY <1>4, <1>15
  <1>17. /\ M.transitive_derived \in [Class -> SUBSET Known]
         /\ M.vp \in Seq(Known) /\ M.vp # <<>>
         /\ M.specs \in Seq(Seq(Known))
    BY <1>5, <1>10, <1>13, <1>14, <1>15
  <1>18. \A s \in DOMAIN M.specs : DOMAIN M.specs[s] = DOMAIN M.vp
    BY <1>11, <1>12, <1>15
  <1>19. \A c \in Class : \A d \in M.transitive_derived[c] :
            /\ M.transitive_derived[d] \subseteq M.transitive_derived[c]
            /\ (c \in M.transitive_derived[d] => c = d)
    BY <1>6, <1>15
  <1> HIDE DEF M, Registered
  <1>20. TD!IsMethod(M)
    BY <1>15, <1>16, <1>17, <1>18, <1>19 DEF TD!IsMethod
  <1> QED BY <1>20 DEF M

LEMMA GroupsAreReady ==
  ASSUME TD!IsMethod(Input(BadMethod))
  PROVE  TD!GroupsReady
  <1>1. Groups(BadMethod) = [d \in 1 .. TD!arity |-> TD!MakeGroups(d)]
    BY SameGroups, SameGrid DEF Groups
  <1>2. GroupIndexesOf(BadMethod) = [d \in 1 .. TD!arity |-> TD!EntriesMade(d)]
    <2> DEFINE G == Groups(BadMethod)
    <2>1. \A d \in 1 .. TD!arity : G[d] = TD!MakeGroups(d)
      BY <1>1
    <2>2. \A d : TD!GroupedClasses(d) = transitive_derived[methods[BadMethod].vp[d]]
      BY DEF TD!GroupedClasses, TD!Covariant, Input
    <2>3. \A d, c : Entry(BadMethod, G, d, c).group_index = (CHOOSE k \in DOMAIN G[d] : c \in G[d][k].classes) - 1
      BY DEF Entry
    <2> HIDE DEF G
    <2>4. \A d \in 1 .. TD!arity :
            [c \in TD!GroupedClasses(d) |-> Entry(BadMethod, G, d, c).group_index] = TD!EntriesMade(d)
      BY <2>1, <2>3 DEF TD!EntriesMade
    <2> QED BY <2>2, <2>4, SameGrid DEF GroupIndexesOf, G
  <1> QED BY <1>1, <1>2 DEF TD!GroupsReady, TD!GroupsUpTo

LEMMA BadMethodWorks ==
  ASSUME TD!IsMethod(Input(BadMethod))
  PROVE  TablesWork(BadMethod)
  <1> DEFINE b == BadMethod
             G == Groups(b)
  <1>1. TD!GroupsReady
    BY GroupsAreReady
  <1>2. /\ TD!arity = Arity(b) /\ TD!arity \in Nat \ {0}
        /\ TD!Overrider = DOMAIN methods[b].specs
    <2>1. TD!arity \in Nat \ {0}
      BY PointersAssumption, TD!OverridersAreNumbers
    <2> QED BY <2>1, SameGrid DEF TD!Overrider, Input
  <1>3. TD!IsGrid(TD!Volumes, TD!Extents, TD!arity)
    BY PointersAssumption, <1>1, TD!TablesAreGrids
  <1>4. \A k \in 0 .. TD!arity : TD!Volumes[k] \in Nat \ {0}
    BY PointersAssumption, <1>2, <1>3, TD!GridVolumes
  <1>5. Tables(b, G)!Cells \in Nat \ {0}
    BY PointersAssumption, <1>1, TD!GridIsReady, SameGrid
  <1>6. \A d \in 1 .. TD!arity : /\ TD!Stride(d) = TD!Volumes[d - 1]
                                 /\ Tables(b, G)!Stride(d) = TD!Stride(d)
                                 /\ TD!Stride(d) \in Nat
    <2> TAKE d \in 1 .. TD!arity
    <2>1. d - 1 \in 0 .. TD!arity
      BY <1>2
    <2>2. TD!Stride(d) = TD!Volumes[d - 1]
      BY <2>1 DEF TD!Stride, TD!Volumes
    <2> QED BY <1>4, <2>1, <2>2, SameGrid
  <1>7. \A d \in 1 .. TD!arity : \A c \in transitive_derived[methods[b].vp[d]] :
          /\ Entry(b, G, d, c).group_index = GroupIndexesOf(b)[d][c]
          /\ Entry(b, G, d, c).group_index \in 0 .. TD!Extents[d] - 1
    <2> TAKE d \in 1 .. TD!arity
    <2> TAKE c \in transitive_derived[methods[b].vp[d]]
    <2>1. c \in TD!GroupedClasses(d)
      BY DEF TD!GroupedClasses, TD!Covariant, Input
    <2>2. GroupIndexesOf(b)[d][c] \in 0 .. TD!Extents[d] - 1
      BY PointersAssumption, <1>1, <2>1, TD!EntryIsPlace
    <2>3. Entry(b, G, d, c).group_index = GroupIndexesOf(b)[d][c]
      BY <1>2 DEF GroupIndexesOf
    <2> QED BY <2>2, <2>3
  <1>8. ASSUME NEW t \in Calls(b)
        PROVE  \E f : IsPath(b, t, f) /\ CellWorks(b, t, f[Arity(b)])
    <2>1. t \in TD!Calls
      BY SameRules
    <2>2. \A d \in 1 .. TD!arity : t[d] \in TD!GroupedClasses(d)
      BY <2>1 DEF TD!Calls, TD!GroupedClasses
    <2>3. PICK cell : TD!IsCell(cell, TD!Places(t), TD!Volumes, TD!arity) /\ TD!CellOf(t) = cell[TD!arity]
      BY PointersAssumption, <1>1, <2>2, TD!CellsOfCalls
    <2>4. \A d \in 1 .. TD!arity : /\ TD!Places(t)[d] = Entry(b, G, d, t[d]).group_index
                                   /\ TD!Places(t)[d] \in 0 .. TD!Extents[d] - 1
      <3> TAKE d \in 1 .. TD!arity
      <3>1. TD!Places(t)[d] = GroupIndexesOf(b)[d][t[d]]
        BY DEF TD!Places
      <3>2. t[d] \in transitive_derived[methods[b].vp[d]]
        BY <2>2 DEF TD!GroupedClasses, TD!Covariant, Input
      <3> QED BY <1>7, <3>1, <3>2
    <2>5. \A k \in 0 .. TD!arity : cell[k] \in 0 .. TD!Volumes[k] - 1
      BY PointersAssumption, <1>2, <1>3, <2>3, <2>4, TD!CellInGrid
    <2>6. \A k \in 0 .. TD!arity : cell[k] \in Nat
      BY <1>4, <2>5
    <2> DEFINE f == [k \in 0 .. TD!arity |-> cell[k]]
    <2>7. /\ cell[0] = 0
          /\ \A k \in 1 .. TD!arity :
               cell[k] = cell[k - 1] + Entry(b, G, k, t[k]).group_index * Tables(b, G)!Stride(k)
      BY <1>6, <2>3, <2>4 DEF TD!IsCell
    <2>8. f \in [0 .. TD!arity -> Nat]
      BY <2>6
    <2>9. /\ f[0] = 0
          /\ \A k \in 1 .. TD!arity :
               f[k] = f[k - 1] + Entry(b, G, k, t[k]).group_index * Tables(b, G)!Stride(k)
      <3>1. 0 \in 0 .. TD!arity /\ \A k \in 1 .. TD!arity : k \in 0 .. TD!arity /\ k - 1 \in 0 .. TD!arity
        BY <1>2
      <3> QED BY <2>7, <3>1
    <2>10. f[TD!arity] = TD!CellOf(t)
      BY <1>2, <2>3
    <2> HIDE DEF f
    <2>11. IsPath(b, t, f)
      BY <1>2, <2>8, <2>9 DEF IsPath
    <2>12. /\ TD!CellOf(t) \in 0 .. TD!Cells - 1 /\ TD!MaskOfCell(TD!CellOf(t)) = TD!Applicable(t)
           /\ TD!Applicable(t) \in SUBSET TD!Overrider
      BY PointersAssumption, <1>1, <2>1, TD!CallReadsItsMask
    <2>13. ASSUME TD!DominanceTransitive(TD!Applicable(t))
           PROVE  {TD!OverriderOfCell(TD!CellOf(t))} = TD!BestOf(TD!Applicable(t))
      <3>1. ~ Input(b).n2216
        BY DEF Input
      <3>2. {TD!Selected(TD!Dominants(TD!Applicable(t)))} = TD!BestOf(TD!Applicable(t))
        BY PointersAssumption, <2>12, <2>13, <3>1, TD!SelectedIsBest
      <3> QED BY <2>12, <3>2 DEF TD!OverriderOfCell
    <2>14. CellWorks(b, t, TD!CellOf(t))
      BY <2>12, <2>13, SameGrid, SameRules, SameCells DEF CellWorks
    <2> QED BY <1>2, <2>10, <2>11, <2>14
  <1>9. ASSUME NEW n
        PROVE  TD!NextOf(TD!MaskOfCell(n)) \in TD!Overrider \cup {not_implemented, ambiguous}
    <2> DEFINE S == TD!MaskOfCell(n) \ TD!Remaining(TD!Dominants(TD!MaskOfCell(n)))
    <2>1. S \in SUBSET TD!Overrider
      BY DEF TD!MaskOfCell
    <2>2. TD!NextOf(TD!MaskOfCell(n)) = TD!Selected(TD!Dominants(S))
      BY DEF TD!NextOf
    <2> HIDE DEF S
    <2>3. /\ TD!Selected(TD!Dominants(S)) \in S \cup {not_implemented, ambiguous, Garbage}
          /\ TD!Selected(TD!Dominants(S)) = Garbage => Input(b).n2216
      BY PointersAssumption, <2>1, TD!SelectedIs
    <2>4. ~ Input(b).n2216
      BY DEF Input
    <2> QED BY <2>1, <2>2, <2>3, <2>4
  <1>10. \A n : Tables(b, G)!NextOf(Tables(b, G)!MaskOfCell(n))
                 \in DOMAIN methods[b].specs \cup {not_implemented, ambiguous}
    BY <1>2, <1>9, SameCells
  <1>11. \A d \in 1 .. Arity(b) : Tables(b, G)!Stride(d) \in Nat
    BY <1>2, <1>6
  <1>12. \A d \in 1 .. Arity(b) : \A c \in transitive_derived[methods[b].vp[d]] :
            Entry(b, G, d, c).group_index \in Nat
    <2>1. \A d \in 1 .. TD!arity : TD!Extents[d] \in Nat
      BY <1>3 DEF TD!IsGrid
    <2> QED BY <1>2, <1>7, <2>1
  <1>13. Tables(b, G)!Stride(1) = 1
    <2>1. TD!Volumes[0] = 1 /\ 1 - 1 = 0 /\ 1 \in 1 .. TD!arity
      BY <1>2, <1>3 DEF TD!IsGrid
    <2> QED BY <1>6, <2>1
  <1> QED BY <1>5, <1>8, <1>10, <1>11, <1>12, <1>13 DEF TablesWork

LEMMA EveryMethodWorks ==
  ASSUME ClassInv, class_pc = "done", AllKnown
  PROVE  \A m \in Method : TablesWork(m)
  <1> SUFFICES ASSUME \E m \in Method : ~ TablesWork(m) PROVE FALSE
    OBVIOUS
  <1>1. BadMethod \in Method /\ ~ TablesWork(BadMethod)
    BY DEF BadMethod
  <1>2. TD!IsMethod(Input(BadMethod))
    BY <1>1, InputIsMethod
  <1> QED BY <1>1, <1>2, BadMethodWorks

LEMMA SlotsOfParametersApart ==
  ASSUME CompilerInv, SlotsInv, pass = "done", Classes!Orderly
  PROVE  SlotsApart
  <1>1. /\ ClassInv /\ class_pc = "done" /\ AllKnown /\ lattice = Handover /\ slot_pc = "done"
        /\ PlaceInv
    BY AfterTheMethods DEF SlotsInv, ClassInv
  <1>2. SP!PassInv
    BY DEF SlotsInv
  <1>3. SP!Inv /\ SP!EntriesInv
    BY <1>2 DEF SP!PassInv
  <1>4. SP!EntriesInBounds
    BY <1>3, SP!EntriesFollow, NoClassAssumption, UnassignedAssumption
  <1>5. SP!NoSlotClash /\ SP!TypeOK
    BY <1>3 DEF SP!Inv, SP!SlotInv, SP!TypeInv
  <1>6. /\ slots \in [Param -> Nat \cup {Unassigned}]
        /\ first_slot \in [Class -> Nat] /\ vtbl_size \in [Class -> Nat]
    BY <1>5 DEF SP!TypeOK
  <1>7. /\ lattice.vp = [p \in Param |-> ClassOfVp(p)]
        /\ lattice.transitive_derived = transitive_derived
        /\ transitive_derived \in [Class -> SUBSET Class]
    BY <1>1, HandoverFields, EndFacts
  <1>8. ASSUME NEW m \in Method, NEW d \in 1 .. Arity(m)
        PROVE  <<m, d>> \in Param /\ methods[m].vp[d] \in Class
    <2>1. /\ Method = 1 .. Len(methods) /\ methods[m].vp \in Seq(Class)
          /\ Param = UNION {{<<k, i>> : i \in DOMAIN methods[k].vp} : k \in 1 .. Len(methods)}
      BY <1>1, MethodFacts DEF Method
    <2>2. d \in DOMAIN methods[m].vp
      BY <2>1 DEF Arity
    <2> QED BY <2>1, <2>2
  <1>9. ASSUME NEW m \in Method, NEW d \in 1 .. Arity(m)
        PROVE  SP!Covariant(<<m, d>>) = Passable(m, d)
    BY <1>7, <1>8 DEF SP!Covariant, SP!transitive_derived, ClassOfVp, Passable
  <1> SUFFICES ASSUME NEW m \in Method, NEW n \in Method, NEW d \in 1 .. Arity(m),
                      NEW e \in 1 .. Arity(n), NEW c \in Passable(m, d)
               PROVE  /\ slots[<<m, d>>] \in Nat
                      /\ PlaceOf(m, d, c) \in 1 .. vtbl_size[c]
                      /\ (c \in Passable(n, e) /\ <<m, d>> # <<n, e>>
                            => PlaceOf(m, d, c) # PlaceOf(n, e, c))
    BY DEF SlotsApart
  <1>10. c \in Class
    BY <1>7, <1>8 DEF Passable
  <1>11. ASSUME NEW k \in Method, NEW f \in 1 .. Arity(k), c \in Passable(k, f)
         PROVE  /\ <<k, f>> \in SP!Assigned /\ slots[<<k, f>>] \in Nat
                /\ first_slot[c] <= slots[<<k, f>>]
                /\ slots[<<k, f>>] < first_slot[c] + vtbl_size[c]
    <2>1. <<k, f>> \in Param /\ c \in SP!Covariant(<<k, f>>)
      BY <1>8, <1>9, <1>11
    <2>2. /\ <<k, f>> \in SP!Assigned
          /\ first_slot[c] <= slots[<<k, f>>]
          /\ slots[<<k, f>>] < first_slot[c] + vtbl_size[c]
      BY <1>1, <1>4, <2>1 DEF SP!EntriesInBounds
    <2> QED BY <1>6, <2>1, <2>2 DEF SP!Assigned
  <1>12. slots[<<m, d>>] \in Nat /\ PlaceOf(m, d, c) \in 1 .. vtbl_size[c]
    <2>1. first_slot[c] \in Nat /\ vtbl_size[c] \in Nat
      BY <1>6, <1>10
    <2> QED BY <1>11, <2>1 DEF PlaceOf
  <1>13. ASSUME c \in Passable(n, e), <<m, d>> # <<n, e>>
         PROVE  PlaceOf(m, d, c) # PlaceOf(n, e, c)
    <2>1. <<m, d>> \in SP!Assigned /\ <<n, e>> \in SP!Assigned
      BY <1>11, <1>13
    <2>2. SP!Conflict(<<m, d>>, <<n, e>>)
      BY <1>9, <1>13 DEF SP!Conflict
    <2>3. slots[<<m, d>>] # slots[<<n, e>>]
      BY <1>5, <2>1, <2>2 DEF SP!NoSlotClash
    <2>4. slots[<<m, d>>] \in Nat /\ slots[<<n, e>>] \in Nat /\ first_slot[c] \in Nat
      BY <1>6, <1>10, <1>11, <1>13
    <2> QED BY <2>3, <2>4 DEF PlaceOf
  <1> QED BY <1>12, <1>13

-----------------------------------------------------------------------------
(* The whole.                                                              *)

LEMMA CompileEndsWell == CompilerInv /\ SlotsInv => CompiledWell
  <1> SUFFICES ASSUME CompilerInv, SlotsInv, pass = "done"
               PROVE  /\ \A m \in Method : TablesWork(m)
                      /\ first_slot \in [Class -> Nat] /\ vtbl_size \in [Class -> Nat]
                      /\ (Classes!Orderly => SlotsApart)
    BY DEF CompiledWell
  <1>1. \A m \in Method : TablesWork(m)
    BY AfterTheMethods, EveryMethodWorks
  <1>2. first_slot \in [Class -> Nat] /\ vtbl_size \in [Class -> Nat]
    BY DEF SlotsInv, SP!Typed, SP!TypeOK
  <1>3. Classes!Orderly => SlotsApart
    BY SlotsOfParametersApart
  <1> QED BY <1>1, <1>2, <1>3

GlobalInv == CallInv /\ SlotsInv

LEMMA GlobalInit == InitGlobals => GlobalInv
  BY CallInit, SlotsInit DEF InitGlobals, GlobalInv

LEMMA GlobalStep == GlobalInv /\ [NextGlobals]_allVars => GlobalInv'
  <1> SUFFICES ASSUME GlobalInv, [NextGlobals]_allVars PROVE GlobalInv'
    OBVIOUS
  <1>1. CallInv /\ SlotsInv /\ CompilerInv /\ StageInv
    BY DEF GlobalInv, CallInv, NextInv, RoomInv, TablesInv, PipelineInv
  <1>2. [Next]_vars
    BY <1>1, StepIs DEF vars
  <1>3. CompilerInv' /\ SlotsInv'
    BY <1>1, <1>2, CompilerStep, SlotsStep
  <1>4. (CompilerInv /\ SlotsInv => CompiledWell)'
    BY CompileEndsWell, PTL
  <1>5. CallInv'
    BY <1>1, <1>3, <1>4, CallStep
  <1> QED BY <1>3, <1>5 DEF GlobalInv

(* Nothing is written past the end of dispatch_data: the size that         *)
(* write_global_data computes is enough for the tables and the v-tables    *)
(* that it writes, for every program.                                      *)
THEOREM NothingWrittenPastTheEnd == SpecGlobals => []DataFits
  <1>1. GlobalInv => DataFits
    BY RoomFits DEF GlobalInv, CallInv, NextInv
  <1> QED BY <1>1, GlobalInit, GlobalStep, PTL DEF SpecGlobals

(* Whatever the program, an overrider that a call runs can call its `next`:*)
(* write_global_data has set the pointer.                                  *)
THEOREM NextOfEveryOverriderRun == SpecGlobals => []NextPointersSet
  <1>1. GlobalInv => NextPointersSet
    BY NextFollows DEF GlobalInv, CallInv
  <1> QED BY <1>1, GlobalInit, GlobalStep, PTL DEF SpecGlobals

(* Whatever the classes and the methods: when the instantiations of        *)
(* use_classes come in order, every call of a method whose virtual         *)
(* parameters follow one another runs, of slots, group indexes, strides and*)
(* words written by different passes, what the documented rules select.    *)
THEOREM CallsRunWhatIsDocumented == SpecGlobals => []CallsRunDocumentedIfAdjacent
  <1>1. GlobalInv => CallsRunDocumentedIfAdjacent
    BY CallsRun DEF GlobalInv
  <1> QED BY <1>1, GlobalInit, GlobalStep, PTL DEF SpecGlobals
=============================================================================
