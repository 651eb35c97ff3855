----------------------------- MODULE GlobalData -----------------------------
(***************************************************************************)
(* The whole of initialize(), and the method calls that it makes possible. *)
(* Compiler leaves slots and v-table sizes; build_dispatch_tables then     *)
(* makes the tables of each method and the v-table entries that lead to    *)
(* them, and write_global_data copies everything to dispatch_data, a single*)
(* array of words, and to variables that calls read: the slots and strides *)
(* of each method, the `next` of each overrider, and one v-table pointer   *)
(* per class.  A call walks those words without any check.                 *)
(*                                                                         *)
(* Simplifications: a pointer is an index in dispatch_data, counted from   *)
(* zero; a function is the overrider <<method, number>>, or an error       *)
(* function of the method.  Objects are represented by their class: the    *)
(* policy that finds the v-table pointer of an object finds the one of its *)
(* class.  The registry does not have the n2216 policy, and static offsets *)
(* are left out.                                                           *)
(***************************************************************************)
EXTENDS Compiler, Integers

CONSTANTS not_implemented, ambiguous, Null,
    Garbage         \* what is read from a word that does not hold it

VARIABLES
    stage,              \* "compile", "tables", "methods", "next", "vtables", "ready"
    next_item,          \* iterator of the stage
    vtbl,               \* class -> sequence of vtbl_entry
    dispatch_tables,    \* method -> its dispatch_table, a sequence
    strides,            \* method -> sequence
    nexts,              \* method -> overrider -> overrider
    dispatch_data,      \* sequence of words <<kind, value>>
    gv_iter,            \* index of the next word to write
    gv_dispatch_table,  \* method -> index of its dispatch table
    slots_strides,      \* method -> sequence
    next_pointers,      \* method -> overrider -> function
    vptrs               \* class -> index

tableVars  == <<vtbl, dispatch_tables, strides, nexts>>
globalVars == <<dispatch_data, gv_iter, gv_dispatch_table, slots_strides,
                next_pointers, vptrs>>
allVars    == <<vars, stage, next_item, tableVars, globalVars>>

(* A method also says which of its parameters are virtual: one at least.   *)
HasParameters(p) ==
    \A m \in DOMAIN p.methods :
        /\ p.methods[m].vp # <<>>
        /\ p.methods[m].is_virtual \in Seq(BOOLEAN)
        /\ Cardinality({i \in DOMAIN p.methods[m].is_virtual : p.methods[m].is_virtual[i]})
             = Len(p.methods[m].vp)

ASSUME ParametersAssumption == \A p \in Programs : HasParameters(p)

(* These pointers differ, and are none of an overrider nor of a function.  *)
ASSUME PointersAssumption ==
    /\ \A p \in {not_implemented, ambiguous, Null, Garbage} : p \notin Nat
    /\ not_implemented \notin {ambiguous, Null, Garbage}
    /\ ambiguous \notin {Null, Garbage}
    /\ Null # Garbage
    /\ \A p \in {Null, Garbage} : p \notin Nat \X (Nat \cup {not_implemented, ambiguous})

Method  == DOMAIN methods
Arity(m) == Len(methods[m].vp)

(* The dispatch tables of a method; g holds its groups.                    *)
Tables(m, g) ==
    INSTANCE DispatchTables WITH
        Methods <- {}, crash <- Garbage,
        method <- [transitive_derived |-> transitive_derived,
                   abstract |-> {c \in Class : is_abstract[c]},
                   vp |-> methods[m].vp, specs |-> methods[m].specs,
                   n2216 |-> FALSE, returns |-> <<>>],
        groups <- g,
        pc <- "done", dim <- 1, entries <- <<>>, dispatch_table <- <<>>,
        next <- <<>>, report <- <<>>

Groups(m) == [d \in 1 .. Arity(m) |-> Tables(m, <<>>)!MakeGroups(d)]

NoEntry == [method_index |-> 1, vp_index |-> 1, group_index |-> 0]

InitGlobals ==
    /\ Init
    /\ stage = "compile"
    /\ next_item = 1
    /\ vtbl = [c \in Class |-> <<>>]
    /\ dispatch_tables = <<>>
    /\ strides = <<>>
    /\ nexts = <<>>
    /\ dispatch_data = <<>>
    /\ gv_iter = 0
    /\ gv_dispatch_table = [m \in Method |-> Null]
    /\ slots_strides = [m \in Method |-> <<>>]
    /\ next_pointers = [m \in Method |-> [s \in DOMAIN methods[m].specs |-> Null]]
    /\ vptrs = [c \in Class |-> Null]

(* The loops: each takes the methods, or the classes, one after the other. *)
Items == IF stage = "vtables" THEN Len(classes) ELSE Len(methods)

Iterate(loop) ==
    /\ stage = loop
    /\ next_item <= Items
    /\ next_item' = next_item + 1
    /\ stage' = stage

Following == [tables |-> "resize", methods |-> "next", next |-> "vtables", vtables |-> "ready"]

LoopDone ==
    /\ stage \in DOMAIN Following
    /\ next_item > Items
    /\ stage' = Following[stage]
    /\ next_item' = 1
    /\ UNCHANGED <<vars, tableVars, globalVars>>

Compile ==
    /\ stage = "compile"
    /\ Next
    /\ IF pass' = "done"
       THEN /\ stage' = "tables"
            /\ vtbl' = [c \in Class |-> [i \in 1 .. vtbl_size'[c] |-> NoEntry]]
       ELSE UNCHANGED <<stage, vtbl>>
    /\ UNCHANGED <<next_item, dispatch_tables, strides, nexts, globalVars>>

-----------------------------------------------------------------------------
(* build_dispatch_tables, for the next method.                             *)

(* The entry for parameter d of method m goes to the slot of the parameter *)
(* in the v-table of each class of each group.                             *)
Entry(m, g, d, c) ==
    [method_index |-> m, vp_index |-> d,
     group_index |-> (CHOOSE k \in DOMAIN g[d] : c \in g[d][k].classes) - 1]

Place(m, g, c, v, d) ==
    IF c \in transitive_derived[methods[m].vp[d]]
    THEN [v EXCEPT ![slots[<<m, d>>] - first_slot[c] + 1] = Entry(m, g, d, c)]
    ELSE v

WithEntries(m, g) ==
    [c \in Class |->
        FoldLeft(LAMBDA v, d : Place(m, g, c, v, d), vtbl[c], [d \in 1 .. Arity(m) |-> d])]

(* The last cell that an overrider is selected for makes its `next`.       *)
NextOverriders(m, g) ==
    LET Selecting(s) == {n \in 0 .. Tables(m, g)!Cells - 1 : Tables(m, g)!OverriderOfCell(n) = s}
    IN [s \in DOMAIN methods[m].specs |->
          IF Selecting(s) = {} THEN Null
          ELSE Tables(m, g)!NextOf(Tables(m, g)!MaskOfCell(Max(Selecting(s))))]

(* Mutant of Strides: those of the following dimensions.                   *)
StridesOff(m, g) == [d \in 1 .. Arity(m) - 1 |-> Tables(m, g)!Stride(d + 2)]

(* The stride of the first dimension is 1 and is not stored.               *)
Strides(m, g) == [d \in 1 .. Arity(m) - 1 |-> Tables(m, g)!Stride(d + 1)]

BuildDispatchTables ==
    /\ Iterate("tables")
    /\ LET m == next_item
           g == Groups(m)
       IN /\ vtbl' = WithEntries(m, g)
          /\ dispatch_tables' =
               Append(dispatch_tables,
                      [n \in 1 .. Tables(m, g)!Cells |-> Tables(m, g)!OverriderOfCell(n - 1)])
          /\ strides' = Append(strides, Strides(m, g))
          /\ nexts' = Append(nexts, NextOverriders(m, g))
    /\ UNCHANGED <<vars, globalVars>>

-----------------------------------------------------------------------------
(* write_global_data.                                                      *)

Sum(sizes) == FoldLeft(LAMBDA total, size : total + size, 0, sizes)

TableSizes == [m \in Method |-> Len(dispatch_tables[m])]
VtblSizes  == [i \in DOMAIN classes |-> Len(vtbl[classes[i]])]

(* Mutant of DataSize: the tables of uni-methods, which are not copied, are*)
(* not counted, but neither are the v-table entries they fill.             *)
DataSizeMulti == Sum([m \in Method |-> IF Arity(m) > 1 THEN TableSizes[m] ELSE 0])

(* The tables of all the methods, and all the v-tables.                    *)
DataSize == Sum(TableSizes) + Sum(VtblSizes)

Resize ==
    /\ stage = "resize"
    /\ dispatch_data' = [i \in 1 .. DataSize |-> <<"none", Null>>]
    /\ gv_iter' = 0
    /\ stage' = "methods"
    /\ UNCHANGED <<vars, next_item, tableVars, gv_dispatch_table, slots_strides,
                   next_pointers, vptrs>>

(* Write words at gv_iter.  What does not fit in dispatch_data is lost.    *)
Write(words) ==
    /\ dispatch_data' = [i \in DOMAIN dispatch_data |->
                           IF i - gv_iter \in DOMAIN words THEN words[i - gv_iter]
                           ELSE dispatch_data[i]]
    /\ gv_iter' = gv_iter + Len(words)

SlotList(m) == [d \in 1 .. Arity(m) |-> slots[<<m, d>>]]

(* A uni-method needs its slot only; a multi-method also its strides and a *)
(* copy of its dispatch table.                                             *)
WriteMethod ==
    /\ Iterate("methods")
    /\ LET m == next_item
       IN /\ slots_strides' = [slots_strides EXCEPT ![m] = SlotList(m) \o strides[m]]
          /\ IF Arity(m) = 1
             THEN UNCHANGED <<dispatch_data, gv_iter, gv_dispatch_table>>
             ELSE /\ gv_dispatch_table' = [gv_dispatch_table EXCEPT ![m] = gv_iter]
                  /\ Write([n \in DOMAIN dispatch_tables[m] |->
                              <<"pf", <<m, dispatch_tables[m][n]>>>>])
    /\ UNCHANGED <<vars, tableVars, next_pointers, vptrs>>

(* Mutant of NextPointer: only overriders are stored.                      *)
NextPointerOverrider(m, s) ==
    IF nexts[m][s] \in DOMAIN methods[m].specs THEN <<m, nexts[m][s]>>
    ELSE next_pointers[m][s]

(* An overrider that no cell selects keeps its pointer as it was.          *)
NextPointer(m, s) ==
    IF nexts[m][s] # Null THEN <<m, nexts[m][s]>> ELSE next_pointers[m][s]

WriteNext ==
    /\ Iterate("next")
    /\ LET m == next_item
       IN next_pointers' = [next_pointers EXCEPT ![m] = [s \in DOMAIN @ |-> NextPointer(m, s)]]
    /\ UNCHANGED <<vars, tableVars, dispatch_data, gv_iter, gv_dispatch_table,
                   slots_strides, vptrs>>

(* A v-table entry of a uni-method is the function itself.  For the first  *)
(* virtual parameter of a multi-method it is a pointer into the dispatch   *)
(* table, for the others the group.                                        *)
Word(e) ==
    LET m == e.method_index
    IN IF Arity(m) = 1 THEN <<"pf", <<m, dispatch_tables[m][e.group_index + 1]>>>>
       ELSE IF e.vp_index = 1 THEN <<"pw", gv_dispatch_table[m] + e.group_index>>
       ELSE <<"i", e.group_index>>

WriteVtable ==
    /\ Iterate("vtables")
    /\ LET cls == classes[next_item]
       IN /\ vptrs' = [vptrs EXCEPT ![cls] = gv_iter - first_slot[cls]]
          /\ Write([i \in DOMAIN vtbl[cls] |-> Word(vtbl[cls][i])])
    /\ UNCHANGED <<vars, tableVars, gv_dispatch_table, slots_strides, next_pointers>>

NextGlobals ==
    \/ Compile \/ BuildDispatchTables \/ Resize
    \/ WriteMethod \/ WriteNext \/ WriteVtable \/ LoopDone

SpecGlobals == InitGlobals /\ [][NextGlobals]_allVars

-----------------------------------------------------------------------------
(* Method calls.                                                           *)

Read(i, kind) ==
    IF i + 1 \in DOMAIN dispatch_data /\ dispatch_data[i + 1][1] = kind
    THEN dispatch_data[i + 1][2]
    ELSE Garbage

VirtualParameters(m) == {i \in DOMAIN methods[m].is_virtual : methods[m].is_virtual[i]}

(* The parameter at which a call starts, and the numbers of those it looks *)
(* at next: VirtualArg grows with every parameter, virtual or not, until it*)
(* is the arity.                                                           *)
First(m) == Min(VirtualParameters(m))

Looked(m) == {k \in 1 .. Arity(m) - 1 : First(m) + k \in VirtualParameters(m)}

resolve_uni(m, args) == Read(vptrs[args[First(m)]] + slots_strides[m][1], "pf")

resolve_multi(m, args) ==
    LET Index(k)  == vptrs[args[First(m) + k]] + slots_strides[m][k + 1]
        Stride(k) == slots_strides[m][Arity(m) + k]
        first     == Read(Index(0), "pw")
        Group(k)  == Read(Index(k), "i")
        dispatch[k \in 0 .. Arity(m) - 1] ==
            IF k = 0 THEN first
            ELSE IF k \in Looked(m) THEN dispatch[k - 1] + Group(k) * Stride(k)
            ELSE dispatch[k - 1]
    IN IF first = Garbage \/ \E k \in Looked(m) : Group(k) = Garbage THEN Garbage
       ELSE Read(dispatch[Arity(m) - 1], "pf")

(* The function that a call runs, or Garbage if it reads a word that is not*)
(* there or means something else.                                          *)
resolve(m, args) == IF Arity(m) = 1 THEN resolve_uni(m, args) ELSE resolve_multi(m, args)

-----------------------------------------------------------------------------
(* The calls of method m: the classes of its virtual arguments, in order,  *)
(* and by parameter.                                                       *)
Calls(m) == Tables(m, <<>>)!Calls

Arguments(m, t) ==
    [i \in VirtualParameters(m) |-> t[Cardinality({j \in VirtualParameters(m) : j <= i})]]

Run(m, t) == resolve(m, Arguments(m, t))

Documented(m, t) == {<<m, s>> : s \in Tables(m, <<>>)!BestOf(Tables(m, <<>>)!Applicable(t))}

(* Nothing is written past the end of dispatch_data, whose size is computed*)
(* before anything is written: the assertions in write_global_data.        *)
DataFits == gv_iter <= Len(dispatch_data)

(* All the calls of method m for which the documented rules do not depend  *)
(* on the order of registration run the function that the rules select.    *)
RunsDocumented(m) ==
    \A t \in Calls(m) :
        Tables(m, <<>>)!DominanceTransitive(Tables(m, <<>>)!Applicable(t))
          => {Run(m, t)} = Documented(m, t)

(* Of slots, group indexes, strides, v-tables and dispatch tables, each    *)
(* computed in a pass of its own, a call makes the function that the rules *)
(* of core.hpp:2012-2034 select: "for each virtual argument, the dispatch  *)
(* mechanism [...] deduces the v-table pointer" (core.hpp:2036-2038).  A   *)
(* parameter that is not virtual between two that are refutes it.          *)
CallsRunDocumented ==
    stage = "ready" /\ Classes!Orderly => \A m \in Method : RunsDocumented(m)

(* It holds for the methods whose virtual parameters follow one another.   *)
Adjacent(m) ==
    \A i, j \in VirtualParameters(m) : i .. j \subseteq VirtualParameters(m)

CallsRunDocumentedIfAdjacent ==
    stage = "ready" /\ Classes!Orderly =>
        \A m \in Method : Adjacent(m) => RunsDocumented(m)

(* An overrider that a call runs can call its `next`: the pointer has been *)
(* set, to an overrider or to an error function of the same method.        *)
NextPointersSet ==
    stage = "ready" =>
        \A m \in Method : \A t \in Calls(m) : \A s \in DOMAIN methods[m].specs :
            Run(m, t) = <<m, s>> => next_pointers[m][s] # Null
=============================================================================
