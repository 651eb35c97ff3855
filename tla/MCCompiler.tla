----------------------------- MODULE MCCompiler -----------------------------
(* Instances of Compiler for TLC: every inheritance graph of N classes,    *)
(* registered in every way, with two methods, one of which has two virtual *)
(* parameters.  Classes are numbered so that the bases of a class have     *)
(* smaller numbers; this only avoids renamings of a graph.                 *)
EXTENDS Compiler, InheritanceGraphs

CONSTANT N      \* number of classes

MCClass == 1 .. N

MCParam == {<<1, 1>>, <<1, 2>>, <<2, 1>>}

Use(module, list) == [module |-> module, list |-> list]

(* A method with two virtual parameters, which returns the class r, and    *)
(* overriders for it, which return the class N; and a method with one.     *)
Methods(c, d, e, specs, r) ==
    <<[vp |-> <<c, d>>, specs |-> specs,
       return_type |-> r, return_types |-> [i \in DOMAIN specs |-> N]],
      [vp |-> <<e>>, specs |-> <<>>, return_type |-> NoClass, return_types |-> <<>>]>>

Tops ==
    {Methods(1, 2, 2, <<<<1, N>>>>, NoClass), Methods(2, 2, N, <<<<2, 2>>>>, 1)}

Program(g, uses, methods_) ==
    [bases |-> g, abstract |-> {N}, uses |-> uses, methods |-> methods_]

WellTyped(p) ==
    \A m \in ToSet(p.methods) : \A s \in ToSet(m.specs) : \A i \in DOMAIN s :
        s[i] = m.vp[i] \/ m.vp[i] \in p.bases[s[i]]

(* One use_classes for all the classes, or for all but one of them.        *)
ListedTogether ==
    {Program(g, <<Use("exe", o)>>, t) : g \in Graphs(N), t \in Tops, o \in SetToSeqs(MCClass)}
    \cup {Program(g, <<Use("exe", o)>>, t) :
            g \in Graphs(N), o \in SetToSeqs(2 .. N) \cup SetToSeqs(1 .. N - 1),
            t \in {Methods(1, 2, 2, <<<<1, N>>>>, NoClass), Methods(2, 2, 2, <<<<2, 2>>>>, 1)}}

(* One use_classes per class, that lists it with its direct bases, in every*)
(* order.                                                                  *)
OnePerClass(g, order) ==
    [i \in DOMAIN order |->
        Use("exe", <<order[i]>> \o SetToSeq(DirectBases(g, order[i])))]

ListedApart ==
    {Program(g, OnePerClass(g, o), Methods(2, 2, N, <<<<2, 2>>>>, 1)) :
        g \in Graphs(N), o \in SetToSeqs(MCClass)}

(* A program that lists every class, and a library, constructed before or  *)
(* after it, that lists two classes under its own type ids, one of them    *)
(* twice (two translation units).                                          *)
Pairs == UNION {SetToSeqs(s) : s \in kSubset(2, MCClass)}

Libraries ==
    {Program(g, IF f THEN <<Use("dll", l), exe, Use("dll", Tail(l))>>
                ELSE <<exe, Use("dll", Tail(l)), Use("dll", l)>>,
             Methods(1, 2, N, <<>>, NoClass)) :
        g \in Graphs(N), l \in Pairs, f \in BOOLEAN,
        exe \in {Use("exe", [i \in MCClass |-> N + 1 - i])}}

(* Two instantiations, in the same module or not, that list any of the     *)
(* classes but the last, the second at most two, together with their bases *)
(* or not.                                                                 *)
Lists == UNION {SetToSeqs(s) : s \in SUBSET (1 .. N - 1) \ {{}}}

ListedInPart ==
    {Program(Append(g, {}), <<Use("exe", l), Use(m, k)>>, Methods(1, 1, 2, <<>>, NoClass)) :
        g \in Graphs(N - 1), l \in Lists, k \in {x \in Lists : Len(x) < N - 1}, m \in Module}

MCPrograms == {p \in ListedTogether \cup ListedApart \cup Libraries \cup ListedInPart : WellTyped(p)}

(* Class 4 derives from 2 and from 3, which derives from 1.                *)
Fork == <<{}, {}, {1}, {1, 2, 3}>>

ForkPrograms ==
    {Program(Fork, OnePerClass(Fork, <<2, 1, 4, 3>>), Methods(2, 2, 1, <<<<2, 4>>>>, NoClass))}
=============================================================================
