---------------------------- MODULE MCGlobalData ----------------------------
(* Instances of GlobalData for TLC: a method with one virtual parameter,   *)
(* one with two and one with three, on every inheritance graph of N classes*)
(* listed together.                                                        *)
EXTENDS GlobalData, InheritanceGraphs

CONSTANT
    N,          \* number of classes
    Layouts     \* which parameters of the second and third method are virtual

MCClass == 1 .. N

MCParam == {<<1, 1>>, <<2, 1>>, <<2, 2>>, <<3, 1>>, <<3, 2>>, <<3, 3>>}

AdjacentLayouts ==
    {<<<<TRUE, TRUE>>, <<TRUE, TRUE, TRUE>>>>,
     <<<<FALSE, TRUE, TRUE, FALSE>>, <<FALSE, TRUE, TRUE, TRUE>>>>}

GapLayouts == {<<<<TRUE, FALSE, TRUE>>, <<TRUE, TRUE, FALSE, TRUE>>>>}

(* Class b is a base of class d, or d itself: the methods are declared with*)
(* b and have overriders for b and for d.                                  *)
MCMethods(b, d, layout) ==
    LET Make(vp, specs, is_virtual) ==
            [vp |-> vp, specs |-> specs, is_virtual |-> is_virtual,
             return_type |-> NoClass, return_types |-> [i \in DOMAIN specs |-> NoClass]]
    IN <<Make(<<b>>, <<<<d>>, <<b>>>>, <<TRUE>>),
         Make(<<b, 1>>, <<<<b, 1>>, <<d, 1>>, <<b, N>>>>, layout[1]),
         Make(<<1, b, b>>, <<<<1, d, b>>, <<1, b, d>>, <<N, d, d>>>>, layout[2])>>

MCPrograms ==
    {[bases |-> g, abstract |-> {}, uses |-> <<[module |-> "exe", list |-> order]>>,
      methods |-> MCMethods(b, d, layout)] :
        g \in {h \in Graphs(N) : 1 \in h[N]}, order \in {<<1, 2, 3, 4>>, <<3, 1, 2, 4>>},
        b \in {1, 2}, d \in {3, 4}, layout \in Layouts}

MCWellTyped == {p \in MCPrograms : HasMethods(p)}
=============================================================================
