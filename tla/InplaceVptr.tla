---------------------------- MODULE InplaceVptr ----------------------------
(***************************************************************************)
(* inplace_vptr: v-table pointers inside the objects.  An object has one   *)
(* pointer per subobject of a root class.  A class of the hierarchy has    *)
(* inplace_vptr as its last base, after its bases proper, so a constructor *)
(* builds the bases, then runs the constructor of inplace_vptr, then its   *)
(* own body; destruction undoes these steps in the opposite order.  A body *)
(* can call methods on the subobject it belongs to, and should then get the*)
(* overriders for its own class, as with virtual functions.                *)
(*                                                                         *)
(* A subobject is the sequence of classes that leads to it from the class  *)
(* of the object.  Simplifications: bases are not virtual; a pointer is the*)
(* class whose static_vptr it was set from.                                *)
(***************************************************************************)
EXTENDS Naturals, Sequences, FiniteSets, SequencesExt

CONSTANTS
    Class,
    Null,
    Programs    \* [bases, object]: the bases of each class, in order

(* A class is defined after its bases.  A conversion to a direct base is   *)
(* not ambiguous: the class is not a part of another direct base too.      *)
IsProgram(p) ==
    LET parts[c \in Class] == {c} \cup UNION {parts[b] : b \in ToSet(p.bases[c])}
    IN /\ p.bases \in [Class -> Seq(Class)]
       /\ p.object \in Class
       /\ \A S \in SUBSET Class : S # {} => \E c \in S : ToSet(p.bases[c]) \cap S = {}
       /\ \A c \in Class : \A i, j \in DOMAIN p.bases[c] :
            i # j => p.bases[c][i] \notin parts[p.bases[c][j]]

ASSUME ProgramsAssumption == \A p \in Programs : IsProgram(p)
ASSUME NullAssumption == Null \notin Class

VARIABLES
    program,    \* never changes
    phase,      \* "constructing", "alive", "destroying" or "gone"
    built,      \* how many steps of construction are done and not undone
    vptr        \* root subobject -> boost_openmethod_vptr

vars == <<program, phase, built, vptr>>

bases == program.bases

(* The subobjects of root classes in a class, itself included.             *)
RootsIn(cls) ==
    LET roots[c \in Class] ==
            IF bases[c] = <<>> THEN {<<c>>}
            ELSE UNION {{<<c>> \o r : r \in roots[b]} : b \in ToSet(bases[c])}
    IN roots[cls]

(* Those in a subobject of the object.                                     *)
Roots(sub) == {sub \o Tail(r) : r \in RootsIn(Last(sub))}

(* The steps of the construction of the object, in order: for each         *)
(* subobject, after those of its bases, inplace_vptr and then the body.    *)
Steps ==
    LET steps[c \in Class] ==
            FlattenSeq([i \in DOMAIN bases[c] |->
                          [k \in DOMAIN steps[bases[c][i]] |->
                             [steps[bases[c][i]][k] EXCEPT !.sub = <<c>> \o @]]])
              \o <<[op |-> "inplace_vptr", sub |-> <<c>>], [op |-> "body", sub |-> <<c>>]>>
    IN steps[program.object]

Init ==
    /\ program \in Programs
    /\ phase = "constructing"
    /\ built = 0
    /\ vptr = [r \in RootsIn(program.object) |-> Null]

-----------------------------------------------------------------------------
(* Mutant of update_vptr: the pointers of the whole object.                *)
update_every_vptr(v, to, sub) == [r \in DOMAIN v |-> to]

(* update_vptr<To>(obj): the roots in obj get the pointer of To.           *)
update_vptr(v, to, sub) == [r \in DOMAIN v |-> IF r \in Roots(sub) THEN to ELSE v[r]]

(* Mutant of UpdatedBases: every base gets the pointer of the first base.  *)
UpdatedFirstBase(sub) ==
    LET direct == bases[Last(sub)]
    IN [i \in DOMAIN direct |-> [to |-> direct[1], sub |-> Append(sub, direct[i])]]

(* The calls of update_vptr in the destructor of inplace_vptr: each base   *)
(* is To, but from the third on the object is cast to the second.          *)
UpdatedBases(sub) ==
    LET direct == bases[Last(sub)]
    IN [i \in DOMAIN direct |->
          [to |-> direct[i], sub |-> Append(sub, direct[IF i > 2 THEN 2 ELSE i])]]

(* The destructor of inplace_vptr; that of a root class resets the pointer.*)
Reset(v, sub) ==
    IF bases[Last(sub)] = <<>> THEN [v EXCEPT ![sub] = Null]
    ELSE FoldLeft(LAMBDA w, u : update_vptr(w, u.to, u.sub), v, UpdatedBases(sub))

-----------------------------------------------------------------------------
Construct ==
    /\ phase = "constructing"
    /\ LET step == Steps[built + 1]
       IN vptr' = IF step.op = "inplace_vptr"
                  THEN update_vptr(vptr, Last(step.sub), step.sub)
                  ELSE vptr
    /\ built' = built + 1
    /\ phase' = IF built' = Len(Steps) THEN "alive" ELSE phase
    /\ UNCHANGED program

(* The body of a constructor throws: what is built is destroyed.           *)
Throw ==
    /\ phase = "constructing"
    /\ Steps[built + 1].op = "body"
    /\ phase' = "destroying"
    /\ UNCHANGED <<program, built, vptr>>

Destroy ==
    /\ phase = "alive"
    /\ phase' = "destroying"
    /\ UNCHANGED <<program, built, vptr>>

Destruct ==
    /\ phase = "destroying"
    /\ LET step == Steps[built]
       IN vptr' = IF step.op = "inplace_vptr" THEN Reset(vptr, step.sub) ELSE vptr
    /\ built' = built - 1
    /\ phase' = IF built' = 0 THEN "gone" ELSE phase
    /\ UNCHANGED program

Next == Construct \/ Throw \/ Destroy \/ Destruct

Spec == Init /\ [][Next]_vars

-----------------------------------------------------------------------------
(* The body that may run now, of a constructor or of a destructor.         *)
Running ==
    CASE phase = "constructing" -> Steps[built + 1]
      [] phase = "alive"        -> Steps[built]
      [] phase = "destroying"   -> Steps[built]
      [] phase = "gone"         -> [op |-> "none", sub |-> <<>>]

(* boost_openmethod_vptr(obj): the pointer of the first base.              *)
boost_openmethod_vptr(sub) ==
    LET first[c \in Class] ==
            IF bases[c] = <<>> THEN <<c>> ELSE <<c>> \o first[bases[c][1]]
    IN vptr[sub \o Tail(first[Last(sub)])]

AtMostTwoBases == \A c \in Class : Len(bases[c]) <= 2

(* The classes whose inplace_vptr is built, on the way to a root subobject:*)
(* the outermost of them is the one its pointer should name.               *)
Expected(r) ==
    LET Built(n) == \E k \in 1 .. built : /\ Steps[k].op = "inplace_vptr"
                                          /\ Steps[k].sub = SubSeq(r, 1, n)
        depths == {n \in DOMAIN r : Built(n)}
    IN IF depths = {} THEN Null ELSE r[Min(depths)]

(* "For each `Base`, sets the vptr to the v-table for that base"           *)
(* (doc/inplace_vptr.adoc, destructor): throughout construction and        *)
(* destruction, also when a constructor throws, every pointer names the    *)
(* class of the subobject that is complete around it.  A third base refutes*)
(* it.                                                                     *)
PointersFollowConstruction == \A r \in DOMAIN vptr : vptr[r] = Expected(r)

(* It holds as long as no class has more than two bases.                   *)
PointersFollowConstructionUpToTwo == AtMostTwoBases => PointersFollowConstruction

(* A call from a body runs overriders for the class of the body, through   *)
(* whatever base the object is passed: "it doesn't matter which one, as    *)
(* they all have the same value" (doc/inplace_vptr.adoc).  Constructors see*)
(* this with any number of bases.                                          *)
BodiesSeeTheirClass ==
    Running.op = "body" /\ (AtMostTwoBases \/ phase # "destroying") =>
        /\ boost_openmethod_vptr(Running.sub) = Last(Running.sub)
        /\ \A r \in Roots(Running.sub) : vptr[r] = Last(Running.sub)
=============================================================================
