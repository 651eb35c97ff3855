---------------------------- MODULE MCMethodCalls ----------------------------
(* Instances of MethodCalls for TLC: a diamond of classes and four         *)
(* overriders, two of them for the same class.                             *)
EXTENDS MethodCalls, TLC

CONSTANTS A, B, C, D, fa, fb, fc, fd

MCClass == {A, B, C, D}
MCDerived == (A :> {A, B, C, D}) @@ (B :> {B, D}) @@ (C :> {C, D}) @@ (D :> {D})
MCOverrider == {fa, fb, fc, fd}
MCClassOf == (fa :> A) @@ (fb :> B) @@ (fc :> C) @@ (fd :> B)

(* The overriders of one class are alike.                                  *)
MCSymmetry == Permutations({fb, fd})
=============================================================================
