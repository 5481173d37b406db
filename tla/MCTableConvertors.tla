-------------------------- MODULE MCTableConvertors --------------------------
(***************************************************************************)
(* TableConvertors for TLC: a custom resource with its list type, a built- *)
(* in type, and one of a built-in group that the scheme does not know.     *)
(***************************************************************************)
EXTENDS TableConvertors, TLC

CONSTANTS Foo, FooList, Pod, Odd, foos

TypesMC == {Foo, FooList, Pod, Odd}
BuiltinMC == {Pod, Odd}
CrdOfMC == (Foo :> foos) @@ (FooList :> foos)
=============================================================================
