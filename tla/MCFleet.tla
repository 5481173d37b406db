------------------------------- MODULE MCFleet -------------------------------
(***************************************************************************)
(* Fleet for TLC: two clients, two contents of the kubeconfig file and two *)
(* settings of the flags, and two signatures for the four configurations,  *)
(* so that configurations collide whose files or flags differ.  The flags  *)
(* of the clients are equal or differ; which client has which is no        *)
(* matter.  That both have the flags "as" is left out: the configurations  *)
(* that can then be met have one signature.                                *)
(***************************************************************************)
EXTENDS Fleet, TLC

CONSTANTS c1, c2, home, work, plain, as, n1, n2

ClientsMC == {c1, c2}
FilesMC == {home, work}
FlagsMC == {plain, as}
SettingsMC == {c1 :> plain @@ c2 :> plain, c1 :> plain @@ c2 :> as}
PassedOnMC == [f \in FlagsMC |-> f]
NamesMC == {n1, n2}
DigestMC == (<<home, plain>> :> n1) @@ (<<home, as>> :> n2) @@
            (<<work, plain>> :> n2) @@ (<<work, as>> :> n2)
ArgumentsMC == {{n2}}
=============================================================================
