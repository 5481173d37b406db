--------------------------- MODULE MCProxyManager ---------------------------
(***************************************************************************)
(* ProxyManager for TLC.                                                   *)
(***************************************************************************)
EXTENDS ProxyManager, TLC

\* Processes of one kind are interchangeable.  Only for runs without liveness.
Symmetry ==
  Permutations(Proxies) \cup Permutations(Clients) \cup Permutations(Killers)
=============================================================================
