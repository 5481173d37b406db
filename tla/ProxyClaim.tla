----------------------------- MODULE ProxyClaim -----------------------------
(***************************************************************************)
(* What pkg/proxymgr promises about owning a client configuration, seen    *)
(* from outside: LockProxy claims it, one process at a time; UnlockProxy   *)
(* and the end of the process give it up.  The promise does not survive    *)
(* the first removal of the data directory: from then on the claim is void *)
(* and a process may get it while another one has it.                      *)
(***************************************************************************)
CONSTANT Proxies

VARIABLES
  owners,  \* the processes that have claimed the client configuration
  void     \* files have been removed

vars == <<owners, void>>

Init == owners = {} /\ void = FALSE

LockProxy(p) ==
  /\ owners = {} \/ void
  /\ p \notin owners
  /\ owners' = owners \cup {p}
  /\ UNCHANGED void

\* The process ends without UnlockProxy.
Crash(p) ==
  /\ p \in owners
  /\ owners' = owners \ {p}
  /\ UNCHANGED void

\* UnlockProxy, or KillProxy with force: the removal begins.
UnlockProxy(p) ==
  /\ p \in owners
  /\ owners' = owners \ {p}
  /\ void' = TRUE

\* KillProxy with force for a process that is no owner any more.
Remove ==
  /\ void' = TRUE
  /\ UNCHANGED owners

Next ==
  \/ \E p \in Proxies : LockProxy(p) \/ Crash(p) \/ UnlockProxy(p)
  \/ Remove

Spec == Init /\ [][Next]_vars
=============================================================================
