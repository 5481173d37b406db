--------------------------- MODULE MCInformerCache ---------------------------
(***************************************************************************)
(* InformerCache for TLC.                                                  *)
(***************************************************************************)
EXTENDS InformerCache, TLC

CONSTANTS r1, r2, r3, pods, events, pod, Pod, Event

Requests3 == {r1, r2, r3}
Requests2 == {r1, r2}

\* Two resources of two kinds, and another name of the first resource.
Resources2 == {pods, events}
Resources3 == {pods, events, pod}
Kinds2 == {Pod, Event}
KindFor3 == (pods :> Pod) @@ (events :> Event) @@ (pod :> Pod)
KindFor2 == (pods :> Pod) @@ (events :> Event)

\* Requests are interchangeable: of the assignments that differ in nothing but
\* who asks for what, the one in the order pods, pod, events.
Asks3 == {f \in [Requests3 -> Resources3] :
            /\ f[r1] = events => f[r2] = events
            /\ f[r2] = events => f[r3] = events
            /\ f[r1] = pod => f[r2] # pods
            /\ f[r2] = pod => f[r3] # pods}
Asks2 == [Requests2 -> Resources2]
=============================================================================
