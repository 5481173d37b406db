------------------------------ MODULE MCRouting ------------------------------
(***************************************************************************)
(* Routing for TLC: five objects, two of them versions of one, and queries *)
(* that combine namespaces, labels and field selectors.                    *)
(***************************************************************************)
EXTENDS Routing

Obj(ns, name, label, text, source, reporting) ==
  [ns |-> ns, name |-> name, label |-> label,
   at |-> [f \in {"status.phase", "source", "reportingComponent", "type", "status.podIPs",
                  "regarding.name"} |->
             IF f = "source" THEN source
             ELSE IF f = "reportingComponent" THEN reporting
             ELSE text]]

UniverseMC ==
  {Obj(1, 1, 1, 1, 0, 1), Obj(1, 1, 1, 2, 1, 0), Obj(1, 2, 2, 1, 1, 2),
   Obj(2, 1, 2, 2, 0, 1), Obj(2, 2, 1, 1, 2, 1)}

Need(f, v, e) == [field |-> f, value |-> v, exact |-> e]

Selectors(k) ==
  {<<>>, <<Need("metadata.name", 1, TRUE)>>, <<Need("metadata.namespace", 2, TRUE)>>} \cup
  (CASE k = "Pod" ->
         {<<Need("status.phase", 1, TRUE)>>, <<Need("status.phase", 1, FALSE)>>,
          <<Need("status.podIPs", 1, TRUE)>>,
          <<Need("metadata.name", 1, TRUE), Need("status.phase", 1, TRUE)>>,
          <<Need("status.phase", 1, TRUE), Need("status.podIPs", 1, TRUE)>>}
    [] k = "Event" ->
         {<<Need("source", 1, TRUE)>>, <<Need("reportingComponent", 1, TRUE)>>,
          <<Need("source", 1, TRUE), Need("reportingComponent", 2, TRUE)>>}
    [] k = "EventsEvent" -> {<<Need("regarding.name", 1, TRUE)>>}
    [] k = "Secret" -> {<<Need("type", 1, TRUE)>>}
    [] OTHER -> {<<Need("status.phase", 1, TRUE)>>})

Query(k, verb, sub, ns, name, label, fields, params) ==
  [kind |-> k, verb |-> verb, sub |-> sub, ns |-> ns, name |-> name,
   label |-> label, fields |-> fields, params |-> params]

Lists ==
  UNION {{Query(k, "list", "", ns, 0, l, f, "ok") :
            ns \in 0..2, l \in 0..1, f \in Selectors(k)} :
         k \in {"Pod", "Event", "EventsEvent", "Namespace", "Secret", "Foo"}}

Others ==
  {Query("Pod", v, s, 1, n, 0, <<>>, p) :
     v \in {"get", "watch", "write"}, s \in {"", "status", "log"}, n \in 1..3, p \in {"ok", Bad}}
  \cup {Query(k, v, "", 0, 1, 0, <<>>, "ok") : k \in {"none", "Nothing"}, v \in {"get", "list"}}
  \cup {Query("Pod", "list", "", 1, 0, l, f, p) :
          l \in {0, Bad}, f \in {<<>>, Bad}, p \in {"ok", Bad}}

QueriesMC == Lists \cup Others

\* The filter rejects attach and exec by default; here it rejects logs.
RejectedMC == {q \in Others : q.sub = "log" /\ q.verb = "write"}
=============================================================================
