------------------------------- MODULE Routing -------------------------------
(***************************************************************************)
(* One request on its way through the proxy: the request filter, the       *)
(* choice between cache and API server (pkg/proxy/handler.go), and what    *)
(* CacheProxyHandler makes of it (pkg/proxy/cache_handler.go): the checks  *)
(* of Handle, the selectors, the field indexes (field_index.go), the order *)
(* of a list and the status of an error.  Requests share nothing but the   *)
(* store of the informer, which changes under them and is read in one      *)
(* step; InformerCache has the part in which they meet.                    *)
(*                                                                         *)
(* An object is a record: namespace, name, label, and at, its other        *)
(* fields.  Texts are numbers in the order of the texts, 0 is the empty    *)
(* one; as the namespace of a query it stands for all namespaces.          *)
(***************************************************************************)
EXTENDS Naturals, SequencesExt

CONSTANTS
  Queries,    \* what clients may ask for
  Rejected,   \* the queries that the request filter does not accept
  Kinds,      \* what the RESTMapper knows, by the resource that is asked for
  Universe,   \* the objects that the resource in question may have
  ApiPrefix,  \* --api-prefix
  Bad         \* a selector, or parameters, that do not parse

\* Texts are numbers, in the order of the texts.
ASSUME TextsAreOrdered == \A o \in Universe : o.ns \in Nat /\ o.name \in Nat

\* A field selector that parses is a list of requirements.
ASSUME SelectorsAreParsed ==
  \A q \in Queries :
    q.fields = Bad \/ q.fields \in Seq([field : STRING, value : Nat, exact : BOOLEAN])

VARIABLES
  store,      \* the objects in the store of the informer
  pc,         \* where the request is
  query,      \* what it asks for
  answer,     \* code, and objects if it is an answer from the cache
  snapshot    \* the store when it was read

vars == <<store, pc, query, answer, snapshot>>

NoAnswer == [code |-> 0, items |-> <<>>]
Key(o) == <<o.ns, o.name>>

Init ==
  /\ store = {}
  /\ pc = "filter"
  /\ query \in Queries
  /\ answer = NoAnswer
  /\ snapshot = {}

-----------------------------------------------------------------------------
(* Selectors                                                                *)

MetaFields == {"metadata.name", "metadata.namespace"}
EventFields ==
  {"involvedObject.kind", "involvedObject.namespace", "involvedObject.name",
   "involvedObject.uid", "involvedObject.apiVersion", "involvedObject.resourceVersion",
   "involvedObject.fieldPath", "reason", "reportingComponent", "source", "type"}
PodFields ==
  {"spec.nodeName", "spec.restartPolicy", "spec.schedulerName", "spec.serviceAccountName",
   "spec.hostNetwork", "status.podIP", "status.phase", "status.nominatedNodeName"}

\* Mutant: a kind that has indexes of its own does without the common ones.
IndexedFieldsOfKind(k) ==
  CASE k = "ReplicaSet" -> {"status.replicas"}
    [] k = "Event" -> EventFields
    [] k = "Pod" -> PodFields
    [] OTHER -> MetaFields

\* IndexFieldsForObject: the fields that have an index.
IndexedFields(k) ==
  MetaFields \cup (CASE k = "ReplicaSet" -> {"status.replicas"}
                     [] k = "Event" -> EventFields
                     [] k = "Pod" -> PodFields
                     [] OTHER -> {})

\* Mutant: the source of an event is its component only.
IndexComponent(o, f) ==
  CASE f = "metadata.name" -> o.name
    [] f = "metadata.namespace" -> o.ns
    [] OTHER -> o.at[f]

\* The index functions: what an object is filed under.  The source of an event is
\* the controller that reports it where no component is given.
IndexValue(o, f) ==
  CASE f = "metadata.name" -> o.name
    [] f = "metadata.namespace" -> o.ns
    [] f = "source" /\ o.at["source"] = 0 -> o.at["reportingComponent"]
    [] OTHER -> o.at[f]

\* The objects in S that the first n requirements leave over.
Narrowed(S, q, n) ==
  {o \in S : /\ q.ns \in {0, o.ns}
             /\ \A i \in 1..n : IndexValue(o, q.fields[i].field) = q.fields[i].value}

\* Only exact matches of indexed fields can be looked up, one requirement after
\* the other; the search ends when nothing is left over.
LookupFails(S, q) ==
  \/ \E i \in DOMAIN q.fields : ~q.fields[i].exact
  \/ \E i \in DOMAIN q.fields :
       /\ q.fields[i].field \notin IndexedFields(q.kind)
       /\ i = 1 \/ Narrowed(S, q, i - 1) # {}

\* Mutant: by name, and by namespace only where names are equal.
NameBefore(o, p) == (o.name < p.name) \/ (o.name = p.name /\ o.ns < p.ns)

\* The order of sortObjectsByNamespaceName.
Before(o, p) == (o.ns < p.ns) \/ (o.ns = p.ns /\ o.name < p.name)

\* S as a list in which every object is before those that follow.
Sorted(S) ==
  CHOOSE s \in [1..Cardinality(S) -> S] :
    \A i, j \in 1..Cardinality(S) : i < j => Before(s[i], s[j])

-----------------------------------------------------------------------------
(* IsCached, Handle                                                         *)

\* What RequestInfoFactory makes of the path.  The API prefixes that it is given
\* are compared with the first segment of the path only, so that a prefix of
\* two segments is never found in it.
IsResourceRequest(q) == ApiPrefix = "/" /\ q.kind # "none"

\* Mutant: every subresource of a cached object is taken for cached.
CachesAnyPart(q) == IsResourceRequest(q) /\ q.verb \in {"get", "list"}

IsCached(q) ==
  /\ IsResourceRequest(q)
  /\ q.sub \in {"", "status"}
  /\ q.verb \in {"get", "list"}

\* ParseGetOptions and ParseListOptions fail.
ParseFails(q) == q.params = Bad

\* The early returns of Handle, in their order.
Refusal(q) ==
  IF q.sub \notin {"", "status"} THEN 405
  ELSE IF q.kind \notin Kinds THEN 404
  ELSE IF q.verb \notin {"get", "list"} THEN 405
  ELSE IF ParseFails(q) THEN 500
  ELSE IF q.verb = "list" /\ (q.label = Bad \/ q.fields = Bad) THEN 400
  ELSE 0

\* Mutant: nobody sets the code of the status.
GetWithoutCode(S, q) ==
  LET found == {o \in S : o.ns = q.ns /\ o.name = q.name}
  IN [code |-> IF found = {} THEN 0 ELSE 200, items |-> SetToSeq(found)]

\* HandleGet
Get(S, q) ==
  LET found == {o \in S : o.ns = q.ns /\ o.name = q.name}
  IN IF found = {} THEN [code |-> 404, items |-> <<>>]
     ELSE [code |-> 200, items |-> SetToSeq(found)]

\* HandleList, and the sorting of what it finds.
List(S, q) ==
  IF LookupFails(S, q) THEN [code |-> 500, items |-> <<>>]
  ELSE LET found == {o \in Narrowed(S, q, Len(q.fields)) : q.label \in {0, o.label}}
       IN [code |-> 200, items |-> Sorted(found)]

-----------------------------------------------------------------------------
(* The steps of a request                                                   *)

Answers(code, items) ==
  /\ pc' = "answered"
  /\ answer' = [code |-> code, items |-> items]
  /\ UNCHANGED <<store, query>>

Goes(from, to) ==
  /\ pc = from
  /\ pc' = to
  /\ UNCHANGED <<store, query, answer, snapshot>>

\* The filter stands before everything else.
Filter ==
  \/ query \notin Rejected /\ Goes("filter", "route")
  \/ /\ query \in Rejected /\ pc = "filter"
     /\ Answers(403, <<>>)
     /\ UNCHANGED snapshot

\* proxyHandler.ServeHTTP, after Notify.
Route == Goes("route", IF IsCached(query) THEN "handle" ELSE "server")

\* The API server answers; what it says is not looked at.
Passthrough == Goes("server", "passed")

\* Handle returns early, and ServeHTTP writes the status.
Refuse ==
  /\ pc = "handle" /\ Refusal(query) # 0
  /\ Answers(Refusal(query), <<>>)
  /\ UNCHANGED snapshot

\* HandleGet or HandleList reads the store, and the result is written.
Read ==
  LET result == IF query.verb = "get" THEN Get(store, query) ELSE List(store, query)
  IN /\ pc = "handle" /\ Refusal(query) = 0
     /\ Answers(result.code, result.items)
     /\ snapshot' = store

\* The informer hears of a change.
Change ==
  /\ \/ \E o \in Universe \ store :
          store' = {p \in store : Key(p) # Key(o)} \cup {o}
     \/ \E o \in store : store' = store \ {o}
  /\ UNCHANGED <<pc, query, answer, snapshot>>

Next == Filter \/ Route \/ Passthrough \/ Refuse \/ Read \/ Change

Spec == Init /\ [][Next]_vars

-----------------------------------------------------------------------------
(* What the API server would say (external)                                 *)

\* What events of the group events.k8s.io are selected on.
RegardingFields ==
  {"regarding.kind", "regarding.namespace", "regarding.name", "regarding.uid",
   "regarding.apiVersion", "regarding.resourceVersion", "regarding.fieldPath",
   "reason", "reportingController", "type"}

\* The fields that can be selected on, of every built-in kind; an event of the
\* group events.k8s.io is called EventsEvent.  That the fields of custom resources
\* are not indexed is a limit that the README of the repository names.
ServerFields(k) ==
  MetaFields \cup
  (CASE k = "Pod" -> PodFields \cup {"status.podIPs", "spec.host"}
     [] k = "Event" -> EventFields
     [] k = "EventsEvent" -> RegardingFields
     [] k \in {"ReplicaSet", "ReplicationController"} -> {"status.replicas"}
     [] k = "Namespace" -> {"status.phase"}
     [] k = "Node" -> {"spec.unschedulable"}
     [] k = "Job" -> {"status.successful"}
     [] k = "Service" -> {"spec.clusterIP", "spec.type"}
     [] k = "Secret" -> {"type"}
     [] k = "CertificateSigningRequest" -> {"spec.signerName"}
     [] OTHER -> {})

ServerValue(o, f) ==
  IF f = "metadata.name" THEN o.name
  ELSE IF f = "metadata.namespace" THEN o.ns
  ELSE IF f = "source" /\ o.at[f] = 0 THEN o.at["reportingComponent"]
  ELSE o.at[f]

Selects(q, o) ==
  /\ q.ns \in {0, o.ns}
  /\ q.label \in {0, o.label}
  /\ \A i \in DOMAIN q.fields :
       (ServerValue(o, q.fields[i].field) = q.fields[i].value) <=> q.fields[i].exact

\* The server takes the query for a good one.
Sound(q) ==
  /\ q.params # Bad /\ q.label # Bad /\ q.fields # Bad
  /\ \A i \in DOMAIN q.fields : q.fields[i].field \in ServerFields(q.kind)

-----------------------------------------------------------------------------
(* Properties                                                               *)

\* The stages, the codes, and no two objects with one name; a request is answered
\* when it has a status.
TypeOK ==
  /\ pc \in {"filter", "route", "handle", "server", "passed", "answered"}
  /\ query \in Queries
  /\ answer.code \in {0, 200, 400, 403, 404, 405, 500}
  /\ store \subseteq Universe /\ snapshot \subseteq Universe
  /\ \A o, p \in store : Key(o) = Key(p) => o = p
  /\ pc = "answered" <=> answer.code # 0

\* What IsCached takes from the API server, Handle can answer: the two functions
\* agree on verbs and subresources.
CachedIsHandled == answer.code # 405

\* A list from the cache is what the API server would have answered from the same
\* objects: indexes, namespaces and selectors together leave exactly the objects
\* that match, once each, in the order of namespace and name.
ListMatchesServer ==
  answer.code = 200 /\ query.verb = "list" =>
    LET items == answer.items
    IN /\ {items[i] : i \in DOMAIN items} = {o \in snapshot : Selects(query, o)}
       /\ \A i \in 1..Len(items) - 1 :
            \/ items[i].ns < items[i + 1].ns
            \/ /\ items[i].ns = items[i + 1].ns
               /\ items[i].name < items[i + 1].name

\* The fields of built-in kinds that no switch of field_index.go has.
WithoutIndex ==
  {<<"Pod", "status.podIPs">>, <<"Pod", "spec.host">>,
   <<"ReplicationController", "status.replicas">>, <<"Namespace", "status.phase">>,
   <<"Node", "spec.unschedulable">>, <<"Job", "status.successful">>,
   <<"Service", "spec.clusterIP">>, <<"Service", "spec.type">>, <<"Secret", "type">>,
   <<"CertificateSigningRequest", "spec.signerName">>}
  \cup {<<"EventsEvent", f>> : f \in RegardingFields}

\* Taking a list away from the API server costs no answer that it would have
\* given, but for selectors that are not exact and those on the fields without an
\* index.
NoSelectorIsLost ==
  (/\ pc = "answered" /\ query \notin Rejected
   /\ query.verb = "list" /\ query.kind \in Kinds /\ Sound(query)
   /\ \A i \in DOMAIN query.fields :
        /\ query.fields[i].exact
        /\ <<query.kind, query.fields[i].field>> \notin WithoutIndex)
  => answer.code = 200
=============================================================================
