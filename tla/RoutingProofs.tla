----------------------------- MODULE RoutingProofs -----------------------------
(***************************************************************************)
(* Proofs about Routing, for any queries, kinds and objects.  That a list  *)
(* is what the API server would answer rests on three facts: the order of  *)
(* the list is a strict total order on objects with distinct keys, so that *)
(* a finite set of them has a sorted list; the store is finite, because it *)
(* changes by one object at a time; and an index files an object under the *)
(* text that the API server would compare.  A get is simpler: distinct     *)
(* keys leave one object at most.                                          *)
(***************************************************************************)
EXTENDS Routing, FiniteSetTheorems, FunctionTheorems, TLAPS

-----------------------------------------------------------------------------
(* The order of a list                                                      *)

\* No two objects of S have one namespace and name.
KeysDiffer(S) == \A o, p \in S : Key(o) = Key(p) => o = p

\* s lists S: every object of S is in it, and stands before those that follow.
Lists(s, S) ==
  /\ s \in [1..Cardinality(S) -> S]
  /\ \A i, j \in 1..Cardinality(S) : i < j => Before(s[i], s[j])

\* Before is a strict order, and total where keys differ.
LEMMA BeforeIsAnOrder ==
  ASSUME NEW S, S \subseteq Universe, KeysDiffer(S)
  PROVE  /\ \A o \in S : ~Before(o, o)
         /\ \A o, p, q \in S : Before(o, p) /\ Before(p, q) => Before(o, q)
         /\ \A o, p \in S : o = p \/ Before(o, p) \/ Before(p, o)
<1>1. \A o \in S : o.ns \in Nat /\ o.name \in Nat
  BY TextsAreOrdered
<1>2. \A o, p \in S : o.ns = p.ns /\ o.name = p.name => o = p
  BY DEF KeysDiffer, Key
<1>3. QED
  BY <1>1, <1>2 DEF Before

\* A finite set of objects with distinct keys can be sorted: the place of an object
\* is the number of those before it, and no two objects have the same.
LEMMA SortedListExists ==
  ASSUME NEW S, S \subseteq Universe, KeysDiffer(S), IsFiniteSet(S)
  PROVE  \E s : Lists(s, S)
<1> DEFINE n        == Cardinality(S)
           Below(o) == {p \in S : Before(p, o)}
           place    == [o \in S |-> Cardinality(Below(o)) + 1]
<1>1. n \in Nat
  BY FS_CardinalityType
<1>2. ASSUME NEW o \in S
      PROVE  /\ IsFiniteSet(Below(o))
             /\ Cardinality(Below(o)) \in Nat
             /\ Cardinality(Below(o)) < n
  <2>1. IsFiniteSet(S \ {o}) /\ Cardinality(S \ {o}) = n - 1
    BY FS_RemoveElement
  <2>2. Below(o) \in SUBSET (S \ {o})
    BY BeforeIsAnOrder
  <2>3. IsFiniteSet(Below(o)) /\ Cardinality(Below(o)) <= n - 1
    BY <2>1, <2>2, FS_Subset
  <2>4. Cardinality(Below(o)) \in Nat
    BY <2>3, FS_CardinalityType
  <2>5. QED
    BY <1>1, <2>3, <2>4
<1>3. ASSUME NEW o \in S, NEW p \in S, Before(o, p)
      PROVE  place[o] < place[p]
  <2>1. Below(o) \cup {o} \in SUBSET Below(p)
    BY <1>3, BeforeIsAnOrder
  <2>2. o \notin Below(o)
    BY BeforeIsAnOrder
  <2>3. Cardinality(Below(o) \cup {o}) = Cardinality(Below(o)) + 1
    BY <1>2, <2>2, FS_AddElement
  <2>4. Cardinality(Below(o) \cup {o}) <= Cardinality(Below(p))
    BY <1>2, <2>1, FS_Subset
  <2>5. Cardinality(Below(o)) \in Nat /\ Cardinality(Below(p)) \in Nat
    BY <1>2
  <2> HIDE DEF Below
  <2>6. QED
    BY <2>3, <2>4, <2>5
<1>4. place \in [S -> 1..n]
  <2>1. \A o \in S : Cardinality(Below(o)) + 1 \in 1..n
    <3> HIDE DEF Below, n
    <3>1. QED
      BY <1>1, <1>2
  <2>2. QED
    BY <2>1
<1>5. \A o, p \in S : place[o] = place[p] => o = p
  <2> SUFFICES ASSUME NEW o \in S, NEW p \in S, place[o] = place[p], o # p
               PROVE  FALSE
    OBVIOUS
  <2>1. place[o] < place[p] \/ place[p] < place[o]
    BY <1>3, BeforeIsAnOrder
  <2>2. place[o] \in 1..n /\ place[p] \in 1..n
    BY <1>4
  <2> HIDE DEF place, n
  <2>3. QED
    BY <1>1, <2>1, <2>2
<1> HIDE DEF place
<1>6. place \in Injection(S, 1..n)
  BY <1>4, <1>5, Fun_IsInj
<1>7. IsFiniteSet(1..n) /\ Cardinality(1..n) = n
  <2> HIDE DEF n
  <2>1. QED
    BY <1>1, FS_Interval
<1>8. place \in Surjection(S, 1..n)
  BY <1>6, <1>7, FS_Injection
<1>9. \A i \in 1..n : \E o \in S : place[o] = i
  BY <1>8, Fun_SurjectionProperties
<1> DEFINE s == [i \in 1..n |-> CHOOSE o \in S : place[o] = i]
<1>10. \A i \in 1..n : s[i] \in S /\ place[s[i]] = i
  BY <1>9
<1>11. s \in [1..n -> S]
  BY <1>10
<1>12. ASSUME NEW i \in 1..n, NEW j \in 1..n, i < j
       PROVE  Before(s[i], s[j])
  <2>1. s[i] \in S /\ s[j] \in S /\ place[s[i]] = i /\ place[s[j]] = j
    BY <1>10
  <2> HIDE DEF s, n
  <2>2. s[i] # s[j]
    BY <1>12, <2>1
  <2>3. ~Before(s[j], s[i])
    <3>1. Before(s[j], s[i]) => j < i
      BY <1>3, <2>1
    <3>2. QED
      BY <1>12, <3>1
  <2>4. QED
    BY <2>1, <2>2, <2>3, BeforeIsAnOrder
<1> HIDE DEF s
<1>13. QED
  BY <1>11, <1>12 DEF Lists

\* A sorted list leaves nothing out.
LEMMA ListIsComplete ==
  ASSUME NEW S, S \subseteq Universe, KeysDiffer(S), IsFiniteSet(S),
         NEW s, Lists(s, S)
  PROVE  {s[i] : i \in DOMAIN s} = S
<1> DEFINE n == Cardinality(S)
<1>1. n \in Nat
  BY FS_CardinalityType
<1>2. s \in [1..n -> S]
  BY DEF Lists
<1>3. ASSUME NEW i \in 1..n, NEW j \in 1..n, s[i] = s[j]
      PROVE  i = j
  <2>1. s[i] \in S /\ ~Before(s[i], s[j]) /\ ~Before(s[j], s[i])
    BY <1>2, <1>3, BeforeIsAnOrder
  <2>2. (i < j => Before(s[i], s[j])) /\ (j < i => Before(s[j], s[i]))
    BY DEF Lists
  <2> HIDE DEF n
  <2>3. QED
    BY <1>1, <2>1, <2>2
<1>4. s \in Injection(1..n, S)
  BY <1>2, <1>3, Fun_IsInj
<1>5. Cardinality(1..n) = n
  <2> HIDE DEF n
  <2>1. QED
    BY <1>1, FS_Interval
<1>6. s \in Surjection(1..n, S)
  BY <1>4, <1>5, FS_Injection
<1> HIDE DEF n
<1>7. \A o \in S : \E i \in 1..n : s[i] = o
  BY <1>6 DEF Surjection
<1>8. QED
  BY <1>2, <1>7

\* The place of an object in a sorted list is the number of objects before it.
LEMMA PlaceInList ==
  ASSUME NEW S, S \subseteq Universe, KeysDiffer(S), IsFiniteSet(S),
         NEW s, Lists(s, S), NEW i \in 1..Cardinality(S)
  PROVE  Cardinality({o \in S : Before(o, s[i])}) = i - 1
<1> DEFINE n == Cardinality(S)
           B == {o \in S : Before(o, s[i])}
           r == [j \in 1..i - 1 |-> s[j]]
<1>1. n \in Nat /\ s \in [1..n -> S] /\ i \in 1..n
  BY FS_CardinalityType DEF Lists
<1>2. \A j, k \in 1..n : j < k => Before(s[j], s[k])
  BY DEF Lists
<1>3. \A j, k \in 1..n : s[j] = s[k] => j = k
  <2> SUFFICES ASSUME NEW j \in 1..n, NEW k \in 1..n, s[j] = s[k]
               PROVE  j = k
    OBVIOUS
  <2>1. s[j] \in S /\ ~Before(s[j], s[k]) /\ ~Before(s[k], s[j])
    BY <1>1, BeforeIsAnOrder
  <2> HIDE DEF n
  <2>2. QED
    BY <1>1, <1>2, <2>1
<1>4. \A o \in B : \E j \in 1..i - 1 : s[j] = o
  <2> SUFFICES ASSUME NEW o \in S, Before(o, s[i])
               PROVE  \E j \in 1..i - 1 : s[j] = o
    OBVIOUS
  <2>1. PICK j \in 1..n : s[j] = o
    BY <1>1, ListIsComplete
  <2>2. s[i] \in S /\ s[j] \in S
    BY <1>1
  <2>3. ~Before(s[i], s[j]) /\ s[i] # s[j]
    BY <2>1, <2>2, BeforeIsAnOrder
  <2> HIDE DEF n, B
  <2>4. j < i
    BY <1>1, <1>2, <2>1, <2>3
  <2>5. QED
    BY <1>1, <2>1, <2>4
<1>5. r \in [1..i - 1 -> B]
  <2>1. \A j \in 1..i - 1 : j \in 1..n /\ j < i
    <3> HIDE DEF n
    <3>1. QED
      BY <1>1
  <2>2. \A j \in 1..i - 1 : s[j] \in B
    BY <1>1, <1>2, <2>1
  <2>3. QED
    BY <2>2
<1> HIDE DEF B
<1>6. \A o \in B : \E j \in 1..i - 1 : r[j] = o
  BY <1>4
<1>7. \A j, k \in 1..i - 1 : r[j] = r[k] => j = k
  <2>1. \A j \in 1..i - 1 : j \in 1..n
    <3> HIDE DEF n
    <3>1. QED
      BY <1>1
  <2>2. \A j \in 1..i - 1 : r[j] = s[j]
    OBVIOUS
  <2> HIDE DEF r, n
  <2>3. QED
    BY <1>3, <2>1, <2>2
<1> HIDE DEF r
<1>8. r \in Surjection(1..i - 1, B) /\ r \in Injection(1..i - 1, B)
  BY <1>5, <1>6, <1>7, Fun_IsSurj, Fun_IsInj
<1>9. IsFiniteSet(1..i - 1) /\ Cardinality(1..i - 1) = i - 1
  BY FS_Interval
<1>10. Cardinality(B) = Cardinality(1..i - 1)
  BY <1>8, <1>9, FS_Surjection
<1>11. QED
  BY <1>9, <1>10 DEF B

\* Objects with distinct keys have one sorted list: how they are sorted does not
\* matter, nor in which order the indexes find them.
LEMMA ListIsUnique ==
  ASSUME NEW S, S \subseteq Universe, KeysDiffer(S), IsFiniteSet(S),
         NEW s, Lists(s, S), NEW t, Lists(t, S)
  PROVE  s = t
<1> DEFINE n == Cardinality(S)
<1>1. s \in [1..n -> S] /\ t \in [1..n -> S]
  BY DEF Lists
<1>2. ASSUME NEW i \in 1..n
      PROVE  s[i] = t[i]
  <2>1. s[i] \in S
    BY <1>1
  <2>2. PICK j \in 1..n : t[j] = s[i]
    <3>1. DOMAIN t = 1..n /\ {t[j] : j \in DOMAIN t} = S
      BY <1>1, ListIsComplete
    <3> HIDE DEF n
    <3>2. QED
      BY <2>1, <3>1
  <2>3. i - 1 = j - 1
    <3>1. Cardinality({o \in S : Before(o, s[i])}) = i - 1
      BY PlaceInList
    <3>2. Cardinality({o \in S : Before(o, t[j])}) = j - 1
      BY PlaceInList
    <3>3. QED
      BY <2>2, <3>1, <3>2
  <2> HIDE DEF n
  <2>4. QED
    BY <2>2, <2>3
<1>3. \A i \in 1..n : s[i] = t[i]
  BY <1>2
<1> HIDE DEF n
<1>4. s = [i \in 1..n |-> s[i]] /\ t = [i \in 1..n |-> t[i]]
  BY <1>1
<1>5. [i \in 1..n |-> s[i]] = [i \in 1..n |-> t[i]]
  BY <1>3
<1>6. QED
  BY <1>4, <1>5

\* Sorted returns all of S, once each, in the order of namespace and name, and no
\* other list of S is in that order.
THEOREM SortedIsTheList ==
  ASSUME NEW S, S \subseteq Universe, KeysDiffer(S), IsFiniteSet(S)
  PROVE  /\ Lists(Sorted(S), S)
         /\ {Sorted(S)[i] : i \in DOMAIN Sorted(S)} = S
         /\ \A s : Lists(s, S) => s = Sorted(S)
<1>1. Lists(Sorted(S), S)
  BY SortedListExists DEF Sorted, Lists
<1>2. {Sorted(S)[i] : i \in DOMAIN Sorted(S)} = S
  BY <1>1, ListIsComplete
<1>3. \A s : Lists(s, S) => s = Sorted(S)
  BY <1>1, ListIsUnique
<1>4. QED
  BY <1>1, <1>2, <1>3

-----------------------------------------------------------------------------
(* The invariant                                                            *)

\* Handle only gets what IsCached has let through.
HandledIsCached == pc = "handle" => IsCached(query)

\* A list that is answered without a refusal fails only where a lookup fails, in
\* which objects were read.
FailsByLookup ==
  pc = "answered" /\ answer.code # 200 =>
    \/ query \in Rejected
    \/ answer.code = Refusal(query) /\ IsCached(query)
    \/ query.verb = "get"
    \/ LookupFails(snapshot, query)

\* There are finitely many objects.
StoreIsFinite == IsFiniteSet(store)

Inv == TypeOK /\ HandledIsCached /\ CachedIsHandled /\ FailsByLookup /\ StoreIsFinite

\* A list succeeds, or a lookup has failed.
LEMMA ListCode ==
  ASSUME NEW S, NEW q
  PROVE  /\ List(S, q).code \in {200, 500}
         /\ List(S, q).code # 200 => LookupFails(S, q)
  BY DEF List

\* An object is found or not.
LEMMA GetCode == ASSUME NEW S, NEW q PROVE Get(S, q).code \in {200, 404}
  BY DEF Get

\* The codes of the early returns; 405 is not for what IsCached lets through, and
\* no list with a selector that does not parse gets past them.
LEMMA RefusalCode ==
  ASSUME NEW q
  PROVE  /\ Refusal(q) \in {0, 400, 404, 405, 500}
         /\ IsCached(q) => Refusal(q) # 405
         /\ Refusal(q) = 0 /\ q.verb = "list" => q.fields # Bad
<1> DEFINE NoPart     == q.sub \notin {"", "status"}
           NoKind     == q.kind \notin Kinds
           NoVerb     == q.verb \notin {"get", "list"}
           BadParams  == ParseFails(q)
           BadOptions == q.verb = "list" /\ (q.label = Bad \/ q.fields = Bad)
<1>1. Refusal(q) = IF NoPart THEN 405 ELSE IF NoKind THEN 404 ELSE IF NoVerb THEN 405
                   ELSE IF BadParams THEN 500 ELSE IF BadOptions THEN 400 ELSE 0
  BY DEF Refusal
<1>2. /\ IsCached(q) => ~NoPart /\ ~NoVerb
      /\ q.verb = "list" /\ q.fields = Bad => BadOptions
  BY DEF IsCached
<1> HIDE DEF NoPart, NoKind, NoVerb, BadParams, BadOptions
<1>3. QED
  BY <1>1, <1>2

\* At the beginning nothing is stored and nothing answered.
LEMMA InvInit == Init => Inv
  BY FS_EmptySet
  DEF Init, Inv, TypeOK, HandledIsCached, CachedIsHandled, FailsByLookup, StoreIsFinite,
      NoAnswer

\* Every step of the request, and every change of the store, keeps the invariant.
LEMMA InvNext == Inv /\ [Next]_vars => Inv'
<1> SUFFICES ASSUME Inv, [Next]_vars PROVE Inv'
  OBVIOUS
<1> USE DEF Inv, TypeOK, HandledIsCached, CachedIsHandled, FailsByLookup, StoreIsFinite
<1>1. CASE Filter
  BY <1>1 DEF Filter, Goes, Answers
<1>2. CASE Route
  BY <1>2 DEF Route, Goes
<1>3. CASE Passthrough
  BY <1>3 DEF Passthrough, Goes
<1>4. CASE Refuse
  <2>1. /\ Refusal(query) \in {400, 404, 405, 500}
        /\ IsCached(query) /\ Refusal(query) # 405
    BY <1>4, RefusalCode DEF Refuse
  <2>2. /\ pc' = "answered" /\ answer'.code = Refusal(query)
        /\ UNCHANGED <<store, query, snapshot>>
    BY <1>4 DEF Refuse, Answers
  <2>3. QED
    BY <2>1, <2>2
<1>5. CASE Read
  <2>1. /\ pc' = "answered" /\ snapshot' = store
        /\ UNCHANGED <<store, query>>
    BY <1>5 DEF Read, Answers
  <2>2. CASE query.verb = "get"
    <3>1. answer'.code = Get(store, query).code
      BY <1>5, <2>2 DEF Read, Answers
    <3>2. QED
      BY <2>1, <2>2, <3>1, GetCode
  <2>3. CASE query.verb # "get"
    <3>1. answer'.code = List(store, query).code
      BY <1>5, <2>3 DEF Read, Answers
    <3>2. answer'.code \in {200, 500} /\ (answer'.code # 200 => LookupFails(store, query))
      BY <3>1, ListCode
    <3>3. QED
      BY <2>1, <3>2
  <2>4. QED
    BY <2>2, <2>3
<1>6. CASE Change
  <2>1. store' \subseteq Universe /\ \A o, p \in store' : Key(o) = Key(p) => o = p
    BY <1>6 DEF Change
  <2>2. IsFiniteSet(store')
    <3>1. CASE \E o \in Universe : store' = {p \in store : Key(p) # Key(o)} \cup {o}
      <4>1. PICK o \in Universe : store' = {p \in store : Key(p) # Key(o)} \cup {o}
        BY <3>1
      <4>2. IsFiniteSet({p \in store : Key(p) # Key(o)})
        BY FS_Subset
      <4>3. QED
        BY <4>1, <4>2, FS_AddElement
    <3>2. CASE \E o \in store : store' = store \ {o}
      BY <3>2, FS_RemoveElement
    <3>3. QED
      BY <1>6, <3>1, <3>2 DEF Change
  <2>3. UNCHANGED <<pc, query, answer, snapshot>>
    BY <1>6 DEF Change
  <2>4. QED
    BY <2>1, <2>2, <2>3
<1>7. CASE UNCHANGED vars
  BY <1>7 DEF vars
<1>8. QED
  BY <1>1, <1>2, <1>3, <1>4, <1>5, <1>6, <1>7 DEF Next

\* The invariant, for every value of the constants.
THEOREM Invariance == Spec => []Inv
  BY InvInit, InvNext, PTL DEF Spec

\* Stages and codes, and a store without duplicates.
THEOREM TypeCorrect == Spec => []TypeOK
<1>1. Inv => TypeOK
  BY DEF Inv
<1>2. QED
  BY <1>1, Invariance, PTL

\* IsCached lets nothing through that Handle does not implement.
THEOREM HandlesCached == Spec => []CachedIsHandled
<1>1. Inv => CachedIsHandled
  BY DEF Inv
<1>2. QED
  BY <1>1, Invariance, PTL

-----------------------------------------------------------------------------
(* Lists                                                                    *)

\* An index files an object under the text that the API server compares.
LEMMA IndexAgreesWithServer ==
  ASSUME NEW o, NEW f
  PROVE  IndexValue(o, f) = ServerValue(o, f)
<1>1. CASE f = "metadata.name"
  BY <1>1 DEF IndexValue, ServerValue
<1>2. CASE f = "metadata.namespace"
  BY <1>2 DEF IndexValue, ServerValue
<1>3. CASE f = "source"
  BY <1>3 DEF IndexValue, ServerValue
<1>4. CASE f \notin {"metadata.name", "metadata.namespace", "source"}
  BY <1>4 DEF IndexValue, ServerValue
<1>5. QED
  BY <1>1, <1>2, <1>3, <1>4

\* Where no lookup fails, the lookups and the label leave what the query selects.
LEMMA LookupsSelect ==
  ASSUME NEW S, NEW q \in Queries, q.fields # Bad, ~LookupFails(S, q)
  PROVE  {o \in Narrowed(S, q, Len(q.fields)) : q.label \in {0, o.label}}
           = {o \in S : Selects(q, o)}
<1>1. DOMAIN q.fields = 1..Len(q.fields)
  BY SelectorsAreParsed
<1>2. \A i \in DOMAIN q.fields : q.fields[i].exact
  BY DEF LookupFails
<1>3. ASSUME NEW o \in S
      PROVE  o \in Narrowed(S, q, Len(q.fields)) /\ q.label \in {0, o.label}
               <=> Selects(q, o)
  <2>1. (\A i \in 1..Len(q.fields) :
           IndexValue(o, q.fields[i].field) = q.fields[i].value)
        <=> \A i \in DOMAIN q.fields :
              (ServerValue(o, q.fields[i].field) = q.fields[i].value) <=> q.fields[i].exact
    BY <1>1, <1>2, IndexAgreesWithServer
  <2>2. QED
    BY <2>1 DEF Narrowed, Selects
<1>4. Narrowed(S, q, Len(q.fields)) \subseteq S
  BY DEF Narrowed
<1>5. QED
  BY <1>3, <1>4

\* What the API server can select on has an index, or is on the list of those that
\* have none.
LEMMA FieldsHaveIndexes ==
  ASSUME NEW k, NEW f \in ServerFields(k), <<k, f>> \notin WithoutIndex
  PROVE  f \in IndexedFields(k)
<1> USE DEF ServerFields, IndexedFields, WithoutIndex
<1>1. CASE f \in MetaFields
  BY <1>1, Zenon
<1>2. CASE f \notin MetaFields /\ k \in {"Pod", "Event", "ReplicaSet"}
  <2>1. CASE k = "Pod"
    BY <1>2, <2>1
  <2>2. CASE k = "Event"
    BY <1>2, <2>2
  <2>3. CASE k = "ReplicaSet"
    BY <1>2, <2>3
  <2>4. QED
    BY <1>2, <2>1, <2>2, <2>3
<1>3. CASE f \notin MetaFields /\ k \in {"EventsEvent", "ReplicationController", "Namespace",
                "Node", "Job", "Service", "Secret", "CertificateSigningRequest"}
  <2>1. CASE k = "EventsEvent"
    BY <1>3, <2>1
  <2>2. CASE k = "ReplicationController"
    BY <1>3, <2>2
  <2>3. CASE k = "Namespace"
    BY <1>3, <2>3
  <2>4. CASE k = "Node"
    BY <1>3, <2>4
  <2>5. CASE k = "Job"
    BY <1>3, <2>5
  <2>6. CASE k = "Service"
    BY <1>3, <2>6
  <2>7. CASE k = "Secret"
    BY <1>3, <2>7
  <2>8. CASE k = "CertificateSigningRequest"
    BY <1>3, <2>8
  <2>9. QED
    BY <1>3, <2>1, <2>2, <2>3, <2>4, <2>5, <2>6, <2>7, <2>8
<1>4. CASE f \notin MetaFields
           /\ k \notin {"Pod", "Event", "ReplicaSet", "EventsEvent", "ReplicationController",
                "Namespace", "Node", "Job", "Service", "Secret", "CertificateSigningRequest"}
  BY <1>4
<1>5. QED
  BY <1>1, <1>2, <1>3, <1>4, Zenon

\* A list that succeeds lists what the query selects.
LEMMA ListIsRight ==
  ASSUME NEW S, S \subseteq Universe, KeysDiffer(S), IsFiniteSet(S),
         NEW q \in Queries, q.fields # Bad, List(S, q).code = 200
  PROVE  /\ Lists(List(S, q).items, {o \in S : Selects(q, o)})
         /\ {List(S, q).items[i] : i \in DOMAIN List(S, q).items}
              = {o \in S : Selects(q, o)}
<1> DEFINE T == {o \in S : Selects(q, o)}
<1>1. ~LookupFails(S, q)
  BY DEF List
<1>2. List(S, q).items = Sorted(T)
  <2> DEFINE found == {o \in Narrowed(S, q, Len(q.fields)) : q.label \in {0, o.label}}
  <2>1. List(S, q) = [code |-> 200, items |-> Sorted(found)]
    BY <1>1 DEF List
  <2>2. found = T
    BY <1>1, LookupsSelect
  <2> HIDE DEF found, T
  <2>3. QED
    BY <2>1, <2>2
<1>3. IsFiniteSet(T)
  BY FS_Subset
<1>4. T \subseteq Universe /\ KeysDiffer(T)
  BY DEF KeysDiffer
<1> HIDE DEF T
<1>5. Lists(Sorted(T), T) /\ {Sorted(T)[i] : i \in DOMAIN Sorted(T)} = T
  BY <1>3, <1>4, SortedIsTheList
<1>6. QED
  BY <1>2, <1>5 DEF T

\* Only Read answers with 200, and it answers with what List returns.
LEMMA ListMatchesNext ==
  Inv /\ ListMatchesServer /\ [Next]_vars => ListMatchesServer'
<1> SUFFICES ASSUME Inv, ListMatchesServer, [Next]_vars,
                    answer'.code = 200, query'.verb = "list"
             PROVE  LET items == answer'.items
                    IN /\ {items[i] : i \in DOMAIN items}
                             = {o \in snapshot' : Selects(query', o)}
                       /\ \A i \in 1..Len(items) - 1 :
                            \/ items[i].ns < items[i + 1].ns
                            \/ /\ items[i].ns = items[i + 1].ns
                               /\ items[i].name < items[i + 1].name
  BY DEF ListMatchesServer
<1>1. CASE UNCHANGED <<query, answer, snapshot>>
  BY <1>1 DEF ListMatchesServer
<1>2. CASE Read
  <2> DEFINE items == answer'.items
             T     == {o \in snapshot' : Selects(query', o)}
  <2>1. /\ query' = query /\ snapshot' = store
        /\ query.verb = "list" /\ Refusal(query) = 0
        /\ answer' = [code |-> List(store, query).code, items |-> List(store, query).items]
    BY <1>2 DEF Read, Answers
  <2>2. query.fields # Bad
    BY <2>1, RefusalCode
  <2>3. /\ store \subseteq Universe /\ KeysDiffer(store) /\ IsFiniteSet(store)
        /\ query \in Queries
    BY DEF Inv, TypeOK, StoreIsFinite, KeysDiffer
  <2>4. Lists(items, T) /\ {items[i] : i \in DOMAIN items} = T
    <3>1. /\ items = List(store, query).items /\ List(store, query).code = 200
          /\ T = {o \in store : Selects(query, o)}
      BY <2>1
    <3> HIDE DEF items, T
    <3>2. QED
      BY <2>2, <2>3, <3>1, ListIsRight
  <2>5. IsFiniteSet(T)
    BY <2>1, <2>3, FS_Subset
  <2>6. Cardinality(T) \in Nat
    BY <2>5, FS_CardinalityType
  <2> HIDE DEF items, T
  <2>7. Len(items) = Cardinality(T)
    BY <2>4, <2>6 DEF Lists
  <2>8. ASSUME NEW i \in 1..Len(items) - 1
        PROVE  Before(items[i], items[i + 1])
    <3>1. i \in 1..Cardinality(T) /\ i + 1 \in 1..Cardinality(T) /\ i < i + 1
      BY <2>6, <2>7
    <3>2. QED
      BY <2>4, <3>1 DEF Lists
  <2>9. QED
    BY <2>4, <2>8 DEF items, T, Before
<1>3. CASE Filter
  BY <1>1, <1>3 DEF Filter, Goes, Answers
<1>4. CASE Refuse
  BY <1>4, RefusalCode DEF Refuse, Answers
<1>5. CASE Route \/ Passthrough \/ Change
  BY <1>1, <1>5 DEF Route, Passthrough, Change, Goes
<1>6. QED
  BY <1>1, <1>2, <1>3, <1>4, <1>5 DEF Next, vars

\* Indexes, namespaces and selectors leave exactly the objects that the API server
\* would list, once each and in order.
THEOREM ListsMatch == Spec => []ListMatchesServer
<1>1. Init => ListMatchesServer
  BY DEF Init, ListMatchesServer, NoAnswer
<1>2. QED
  BY <1>1, ListMatchesNext, Invariance, PTL DEF Spec

\* Taking a list away from the API server costs no answer, but for inexact selectors
\* and those on the fields without an index.
THEOREM SelectorsKept == Spec => []NoSelectorIsLost
<1>1. Inv => NoSelectorIsLost
  <2> SUFFICES ASSUME Inv, pc = "answered", query \notin Rejected,
                      query.verb = "list", query.kind \in Kinds, Sound(query),
                      \A i \in DOMAIN query.fields :
                        /\ query.fields[i].exact
                        /\ <<query.kind, query.fields[i].field>> \notin WithoutIndex,
                      answer.code # 200
               PROVE  FALSE
    BY DEF NoSelectorIsLost
  <2>1. ~LookupFails(snapshot, query)
    BY FieldsHaveIndexes DEF Sound, LookupFails
  <2>2. IsCached(query) => Refusal(query) = 0
    BY DEF Sound, IsCached, Refusal, ParseFails
  <2>3. answer.code # 0
    BY DEF Inv, TypeOK
  <2>4. QED
    BY <2>1, <2>2, <2>3 DEF Inv, FailsByLookup
<1>2. QED
  BY <1>1, Invariance, PTL
-----------------------------------------------------------------------------
(* Gets                                                                     *)

\* Has(S, q): the object that the query names is in S.
Has(S, q) == \E o \in S : o.ns = q.ns /\ o.name = q.name

\* A get from the cache finds the object that it names if and only if the store has
\* it when it is read, and returns that object alone.
GetIsExact ==
  answer.code \in {200, 404} /\ query.verb = "get" /\ query.kind \in Kinds =>
    IF answer.code = 200
    THEN \E o \in snapshot : /\ o.ns = query.ns /\ o.name = query.name
                             /\ answer.items = <<o>>
    ELSE ~Has(snapshot, query)

\* The sequence of a set with one element.
LEMMA SequenceOfOne ==
  ASSUME NEW o
  PROVE  SetToSeq({o}) = <<o>>
<1> DEFINE F == {f \in [1..1 -> {o}] : IsInjective(f)}
<1>1. Cardinality({o}) = 1
  BY FS_Singleton
<1>2. \A f \in [1..1 -> {o}] : f = <<o>>
  OBVIOUS
<1>3. <<o>> \in [1..1 -> {o}] /\ IsInjective(<<o>>)
  BY DEF IsInjective
<1>4. SetToSeq({o}) = CHOOSE f \in [1..1 -> {o}] : IsInjective(f)
  BY <1>1 DEF SetToSeq
<1>5. QED
  BY <1>2, <1>3, <1>4

\* What Get finds.
LEMMA GetIsRight ==
  ASSUME NEW S, KeysDiffer(S), NEW q
  PROVE  /\ Get(S, q).code = 200 =>
              \E o \in S : o.ns = q.ns /\ o.name = q.name /\ Get(S, q).items = <<o>>
         /\ Get(S, q).code = 404 => ~Has(S, q)
<1> DEFINE found == {o \in S : o.ns = q.ns /\ o.name = q.name}
<1>1. CASE found = {}
  BY <1>1 DEF Get, Has
<1>2. CASE found # {}
  <2>1. PICK o \in S : o.ns = q.ns /\ o.name = q.name
    BY <1>2
  <2>2. \A p \in found : p = o
    BY <2>1 DEF KeysDiffer, Key
  <2>3. found = {o}
    BY <2>1, <2>2
  <2>4. Get(S, q) = [code |-> 200, items |-> SetToSeq(found)]
    BY <1>2 DEF Get
  <2> HIDE DEF found
  <2>5. Get(S, q) = [code |-> 200, items |-> <<o>>]
    BY <2>3, <2>4, SequenceOfOne
  <2>6. QED
    BY <2>1, <2>5
<1>3. QED
  BY <1>1, <1>2

\* No early return says 404 of a kind that the RESTMapper knows.
LEMMA KnownIsNotMissing ==
  ASSUME NEW q, q.kind \in Kinds
  PROVE  Refusal(q) \notin {200, 404}
<1> DEFINE NoPart     == q.sub \notin {"", "status"}
           NoVerb     == q.verb \notin {"get", "list"}
           BadOptions == q.verb = "list" /\ (q.label = Bad \/ q.fields = Bad)
<1>1. Refusal(q) = IF NoPart THEN 405 ELSE IF NoVerb THEN 405
                   ELSE IF ParseFails(q) THEN 500 ELSE IF BadOptions THEN 400 ELSE 0
  BY DEF Refusal
<1> HIDE DEF NoPart, NoVerb, BadOptions
<1>2. QED
  BY <1>1

\* A get answers with the object that it names, or 404 if there is none.
THEOREM GetsFindTheOne == Spec => []GetIsExact
<1>1. Init => GetIsExact
  BY DEF Init, GetIsExact, NoAnswer
<1>2. Inv /\ GetIsExact /\ [Next]_vars => GetIsExact'
  <2> SUFFICES ASSUME Inv, GetIsExact, [Next]_vars
               PROVE  GetIsExact'
    OBVIOUS
  <2>1. CASE UNCHANGED <<query, answer, snapshot>>
    BY <2>1 DEF GetIsExact, Has
  <2>2. CASE Read
    <3>1. KeysDiffer(store)
      BY DEF Inv, TypeOK, KeysDiffer
    <3>2. CASE query.verb = "get"
      <4>1. /\ query' = query /\ snapshot' = store
            /\ answer' = [code |-> Get(store, query).code, items |-> Get(store, query).items]
        BY <2>2, <3>2 DEF Read, Answers
      <4>2. QED
        BY <3>1, <4>1, GetIsRight DEF GetIsExact
    <3>3. CASE query.verb # "get"
      BY <2>2, <3>3 DEF Read, Answers, GetIsExact
    <3>4. QED
      BY <3>2, <3>3
  <2>3. CASE Filter
    BY <2>1, <2>3 DEF Filter, Goes, Answers, GetIsExact
  <2>4. CASE Refuse
    <3>1. query.kind \in Kinds => Refusal(query) \notin {200, 404}
      BY KnownIsNotMissing
    <3>2. QED
      BY <2>4, <3>1 DEF Refuse, Answers, GetIsExact
  <2>5. CASE Route \/ Passthrough \/ Change
    BY <2>1, <2>5 DEF Route, Passthrough, Change, Goes
  <2>6. QED
    BY <2>1, <2>2, <2>3, <2>4, <2>5 DEF Next, vars
<1>3. QED
  BY <1>1, <1>2, Invariance, PTL DEF Spec
=============================================================================
