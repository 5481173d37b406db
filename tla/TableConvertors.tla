--------------------------- MODULE TableConvertors ---------------------------
(***************************************************************************)
(* The last stretch of a cached request: CacheProxyHandler.Handle turns    *)
(* the objects into a table when the client wants one, with the table      *)
(* convertors of pkg/proxy/table_convertor.go.  The ones of custom         *)
(* resources are made from the printer columns of their CRD and are kept   *)
(* in a map under an RWMutex; the lookup of the CRD is done outside the    *)
(* lock, in the store of an informer that nobody waits for.                *)
(*                                                                         *)
(* Printer columns are known by the number of the edit of the CRD that     *)
(* brought them; 0 stands for no columns, and for no CRD.                  *)
(***************************************************************************)
EXTENDS Naturals

CONSTANTS
  Requests,     \* cached requests that have their objects
  Types,        \* group, version and kind of the objects: Foo, and also FooList
  Builtin,      \* the types whose group is one of Kubernetes' own
  Convertible,  \* those of them that convert to an internal version
  Crds,         \* custom resource definitions
  CrdOf,        \* the CRD that has a type as its kind or its list kind
  None,         \* no request
  MaxEdits      \* bound on the changes of CRDs

ASSUME TypesAssumption ==
  /\ Builtin \subseteq Types
  /\ Convertible \subseteq Builtin
  /\ CrdOf \in [Types \ Builtin -> Crds]
ASSUME NoneAssumption == None \notin Requests
ASSUME EditsAssumption == MaxEdits \in Nat

VARIABLES
  edits,      \* changes of CRDs so far, at most MaxEdits
  crd,        \* crd[d]: the columns of d in the cluster
  listed,     \* listed[d]: the columns of d in the store of the CRD informer
  cache,      \* cache[t]: the columns of the convertor that is cached for t
  writer,     \* the request that holds the lock for writing
  type,       \* type[r]: the type of the objects of r
  pc,         \* pc[r]: where the handling of r is
  columns,    \* columns[r]: the columns of the convertor that r has found
  promised    \* promised[r]: when r came, another one had got a table for its type

crdVars == <<edits, crd, listed>>
vars == <<crdVars, cache, writer, type, pc, columns, promised>>

Columns  == 0..MaxEdits
Answered == {"json", "table", "fallback"}

Init ==
  /\ edits = 0
  /\ crd = [d \in Crds |-> 0]
  /\ listed = [d \in Crds |-> 0]
  /\ cache = [t \in Types |-> 0]
  /\ writer = None
  /\ type \in [Requests -> Types]
  /\ pc = [r \in Requests |-> "handle"]
  /\ columns = [r \in Requests |-> 0]
  /\ promised = [r \in Requests |-> FALSE]

-----------------------------------------------------------------------------
(* Handle, AggregateTableConvertor, TableConvertorGetters                   *)

Goes(r, from, to) ==
  /\ pc[r] = from
  /\ pc' = [pc EXCEPT ![r] = to]
  /\ UNCHANGED <<crdVars, type>>

\* The client does not accept a table.
AnswerJson(r) ==
  /\ Goes(r, "handle", "json")
  /\ UNCHANGED <<cache, writer, columns, promised>>

\* The first getter has a convertor for every type of a built-in group, and the
\* second one is not asked any more when that convertor fails.
ConvertBuiltin(r) ==
  /\ type[r] \in Builtin
  /\ \/ type[r] \in Convertible /\ Goes(r, "handle", "table")
     \/ type[r] \notin Convertible /\ Goes(r, "handle", "fallback")
  /\ UNCHANGED <<cache, writer, columns, promised>>

\* The second getter takes the read lock.
LockForReading(r) ==
  /\ type[r] \notin Builtin
  /\ writer = None
  /\ Goes(r, "handle", "check")
  /\ promised' = [promised EXCEPT ![r] =
                    \E q \in Requests : type[q] = type[r] /\ pc[q] = "table"]
  /\ UNCHANGED <<cache, writer, columns>>

-----------------------------------------------------------------------------
(* cachedTableConvertorGetter, crdTableConvertorGetter                      *)

\* Mutant: the map is not looked at.
CheckNothing(r) ==
  /\ Goes(r, "check", "lookup")
  /\ UNCHANGED <<cache, writer, columns, promised>>

\* The cached convertor, or none; the read lock is released in either case.
CheckCache(r) ==
  /\ Goes(r, "check", IF cache[type[r]] # 0 THEN "table" ELSE "lookup")
  /\ columns' = [columns EXCEPT ![r] = cache[type[r]]]
  /\ UNCHANGED <<cache, writer, promised>>

\* The columns of the CRD behind the type of r, as far as the informer knows.
Found(r) == listed[CrdOf[type[r]]]

\* Mutant: a lookup that fails also forgets what is cached.
LookupForgets(r) ==
  /\ Goes(r, "lookup", IF Found(r) = 0 THEN "fallback" ELSE "lock")
  /\ columns' = [columns EXCEPT ![r] = Found(r)]
  /\ cache' = IF Found(r) = 0 THEN [cache EXCEPT ![type[r]] = 0] ELSE cache
  /\ UNCHANGED <<writer, promised>>

\* A convertor is made, if the informer has the CRD by now.  If there is none,
\* Handle answers with the objects themselves.
Lookup(r) ==
  /\ Goes(r, "lookup", IF Found(r) = 0 THEN "fallback" ELSE "lock")
  /\ columns' = [columns EXCEPT ![r] = Found(r)]
  /\ UNCHANGED <<cache, writer, promised>>

\* Mutant: a read lock to write under.
LockShared(r) ==
  /\ writer = None
  /\ Goes(r, "lock", "store")
  /\ writer' = r
  /\ UNCHANGED <<cache, columns, promised>>

LockForWriting(r) ==
  /\ writer = None
  /\ \A q \in Requests : pc[q] # "check"
  /\ Goes(r, "lock", "store")
  /\ writer' = r
  /\ UNCHANGED <<cache, columns, promised>>

\* Mutant: the lock is never released.
StoreLocked(r) ==
  /\ Goes(r, "store", "table")
  /\ cache' = [cache EXCEPT ![type[r]] = columns[r]]
  /\ UNCHANGED <<writer, columns, promised>>

\* The map is updated, whatever another request has stored in the meantime, and
\* the deferred Unlock runs.
Store(r) ==
  /\ Goes(r, "store", "table")
  /\ cache' = [cache EXCEPT ![type[r]] = columns[r]]
  /\ writer' = None
  /\ UNCHANGED <<columns, promised>>

Handle(r) ==
  \/ AnswerJson(r) \/ ConvertBuiltin(r) \/ LockForReading(r)
  \/ CheckCache(r) \/ Lookup(r) \/ LockForWriting(r) \/ Store(r)

-----------------------------------------------------------------------------
(* The cluster and the CRD informer                                         *)

Edit(d, to) ==
  /\ edits < MaxEdits
  /\ edits' = edits + 1
  /\ crd' = [crd EXCEPT ![d] = to]
  /\ UNCHANGED <<listed, cache, writer, type, pc, columns, promised>>

\* A CRD is created, or its columns are changed.
Apply(d) == Edit(d, edits + 1)

Delete(d) == crd[d] # 0 /\ Edit(d, 0)

\* The informer lists the CRDs, or hears of a change, at some time.
Watch(d) ==
  /\ listed[d] # crd[d]
  /\ listed' = [listed EXCEPT ![d] = crd[d]]
  /\ UNCHANGED <<edits, crd, cache, writer, type, pc, columns, promised>>

Next ==
  \/ \E r \in Requests : Handle(r)
  \/ \E d \in Crds : Apply(d) \/ Delete(d) \/ Watch(d)

Spec == Init /\ [][Next]_vars

\* The goroutine of every request runs on.  Nobody need ever change a CRD, and
\* the informer need not connect.
FairSpec == Spec /\ \A r \in Requests : WF_vars(Handle(r))

-----------------------------------------------------------------------------
(* Properties                                                               *)

\* Types, and the lock: the map is written by one request at a time, and while
\* no other request reads it.
TypeOK ==
  /\ edits \in Columns
  /\ crd \in [Crds -> Columns]
  /\ listed \in [Crds -> Columns]
  /\ cache \in [Types -> Columns]
  /\ writer \in Requests \cup {None}
  /\ type \in [Requests -> Types]
  /\ pc \in [Requests -> {"handle", "check", "lookup", "lock", "store"} \cup Answered]
  /\ columns \in [Requests -> Columns]
  /\ promised \in [Requests -> BOOLEAN]
  /\ \A r \in Requests : pc[r] = "store" <=> writer = r
  /\ writer # None => \A r \in Requests : pc[r] # "check"

\* Once a request for a custom resource was answered with a table, every later
\* one for the same type is, although the CRD may be gone from the cluster or
\* from the informer: no lookup that fails undoes the cached one.
TablesStay ==
  \A r \in Requests :
    pc[r] = "fallback" /\ type[r] \notin Builtin => ~promised[r]

\* The price of it: only requests that came before the first table was answered
\* change the cached columns of a type.  They may bring older ones over newer
\* ones; after them the columns are frozen, and later edits are not seen.
FrozenOnceAnswered ==
  [][\A t \in Types : cache'[t] # cache[t] =>
       \E r \in Requests : type[r] = t /\ pc[r] = "store" /\ ~promised[r]]_vars

\* No request hangs in the lock or waits for the CRD informer.
EveryRequestAnswered == \A r \in Requests : pc[r] = "handle" ~> pc[r] \in Answered
=============================================================================
