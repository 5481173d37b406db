---------------------------- MODULE InformerCache ----------------------------
(***************************************************************************)
(* CacheProxyHandler (pkg/proxy/cache_handler.go): how the HTTP requests   *)
(* that are answered from the cache start the informer of the resource     *)
(* they ask for, once, under startedInformersLock, and read from it.       *)
(*                                                                         *)
(* The cache is controller-runtime's.  What it does is modelled as far as  *)
(* the handler can see it: IndexField creates the informer of a kind and   *)
(* refuses an index that is there already; GetInformer and Get wait for    *)
(* the informer to sync when the cache runs, and give up when the request  *)
(* is cancelled; Get fails when the cache does not run yet.                *)
(***************************************************************************)
CONSTANTS
  Requests,   \* HTTP requests for which IsCached holds
  Resources,  \* group, version and resource
  Kinds,      \* group, version and kind
  KindFor,    \* what the RESTMapper makes of a resource
  Asks,       \* what the requests may ask for together
  None        \* no request

ASSUME KindForAssumption == KindFor \in [Resources -> Kinds]
ASSUME AsksAssumption == Asks \subseteq [Requests -> Resources]
ASSUME NoneAssumption == None \notin Requests

VARIABLES
  resource,   \* resource[r]: what request r asks for
  pc,         \* pc[r]: where the handling of r is
  cancelled,  \* cancelled[r]: the context of r is done, its client is gone
  writer,     \* the request that holds startedInformersLock for writing
  startedInformers,  \* the resources for which the handler started an informer
  indexed,    \* the kinds that have their informer and all its field indexes
  synced,     \* the kinds whose informer has synced
  running     \* cache.Start has started the informers

cacheVars == <<indexed, synced, running>>
vars == <<resource, pc, cancelled, writer, startedInformers, cacheVars>>

Unlocked  == {"handle", "check", "lock", "read", "readWait"}
Locked    == {"index", "informer", "wait"}
Answered  == {"served", "notFound", "lookupFailed", "conflict", "aborted",
              "notStarted", "readAborted"}

\* The kind of the objects that r asks for.
KindOf(r) == KindFor[resource[r]]

Init ==
  /\ resource \in Asks
  /\ pc = [r \in Requests |-> "handle"]
  /\ cancelled = [r \in Requests |-> FALSE]
  /\ writer = None
  /\ startedInformers = {}
  /\ indexed = {}
  /\ synced = {}
  /\ running = FALSE

Goes(r, from, to) ==
  /\ pc[r] = from
  /\ pc' = [pc EXCEPT ![r] = to]
  /\ UNCHANGED <<resource, cancelled>>

-----------------------------------------------------------------------------
(* Handle and ensureInformer                                                *)

\* Handle: the request is resolved and its kind is found.
Resolve(r) ==
  /\ Goes(r, "handle", "check")
  /\ UNCHANGED <<writer, startedInformers, cacheVars>>

\* A lookup at the RESTMapper fails.
LookupFails == UNCHANGED <<startedInformers, cacheVars>>

\* Handle: no kind for the resource.
NotFound(r) ==
  /\ Goes(r, "handle", "notFound")
  /\ LookupFails
  /\ UNCHANGED writer

\* ensureInformer: under the read lock.  A reader does nothing but look, so
\* that taking and releasing the lock is one step.
CheckStarted(r) ==
  /\ writer = None
  /\ Goes(r, "check", IF resource[r] \in startedInformers THEN "read" ELSE "lock")
  /\ UNCHANGED <<writer, startedInformers, cacheVars>>

\* Mutant: no second look at startedInformers under the write lock.
LockNoRecheck(r) ==
  /\ writer = None
  /\ Goes(r, "lock", "index")
  /\ writer' = r
  /\ UNCHANGED <<startedInformers, cacheVars>>

\* ensureInformer: take the write lock and look again; return if another
\* request has started the informer in between.
LockAndRecheck(r) ==
  /\ writer = None
  /\ \/ /\ resource[r] \in startedInformers
        /\ Goes(r, "lock", "read")
        /\ UNCHANGED writer
     \/ /\ resource[r] \notin startedInformers
        /\ Goes(r, "lock", "index")
        /\ writer' = r
  /\ UNCHANGED <<startedInformers, cacheVars>>

\* The deferred Unlock runs when ensureInformer returns.
Return(r, from, to) ==
  /\ Goes(r, from, to)
  /\ writer' = None

\* Mutant: the resource is recorded before its lookups succeeded.
EnsureLookupRecorded(r) ==
  /\ Return(r, "index", "lookupFailed")
  /\ startedInformers' = startedInformers \cup {resource[r]}
  /\ UNCHANGED cacheVars

\* ensureInformer: KindFor fails, or the first IndexField does because it
\* cannot map the kind; nothing was registered.
EnsureLookupFails(r) == Return(r, "index", "lookupFailed") /\ LookupFails

\* IndexFieldsForObject: the first index it adds, metadata.name, is there if
\* and only if all are.
IndexFields(r) ==
  /\ KindOf(r) \notin indexed
  /\ Goes(r, "index", "informer")
  /\ indexed' = indexed \cup {KindOf(r)}
  /\ UNCHANGED <<writer, startedInformers, synced, running>>

\* IndexFieldsForObject: IndexField fails with an indexer conflict.
IndexConflict(r) ==
  /\ KindOf(r) \in indexed
  /\ Return(r, "index", "conflict")
  /\ UNCHANGED <<startedInformers, cacheVars>>

\* ensureInformer: record the resource and return.
RecordStarted(r, from) ==
  /\ Return(r, from, "read")
  /\ startedInformers' = startedInformers \cup {resource[r]}
  /\ UNCHANGED cacheVars

\* GetInformer(BlockUntilSynced): does not wait for a cache that is not
\* running, nor for an informer that has synced.
GetInformer(r) ==
  \/ /\ ~running \/ KindOf(r) \in synced
     /\ RecordStarted(r, "informer")
  \/ /\ running /\ KindOf(r) \notin synced
     /\ Goes(r, "informer", "wait")
     /\ UNCHANGED <<writer, startedInformers, cacheVars>>

InformerSynced(r) == KindOf(r) \in synced /\ RecordStarted(r, "wait")

\* Mutant: the lock is not released on this path.
SyncAbortedLocked(r) ==
  /\ cancelled[r]
  /\ Goes(r, "wait", "aborted")
  /\ UNCHANGED <<writer, startedInformers, cacheVars>>

\* GetInformer gives up waiting when the request is cancelled.
SyncAborted(r) ==
  /\ cancelled[r]
  /\ Return(r, "wait", "aborted")
  /\ UNCHANGED <<startedInformers, cacheVars>>

-----------------------------------------------------------------------------
(* HandleGet, HandleList                                                    *)

Reads(r, from, to) ==
  /\ Goes(r, from, to)
  /\ UNCHANGED <<writer, startedInformers, cacheVars>>

\* cache.Get and cache.List: read from the informer of the kind.
ReadCache(r) ==
  \/ ~running /\ Reads(r, "read", "notStarted")
  \/ running /\ KindOf(r) \in synced /\ Reads(r, "read", "served")
  \/ running /\ KindOf(r) \notin synced /\ Reads(r, "read", "readWait")

ReadSynced(r) == KindOf(r) \in synced /\ Reads(r, "readWait", "served")
ReadAborted(r) == cancelled[r] /\ Reads(r, "readWait", "readAborted")

Handle(r) ==
  \/ Resolve(r)
  \/ CheckStarted(r) \/ LockAndRecheck(r)
  \/ IndexFields(r) \/ IndexConflict(r)
  \/ GetInformer(r) \/ InformerSynced(r) \/ SyncAborted(r)
  \/ ReadCache(r) \/ ReadSynced(r) \/ ReadAborted(r)

-----------------------------------------------------------------------------
(* The cache and the clients                                                *)

\* NewCacheProxyHandler starts the cache in a goroutine of its own.
StartCache ==
  /\ ~running
  /\ running' = TRUE
  /\ UNCHANGED <<resource, pc, cancelled, writer, startedInformers, indexed, synced>>

\* The first list of an informer is complete.
Sync(k) ==
  /\ running /\ k \in indexed
  /\ synced' = synced \cup {k}
  /\ UNCHANGED <<resource, pc, cancelled, writer, startedInformers, indexed, running>>

\* The client of r closes its connection.
Cancel(r) ==
  /\ pc[r] \notin Answered
  /\ cancelled' = [cancelled EXCEPT ![r] = TRUE]
  /\ UNCHANGED <<resource, pc, writer, startedInformers, cacheVars>>

Next ==
  \/ \E r \in Requests : Handle(r) \/ NotFound(r) \/ EnsureLookupFails(r) \/ Cancel(r)
  \/ StartCache
  \/ \E k \in Kinds : Sync(k)

Spec == Init /\ [][Next]_vars

\* Every goroutine runs on.  The lock is fair enough: requests are finitely
\* many and each takes it once.  No informer need ever sync, but no client
\* waits for ever either.
Fairness ==
  /\ \A r \in Requests : WF_vars(Handle(r)) /\ WF_vars(Cancel(r))
  /\ WF_vars(StartCache)

FairSpec == Spec /\ Fairness

-----------------------------------------------------------------------------
(* Properties                                                               *)

\* Types, and the write lock is held by the request that is inside it.
TypeOK ==
  /\ resource \in [Requests -> Resources]
  /\ pc \in [Requests -> Unlocked \cup Locked \cup Answered]
  /\ cancelled \in [Requests -> BOOLEAN]
  /\ writer \in Requests \cup {None}
  /\ startedInformers \subseteq Resources
  /\ indexed \subseteq Kinds
  /\ synced \subseteq indexed
  /\ running \in BOOLEAN
  /\ \A r \in Requests : pc[r] \in Locked <=> writer = r

\* A request reads only when all field indexes of its kind are registered: the
\* fast path never overtakes the request that is still registering them, so
\* that a list with a field selector finds its index.
ReadsAreIndexed ==
  \A r \in Requests :
    pc[r] \in {"read", "readWait", "served"} => KindOf(r) \in indexed

\* Requests that come for the same resource at the same time register its
\* indexes once: a conflict needs an earlier request that was cancelled while
\* it waited for the sync, or another resource of the same kind.
ConflictNeedsAbort ==
  \A r \in Requests : pc[r] = "conflict" =>
    \/ \E q \in Requests : KindOf(q) = KindOf(r) /\ pc[q] = "aborted"
    \/ \E g \in startedInformers : g # resource[r] /\ KindFor[g] = KindOf(r)

\* Every request is answered or ends with its client, even if an informer never
\* syncs: a request that gives up waiting for it lets the others go on.
EveryRequestEnds == \A r \in Requests : pc[r] = "handle" ~> pc[r] \in Answered

-----------------------------------------------------------------------------
(* What the handler promises                                                *)

\* The resources that fail with an indexer conflict: the indexes of the kind are
\* there, the resource is not recorded, and nobody is about to record it.
Spoiled ==
  {g \in Resources :
     /\ KindFor[g] \in indexed
     /\ g \notin startedInformers
     /\ ~ \E r \in Requests : pc[r] \in {"informer", "wait"} /\ resource[r] = g}

\* What the client of a request sees of where it is.
Seen(at) ==
  CASE at = "served" -> "data"
    [] at \in {"notFound", "lookupFailed"} -> "noKind"
    [] at \in Answered \ {"served", "notFound", "lookupFailed"} -> "error"
    [] OTHER -> "none"

Service == INSTANCE CacheService WITH
  want <- resource,
  gone <- cancelled,
  answer <- [r \in Requests |-> Seen(pc[r])],
  complete <- synced,
  spoiled <- Spoiled

\* The handler, its lock and its informers implement the abstract service: the
\* answers it gives are complete, and its errors have one of the three excuses.
ImplementsService == Service!Spec

-----------------------------------------------------------------------------
(* What a comment says, and the code does not do                            *)

\* ensureInformer makes sure that the informer of the resource is ready: it does
\* not fail for a request that could wait and whose lookups succeed.
EnsureSucceeds == \A r \in Requests : pc[r] # "conflict"
=============================================================================
