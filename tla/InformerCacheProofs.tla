------------------------- MODULE InformerCacheProofs -------------------------
(***************************************************************************)
(* Proofs about InformerCache, for any number of requests, resources and   *)
(* kinds: its invariants, and that the handler implements CacheService.    *)
(*                                                                         *)
(* The inductive invariant Inv adds to the type invariant, which says that *)
(* one request at a time is inside the lock, what that request may find    *)
(* there: its resource is not recorded yet, and the indexes of its kind    *)
(* are registered as soon as it is past them.                              *)
(***************************************************************************)
EXTENDS InformerCache, TLAPS

\* What the request inside the lock knows of its resource.
LockedKnows ==
  \A r \in Requests :
    /\ pc[r] \in Locked => resource[r] \notin startedInformers
    /\ pc[r] \in {"informer", "wait"} => KindOf(r) \in indexed

\* What is recorded has its indexes.
RecordedAreIndexed == \A g \in startedInformers : KindFor[g] \in indexed

\* Only kinds of resources have an informer.
IndexedHaveResource == indexed \subseteq {KindFor[g] : g \in Resources}

\* Somebody is to blame for the indexes of a kind: a request that is about to
\* record its resource, one that gave up, or a resource that is recorded.
IndexedHaveCause ==
  \A k \in indexed :
    \/ \E r \in Requests : KindOf(r) = k /\ pc[r] \in {"informer", "wait", "aborted"}
    \/ \E g \in startedInformers : KindFor[g] = k

\* The inductive invariant.
Inv ==
  /\ TypeOK
  /\ LockedKnows
  /\ RecordedAreIndexed
  /\ IndexedHaveResource
  /\ IndexedHaveCause
  /\ ReadsAreIndexed
  /\ ConflictNeedsAbort

-----------------------------------------------------------------------------
(* The steps of Next, one conjunct at a time                                *)

\* Every step keeps the types, and who is inside the lock.
LEMMA TypeStep ==
  ASSUME TypeOK, [Next]_vars
  PROVE  TypeOK'
<1> USE KindForAssumption, NoneAssumption
<1> USE DEF TypeOK, vars, cacheVars, Unlocked, Locked, Answered, KindOf
<1>1. ASSUME NEW r \in Requests, Handle(r)
     PROVE  TypeOK'
  <2>1. CASE Resolve(r)
    BY <2>1 DEF Resolve, Goes
  <2>2. CASE CheckStarted(r)
    BY <2>2 DEF CheckStarted, Goes
  <2>3. CASE LockAndRecheck(r)
    BY <2>3 DEF LockAndRecheck, Goes
  <2>4. CASE IndexFields(r)
    BY <2>4 DEF IndexFields, Goes
  <2>5. CASE IndexConflict(r)
    BY <2>5 DEF IndexConflict, Return, Goes
  <2>6. CASE GetInformer(r)
    BY <2>6 DEF GetInformer, Goes, RecordStarted, Return
  <2>7. CASE InformerSynced(r)
    BY <2>7 DEF InformerSynced, RecordStarted, Return, Goes
  <2>8. CASE SyncAborted(r)
    BY <2>8 DEF SyncAborted, Return, Goes
  <2>9. CASE ReadCache(r)
    BY <2>9 DEF ReadCache, Reads, Goes
  <2>10. CASE ReadSynced(r)
    BY <2>10 DEF ReadSynced, Reads, Goes
  <2>11. CASE ReadAborted(r)
    BY <2>11 DEF ReadAborted, Reads, Goes
  <2>12. QED
    BY <1>1, <2>1, <2>2, <2>3, <2>4, <2>5, <2>6, <2>7, <2>8, <2>9, <2>10, <2>11 DEF Handle
<1>2. ASSUME NEW r \in Requests, NotFound(r)
     PROVE  TypeOK'
  BY <1>2 DEF NotFound, LookupFails, Goes
<1>3. ASSUME NEW r \in Requests, EnsureLookupFails(r)
     PROVE  TypeOK'
  BY <1>3 DEF EnsureLookupFails, LookupFails, Return, Goes
<1>4. ASSUME NEW r \in Requests, Cancel(r)
     PROVE  TypeOK'
  BY <1>4 DEF Cancel
<1>5. CASE StartCache
  BY <1>5 DEF StartCache
<1>6. ASSUME NEW k \in Kinds, Sync(k)
     PROVE  TypeOK'
  BY <1>6 DEF Sync
<1>7. CASE UNCHANGED vars
  BY <1>7
<1>8. QED
  BY <1>1, <1>2, <1>3, <1>4, <1>5, <1>6, <1>7 DEF Next

\* Every step keeps what the request inside the lock knows: nobody else records.
LEMMA LockedKnowsStep ==
  ASSUME TypeOK, LockedKnows, [Next]_vars
  PROVE  LockedKnows'
<1> USE KindForAssumption, NoneAssumption
<1> USE DEF TypeOK, vars, cacheVars, Unlocked, Locked, Answered, KindOf, LockedKnows
<1>1. ASSUME NEW r \in Requests, Handle(r)
     PROVE  LockedKnows'
  <2>1. CASE Resolve(r)
    BY <2>1 DEF Resolve, Goes
  <2>2. CASE CheckStarted(r)
    BY <2>2 DEF CheckStarted, Goes
  <2>3. CASE LockAndRecheck(r)
    BY <2>3 DEF LockAndRecheck, Goes
  <2>4. CASE IndexFields(r)
    BY <2>4 DEF IndexFields, Goes
  <2>5. CASE IndexConflict(r)
    BY <2>5 DEF IndexConflict, Return, Goes
  <2>6. CASE GetInformer(r)
    BY <2>6 DEF GetInformer, Goes, RecordStarted, Return
  <2>7. CASE InformerSynced(r)
    BY <2>7 DEF InformerSynced, RecordStarted, Return, Goes
  <2>8. CASE SyncAborted(r)
    BY <2>8 DEF SyncAborted, Return, Goes
  <2>9. CASE ReadCache(r)
    BY <2>9 DEF ReadCache, Reads, Goes
  <2>10. CASE ReadSynced(r)
    BY <2>10 DEF ReadSynced, Reads, Goes
  <2>11. CASE ReadAborted(r)
    BY <2>11 DEF ReadAborted, Reads, Goes
  <2>12. QED
    BY <1>1, <2>1, <2>2, <2>3, <2>4, <2>5, <2>6, <2>7, <2>8, <2>9, <2>10, <2>11 DEF Handle
<1>2. ASSUME NEW r \in Requests, NotFound(r)
     PROVE  LockedKnows'
  BY <1>2 DEF NotFound, LookupFails, Goes
<1>3. ASSUME NEW r \in Requests, EnsureLookupFails(r)
     PROVE  LockedKnows'
  BY <1>3 DEF EnsureLookupFails, LookupFails, Return, Goes
<1>4. ASSUME NEW r \in Requests, Cancel(r)
     PROVE  LockedKnows'
  BY <1>4 DEF Cancel
<1>5. CASE StartCache
  BY <1>5 DEF StartCache
<1>6. ASSUME NEW k \in Kinds, Sync(k)
     PROVE  LockedKnows'
  BY <1>6 DEF Sync
<1>7. CASE UNCHANGED vars
  BY <1>7
<1>8. QED
  BY <1>1, <1>2, <1>3, <1>4, <1>5, <1>6, <1>7 DEF Next

\* Every step keeps the indexes of what is recorded.
LEMMA RecordedStep ==
  ASSUME TypeOK, LockedKnows, RecordedAreIndexed, [Next]_vars
  PROVE  RecordedAreIndexed'
<1> USE KindForAssumption, NoneAssumption
<1> USE DEF TypeOK, vars, cacheVars, Unlocked, Locked, Answered, KindOf, LockedKnows, RecordedAreIndexed
<1>1. ASSUME NEW r \in Requests, Handle(r)
     PROVE  RecordedAreIndexed'
  <2>1. CASE Resolve(r)
    BY <2>1 DEF Resolve, Goes
  <2>2. CASE CheckStarted(r)
    BY <2>2 DEF CheckStarted, Goes
  <2>3. CASE LockAndRecheck(r)
    BY <2>3 DEF LockAndRecheck, Goes
  <2>4. CASE IndexFields(r)
    BY <2>4 DEF IndexFields, Goes
  <2>5. CASE IndexConflict(r)
    BY <2>5 DEF IndexConflict, Return, Goes
  <2>6. CASE GetInformer(r)
    BY <2>6 DEF GetInformer, Goes, RecordStarted, Return
  <2>7. CASE InformerSynced(r)
    BY <2>7 DEF InformerSynced, RecordStarted, Return, Goes
  <2>8. CASE SyncAborted(r)
    BY <2>8 DEF SyncAborted, Return, Goes
  <2>9. CASE ReadCache(r)
    BY <2>9 DEF ReadCache, Reads, Goes
  <2>10. CASE ReadSynced(r)
    BY <2>10 DEF ReadSynced, Reads, Goes
  <2>11. CASE ReadAborted(r)
    BY <2>11 DEF ReadAborted, Reads, Goes
  <2>12. QED
    BY <1>1, <2>1, <2>2, <2>3, <2>4, <2>5, <2>6, <2>7, <2>8, <2>9, <2>10, <2>11 DEF Handle
<1>2. ASSUME NEW r \in Requests, NotFound(r)
     PROVE  RecordedAreIndexed'
  BY <1>2 DEF NotFound, LookupFails, Goes
<1>3. ASSUME NEW r \in Requests, EnsureLookupFails(r)
     PROVE  RecordedAreIndexed'
  BY <1>3 DEF EnsureLookupFails, LookupFails, Return, Goes
<1>4. ASSUME NEW r \in Requests, Cancel(r)
     PROVE  RecordedAreIndexed'
  BY <1>4 DEF Cancel
<1>5. CASE StartCache
  BY <1>5 DEF StartCache
<1>6. ASSUME NEW k \in Kinds, Sync(k)
     PROVE  RecordedAreIndexed'
  BY <1>6 DEF Sync
<1>7. CASE UNCHANGED vars
  BY <1>7
<1>8. QED
  BY <1>1, <1>2, <1>3, <1>4, <1>5, <1>6, <1>7 DEF Next

\* Every step keeps that what is indexed is asked for under some name.
LEMMA ResourceStep ==
  ASSUME TypeOK, IndexedHaveResource, [Next]_vars
  PROVE  IndexedHaveResource'
<1> USE KindForAssumption, NoneAssumption
<1> USE DEF TypeOK, vars, cacheVars, Unlocked, Locked, Answered, KindOf, IndexedHaveResource
<1>1. ASSUME NEW r \in Requests, Handle(r)
     PROVE  IndexedHaveResource'
  <2>1. CASE Resolve(r)
    BY <2>1 DEF Resolve, Goes
  <2>2. CASE CheckStarted(r)
    BY <2>2 DEF CheckStarted, Goes
  <2>3. CASE LockAndRecheck(r)
    BY <2>3 DEF LockAndRecheck, Goes
  <2>4. CASE IndexFields(r)
    BY <2>4 DEF IndexFields, Goes
  <2>5. CASE IndexConflict(r)
    BY <2>5 DEF IndexConflict, Return, Goes
  <2>6. CASE GetInformer(r)
    BY <2>6 DEF GetInformer, Goes, RecordStarted, Return
  <2>7. CASE InformerSynced(r)
    BY <2>7 DEF InformerSynced, RecordStarted, Return, Goes
  <2>8. CASE SyncAborted(r)
    BY <2>8 DEF SyncAborted, Return, Goes
  <2>9. CASE ReadCache(r)
    BY <2>9 DEF ReadCache, Reads, Goes
  <2>10. CASE ReadSynced(r)
    BY <2>10 DEF ReadSynced, Reads, Goes
  <2>11. CASE ReadAborted(r)
    BY <2>11 DEF ReadAborted, Reads, Goes
  <2>12. QED
    BY <1>1, <2>1, <2>2, <2>3, <2>4, <2>5, <2>6, <2>7, <2>8, <2>9, <2>10, <2>11 DEF Handle
<1>2. ASSUME NEW r \in Requests, NotFound(r)
     PROVE  IndexedHaveResource'
  BY <1>2 DEF NotFound, LookupFails, Goes
<1>3. ASSUME NEW r \in Requests, EnsureLookupFails(r)
     PROVE  IndexedHaveResource'
  BY <1>3 DEF EnsureLookupFails, LookupFails, Return, Goes
<1>4. ASSUME NEW r \in Requests, Cancel(r)
     PROVE  IndexedHaveResource'
  BY <1>4 DEF Cancel
<1>5. CASE StartCache
  BY <1>5 DEF StartCache
<1>6. ASSUME NEW k \in Kinds, Sync(k)
     PROVE  IndexedHaveResource'
  BY <1>6 DEF Sync
<1>7. CASE UNCHANGED vars
  BY <1>7
<1>8. QED
  BY <1>1, <1>2, <1>3, <1>4, <1>5, <1>6, <1>7 DEF Next

\* Every step keeps who is to blame.
LEMMA CauseStep ==
  ASSUME TypeOK, IndexedHaveCause, [Next]_vars
  PROVE  IndexedHaveCause'
<1> USE KindForAssumption, NoneAssumption
<1> USE DEF TypeOK, vars, cacheVars, Unlocked, Locked, Answered, KindOf, IndexedHaveCause
<1>1. ASSUME NEW r \in Requests, Handle(r)
     PROVE  IndexedHaveCause'
  <2>1. CASE Resolve(r)
    BY <2>1 DEF Resolve, Goes
  <2>2. CASE CheckStarted(r)
    BY <2>2 DEF CheckStarted, Goes
  <2>3. CASE LockAndRecheck(r)
    BY <2>3 DEF LockAndRecheck, Goes
  <2>4. CASE IndexFields(r)
    BY <2>4 DEF IndexFields, Goes
  <2>5. CASE IndexConflict(r)
    BY <2>5 DEF IndexConflict, Return, Goes
  <2>6. CASE GetInformer(r)
    BY <2>6 DEF GetInformer, Goes, RecordStarted, Return
  <2>7. CASE InformerSynced(r)
    BY <2>7 DEF InformerSynced, RecordStarted, Return, Goes
  <2>8. CASE SyncAborted(r)
    BY <2>8 DEF SyncAborted, Return, Goes
  <2>9. CASE ReadCache(r)
    BY <2>9 DEF ReadCache, Reads, Goes
  <2>10. CASE ReadSynced(r)
    BY <2>10 DEF ReadSynced, Reads, Goes
  <2>11. CASE ReadAborted(r)
    BY <2>11 DEF ReadAborted, Reads, Goes
  <2>12. QED
    BY <1>1, <2>1, <2>2, <2>3, <2>4, <2>5, <2>6, <2>7, <2>8, <2>9, <2>10, <2>11 DEF Handle
<1>2. ASSUME NEW r \in Requests, NotFound(r)
     PROVE  IndexedHaveCause'
  BY <1>2 DEF NotFound, LookupFails, Goes
<1>3. ASSUME NEW r \in Requests, EnsureLookupFails(r)
     PROVE  IndexedHaveCause'
  BY <1>3 DEF EnsureLookupFails, LookupFails, Return, Goes
<1>4. ASSUME NEW r \in Requests, Cancel(r)
     PROVE  IndexedHaveCause'
  BY <1>4 DEF Cancel
<1>5. CASE StartCache
  BY <1>5 DEF StartCache
<1>6. ASSUME NEW k \in Kinds, Sync(k)
     PROVE  IndexedHaveCause'
  BY <1>6 DEF Sync
<1>7. CASE UNCHANGED vars
  BY <1>7
<1>8. QED
  BY <1>1, <1>2, <1>3, <1>4, <1>5, <1>6, <1>7 DEF Next

\* Every step keeps the reasons of the conflicts.
LEMMA ConflictStep ==
  ASSUME TypeOK, LockedKnows, IndexedHaveCause, ConflictNeedsAbort, [Next]_vars
  PROVE  ConflictNeedsAbort'
<1> USE KindForAssumption, NoneAssumption
<1> USE DEF TypeOK, vars, cacheVars, Unlocked, Locked, Answered, KindOf, LockedKnows, IndexedHaveCause, ConflictNeedsAbort
<1>1. ASSUME NEW r \in Requests, Handle(r)
     PROVE  ConflictNeedsAbort'
  <2>1. CASE Resolve(r)
    BY <2>1 DEF Resolve, Goes
  <2>2. CASE CheckStarted(r)
    BY <2>2 DEF CheckStarted, Goes
  <2>3. CASE LockAndRecheck(r)
    BY <2>3 DEF LockAndRecheck, Goes
  <2>4. CASE IndexFields(r)
    BY <2>4 DEF IndexFields, Goes
  <2>5. CASE IndexConflict(r)
    BY <2>5 DEF IndexConflict, Return, Goes
  <2>6. CASE GetInformer(r)
    BY <2>6 DEF GetInformer, Goes, RecordStarted, Return
  <2>7. CASE InformerSynced(r)
    BY <2>7 DEF InformerSynced, RecordStarted, Return, Goes
  <2>8. CASE SyncAborted(r)
    BY <2>8 DEF SyncAborted, Return, Goes
  <2>9. CASE ReadCache(r)
    BY <2>9 DEF ReadCache, Reads, Goes
  <2>10. CASE ReadSynced(r)
    BY <2>10 DEF ReadSynced, Reads, Goes
  <2>11. CASE ReadAborted(r)
    BY <2>11 DEF ReadAborted, Reads, Goes
  <2>12. QED
    BY <1>1, <2>1, <2>2, <2>3, <2>4, <2>5, <2>6, <2>7, <2>8, <2>9, <2>10, <2>11 DEF Handle
<1>2. ASSUME NEW r \in Requests, NotFound(r)
     PROVE  ConflictNeedsAbort'
  BY <1>2 DEF NotFound, LookupFails, Goes
<1>3. ASSUME NEW r \in Requests, EnsureLookupFails(r)
     PROVE  ConflictNeedsAbort'
  BY <1>3 DEF EnsureLookupFails, LookupFails, Return, Goes
<1>4. ASSUME NEW r \in Requests, Cancel(r)
     PROVE  ConflictNeedsAbort'
  BY <1>4 DEF Cancel
<1>5. CASE StartCache
  BY <1>5 DEF StartCache
<1>6. ASSUME NEW k \in Kinds, Sync(k)
     PROVE  ConflictNeedsAbort'
  BY <1>6 DEF Sync
<1>7. CASE UNCHANGED vars
  BY <1>7
<1>8. QED
  BY <1>1, <1>2, <1>3, <1>4, <1>5, <1>6, <1>7 DEF Next

\* Every step keeps the indexes of what is read.
LEMMA ReadsStep ==
  ASSUME TypeOK, LockedKnows, RecordedAreIndexed, ReadsAreIndexed, [Next]_vars
  PROVE  ReadsAreIndexed'
<1> USE KindForAssumption, NoneAssumption
<1> USE DEF TypeOK, vars, cacheVars, Unlocked, Locked, Answered, KindOf, LockedKnows, RecordedAreIndexed, ReadsAreIndexed
<1>1. ASSUME NEW r \in Requests, Handle(r)
     PROVE  ReadsAreIndexed'
  <2>1. CASE Resolve(r)
    BY <2>1 DEF Resolve, Goes
  <2>2. CASE CheckStarted(r)
    BY <2>2 DEF CheckStarted, Goes
  <2>3. CASE LockAndRecheck(r)
    BY <2>3 DEF LockAndRecheck, Goes
  <2>4. CASE IndexFields(r)
    BY <2>4 DEF IndexFields, Goes
  <2>5. CASE IndexConflict(r)
    BY <2>5 DEF IndexConflict, Return, Goes
  <2>6. CASE GetInformer(r)
    BY <2>6 DEF GetInformer, Goes, RecordStarted, Return
  <2>7. CASE InformerSynced(r)
    BY <2>7 DEF InformerSynced, RecordStarted, Return, Goes
  <2>8. CASE SyncAborted(r)
    BY <2>8 DEF SyncAborted, Return, Goes
  <2>9. CASE ReadCache(r)
    BY <2>9 DEF ReadCache, Reads, Goes
  <2>10. CASE ReadSynced(r)
    BY <2>10 DEF ReadSynced, Reads, Goes
  <2>11. CASE ReadAborted(r)
    BY <2>11 DEF ReadAborted, Reads, Goes
  <2>12. QED
    BY <1>1, <2>1, <2>2, <2>3, <2>4, <2>5, <2>6, <2>7, <2>8, <2>9, <2>10, <2>11 DEF Handle
<1>2. ASSUME NEW r \in Requests, NotFound(r)
     PROVE  ReadsAreIndexed'
  BY <1>2 DEF NotFound, LookupFails, Goes
<1>3. ASSUME NEW r \in Requests, EnsureLookupFails(r)
     PROVE  ReadsAreIndexed'
  BY <1>3 DEF EnsureLookupFails, LookupFails, Return, Goes
<1>4. ASSUME NEW r \in Requests, Cancel(r)
     PROVE  ReadsAreIndexed'
  BY <1>4 DEF Cancel
<1>5. CASE StartCache
  BY <1>5 DEF StartCache
<1>6. ASSUME NEW k \in Kinds, Sync(k)
     PROVE  ReadsAreIndexed'
  BY <1>6 DEF Sync
<1>7. CASE UNCHANGED vars
  BY <1>7
<1>8. QED
  BY <1>1, <1>2, <1>3, <1>4, <1>5, <1>6, <1>7 DEF Next

-----------------------------------------------------------------------------
(* Theorems                                                                 *)

\* Inv is an invariant of the handler.
THEOREM Invariance == Spec => []Inv
<1>1. Init => Inv
  BY KindForAssumption, AsksAssumption, NoneAssumption
  DEF Init, Inv, TypeOK, LockedKnows, RecordedAreIndexed, IndexedHaveResource,
      IndexedHaveCause, ReadsAreIndexed, ConflictNeedsAbort,
      KindOf, Unlocked, Locked, Answered
<1>2. Inv /\ [Next]_vars => Inv'
  BY TypeStep, LockedKnowsStep, RecordedStep, ResourceStep, CauseStep, ConflictStep,
     ReadsStep DEF Inv
<1>3. QED
  BY <1>1, <1>2, PTL DEF Spec

\* The types, and the lock: one request at a time is inside ensureInformer.
THEOREM TypeCorrect == Spec => []TypeOK
BY Invariance, PTL DEF Inv

\* No request reads before the indexes of its kind are registered.
THEOREM IndexedBeforeRead == Spec => []ReadsAreIndexed
BY Invariance, PTL DEF Inv

\* An indexer conflict is never the fault of requests that come together.
THEOREM ConflictsExplained == Spec => []ConflictNeedsAbort
BY Invariance, PTL DEF Inv

\* Without clients that go away while their request waits for an informer, and with
\* one name per kind, ensureInformer does what its comment says: these two are all
\* that makes it fail.
THEOREM EnsuredUnlessAborted ==
  ASSUME \A g, h \in Resources : KindFor[g] = KindFor[h] => g = h
  PROVE  Spec /\ [](\A r \in Requests : pc[r] # "aborted") => []EnsureSucceeds
<1>1. Inv /\ (\A r \in Requests : pc[r] # "aborted") => EnsureSucceeds
  BY DEF Inv, TypeOK, ConflictNeedsAbort, EnsureSucceeds, KindOf
<1>2. QED
  BY <1>1, Invariance, PTL

-----------------------------------------------------------------------------
(* Nobody waits for each other: what of EveryRequestEnds is safety          *)

\* Nothing but the first list of an informer keeps q from going on: it is at no lock
\* that another request has, and the informer that it waits for, if any, has been
\* started, in a cache that runs.
MayGo(q) ==
  /\ q \in Requests /\ pc[q] \notin Answered
  /\ pc[q] \in {"check", "lock"} => writer = None
  /\ pc[q] \in {"wait", "readWait"} => running /\ KindOf(q) \in indexed

\* A request that is under way may go on, or it is at the lock of one that may.
WaitsForSyncOnly ==
  \A r \in Requests : pc[r] \notin Answered =>
    MayGo(r) \/ (pc[r] \in {"check", "lock"} /\ MayGo(writer))

\* Whoever waits for an informer waits for one that is there, in a cache that runs.
WaitedForRuns ==
  \A r \in Requests : pc[r] \in {"wait", "readWait"} => running /\ KindOf(r) \in indexed

\* Every step keeps what is waited for: a cache does not stop, an informer stays.
LEMMA WaitedForStep ==
  ASSUME TypeOK, LockedKnows, ReadsAreIndexed, WaitedForRuns, [Next]_vars
  PROVE  WaitedForRuns'
<1> USE KindForAssumption, NoneAssumption
<1> USE DEF TypeOK, vars, cacheVars, Unlocked, Locked, Answered, KindOf, LockedKnows, ReadsAreIndexed, WaitedForRuns
<1>1. ASSUME NEW r \in Requests, Handle(r)
     PROVE  WaitedForRuns'
  <2>1. CASE Resolve(r)
    BY <2>1 DEF Resolve, Goes
  <2>2. CASE CheckStarted(r)
    BY <2>2 DEF CheckStarted, Goes
  <2>3. CASE LockAndRecheck(r)
    BY <2>3 DEF LockAndRecheck, Goes
  <2>4. CASE IndexFields(r)
    BY <2>4 DEF IndexFields, Goes
  <2>5. CASE IndexConflict(r)
    BY <2>5 DEF IndexConflict, Return, Goes
  <2>6. CASE GetInformer(r)
    BY <2>6 DEF GetInformer, Goes, RecordStarted, Return
  <2>7. CASE InformerSynced(r)
    BY <2>7 DEF InformerSynced, RecordStarted, Return, Goes
  <2>8. CASE SyncAborted(r)
    BY <2>8 DEF SyncAborted, Return, Goes
  <2>9. CASE ReadCache(r)
    BY <2>9 DEF ReadCache, Reads, Goes
  <2>10. CASE ReadSynced(r)
    BY <2>10 DEF ReadSynced, Reads, Goes
  <2>11. CASE ReadAborted(r)
    BY <2>11 DEF ReadAborted, Reads, Goes
  <2>12. QED
    BY <1>1, <2>1, <2>2, <2>3, <2>4, <2>5, <2>6, <2>7, <2>8, <2>9, <2>10, <2>11 DEF Handle
<1>2. ASSUME NEW r \in Requests, NotFound(r)
     PROVE  WaitedForRuns'
  BY <1>2 DEF NotFound, LookupFails, Goes
<1>3. ASSUME NEW r \in Requests, EnsureLookupFails(r)
     PROVE  WaitedForRuns'
  BY <1>3 DEF EnsureLookupFails, LookupFails, Return, Goes
<1>4. ASSUME NEW r \in Requests, Cancel(r)
     PROVE  WaitedForRuns'
  BY <1>4 DEF Cancel
<1>5. CASE StartCache
  BY <1>5 DEF StartCache
<1>6. ASSUME NEW k \in Kinds, Sync(k)
     PROVE  WaitedForRuns'
  BY <1>6 DEF Sync
<1>7. CASE UNCHANGED vars
  BY <1>7
<1>8. QED
  BY <1>1, <1>2, <1>3, <1>4, <1>5, <1>6, <1>7 DEF Next

\* No request waits for one that waits for it, and none for an informer that nobody
\* has started: the lock that ensureInformer holds while it waits is its only one.
THEOREM NoDeadlock == Spec => []WaitsForSyncOnly
<1>1. Init => WaitedForRuns
  BY DEF Init, WaitedForRuns
<1>2. Inv /\ WaitedForRuns /\ [Next]_vars => WaitedForRuns'
  BY WaitedForStep DEF Inv
<1>3. Inv /\ WaitedForRuns => WaitsForSyncOnly
  <2>1. SUFFICES ASSUME TypeOK, WaitedForRuns, NEW r \in Requests, pc[r] \notin Answered
                 PROVE  MayGo(r) \/ (pc[r] \in {"check", "lock"} /\ MayGo(writer))
    BY DEF Inv, WaitsForSyncOnly
  <2>2. CASE pc[r] \in {"check", "lock"} /\ writer # None
    <3>1. writer \in Requests /\ pc[writer] \in Locked
      BY <2>1, <2>2 DEF TypeOK
    <3>2. MayGo(writer)
      BY <2>1, <3>1 DEF MayGo, WaitedForRuns, Locked, Answered
    <3>3. QED
      BY <2>2, <3>2
  <2>3. CASE ~ (pc[r] \in {"check", "lock"} /\ writer # None)
    BY <2>1, <2>3, Zenon DEF MayGo, WaitedForRuns
  <2>4. QED
    BY <2>2, <2>3
<1>4. QED
  BY <1>1, <1>2, <1>3, Invariance, PTL DEF Spec

-----------------------------------------------------------------------------
(* The refinement                                                           *)

\* The request inside the lock is alone there.
LEMMA Alone ==
  ASSUME TypeOK, NEW r \in Requests, NEW q \in Requests,
         pc[r] \in Locked, pc[q] \in Locked
  PROVE  q = r
BY DEF TypeOK

\* A step that takes r to another stage changes no answer but that of r.
LEMMA AnswerOfOne ==
  ASSUME TypeOK, NEW r \in Requests, NEW from, NEW to, Goes(r, from, to)
  PROVE  /\ [q \in Requests |-> Seen(pc[q])]' =
              [[q \in Requests |-> Seen(pc[q])] EXCEPT ![r] = Seen(to)]
         /\ [q \in Requests |-> Seen(pc[q])][r] = Seen(from)
BY DEF Goes, TypeOK

\* ... and none at all when it is as far from an answer as before.
LEMMA NoAnswer ==
  ASSUME TypeOK, NEW r \in Requests, NEW from, NEW to, Goes(r, from, to),
         Seen(from) = Seen(to)
  PROVE  [q \in Requests |-> Seen(pc[q])]' = [q \in Requests |-> Seen(pc[q])]
BY DEF Goes, TypeOK

\* The answers, stage by stage.
LEMMA SeenAt ==
  /\ Seen("served") = "data"
  /\ Seen("notFound") = "noKind" /\ Seen("lookupFailed") = "noKind"
  /\ \A s \in {"conflict", "aborted", "notStarted", "readAborted"} : Seen(s) = "error"
  /\ \A s \in Unlocked \cup Locked : Seen(s) = "none"
BY DEF Seen, Unlocked, Locked, Answered

\* A step that answers.
LEMMA AnswersOne ==
  ASSUME TypeOK, NEW r \in Requests, NEW from, NEW to, NEW with, Goes(r, from, to),
         Seen(from) = "none", Seen(to) = with, UNCHANGED cacheVars
  PROVE  Service!Answers(r, with)
<1>1. UNCHANGED <<resource, cancelled, running, synced>>
  BY DEF Goes, cacheVars
<1>2. [q \in Requests |-> Seen(pc[q])]' = [[q \in Requests |-> Seen(pc[q])] EXCEPT ![r] = with]
  BY AnswerOfOne
<1>3. [q \in Requests |-> Seen(pc[q])][r] = "none"
  BY AnswerOfOne
<1>4. QED
  BY <1>1, <1>2, <1>3 DEF Service!Answers

\* A step outside the part in which a resource is about to be recorded spoils
\* nothing.
LEMMA SpoilsNothing ==
  ASSUME TypeOK, NEW r \in Requests, NEW from, NEW to, Goes(r, from, to),
         from \notin {"informer", "wait"}, to \notin {"informer", "wait"},
         UNCHANGED <<startedInformers, indexed>>
  PROVE  Spoiled' = Spoiled
BY DEF Goes, TypeOK, Spoiled

-----------------------------------------------------------------------------

\* An answer without data and a stutter, for the steps that change no more than
\* the stage of one request.
LEMMA MapHandle ==
  ASSUME Inv, NEW r \in Requests, Handle(r)
  PROVE  [Service!Next]_(Service!vars)
<1> USE DEF Inv
<1>1. CASE Resolve(r)
  <2>1. Goes(r, "handle", "check")
    BY <1>1 DEF Resolve
  <2>2. UNCHANGED <<startedInformers, cacheVars>>
    BY <1>1 DEF Resolve
  <2>3. Spoiled' = Spoiled
    BY <2>1, <2>2, SpoilsNothing DEF cacheVars
  <2>4. QED
    BY <2>1, <2>2, <2>3, NoAnswer, SeenAt DEF Goes, cacheVars, Service!vars, Unlocked
<1>2. CASE CheckStarted(r)
  <2>1. PICK to \in {"read", "lock"} : Goes(r, "check", to)
    BY <1>2 DEF CheckStarted
  <2>2. UNCHANGED <<startedInformers, cacheVars>>
    BY <1>2 DEF CheckStarted
  <2>3. Spoiled' = Spoiled
    BY <2>1, <2>2, SpoilsNothing DEF cacheVars
  <2>4. QED
    BY <2>1, <2>2, <2>3, NoAnswer, SeenAt DEF Goes, cacheVars, Service!vars, Unlocked
<1>3. CASE LockAndRecheck(r)
  <2>1. PICK to \in {"read", "index"} : Goes(r, "lock", to)
    BY <1>3 DEF LockAndRecheck
  <2>2. UNCHANGED <<startedInformers, cacheVars>>
    BY <1>3 DEF LockAndRecheck
  <2>3. Spoiled' = Spoiled
    BY <2>1, <2>2, SpoilsNothing DEF cacheVars
  <2>4. QED
    BY <2>1, <2>2, <2>3, NoAnswer, SeenAt DEF Goes, cacheVars, Service!vars, Unlocked, Locked
<1>4. CASE IndexFields(r)
  <2>1. Goes(r, "index", "informer")
    BY <1>4 DEF IndexFields
  <2>2. Spoiled' = Spoiled \cup {g \in Resources \ {resource[r]} : KindFor[g] = KindFor[resource[r]]}
    BY <1>4, <2>1, Alone, KindForAssumption
    DEF IndexFields, Goes, Spoiled, TypeOK, KindOf, Locked, RecordedAreIndexed, LockedKnows
  <2>3. Service!Claim(r)
    BY <1>4, <2>1, <2>2, NoAnswer, AnswerOfOne, SeenAt
    DEF IndexFields, Goes, Service!Claim, Locked
  <2>4. QED
    BY <2>3 DEF Service!Next
<1>5. CASE IndexConflict(r)
  <2>1. Goes(r, "index", "conflict") /\ UNCHANGED <<startedInformers, cacheVars>>
    BY <1>5 DEF IndexConflict, Return
  <2>2. resource[r] \in Spoiled
    BY <1>5, <2>1, Alone DEF IndexConflict, Goes, Spoiled, TypeOK, KindOf, Locked, LockedKnows
  <2>3. Spoiled' = Spoiled
    BY <2>1, SpoilsNothing DEF cacheVars
  <2>4. Service!Answers(r, "error")
    BY <2>1, AnswersOne, SeenAt DEF Locked
  <2>5. QED
    BY <2>2, <2>3, <2>4 DEF Service!Refuse, Service!Next
<1>6. ASSUME NEW from \in {"informer", "wait"}, RecordStarted(r, from)
      PROVE  [Service!Next]_(Service!vars)
  <2>1. Goes(r, from, "read")
    BY <1>6 DEF RecordStarted, Return
  <2>2. Spoiled' = Spoiled
    BY <1>6, <2>1, Alone DEF RecordStarted, Goes, Spoiled, TypeOK, Locked, cacheVars
  <2>3. QED
    BY <1>6, <2>1, <2>2, NoAnswer, SeenAt
    DEF RecordStarted, Goes, cacheVars, Service!vars, Locked, Unlocked
<1>7. CASE GetInformer(r)
  <2>1. CASE RecordStarted(r, "informer")
    BY <2>1, <1>6
  <2>2. CASE Goes(r, "informer", "wait") /\ UNCHANGED <<writer, startedInformers, cacheVars>>
    <3>1. Spoiled' = Spoiled
      BY <2>2 DEF Goes, Spoiled, TypeOK, cacheVars
    <3>2. QED
      BY <2>2, <3>1, NoAnswer, SeenAt DEF Goes, cacheVars, Service!vars, Locked
  <2>3. QED
    BY <1>7, <2>1, <2>2 DEF GetInformer
<1>8. CASE InformerSynced(r)
  BY <1>8, <1>6 DEF InformerSynced
<1>9. CASE SyncAborted(r)
  <2>1. Goes(r, "wait", "aborted") /\ UNCHANGED <<startedInformers, cacheVars>> /\ cancelled[r]
    BY <1>9 DEF SyncAborted, Return
  <2>2. Spoiled' = Spoiled \cup {resource[r]}
    BY <2>1, Alone DEF Goes, Spoiled, TypeOK, KindOf, Locked, LockedKnows, cacheVars
  <2>3. Service!Answers(r, "error")
    BY <2>1, AnswersOne, SeenAt DEF Locked
  <2>4. QED
    BY <2>1, <2>2, <2>3 DEF Service!Abandon, Service!Next
<1>10. ASSUME NEW from \in {"read", "readWait"}, NEW to, Reads(r, from, to),
              \/ to = "served" /\ KindOf(r) \in synced
              \/ to = "notStarted" /\ ~running
              \/ to = "readAborted" /\ cancelled[r]
              \/ to = "readWait"
       PROVE  [Service!Next]_(Service!vars)
  <2>1. Goes(r, from, to) /\ UNCHANGED <<startedInformers, cacheVars>>
    BY <1>10 DEF Reads
  <2>2. Spoiled' = Spoiled
    BY <2>1, <1>10, SpoilsNothing DEF cacheVars
  <2>3. CASE to = "served" /\ KindOf(r) \in synced
    <3>1. Service!Answers(r, "data")
      BY <1>10, <2>1, <2>3, AnswersOne, SeenAt DEF Unlocked
    <3>2. QED
      BY <2>2, <2>3, <3>1 DEF Service!Serve, Service!Next, KindOf
  <2>4. CASE to \in {"notStarted", "readAborted"} /\ (~running \/ cancelled[r])
    <3>1. Service!Answers(r, "error")
      BY <1>10, <2>1, <2>4, AnswersOne, SeenAt DEF Unlocked
    <3>2. QED
      BY <2>2, <2>4, <3>1 DEF Service!Refuse, Service!Next
  <2>5. CASE to = "readWait"
    BY <2>1, <2>2, <2>5, NoAnswer, SeenAt DEF Goes, cacheVars, Service!vars, Unlocked
  <2>6. QED
    BY <1>10, <2>3, <2>4, <2>5
<1>11. CASE ReadCache(r)
  BY <1>11, <1>10 DEF ReadCache
<1>12. CASE ReadSynced(r)
  BY <1>12, <1>10 DEF ReadSynced
<1>13. CASE ReadAborted(r)
  BY <1>13, <1>10 DEF ReadAborted
<1>14. QED
  BY <1>1, <1>2, <1>3, <1>4, <1>5, <1>7, <1>8, <1>9, <1>11, <1>12, <1>13 DEF Handle

\* The steps of the lookups, the clients and the cache.
LEMMA MapOthers ==
  ASSUME Inv, [Next]_vars, ~ \E r \in Requests : Handle(r)
  PROVE  [Service!Next]_(Service!vars)
<1> USE DEF Inv
<1>1. ASSUME NEW r \in Requests, NotFound(r) \/ EnsureLookupFails(r)
      PROVE  [Service!Next]_(Service!vars)
  <2>1. PICK from \in {"handle", "index"}, to \in {"notFound", "lookupFailed"} :
          Goes(r, from, to) /\ UNCHANGED <<startedInformers, cacheVars>>
    BY <1>1 DEF NotFound, EnsureLookupFails, LookupFails, Return
  <2>2. Spoiled' = Spoiled
    BY <2>1, SpoilsNothing DEF cacheVars
  <2>3. Service!Answers(r, "noKind")
    BY <2>1, AnswersOne, SeenAt DEF Unlocked, Locked
  <2>4. QED
    BY <2>2, <2>3 DEF Service!LookupFails, Service!Next
<1>2. ASSUME NEW r \in Requests, Cancel(r)
      PROVE  [Service!Next]_(Service!vars)
  <2>1. [q \in Requests |-> Seen(pc[q])][r] = "none"
    BY <1>2, SeenAt DEF Cancel, TypeOK
  <2>2. Service!Leave(r)
    BY <1>2, <2>1 DEF Cancel, cacheVars, Service!Leave, Spoiled
  <2>3. QED
    BY <2>2 DEF Service!Next
<1>3. CASE StartCache
  <2>1. Service!Start
    BY <1>3 DEF StartCache, Service!Start, Spoiled
  <2>2. QED
    BY <2>1 DEF Service!Next
<1>4. ASSUME NEW k \in Kinds, Sync(k)
      PROVE  [Service!Next]_(Service!vars)
  <2>1. Service!Fill(k)
    BY <1>4 DEF Sync, Service!Fill, Spoiled
  <2>2. k \in {KindFor[g] : g \in Resources}
    BY <1>4 DEF Sync, IndexedHaveResource
  <2>3. QED
    BY <2>1, <2>2 DEF Service!Next
<1>5. CASE UNCHANGED vars
  BY <1>5 DEF vars, cacheVars, Service!vars, Spoiled
<1>6. QED
  BY <1>1, <1>2, <1>3, <1>4, <1>5 DEF Next

\* The handler implements CacheService: the answers it gives are complete, and
\* its errors are excused.
THEOREM Refinement == Spec => ImplementsService
<1>1. Init => Service!Init
  BY KindForAssumption DEF Init, Service!Init, Seen, Spoiled, Answered
<1>2. Inv /\ [Next]_vars => [Service!Next]_(Service!vars)
  BY MapHandle, MapOthers
<1>3. QED
  BY <1>1, <1>2, Invariance, PTL DEF Spec, ImplementsService, Service!Spec
=============================================================================
