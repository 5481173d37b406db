------------------------ MODULE TableConvertorsProofs ------------------------
(***************************************************************************)
(* Proofs about TableConvertors, for any requests, types, CRDs and edits.  *)
(* That tables stay and that the cached columns freeze both come down to   *)
(* one fact: what is stored is never "no columns", so that a type that     *)
(* has a convertor in the map keeps one, and a request that comes after    *)
(* that never gets as far as the lookup.                                   *)
(***************************************************************************)
EXTENDS TableConvertors, TLAPS

\* Only requests for custom resources get past the first getter.
Custom ==
  \A r \in Requests :
    pc[r] \in {"check", "lookup", "lock", "store"} => type[r] \notin Builtin

\* A convertor that is about to be stored has columns.
NeverEmpty == \A r \in Requests : pc[r] \in {"lock", "store"} => columns[r] # 0

\* A custom type that was answered with a table is in the map.
Stored ==
  \A r \in Requests :
    pc[r] = "table" /\ type[r] \notin Builtin => cache[type[r]] # 0

\* Whoever came after such an answer finds its convertor, and never looks one up.
Kept ==
  \A r \in Requests :
    promised[r] => cache[type[r]] # 0 /\ pc[r] \in {"check", "table"}

Inv == TypeOK /\ Custom /\ NeverEmpty /\ Stored /\ Kept

USE TypesAssumption, NoneAssumption, EditsAssumption

\* At the beginning the map is empty and no request has gone anywhere.
LEMMA InvInit == Init => Inv
  BY DEF Init, Inv, TypeOK, Columns, Custom, NeverEmpty, Stored, Kept, Answered

\* What one request does keeps the invariant, step by step of its handling.
LEMMA HandleKeeps == ASSUME NEW r \in Requests, Inv, Handle(r) PROVE Inv'
<1> USE DEF Inv, TypeOK, Goes, crdVars
<1>1. CASE AnswerJson(r)
  BY <1>1 DEF AnswerJson, Custom, NeverEmpty, Stored, Kept, Answered
<1>2. CASE ConvertBuiltin(r)
  BY <1>2 DEF ConvertBuiltin, Custom, NeverEmpty, Stored, Kept, Answered
<1>3. CASE LockForReading(r)
  <2>1. TypeOK'
    BY <1>3 DEF LockForReading
  <2>2. Custom' /\ NeverEmpty' /\ Stored'
    BY <1>3 DEF LockForReading, Custom, NeverEmpty, Stored
  <2>3. Kept'
    BY <1>3 DEF LockForReading, Stored, Kept
  <2> QED BY <2>1, <2>2, <2>3
<1>4. CASE CheckCache(r)
  <2>1. TypeOK'
    BY <1>4 DEF CheckCache, Answered
  <2>2. Custom' /\ NeverEmpty' /\ Stored'
    BY <1>4 DEF CheckCache, Custom, NeverEmpty, Stored
  <2>3. Kept'
    BY <1>4 DEF CheckCache, Kept
  <2> QED BY <2>1, <2>2, <2>3
<1>5. CASE Lookup(r)
  <2>1. Found(r) \in Columns
    BY <1>5 DEF Lookup, Custom, Found
  <2>2. TypeOK'
    BY <1>5, <2>1 DEF Lookup, Answered
  <2>3. Custom' /\ NeverEmpty' /\ Stored' /\ Kept'
    BY <1>5, <2>1 DEF Lookup, Custom, NeverEmpty, Stored, Kept
  <2> QED BY <2>2, <2>3
<1>6. CASE LockForWriting(r)
  BY <1>6 DEF LockForWriting, Custom, NeverEmpty, Stored, Kept
<1>7. CASE Store(r)
  <2>1. TypeOK'
    BY <1>7 DEF Store, Answered
  <2>2. Custom' /\ NeverEmpty'
    BY <1>7 DEF Store, Custom, NeverEmpty
  <2>3. Stored' /\ Kept'
    BY <1>7 DEF Store, NeverEmpty, Stored, Kept
  <2> QED BY <2>1, <2>2, <2>3
<1> QED BY <1>1, <1>2, <1>3, <1>4, <1>5, <1>6, <1>7 DEF Handle

\* The cluster and the informer only change what is known about CRDs.
LEMMA CrdKeeps ==
  ASSUME NEW d \in Crds, Inv, Apply(d) \/ Delete(d) \/ Watch(d) PROVE Inv'
<1> USE DEF Inv, TypeOK, Columns, Custom, NeverEmpty, Stored, Kept
<1>1. CASE Apply(d)
  BY <1>1 DEF Apply, Edit
<1>2. CASE Delete(d)
  BY <1>2 DEF Delete, Edit
<1>3. CASE Watch(d)
  BY <1>3 DEF Watch
<1> QED BY <1>1, <1>2, <1>3

\* Every step keeps the invariant, also one that changes nothing here.
LEMMA InvNext == Inv /\ [Next]_vars => Inv'
<1> SUFFICES ASSUME Inv, [Next]_vars PROVE Inv'
  OBVIOUS
<1>1. CASE UNCHANGED vars
  BY <1>1 DEF vars, crdVars, Inv, TypeOK, Custom, NeverEmpty, Stored, Kept
<1>2. CASE Next
  BY <1>2, HandleKeeps, CrdKeeps DEF Next
<1> QED BY <1>1, <1>2

\* The invariant of the table convertors, for every value of the constants.
THEOREM Invariance == Spec => []Inv
<1> QED BY InvInit, InvNext, PTL DEF Spec

\* Types, and that the map is written by one request while no other one reads it.
THEOREM TypeCorrect == Spec => []TypeOK
<1>1. Inv => TypeOK
  BY DEF Inv
<1> QED BY <1>1, Invariance, PTL

\* After the first table for a custom type every request that comes gets one.
THEOREM TablesRemain == Spec => []TablesStay
<1>1. Inv => TablesStay
  BY DEF Inv, Kept, TablesStay
<1> QED BY <1>1, Invariance, PTL

\* Only requests that came before the first table change the cached columns.
THEOREM ColumnsFreeze == Spec => FrozenOnceAnswered
<1> DEFINE Change ==
      \A t \in Types : cache'[t] # cache[t] =>
        \E r \in Requests : type[r] = t /\ pc[r] = "store" /\ ~promised[r]
<1>1. Inv /\ [Next]_vars => [Change]_vars
  <2> SUFFICES ASSUME Inv, Next PROVE Change
    BY DEF vars
  <2> SUFFICES ASSUME NEW t \in Types, cache'[t] # cache[t]
               PROVE \E r \in Requests : type[r] = t /\ pc[r] = "store" /\ ~promised[r]
    OBVIOUS
  <2>1. PICK r \in Requests : Store(r)
    BY DEF Next, Handle, AnswerJson, ConvertBuiltin, LockForReading, CheckCache,
           Lookup, LockForWriting, Apply, Delete, Edit, Watch
  <2>2. type[r] = t /\ pc[r] = "store"
    BY <2>1 DEF Store, Goes, Inv, TypeOK
  <2>3. ~promised[r]
    BY <2>2 DEF Inv, Kept
  <2> QED BY <2>2, <2>3
<1> QED BY <1>1, Invariance, PTL DEF Spec, FrozenOnceAnswered

-----------------------------------------------------------------------------
(* The lock is always given back: what of EveryRequestAnswered is safety    *)

\* r is not answered and at no lock that it cannot have.
MayGo(r) ==
  /\ pc[r] \notin Answered
  /\ pc[r] = "handle" /\ type[r] \notin Builtin => writer = None
  /\ pc[r] = "lock" => writer = None /\ \A q \in Requests : pc[q] # "check"

\* Who waits for the lock waits for a request that has it and waits for nobody: the
\* lookup at the CRD informer is made without it.
LockIsLeft ==
  \A r \in Requests : pc[r] \notin Answered =>
    MayGo(r) \/ \E q \in Requests : pc[q] \in {"check", "store"} /\ MayGo(q)

\* No two requests wait for each other, whichever locks they are at.
THEOREM NoDeadlock == Spec => []LockIsLeft
<1>1. Inv => LockIsLeft
  <2>1. SUFFICES ASSUME TypeOK, NEW r \in Requests, pc[r] \notin Answered, ~MayGo(r)
                 PROVE  \E q \in Requests : pc[q] \in {"check", "store"}
    BY DEF Inv, LockIsLeft, MayGo, Answered
  <2>2. CASE writer # None
    BY <2>2, <2>1 DEF TypeOK
  <2>3. CASE writer = None
    BY <2>3, <2>1 DEF MayGo
  <2> QED BY <2>2, <2>3
<1> QED BY <1>1, Invariance, PTL
=============================================================================
