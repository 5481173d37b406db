------------------------- MODULE ProxyManagerProofs -------------------------
(***************************************************************************)
(* Proofs about ProxyManager, for any number of proxies, clients, killers  *)
(* and faults.                                                             *)
(*                                                                         *)
(* The inductive invariant Inv adds to the type invariant who holds which  *)
(* lock, which pid file a starting proxy has open as long as nothing was   *)
(* removed, and what the two files may say about whom.  Each conjunct has  *)
(* a lemma on the steps of Next; a lemma has one case per kind of action.  *)
(***************************************************************************)
EXTENDS ProxyManager, TLAPS

\* Only KillProxy with force removes files.
ForceRemoves == \A k \in Killers : kpc[k] \in Removing => kmode[k] = "force"

\* Until the first removal there is one pid file: whoever has opened a pid
\* file has the one the path leads to.
LinkedUntilRemoval ==
  ~RemovalBegan => \A p \in Proxies : fd["pid"][p] \in {None, link["pid"]}

\* PidNamesOwner for every pid file, also those that no path leads to; an owner
\* whose pid is in its file is past the write.
PidTextOwned ==
  \A i, p \in Proxies : text["pid"][i] = p =>
    \/ lock[i] = p /\ pc[p] \in Owning \ {"write"}
    \/ pc[p] \in Removing \cup {"exited", "dead", "cut"}

\* Where a proxy can be once it has written its port.
Published == {"serve", "unlock"} \cup Removing \cup {"exited", "dead", "cut"}

\* The ports in files and in the hands of clients are those of such proxies.
PortTextServes ==
  /\ \A i, p \in Proxies : text["port"][i] = p => pc[p] \in Published
  /\ \A c \in Clients : using[c] # None => pc[using[c]] \in Published

\* The inductive invariant.
Inv ==
  /\ TypeOK
  /\ OwnersHoldTheirLock
  /\ ForceRemoves
  /\ LinkedUntilRemoval
  /\ PidTextOwned
  /\ PortTextServes

-----------------------------------------------------------------------------
(* The steps of Next, one conjunct at a time                                *)

\* Every step keeps the types.
LEMMA TypeStep ==
  ASSUME TypeOK, [Next]_vars
  PROVE  TypeOK'
<1> USE RemoverAssumption, SentinelAssumption, FaultAssumption
<1> USE DEF TypeOK, disk, cvars, kvars, Files, ProxyPC, ClientPC, KillerPC,
   KillerModes, Starting, Owning, Removing, Ended
<1>1. ASSUME NEW p \in Proxies, ProxyStep(p) \/ IdleExit(p)
     PROVE  TypeOK'
  <2>1. CASE MakeDir(p)
    BY <2>1 DEF MakeDir, Goes
  <2>2. CASE OpenPidFile(p)
    BY <2>2 DEF OpenPidFile, Goes, OpenTrunc
  <2>3. CASE OpenPortFile(p)
    BY <2>3 DEF OpenPortFile, Goes, OpenTrunc
  <2>4. CASE LockPidFile(p)
    BY <2>4 DEF LockPidFile, Goes
  <2>5. CASE WritePid(p)
    BY <2>5 DEF WritePid, Goes
  <2>6. CASE WritePort(p)
    BY <2>6 DEF WritePort, Goes
  <2>7. CASE UnlockPidFile(p)
    BY <2>7 DEF UnlockPidFile, Goes
  <2>8. CASE OpenPidFileFails(p) \/ LockPidFileFails(p) \/
     OpenPortFileFails(p)
    BY <2>8 DEF OpenPidFileFails, Goes, LockPidFileFails, OpenPortFileFails
  <2>9. CASE Boot(p) \/ BootCancelled(p) \/ ServeCancelled(p) \/ IdleExit(p)
    BY <2>9 DEF Boot, Goes, BootCancelled, ServeCancelled, IdleExit
  <2>10. CASE RemoveAllLists(p)
    BY <2>10 DEF RemoveAllLists, Goes, ListDir
  <2>11. CASE RemoveAllUnlinks(p)
    BY <2>11 DEF RemoveAllUnlinks, Goes, UnlinkOne
  <2>12. CASE RemoveAllEnds(p)
    BY <2>12 DEF RemoveAllEnds, Goes, RemoveDir
  <2> QED BY <1>1, <2>1, <2>2, <2>3, <2>4, <2>5, <2>6, <2>7, <2>8, <2>9,
     <2>10, <2>11, <2>12 DEF ProxyStep
<1>2. ASSUME NEW p \in Proxies, ProxyFault(p)
     PROVE  TypeOK'
  <2>1. CASE Crash(p)
    BY <2>1 DEF Crash, Fault, Dies, Alive
  <2>2. CASE ConfigFails(p)
    BY <2>2 DEF ConfigFails, Fault
  <2>3. CASE WritePidFails(p)
    BY <2>3 DEF WritePidFails, Fault
  <2>4. CASE BootFails(p)
    BY <2>4 DEF BootFails, Fault
  <2>5. CASE Interrupt(p)
    BY <2>5 DEF Interrupt, Fault, Alive
  <2> QED BY <1>2, <2>1, <2>2, <2>3, <2>4, <2>5 DEF ProxyFault
<1>3. ASSUME NEW c \in Clients, ClientStep(c) \/ UsePassthrough(c) \/ StartOver(c)
     PROVE  TypeOK'
  <2>1. CASE FirstGetPid(c) \/ PollPid(c)
    BY <2>1 DEF FirstGetPid, GetPid, ClientGoes, PollPid
  <2>2. CASE FirstGetReady(c) \/ PollReady(c)
    BY <2>2 DEF FirstGetReady, GetReady, ClientGoes, PollReady
  <2>3. CASE FirstGetFails(c) \/ FirstGetPending(c) \/ PollPending(c) \/
     UsePassthrough(c) \/ StartOver(c)
    BY <2>3 DEF FirstGetFails, ClientGoes, FirstGetPending, GetPending,
       PollPending, UsePassthrough, StartOver
  <2>4. CASE StartProxy(c)
    BY <2>4 DEF StartProxy, ClientGoes
  <2> QED BY <1>3, <2>1, <2>2, <2>3, <2>4 DEF ClientStep
<1>4. ASSUME NEW k \in Killers, KillerStep(k) \/ WaitInterrupted(k)
     PROVE  TypeOK'
  <2>1. CASE ShutdownGets(k) \/ ShutdownGetFails(k)
    BY <2>1 DEF ShutdownGets, KillerGoes, Content, ShutdownGetFails
  <2>2. CASE SignalFails(k) \/ SignalZombie(k)
    BY <2>2 DEF SignalFails, KillerGoes, SignalZombie, AfterSignal
  <2>3. CASE SignalTerm(k)
    BY <2>3 DEF SignalTerm, KillerGoes, AfterSignal
  <2>4. CASE SignalTermAgain(k)
    BY <2>4 DEF SignalTermAgain, KillerGoes, AfterSignal, Dies, Alive
  <2>5. CASE SignalKill(k)
    BY <2>5 DEF SignalKill, KillerGoes, AfterSignal, Dies, Alive
  <2>6. CASE ForceLists(k)
    BY <2>6 DEF ForceLists, KillerGoes, ListDir
  <2>7. CASE ForceUnlinks(k)
    BY <2>7 DEF ForceUnlinks, KillerGoes, UnlinkOne
  <2>8. CASE ForceEnds(k)
    BY <2>8 DEF ForceEnds, KillerGoes, RemoveDir
  <2>9. CASE WaitEnds(k) \/ WaitPanics(k) \/ WaitInterrupted(k)
    BY <2>9 DEF WaitEnds, KillerGoes, WaitPanics, WaitInterrupted
  <2> QED BY <1>4, <2>1, <2>2, <2>3, <2>4, <2>5, <2>6, <2>7, <2>8, <2>9 DEF
     KillerStep
<1>5. CASE UNCHANGED vars
  BY <1>5 DEF vars
<1> QED BY <1>1, <1>2, <1>3, <1>4, <1>5 DEF Next

\* flock gives an inode to one process; only its own UnlockProxy or its end
\* takes it away.
LEMMA LockStep ==
  ASSUME TypeOK, OwnersHoldTheirLock, [Next]_vars
  PROVE  OwnersHoldTheirLock'
<1> USE RemoverAssumption, SentinelAssumption, FaultAssumption
<1> USE DEF TypeOK, disk, cvars, kvars, Files, ProxyPC, ClientPC, KillerPC,
   KillerModes, Starting, Owning, Removing, Ended, OwnersHoldTheirLock
<1>1. ASSUME NEW p \in Proxies, ProxyStep(p) \/ IdleExit(p)
     PROVE  OwnersHoldTheirLock'
  <2>1. CASE MakeDir(p)
    BY <2>1 DEF MakeDir, Goes
  <2>2. CASE OpenPidFile(p)
    BY <2>2 DEF OpenPidFile, Goes, OpenTrunc
  <2>3. CASE OpenPortFile(p)
    BY <2>3 DEF OpenPortFile, Goes, OpenTrunc
  <2>4. CASE LockPidFile(p)
    BY <2>4 DEF LockPidFile, Goes
  <2>5. CASE WritePid(p)
    BY <2>5 DEF WritePid, Goes
  <2>6. CASE WritePort(p)
    BY <2>6 DEF WritePort, Goes
  <2>7. CASE UnlockPidFile(p)
    BY <2>7 DEF UnlockPidFile, Goes
  <2>8. CASE OpenPidFileFails(p) \/ LockPidFileFails(p) \/
     OpenPortFileFails(p)
    BY <2>8 DEF OpenPidFileFails, Goes, LockPidFileFails, OpenPortFileFails
  <2>9. CASE Boot(p) \/ BootCancelled(p) \/ ServeCancelled(p) \/ IdleExit(p)
    BY <2>9 DEF Boot, Goes, BootCancelled, ServeCancelled, IdleExit
  <2>10. CASE RemoveAllLists(p)
    BY <2>10 DEF RemoveAllLists, Goes, ListDir
  <2>11. CASE RemoveAllUnlinks(p)
    BY <2>11 DEF RemoveAllUnlinks, Goes, UnlinkOne
  <2>12. CASE RemoveAllEnds(p)
    BY <2>12 DEF RemoveAllEnds, Goes, RemoveDir
  <2> QED BY <1>1, <2>1, <2>2, <2>3, <2>4, <2>5, <2>6, <2>7, <2>8, <2>9,
     <2>10, <2>11, <2>12 DEF ProxyStep
<1>2. ASSUME NEW p \in Proxies, ProxyFault(p)
     PROVE  OwnersHoldTheirLock'
  <2>1. CASE Crash(p)
    BY <2>1 DEF Crash, Fault, Dies, Alive
  <2>2. CASE ConfigFails(p)
    BY <2>2 DEF ConfigFails, Fault
  <2>3. CASE WritePidFails(p)
    BY <2>3 DEF WritePidFails, Fault
  <2>4. CASE BootFails(p)
    BY <2>4 DEF BootFails, Fault
  <2>5. CASE Interrupt(p)
    BY <2>5 DEF Interrupt, Fault, Alive
  <2> QED BY <1>2, <2>1, <2>2, <2>3, <2>4, <2>5 DEF ProxyFault
<1>3. ASSUME NEW c \in Clients, ClientStep(c) \/ UsePassthrough(c) \/ StartOver(c)
     PROVE  OwnersHoldTheirLock'
  <2>1. CASE FirstGetPid(c) \/ PollPid(c)
    BY <2>1 DEF FirstGetPid, GetPid, ClientGoes, PollPid
  <2>2. CASE FirstGetReady(c) \/ PollReady(c)
    BY <2>2 DEF FirstGetReady, GetReady, ClientGoes, PollReady
  <2>3. CASE FirstGetFails(c) \/ FirstGetPending(c) \/ PollPending(c) \/
     UsePassthrough(c) \/ StartOver(c)
    BY <2>3 DEF FirstGetFails, ClientGoes, FirstGetPending, GetPending,
       PollPending, UsePassthrough, StartOver
  <2>4. CASE StartProxy(c)
    BY <2>4 DEF StartProxy, ClientGoes
  <2> QED BY <1>3, <2>1, <2>2, <2>3, <2>4 DEF ClientStep
<1>4. ASSUME NEW k \in Killers, KillerStep(k) \/ WaitInterrupted(k)
     PROVE  OwnersHoldTheirLock'
  <2>1. CASE ShutdownGets(k) \/ ShutdownGetFails(k)
    BY <2>1 DEF ShutdownGets, KillerGoes, Content, ShutdownGetFails
  <2>2. CASE SignalFails(k) \/ SignalZombie(k)
    BY <2>2 DEF SignalFails, KillerGoes, SignalZombie, AfterSignal
  <2>3. CASE SignalTerm(k)
    BY <2>3 DEF SignalTerm, KillerGoes, AfterSignal
  <2>4. CASE SignalTermAgain(k)
    BY <2>4 DEF SignalTermAgain, KillerGoes, AfterSignal, Dies, Alive
  <2>5. CASE SignalKill(k)
    BY <2>5 DEF SignalKill, KillerGoes, AfterSignal, Dies, Alive
  <2>6. CASE ForceLists(k)
    BY <2>6 DEF ForceLists, KillerGoes, ListDir
  <2>7. CASE ForceUnlinks(k)
    BY <2>7 DEF ForceUnlinks, KillerGoes, UnlinkOne
  <2>8. CASE ForceEnds(k)
    BY <2>8 DEF ForceEnds, KillerGoes, RemoveDir
  <2>9. CASE WaitEnds(k) \/ WaitPanics(k) \/ WaitInterrupted(k)
    BY <2>9 DEF WaitEnds, KillerGoes, WaitPanics, WaitInterrupted
  <2> QED BY <1>4, <2>1, <2>2, <2>3, <2>4, <2>5, <2>6, <2>7, <2>8, <2>9 DEF
     KillerStep
<1>5. CASE UNCHANGED vars
  BY <1>5 DEF vars
<1> QED BY <1>1, <1>2, <1>3, <1>4, <1>5 DEF Next

\* KillProxy without force never comes to remove files.
LEMMA ForceStep ==
  ASSUME TypeOK, ForceRemoves, [Next]_vars
  PROVE  ForceRemoves'
<1> USE DEF TypeOK, disk, cvars, kvars, Files, ProxyPC, ClientPC, KillerPC,
   KillerModes, Starting, Owning, Removing, Ended, ForceRemoves
<1>1. ASSUME NEW p \in Proxies, ProxyStep(p) \/ IdleExit(p)
     PROVE  ForceRemoves'
  <2>1. CASE MakeDir(p)
    BY <2>1 DEF MakeDir, Goes
  <2>2. CASE OpenPidFile(p)
    BY <2>2 DEF OpenPidFile, Goes, OpenTrunc
  <2>3. CASE OpenPortFile(p)
    BY <2>3 DEF OpenPortFile, Goes, OpenTrunc
  <2>4. CASE LockPidFile(p)
    BY <2>4 DEF LockPidFile, Goes
  <2>5. CASE WritePid(p)
    BY <2>5 DEF WritePid, Goes
  <2>6. CASE WritePort(p)
    BY <2>6 DEF WritePort, Goes
  <2>7. CASE UnlockPidFile(p)
    BY <2>7 DEF UnlockPidFile, Goes
  <2>8. CASE OpenPidFileFails(p) \/ LockPidFileFails(p) \/
     OpenPortFileFails(p)
    BY <2>8 DEF OpenPidFileFails, Goes, LockPidFileFails, OpenPortFileFails
  <2>9. CASE Boot(p) \/ BootCancelled(p) \/ ServeCancelled(p) \/ IdleExit(p)
    BY <2>9 DEF Boot, Goes, BootCancelled, ServeCancelled, IdleExit
  <2>10. CASE RemoveAllLists(p)
    BY <2>10 DEF RemoveAllLists, Goes, ListDir
  <2>11. CASE RemoveAllUnlinks(p)
    BY <2>11 DEF RemoveAllUnlinks, Goes, UnlinkOne
  <2>12. CASE RemoveAllEnds(p)
    BY <2>12 DEF RemoveAllEnds, Goes, RemoveDir
  <2> QED BY <1>1, <2>1, <2>2, <2>3, <2>4, <2>5, <2>6, <2>7, <2>8, <2>9,
     <2>10, <2>11, <2>12 DEF ProxyStep
<1>2. ASSUME NEW p \in Proxies, ProxyFault(p)
     PROVE  ForceRemoves'
  <2>1. CASE Crash(p)
    BY <2>1 DEF Crash, Fault, Dies, Alive
  <2>2. CASE ConfigFails(p)
    BY <2>2 DEF ConfigFails, Fault
  <2>3. CASE WritePidFails(p)
    BY <2>3 DEF WritePidFails, Fault
  <2>4. CASE BootFails(p)
    BY <2>4 DEF BootFails, Fault
  <2>5. CASE Interrupt(p)
    BY <2>5 DEF Interrupt, Fault, Alive
  <2> QED BY <1>2, <2>1, <2>2, <2>3, <2>4, <2>5 DEF ProxyFault
<1>3. ASSUME NEW c \in Clients, ClientStep(c) \/ UsePassthrough(c) \/ StartOver(c)
     PROVE  ForceRemoves'
  <2>1. CASE FirstGetPid(c) \/ PollPid(c)
    BY <2>1 DEF FirstGetPid, GetPid, ClientGoes, PollPid
  <2>2. CASE FirstGetReady(c) \/ PollReady(c)
    BY <2>2 DEF FirstGetReady, GetReady, ClientGoes, PollReady
  <2>3. CASE FirstGetFails(c) \/ FirstGetPending(c) \/ PollPending(c) \/
     UsePassthrough(c) \/ StartOver(c)
    BY <2>3 DEF FirstGetFails, ClientGoes, FirstGetPending, GetPending,
       PollPending, UsePassthrough, StartOver
  <2>4. CASE StartProxy(c)
    BY <2>4 DEF StartProxy, ClientGoes
  <2> QED BY <1>3, <2>1, <2>2, <2>3, <2>4 DEF ClientStep
<1>4. ASSUME NEW k \in Killers, KillerStep(k) \/ WaitInterrupted(k)
     PROVE  ForceRemoves'
  <2>1. CASE ShutdownGets(k) \/ ShutdownGetFails(k)
    BY <2>1 DEF ShutdownGets, KillerGoes, Content, ShutdownGetFails
  <2>2. CASE SignalFails(k) \/ SignalZombie(k)
    BY <2>2 DEF SignalFails, KillerGoes, SignalZombie, AfterSignal
  <2>3. CASE SignalTerm(k)
    BY <2>3 DEF SignalTerm, KillerGoes, AfterSignal
  <2>4. CASE SignalTermAgain(k)
    BY <2>4 DEF SignalTermAgain, KillerGoes, AfterSignal, Dies, Alive
  <2>5. CASE SignalKill(k)
    BY <2>5 DEF SignalKill, KillerGoes, AfterSignal, Dies, Alive
  <2>6. CASE ForceLists(k)
    BY <2>6 DEF ForceLists, KillerGoes, ListDir
  <2>7. CASE ForceUnlinks(k)
    BY <2>7 DEF ForceUnlinks, KillerGoes, UnlinkOne
  <2>8. CASE ForceEnds(k)
    BY <2>8 DEF ForceEnds, KillerGoes, RemoveDir
  <2>9. CASE WaitEnds(k) \/ WaitPanics(k) \/ WaitInterrupted(k)
    BY <2>9 DEF WaitEnds, KillerGoes, WaitPanics, WaitInterrupted
  <2> QED BY <1>4, <2>1, <2>2, <2>3, <2>4, <2>5, <2>6, <2>7, <2>8, <2>9 DEF
     KillerStep
<1>5. CASE UNCHANGED vars
  BY <1>5 DEF vars
<1> QED BY <1>1, <1>2, <1>3, <1>4, <1>5 DEF Next

\* A removal that has begun remains so.
LEMMA RemovalStep ==
  ASSUME TypeOK, ForceRemoves, RemovalBegan, [Next]_vars
  PROVE  RemovalBegan'
<1> USE DEF TypeOK, disk, cvars, kvars, Files, ProxyPC, ClientPC, KillerPC,
   KillerModes, Starting, Owning, Removing, Ended, ForceRemoves, RemovalBegan
<1>1. ASSUME NEW p \in Proxies, ProxyStep(p) \/ IdleExit(p)
     PROVE  RemovalBegan'
  <2>1. CASE MakeDir(p)
    BY <2>1 DEF MakeDir, Goes
  <2>2. CASE OpenPidFile(p)
    BY <2>2 DEF OpenPidFile, Goes, OpenTrunc
  <2>3. CASE OpenPortFile(p)
    BY <2>3 DEF OpenPortFile, Goes, OpenTrunc
  <2>4. CASE LockPidFile(p)
    BY <2>4 DEF LockPidFile, Goes
  <2>5. CASE WritePid(p)
    BY <2>5 DEF WritePid, Goes
  <2>6. CASE WritePort(p)
    BY <2>6 DEF WritePort, Goes
  <2>7. CASE UnlockPidFile(p)
    BY <2>7 DEF UnlockPidFile, Goes
  <2>8. CASE OpenPidFileFails(p) \/ LockPidFileFails(p) \/
     OpenPortFileFails(p)
    BY <2>8 DEF OpenPidFileFails, Goes, LockPidFileFails, OpenPortFileFails
  <2>9. CASE Boot(p) \/ BootCancelled(p) \/ ServeCancelled(p) \/ IdleExit(p)
    BY <2>9 DEF Boot, Goes, BootCancelled, ServeCancelled, IdleExit
  <2>10. CASE RemoveAllLists(p)
    BY <2>10 DEF RemoveAllLists, Goes, ListDir
  <2>11. CASE RemoveAllUnlinks(p)
    BY <2>11 DEF RemoveAllUnlinks, Goes, UnlinkOne
  <2>12. CASE RemoveAllEnds(p)
    BY <2>12 DEF RemoveAllEnds, Goes, RemoveDir
  <2> QED BY <1>1, <2>1, <2>2, <2>3, <2>4, <2>5, <2>6, <2>7, <2>8, <2>9,
     <2>10, <2>11, <2>12 DEF ProxyStep
<1>2. ASSUME NEW p \in Proxies, ProxyFault(p)
     PROVE  RemovalBegan'
  <2>1. CASE Crash(p)
    BY <2>1 DEF Crash, Fault, Dies, Alive
  <2>2. CASE ConfigFails(p)
    BY <2>2 DEF ConfigFails, Fault
  <2>3. CASE WritePidFails(p)
    BY <2>3 DEF WritePidFails, Fault
  <2>4. CASE BootFails(p)
    BY <2>4 DEF BootFails, Fault
  <2>5. CASE Interrupt(p)
    BY <2>5 DEF Interrupt, Fault, Alive
  <2> QED BY <1>2, <2>1, <2>2, <2>3, <2>4, <2>5 DEF ProxyFault
<1>3. ASSUME NEW c \in Clients, ClientStep(c) \/ UsePassthrough(c) \/ StartOver(c)
     PROVE  RemovalBegan'
  <2>1. CASE FirstGetPid(c) \/ PollPid(c)
    BY <2>1 DEF FirstGetPid, GetPid, ClientGoes, PollPid
  <2>2. CASE FirstGetReady(c) \/ PollReady(c)
    BY <2>2 DEF FirstGetReady, GetReady, ClientGoes, PollReady
  <2>3. CASE FirstGetFails(c) \/ FirstGetPending(c) \/ PollPending(c) \/
     UsePassthrough(c) \/ StartOver(c)
    BY <2>3 DEF FirstGetFails, ClientGoes, FirstGetPending, GetPending,
       PollPending, UsePassthrough, StartOver
  <2>4. CASE StartProxy(c)
    BY <2>4 DEF StartProxy, ClientGoes
  <2> QED BY <1>3, <2>1, <2>2, <2>3, <2>4 DEF ClientStep
<1>4. ASSUME NEW k \in Killers, KillerStep(k) \/ WaitInterrupted(k)
     PROVE  RemovalBegan'
  <2>1. CASE ShutdownGets(k) \/ ShutdownGetFails(k)
    BY <2>1 DEF ShutdownGets, KillerGoes, Content, ShutdownGetFails
  <2>2. CASE SignalFails(k) \/ SignalZombie(k)
    BY <2>2 DEF SignalFails, KillerGoes, SignalZombie, AfterSignal
  <2>3. CASE SignalTerm(k)
    BY <2>3 DEF SignalTerm, KillerGoes, AfterSignal
  <2>4. CASE SignalTermAgain(k)
    BY <2>4 DEF SignalTermAgain, KillerGoes, AfterSignal, Dies, Alive
  <2>5. CASE SignalKill(k)
    BY <2>5 DEF SignalKill, KillerGoes, AfterSignal, Dies, Alive
  <2>6. CASE ForceLists(k)
    BY <2>6 DEF ForceLists, KillerGoes, ListDir
  <2>7. CASE ForceUnlinks(k)
    BY <2>7 DEF ForceUnlinks, KillerGoes, UnlinkOne
  <2>8. CASE ForceEnds(k)
    BY <2>8 DEF ForceEnds, KillerGoes, RemoveDir
  <2>9. CASE WaitEnds(k) \/ WaitPanics(k) \/ WaitInterrupted(k)
    BY <2>9 DEF WaitEnds, KillerGoes, WaitPanics, WaitInterrupted
  <2> QED BY <1>4, <2>1, <2>2, <2>3, <2>4, <2>5, <2>6, <2>7, <2>8, <2>9 DEF
     KillerStep
<1>5. CASE UNCHANGED vars
  BY <1>5 DEF vars
<1> QED BY <1>1, <1>2, <1>3, <1>4, <1>5 DEF Next

\* Without a removal the path of the pid file never changes its inode.
LEMMA LinkStep ==
  ASSUME TypeOK, ForceRemoves, LinkedUntilRemoval, ~RemovalBegan, [Next]_vars
  PROVE  LinkedUntilRemoval'
<1> USE RemoverAssumption, SentinelAssumption, FaultAssumption
<1> USE DEF TypeOK, disk, cvars, kvars, Files, ProxyPC, ClientPC, KillerPC,
   KillerModes, Starting, Owning, Removing, Ended, ForceRemoves, RemovalBegan,
   LinkedUntilRemoval
<1>1. ASSUME NEW p \in Proxies, ProxyStep(p) \/ IdleExit(p)
     PROVE  LinkedUntilRemoval'
  <2>1. CASE MakeDir(p)
    BY <2>1 DEF MakeDir, Goes
  <2>2. CASE OpenPidFile(p)
    BY <2>2 DEF OpenPidFile, Goes, OpenTrunc
  <2>3. CASE OpenPortFile(p)
    BY <2>3 DEF OpenPortFile, Goes, OpenTrunc
  <2>4. CASE LockPidFile(p)
    BY <2>4 DEF LockPidFile, Goes
  <2>5. CASE WritePid(p)
    BY <2>5 DEF WritePid, Goes
  <2>6. CASE WritePort(p)
    BY <2>6 DEF WritePort, Goes
  <2>7. CASE UnlockPidFile(p)
    BY <2>7 DEF UnlockPidFile, Goes
  <2>8. CASE OpenPidFileFails(p) \/ LockPidFileFails(p) \/
     OpenPortFileFails(p)
    BY <2>8 DEF OpenPidFileFails, Goes, LockPidFileFails, OpenPortFileFails
  <2>9. CASE Boot(p) \/ BootCancelled(p) \/ ServeCancelled(p) \/ IdleExit(p)
    BY <2>9 DEF Boot, Goes, BootCancelled, ServeCancelled, IdleExit
  <2>10. CASE RemoveAllLists(p)
    BY <2>10 DEF RemoveAllLists, Goes, ListDir
  <2>11. CASE RemoveAllUnlinks(p)
    BY <2>11 DEF RemoveAllUnlinks, Goes, UnlinkOne
  <2>12. CASE RemoveAllEnds(p)
    BY <2>12 DEF RemoveAllEnds, Goes, RemoveDir
  <2> QED BY <1>1, <2>1, <2>2, <2>3, <2>4, <2>5, <2>6, <2>7, <2>8, <2>9,
     <2>10, <2>11, <2>12 DEF ProxyStep
<1>2. ASSUME NEW p \in Proxies, ProxyFault(p)
     PROVE  LinkedUntilRemoval'
  <2>1. CASE Crash(p)
    BY <2>1 DEF Crash, Fault, Dies, Alive
  <2>2. CASE ConfigFails(p)
    BY <2>2 DEF ConfigFails, Fault
  <2>3. CASE WritePidFails(p)
    BY <2>3 DEF WritePidFails, Fault
  <2>4. CASE BootFails(p)
    BY <2>4 DEF BootFails, Fault
  <2>5. CASE Interrupt(p)
    BY <2>5 DEF Interrupt, Fault, Alive
  <2> QED BY <1>2, <2>1, <2>2, <2>3, <2>4, <2>5 DEF ProxyFault
<1>3. ASSUME NEW c \in Clients, ClientStep(c) \/ UsePassthrough(c) \/ StartOver(c)
     PROVE  LinkedUntilRemoval'
  <2>1. CASE FirstGetPid(c) \/ PollPid(c)
    BY <2>1 DEF FirstGetPid, GetPid, ClientGoes, PollPid
  <2>2. CASE FirstGetReady(c) \/ PollReady(c)
    BY <2>2 DEF FirstGetReady, GetReady, ClientGoes, PollReady
  <2>3. CASE FirstGetFails(c) \/ FirstGetPending(c) \/ PollPending(c) \/
     UsePassthrough(c) \/ StartOver(c)
    BY <2>3 DEF FirstGetFails, ClientGoes, FirstGetPending, GetPending,
       PollPending, UsePassthrough, StartOver
  <2>4. CASE StartProxy(c)
    BY <2>4 DEF StartProxy, ClientGoes
  <2> QED BY <1>3, <2>1, <2>2, <2>3, <2>4 DEF ClientStep
<1>4. ASSUME NEW k \in Killers, KillerStep(k) \/ WaitInterrupted(k)
     PROVE  LinkedUntilRemoval'
  <2>1. CASE ShutdownGets(k) \/ ShutdownGetFails(k)
    BY <2>1 DEF ShutdownGets, KillerGoes, Content, ShutdownGetFails
  <2>2. CASE SignalFails(k) \/ SignalZombie(k)
    BY <2>2 DEF SignalFails, KillerGoes, SignalZombie, AfterSignal
  <2>3. CASE SignalTerm(k)
    BY <2>3 DEF SignalTerm, KillerGoes, AfterSignal
  <2>4. CASE SignalTermAgain(k)
    BY <2>4 DEF SignalTermAgain, KillerGoes, AfterSignal, Dies, Alive
  <2>5. CASE SignalKill(k)
    BY <2>5 DEF SignalKill, KillerGoes, AfterSignal, Dies, Alive
  <2>6. CASE ForceLists(k)
    BY <2>6 DEF ForceLists, KillerGoes, ListDir
  <2>7. CASE ForceUnlinks(k)
    BY <2>7 DEF ForceUnlinks, KillerGoes, UnlinkOne
  <2>8. CASE ForceEnds(k)
    BY <2>8 DEF ForceEnds, KillerGoes, RemoveDir
  <2>9. CASE WaitEnds(k) \/ WaitPanics(k) \/ WaitInterrupted(k)
    BY <2>9 DEF WaitEnds, KillerGoes, WaitPanics, WaitInterrupted
  <2> QED BY <1>4, <2>1, <2>2, <2>3, <2>4, <2>5, <2>6, <2>7, <2>8, <2>9 DEF
     KillerStep
<1>5. CASE UNCHANGED vars
  BY <1>5 DEF vars
<1> QED BY <1>1, <1>2, <1>3, <1>4, <1>5 DEF Next

\* A pid is written under the lock, by the process it belongs to.
LEMMA PidStep ==
  ASSUME TypeOK, OwnersHoldTheirLock, PidTextOwned, [Next]_vars
  PROVE  PidTextOwned'
<1> USE RemoverAssumption, SentinelAssumption, FaultAssumption
<1> USE DEF TypeOK, disk, cvars, kvars, Files, ProxyPC, ClientPC, KillerPC,
   KillerModes, Starting, Owning, Removing, Ended, PidTextOwned,
   OwnersHoldTheirLock
<1>1. ASSUME NEW p \in Proxies, ProxyStep(p) \/ IdleExit(p)
     PROVE  PidTextOwned'
  <2>1. CASE MakeDir(p)
    BY <2>1 DEF MakeDir, Goes
  <2>2. CASE OpenPidFile(p)
    BY <2>2 DEF OpenPidFile, Goes, OpenTrunc
  <2>3. CASE OpenPortFile(p)
    BY <2>3 DEF OpenPortFile, Goes, OpenTrunc
  <2>4. CASE LockPidFile(p)
    BY <2>4 DEF LockPidFile, Goes
  <2>5. CASE WritePid(p)
    BY <2>5 DEF WritePid, Goes
  <2>6. CASE WritePort(p)
    BY <2>6 DEF WritePort, Goes
  <2>7. CASE UnlockPidFile(p)
    BY <2>7 DEF UnlockPidFile, Goes
  <2>8. CASE OpenPidFileFails(p) \/ LockPidFileFails(p) \/
     OpenPortFileFails(p)
    BY <2>8 DEF OpenPidFileFails, Goes, LockPidFileFails, OpenPortFileFails
  <2>9. CASE Boot(p) \/ BootCancelled(p) \/ ServeCancelled(p) \/ IdleExit(p)
    BY <2>9 DEF Boot, Goes, BootCancelled, ServeCancelled, IdleExit
  <2>10. CASE RemoveAllLists(p)
    BY <2>10 DEF RemoveAllLists, Goes, ListDir
  <2>11. CASE RemoveAllUnlinks(p)
    BY <2>11 DEF RemoveAllUnlinks, Goes, UnlinkOne
  <2>12. CASE RemoveAllEnds(p)
    BY <2>12 DEF RemoveAllEnds, Goes, RemoveDir
  <2> QED BY <1>1, <2>1, <2>2, <2>3, <2>4, <2>5, <2>6, <2>7, <2>8, <2>9,
     <2>10, <2>11, <2>12 DEF ProxyStep
<1>2. ASSUME NEW p \in Proxies, ProxyFault(p)
     PROVE  PidTextOwned'
  <2>1. CASE Crash(p)
    BY <2>1 DEF Crash, Fault, Dies, Alive
  <2>2. CASE ConfigFails(p)
    BY <2>2 DEF ConfigFails, Fault
  <2>3. CASE WritePidFails(p)
    BY <2>3 DEF WritePidFails, Fault
  <2>4. CASE BootFails(p)
    BY <2>4 DEF BootFails, Fault
  <2>5. CASE Interrupt(p)
    BY <2>5 DEF Interrupt, Fault, Alive
  <2> QED BY <1>2, <2>1, <2>2, <2>3, <2>4, <2>5 DEF ProxyFault
<1>3. ASSUME NEW c \in Clients, ClientStep(c) \/ UsePassthrough(c) \/ StartOver(c)
     PROVE  PidTextOwned'
  <2>1. CASE FirstGetPid(c) \/ PollPid(c)
    BY <2>1 DEF FirstGetPid, GetPid, ClientGoes, PollPid
  <2>2. CASE FirstGetReady(c) \/ PollReady(c)
    BY <2>2 DEF FirstGetReady, GetReady, ClientGoes, PollReady
  <2>3. CASE FirstGetFails(c) \/ FirstGetPending(c) \/ PollPending(c) \/
     UsePassthrough(c) \/ StartOver(c)
    BY <2>3 DEF FirstGetFails, ClientGoes, FirstGetPending, GetPending,
       PollPending, UsePassthrough, StartOver
  <2>4. CASE StartProxy(c)
    BY <2>4 DEF StartProxy, ClientGoes
  <2> QED BY <1>3, <2>1, <2>2, <2>3, <2>4 DEF ClientStep
<1>4. ASSUME NEW k \in Killers, KillerStep(k) \/ WaitInterrupted(k)
     PROVE  PidTextOwned'
  <2>1. CASE ShutdownGets(k) \/ ShutdownGetFails(k)
    BY <2>1 DEF ShutdownGets, KillerGoes, Content, ShutdownGetFails
  <2>2. CASE SignalFails(k) \/ SignalZombie(k)
    BY <2>2 DEF SignalFails, KillerGoes, SignalZombie, AfterSignal
  <2>3. CASE SignalTerm(k)
    BY <2>3 DEF SignalTerm, KillerGoes, AfterSignal
  <2>4. CASE SignalTermAgain(k)
    BY <2>4 DEF SignalTermAgain, KillerGoes, AfterSignal, Dies, Alive
  <2>5. CASE SignalKill(k)
    BY <2>5 DEF SignalKill, KillerGoes, AfterSignal, Dies, Alive
  <2>6. CASE ForceLists(k)
    BY <2>6 DEF ForceLists, KillerGoes, ListDir
  <2>7. CASE ForceUnlinks(k)
    BY <2>7 DEF ForceUnlinks, KillerGoes, UnlinkOne
  <2>8. CASE ForceEnds(k)
    BY <2>8 DEF ForceEnds, KillerGoes, RemoveDir
  <2>9. CASE WaitEnds(k) \/ WaitPanics(k) \/ WaitInterrupted(k)
    BY <2>9 DEF WaitEnds, KillerGoes, WaitPanics, WaitInterrupted
  <2> QED BY <1>4, <2>1, <2>2, <2>3, <2>4, <2>5, <2>6, <2>7, <2>8, <2>9 DEF
     KillerStep
<1>5. CASE UNCHANGED vars
  BY <1>5 DEF vars
<1> QED BY <1>1, <1>2, <1>3, <1>4, <1>5 DEF Next

\* A port is written by the process it belongs to when it serves.
LEMMA PortStep ==
  ASSUME TypeOK, PortTextServes, [Next]_vars
  PROVE  PortTextServes'
<1> USE RemoverAssumption, SentinelAssumption, FaultAssumption
<1> USE DEF TypeOK, disk, cvars, kvars, Files, ProxyPC, ClientPC, KillerPC,
   KillerModes, Starting, Owning, Removing, Ended, PortTextServes, Published,
   ClientContent, Content
<1>1. ASSUME NEW p \in Proxies, ProxyStep(p) \/ IdleExit(p)
     PROVE  PortTextServes'
  <2>1. CASE MakeDir(p)
    BY <2>1 DEF MakeDir, Goes
  <2>2. CASE OpenPidFile(p)
    BY <2>2 DEF OpenPidFile, Goes, OpenTrunc
  <2>3. CASE OpenPortFile(p)
    BY <2>3 DEF OpenPortFile, Goes, OpenTrunc
  <2>4. CASE LockPidFile(p)
    BY <2>4 DEF LockPidFile, Goes
  <2>5. CASE WritePid(p)
    BY <2>5 DEF WritePid, Goes
  <2>6. CASE WritePort(p)
    BY <2>6 DEF WritePort, Goes
  <2>7. CASE UnlockPidFile(p)
    BY <2>7 DEF UnlockPidFile, Goes
  <2>8. CASE OpenPidFileFails(p) \/ LockPidFileFails(p) \/
     OpenPortFileFails(p)
    BY <2>8 DEF OpenPidFileFails, Goes, LockPidFileFails, OpenPortFileFails
  <2>9. CASE Boot(p) \/ BootCancelled(p) \/ ServeCancelled(p) \/ IdleExit(p)
    BY <2>9 DEF Boot, Goes, BootCancelled, ServeCancelled, IdleExit
  <2>10. CASE RemoveAllLists(p)
    BY <2>10 DEF RemoveAllLists, Goes, ListDir
  <2>11. CASE RemoveAllUnlinks(p)
    BY <2>11 DEF RemoveAllUnlinks, Goes, UnlinkOne
  <2>12. CASE RemoveAllEnds(p)
    BY <2>12 DEF RemoveAllEnds, Goes, RemoveDir
  <2> QED BY <1>1, <2>1, <2>2, <2>3, <2>4, <2>5, <2>6, <2>7, <2>8, <2>9,
     <2>10, <2>11, <2>12 DEF ProxyStep
<1>2. ASSUME NEW p \in Proxies, ProxyFault(p)
     PROVE  PortTextServes'
  <2>1. CASE Crash(p)
    BY <2>1 DEF Crash, Fault, Dies, Alive
  <2>2. CASE ConfigFails(p)
    BY <2>2 DEF ConfigFails, Fault
  <2>3. CASE WritePidFails(p)
    BY <2>3 DEF WritePidFails, Fault
  <2>4. CASE BootFails(p)
    BY <2>4 DEF BootFails, Fault
  <2>5. CASE Interrupt(p)
    BY <2>5 DEF Interrupt, Fault, Alive
  <2> QED BY <1>2, <2>1, <2>2, <2>3, <2>4, <2>5 DEF ProxyFault
<1>3. ASSUME NEW c \in Clients, ClientStep(c) \/ UsePassthrough(c) \/ StartOver(c)
     PROVE  PortTextServes'
  <2>1. CASE FirstGetPid(c) \/ PollPid(c)
    BY <2>1 DEF FirstGetPid, GetPid, ClientGoes, PollPid
  <2>2. CASE FirstGetReady(c) \/ PollReady(c)
    BY <2>2 DEF FirstGetReady, GetReady, ClientGoes, PollReady
  <2>3. CASE FirstGetFails(c) \/ FirstGetPending(c) \/ PollPending(c) \/
     UsePassthrough(c) \/ StartOver(c)
    BY <2>3 DEF FirstGetFails, ClientGoes, FirstGetPending, GetPending,
       PollPending, UsePassthrough, StartOver
  <2>4. CASE StartProxy(c)
    BY <2>4 DEF StartProxy, ClientGoes
  <2> QED BY <1>3, <2>1, <2>2, <2>3, <2>4 DEF ClientStep
<1>4. ASSUME NEW k \in Killers, KillerStep(k) \/ WaitInterrupted(k)
     PROVE  PortTextServes'
  <2>1. CASE ShutdownGets(k) \/ ShutdownGetFails(k)
    BY <2>1 DEF ShutdownGets, KillerGoes, Content, ShutdownGetFails
  <2>2. CASE SignalFails(k) \/ SignalZombie(k)
    BY <2>2 DEF SignalFails, KillerGoes, SignalZombie, AfterSignal
  <2>3. CASE SignalTerm(k)
    BY <2>3 DEF SignalTerm, KillerGoes, AfterSignal
  <2>4. CASE SignalTermAgain(k)
    BY <2>4 DEF SignalTermAgain, KillerGoes, AfterSignal, Dies, Alive
  <2>5. CASE SignalKill(k)
    BY <2>5 DEF SignalKill, KillerGoes, AfterSignal, Dies, Alive
  <2>6. CASE ForceLists(k)
    BY <2>6 DEF ForceLists, KillerGoes, ListDir
  <2>7. CASE ForceUnlinks(k)
    BY <2>7 DEF ForceUnlinks, KillerGoes, UnlinkOne
  <2>8. CASE ForceEnds(k)
    BY <2>8 DEF ForceEnds, KillerGoes, RemoveDir
  <2>9. CASE WaitEnds(k) \/ WaitPanics(k) \/ WaitInterrupted(k)
    BY <2>9 DEF WaitEnds, KillerGoes, WaitPanics, WaitInterrupted
  <2> QED BY <1>4, <2>1, <2>2, <2>3, <2>4, <2>5, <2>6, <2>7, <2>8, <2>9 DEF
     KillerStep
<1>5. CASE UNCHANGED vars
  BY <1>5 DEF vars
<1> QED BY <1>1, <1>2, <1>3, <1>4, <1>5 DEF Next

\* Every step is one of ProxyClaim or changes nothing that ProxyClaim sees.
LEMMA ClaimStep ==
  ASSUME TypeOK, ForceRemoves, OwnersHoldTheirLock, LinkedUntilRemoval, [Next]_vars
  PROVE  [Claim!Next]_Claim!vars
<1> USE RemovalStep
<1> USE DEF TypeOK, disk, cvars, kvars, Files, ProxyPC, ClientPC, KillerPC,
   KillerModes, Starting, Owning, Removing, Ended, ForceRemoves, RemovalBegan,
   Claim!Next, Claim!vars, Claim!LockProxy, Claim!UnlockProxy, Claim!Crash,
   Claim!Remove
<1>1. ASSUME NEW p \in Proxies, ProxyStep(p) \/ IdleExit(p)
     PROVE  [Claim!Next]_Claim!vars
  <2>1. CASE MakeDir(p)
    BY <2>1 DEF MakeDir, Goes
  <2>2. CASE OpenPidFile(p)
    BY <2>2 DEF OpenPidFile, Goes, OpenTrunc
  <2>3. CASE OpenPortFile(p)
    BY <2>3 DEF OpenPortFile, Goes, OpenTrunc
  <2>4. CASE LockPidFile(p)
    <3>1. pc[p] = "flock" /\ pc' = [pc EXCEPT ![p] = "write"] /\ UNCHANGED <<kpc, kmode>>
      BY <2>4 DEF LockPidFile, Goes
    <3>2. UNCHANGED RemovalBegan
      BY <3>1
    <3>3. ASSUME ~RemovalBegan, NEW q \in Proxies PROVE pc[q] \notin Owning
      <4>1. fd["pid"][p] # None /\ lock[fd["pid"][p]] = None
        BY <2>4 DEF LockPidFile, Goes
      <4> QED BY <3>3, <4>1, SentinelAssumption DEF OwnersHoldTheirLock, LinkedUntilRemoval
    <3>4. {q \in Proxies : pc[q] \in Owning}'
            = {q \in Proxies : pc[q] \in Owning} \cup {p}
      BY <3>1
    <3>5. p \notin {q \in Proxies : pc[q] \in Owning}
      BY <3>1
    <3> QED BY <3>2, <3>3, <3>4, <3>5
  <2>5. CASE WritePid(p)
    BY <2>5 DEF WritePid, Goes
  <2>6. CASE WritePort(p)
    BY <2>6 DEF WritePort, Goes
  <2>7. CASE UnlockPidFile(p)
    BY <2>7 DEF UnlockPidFile, Goes
  <2>8. CASE OpenPidFileFails(p) \/ LockPidFileFails(p) \/
     OpenPortFileFails(p)
    BY <2>8 DEF OpenPidFileFails, Goes, LockPidFileFails, OpenPortFileFails
  <2>9. CASE Boot(p) \/ BootCancelled(p) \/ ServeCancelled(p) \/ IdleExit(p)
    BY <2>9 DEF Boot, Goes, BootCancelled, ServeCancelled, IdleExit
  <2>10. CASE RemoveAllLists(p)
    BY <2>10 DEF RemoveAllLists, Goes, ListDir
  <2>11. CASE RemoveAllUnlinks(p)
    BY <2>11 DEF RemoveAllUnlinks, Goes, UnlinkOne
  <2>12. CASE RemoveAllEnds(p)
    BY <2>12 DEF RemoveAllEnds, Goes, RemoveDir
  <2> QED BY <1>1, <2>1, <2>2, <2>3, <2>4, <2>5, <2>6, <2>7, <2>8, <2>9,
     <2>10, <2>11, <2>12 DEF ProxyStep
<1>2. ASSUME NEW p \in Proxies, ProxyFault(p)
     PROVE  [Claim!Next]_Claim!vars
  <2>1. CASE Crash(p)
    BY <2>1 DEF Crash, Fault, Dies, Alive
  <2>2. CASE ConfigFails(p)
    BY <2>2 DEF ConfigFails, Fault
  <2>3. CASE WritePidFails(p)
    BY <2>3 DEF WritePidFails, Fault
  <2>4. CASE BootFails(p)
    BY <2>4 DEF BootFails, Fault
  <2>5. CASE Interrupt(p)
    BY <2>5 DEF Interrupt, Fault, Alive
  <2> QED BY <1>2, <2>1, <2>2, <2>3, <2>4, <2>5 DEF ProxyFault
<1>3. ASSUME NEW c \in Clients, ClientStep(c) \/ UsePassthrough(c) \/ StartOver(c)
     PROVE  [Claim!Next]_Claim!vars
  <2>1. CASE FirstGetPid(c) \/ PollPid(c)
    BY <2>1 DEF FirstGetPid, GetPid, ClientGoes, PollPid
  <2>2. CASE FirstGetReady(c) \/ PollReady(c)
    BY <2>2 DEF FirstGetReady, GetReady, ClientGoes, PollReady
  <2>3. CASE FirstGetFails(c) \/ FirstGetPending(c) \/ PollPending(c) \/
     UsePassthrough(c) \/ StartOver(c)
    BY <2>3 DEF FirstGetFails, ClientGoes, FirstGetPending, GetPending,
       PollPending, UsePassthrough, StartOver
  <2>4. CASE StartProxy(c)
    BY <2>4 DEF StartProxy, ClientGoes
  <2> QED BY <1>3, <2>1, <2>2, <2>3, <2>4 DEF ClientStep
<1>4. ASSUME NEW k \in Killers, KillerStep(k) \/ WaitInterrupted(k)
     PROVE  [Claim!Next]_Claim!vars
  <2>1. CASE ShutdownGets(k) \/ ShutdownGetFails(k)
    BY <2>1 DEF ShutdownGets, KillerGoes, Content, ShutdownGetFails
  <2>2. CASE SignalFails(k) \/ SignalZombie(k)
    BY <2>2 DEF SignalFails, KillerGoes, SignalZombie, AfterSignal
  <2>3. CASE SignalTerm(k)
    BY <2>3 DEF SignalTerm, KillerGoes, AfterSignal
  <2>4. CASE SignalTermAgain(k)
    BY <2>4 DEF SignalTermAgain, KillerGoes, AfterSignal, Dies, Alive
  <2>5. CASE SignalKill(k)
    BY <2>5 DEF SignalKill, KillerGoes, AfterSignal, Dies, Alive
  <2>6. CASE ForceLists(k)
    BY <2>6 DEF ForceLists, KillerGoes, ListDir
  <2>7. CASE ForceUnlinks(k)
    BY <2>7 DEF ForceUnlinks, KillerGoes, UnlinkOne
  <2>8. CASE ForceEnds(k)
    BY <2>8 DEF ForceEnds, KillerGoes, RemoveDir
  <2>9. CASE WaitEnds(k) \/ WaitPanics(k) \/ WaitInterrupted(k)
    BY <2>9 DEF WaitEnds, KillerGoes, WaitPanics, WaitInterrupted
  <2> QED BY <1>4, <2>1, <2>2, <2>3, <2>4, <2>5, <2>6, <2>7, <2>8, <2>9 DEF
     KillerStep
<1>5. CASE UNCHANGED vars
  BY <1>5 DEF vars
<1> QED BY <1>1, <1>2, <1>3, <1>4, <1>5 DEF Next

-----------------------------------------------------------------------------
(* The theorems                                                             *)

\* The initial states satisfy the invariant.
LEMMA InitInv == Init => Inv
<1> SUFFICES ASSUME Init PROVE Inv
  OBVIOUS
<1> USE SentinelAssumption, FaultAssumption
<1>1. TypeOK
  <2>1. faults \in 0..MaxFaults
    BY DEF Init
  <2> QED BY <2>1 DEF Init, TypeOK, Files, ProxyPC, ClientPC, KillerPC, Owning
<1>2. OwnersHoldTheirLock /\ ForceRemoves /\ LinkedUntilRemoval
  BY DEF Init, OwnersHoldTheirLock, ForceRemoves, LinkedUntilRemoval, Files,
         Owning, Removing
<1>3. PidTextOwned /\ PortTextServes
  BY DEF Init, PidTextOwned, PortTextServes, Files
<1> QED BY <1>1, <1>2, <1>3 DEF Inv

\* Every step keeps the invariant.
LEMMA NextInv == Inv /\ [Next]_vars => Inv'
<1> SUFFICES ASSUME Inv, [Next]_vars PROVE Inv'
  OBVIOUS
<1> USE DEF Inv
<1>1. LinkedUntilRemoval'
  <2>1. CASE RemovalBegan
    BY <2>1, RemovalStep DEF LinkedUntilRemoval
  <2>2. CASE ~RemovalBegan
    BY <2>2, LinkStep
  <2> QED BY <2>1, <2>2
<1> QED BY <1>1, TypeStep, LockStep, ForceStep, PidStep, PortStep

\* The invariant holds in every reachable state.
THEOREM Invariance == Spec => []Inv
<1>1. Init => Inv
  BY InitInv
<1>2. Inv /\ [Next]_vars => Inv'
  BY NextInv
<1> QED BY <1>1, <1>2, PTL DEF Spec

\* Until the first removal all owners have the same pid file open and locked.
LEMMA InvExclusive == Inv => ExclusiveUntilRemoval
<1> SUFFICES ASSUME Inv, ~RemovalBegan,
                    NEW p \in Proxies, NEW q \in Proxies,
                    pc[p] \in Owning, pc[q] \in Owning
             PROVE  p = q
  BY DEF ExclusiveUntilRemoval, Exclusive
<1>1. fd["pid"][p] = link["pid"] /\ fd["pid"][q] = link["pid"]
  BY DEF Inv, TypeOK, LinkedUntilRemoval
<1>2. lock[fd["pid"][p]] = p /\ lock[fd["pid"][q]] = q
  BY DEF Inv, OwnersHoldTheirLock
<1> QED BY <1>1, <1>2

\* The variables always have their types, and a proxy that needs an open file
\* has it open (pkg/proxymgr and its callers).
THEOREM TypeCorrect == Spec => []TypeOK
<1>1. Inv => TypeOK
  BY DEF Inv
<1> QED BY <1>1, Invariance, PTL

\* Between LockProxy and UnlockProxy a process holds the lock of its pid file.
THEOREM LockHeld == Spec => []OwnersHoldTheirLock
<1>1. Inv => OwnersHoldTheirLock
  BY DEF Inv
<1> QED BY <1>1, Invariance, PTL

\* LockProxy lets one process at a time own a client configuration, however
\* many start and crash at once, until somebody removes the data directory.
THEOREM Exclusion == Spec => []ExclusiveUntilRemoval
<1> QED BY InvExclusive, Invariance, PTL

\* The pid file names the process that has it locked or one on its way out.
THEOREM PidFileOwner == Spec => []PidNamesOwner
<1>1. Inv => PidNamesOwner
  <2> SUFFICES ASSUME Inv, NEW p \in Proxies, Content("pid") = p
               PROVE  \/ lock[link["pid"]] = p
                      \/ pc[p] \in Removing \cup {"exited", "dead", "cut"}
    BY DEF PidNamesOwner
  <2>1. link["pid"] \in Proxies /\ text["pid"][link["pid"]] = p
    BY SentinelAssumption DEF Content, Inv, TypeOK, Files
  <2> QED BY <2>1 DEF Inv, PidTextOwned
<1> QED BY <1>1, Invariance, PTL

\* A client is only ever given the port of a proxy that accepted connections.
THEOREM PortHandedOut == Spec => []HandedOutServes
<1>1. Inv => HandedOutServes
  BY DEF Inv, PortTextServes, Published, HandedOutServes
<1> QED BY <1>1, Invariance, PTL

\* The registry implements an exclusive claim that the first removal voids:
\* every step of ProxyManager is a step of ProxyClaim or leaves it unchanged.
THEOREM Refinement == Spec => ImplementsClaim
<1>1. Init => Claim!Init
  BY DEF Init, Claim!Init, RemovalBegan, Owning, Removing
<1>2. Inv /\ [Next]_vars => [Claim!Next]_Claim!vars
  BY ClaimStep DEF Inv
<1> QED BY <1>1, <1>2, Invariance, PTL DEF Spec, ImplementsClaim, Claim!Spec
=============================================================================
