--------------------------- MODULE RegistryProofs ---------------------------
(***************************************************************************)
(* More proofs about ProxyManager, on top of its inductive invariant Inv:  *)
(* that pid and port of a Proxy are those of one process, that nothing is  *)
(* left behind by processes that come to their end, what a shutdown needs  *)
(* in order to panic, and that neither a client nor a shutdown waits for   *)
(* what nobody will do.                                                    *)
(***************************************************************************)
EXTENDS ProxyManagerProofs

\* Nothing was removed, and nobody has died with the lock.
Quiet == ~RemovalBegan /\ \A p \in Proxies : pc[p] # "dead"

\* Where a proxy is when its pid is in the file and it has the lock.
Named == {"boot", "openPort", "writePort", "serve", "unlock"}

\* The pid that a client has read is that of an owner, as long as it is quiet.
SeenOwns ==
  \A c \in Clients :
    /\ cpc[c] \in {"startPort", "pollPort"} => seen[c] # None
    /\ using[c] # None => cpc[c] = "done"
    /\ Quiet /\ seen[c] # None => pc[seen[c]] \in Named

\* A pid file is locked by the process that has opened it and is its owner.
LockedByOwner ==
  \A i, p \in Proxies : lock[i] = p => pc[p] \in Owning /\ fd["pid"][p] = i

\* A proxy that has still to remove the directory, or to find that another one
\* has it locked.
Bound == {"open", "flock", "list"} \cup Owning

\* a is about to unlink all that is in the directory.
Clears(a) == \A f \in Files : link[f] # None => f \in todo[a]

\* Somebody will remove the directory, or died before, or an error of LockProxy
\* has kept its process from removing it.
SomebodyCleans ==
  \/ ~dir
  \/ \E p \in Proxies : \/ pc[p] \in Bound \cup {"dead", "cut"}
                        \/ pc[p] = "unlink" /\ Clears(p)
  \/ \E k \in Killers : \/ kpc[k] = "list"
                        \/ kpc[k] = "unlink" /\ Clears(k)
  \/ faults > 0

\* Files are in a directory that is there.
LinkedIsThere == \A f \in Files : link[f] # None => dir

MoreInv ==
  /\ SeenOwns
  /\ OnePidOnePort
  /\ LinkedIsThere
  /\ LockedByOwner
  /\ SomebodyCleans

-----------------------------------------------------------------------------
(* Pid and port                                                             *)

\* Who has died stays dead, and an owner gives up its claim only to remove files
\* or by dying.
LEMMA OwnerStays ==
  ASSUME TypeOK, [Next]_vars, NEW q \in Proxies
  PROVE  (/\ pc[q] = "dead" => pc'[q] = "dead"
          /\ pc[q] \in Named => pc'[q] \in Named \cup {"list", "dead"})
<1> DEFINE Goal == /\ pc[q] = "dead" => pc'[q] = "dead"
                   /\ pc[q] \in Named => pc'[q] \in Named \cup {"list", "dead"}
<1> USE RemoverAssumption, SentinelAssumption, FaultAssumption
<1> USE DEF TypeOK, disk, cvars, kvars, Files, ProxyPC, ClientPC, KillerPC,
   KillerModes, Starting, Owning, Removing, Ended, Named
<1>1. ASSUME NEW p \in Proxies, ProxyStep(p) \/ IdleExit(p)
     PROVE  Goal
  <2>1. CASE MakeDir(p)
    BY <2>1 DEF MakeDir, Goes
  <2>2. CASE OpenPidFile(p)
    BY <2>2 DEF OpenPidFile, Goes, OpenTrunc
  <2>3. CASE OpenPortFile(p)
    BY <2>3 DEF OpenPortFile, Goes, OpenTrunc
  <2>4. CASE LockPidFile(p)
    BY <2>4 DEF LockPidFile, Goes
  <2>5. CASE WritePid(p) \/ WritePort(p)
    BY <2>5 DEF WritePid, WritePort, Goes
  <2>6. CASE OpenPidFileFails(p) \/ OpenPortFileFails(p)
    BY <2>6 DEF OpenPidFileFails, OpenPortFileFails, Goes
  <2>7. CASE LockPidFileFails(p)
    BY <2>7 DEF LockPidFileFails, Goes
  <2>8. CASE UnlockPidFile(p)
    BY <2>8 DEF UnlockPidFile, Goes
  <2>9. CASE Boot(p) \/ BootCancelled(p) \/ ServeCancelled(p) \/ IdleExit(p)
    BY <2>9 DEF Boot, Goes, BootCancelled, ServeCancelled, IdleExit
  <2>10. CASE RemoveAllLists(p)
    BY <2>10 DEF RemoveAllLists, Goes, ListDir
  <2>11. CASE RemoveAllUnlinks(p)
    BY <2>11 DEF RemoveAllUnlinks, Goes, UnlinkOne
  <2>12. CASE RemoveAllEnds(p)
    BY <2>12 DEF RemoveAllEnds, Goes, RemoveDir
  <2> QED BY <1>1, <2>1, <2>2, <2>3, <2>4, <2>5, <2>6, <2>7, <2>8, <2>9,
     <2>10, <2>11, <2>12 DEF ProxyStep
<1>2. ASSUME NEW p \in Proxies, ProxyFault(p)
     PROVE  Goal
  <2>1. CASE Crash(p)
    BY <2>1 DEF Crash, Fault, Dies, Alive
  <2>2. CASE ConfigFails(p) \/ WritePidFails(p)
    BY <2>2 DEF ConfigFails, WritePidFails, Fault
  <2>3. CASE BootFails(p) \/ Interrupt(p)
    BY <2>3 DEF BootFails, Interrupt, Fault, Alive
  <2> QED BY <1>2, <2>1, <2>2, <2>3 DEF ProxyFault
<1>3. ASSUME NEW c \in Clients, ClientStep(c) \/ UsePassthrough(c) \/ StartOver(c)
     PROVE  Goal
  <2>1. CASE StartProxy(c)
    BY <2>1 DEF StartProxy, ClientGoes
  <2>2. CASE FirstGetPid(c) \/ PollPid(c)
    BY <2>2 DEF FirstGetPid, PollPid, GetPid, ClientGoes
  <2>3. CASE FirstGetReady(c) \/ PollReady(c)
    BY <2>3 DEF FirstGetReady, PollReady, GetReady, ClientGoes
  <2>4. CASE FirstGetFails(c) \/ FirstGetPending(c) \/ PollPending(c)
    BY <2>4 DEF FirstGetFails, FirstGetPending, PollPending, GetPending, ClientGoes
  <2>5. CASE UsePassthrough(c) \/ StartOver(c)
    BY <2>5 DEF UsePassthrough, StartOver, ClientGoes
  <2> QED BY <1>3, <2>1, <2>2, <2>3, <2>4, <2>5 DEF ClientStep
<1>4. ASSUME NEW k \in Killers, KillerStep(k) \/ WaitInterrupted(k)
     PROVE  Goal
  <2>1. CASE ShutdownGets(k) \/ ShutdownGetFails(k)
    BY <2>1 DEF ShutdownGets, ShutdownGetFails, KillerGoes
  <2>2. CASE SignalFails(k) \/ SignalZombie(k) \/ SignalTerm(k)
    BY <2>2 DEF SignalFails, SignalZombie, SignalTerm, KillerGoes
  <2>3. CASE SignalTermAgain(k) \/ SignalKill(k)
    BY <2>3 DEF SignalTermAgain, SignalKill, KillerGoes, Dies, Alive
  <2>4. CASE ForceLists(k)
    BY <2>4 DEF ForceLists, KillerGoes, ListDir
  <2>5. CASE ForceUnlinks(k)
    BY <2>5 DEF ForceUnlinks, KillerGoes, UnlinkOne
  <2>6. CASE ForceEnds(k)
    BY <2>6 DEF ForceEnds, KillerGoes, RemoveDir
  <2>7. CASE WaitEnds(k) \/ WaitPanics(k) \/ WaitInterrupted(k)
    BY <2>7 DEF WaitEnds, WaitPanics, WaitInterrupted, KillerGoes
  <2> QED BY <1>4, <2>1, <2>2, <2>3, <2>4, <2>5, <2>6, <2>7 DEF KillerStep
<1>5. CASE UNCHANGED vars
  BY <1>5 DEF vars
<1> QED BY <1>1, <1>2, <1>3, <1>4, <1>5 DEF Next

\* If it is quiet after a step it was before.
LEMMA QuietStep ==
  ASSUME TypeOK, ForceRemoves, [Next]_vars, Quiet'
  PROVE  Quiet
<1>1. ~RemovalBegan
  BY RemovalStep DEF Quiet
<1>2. ASSUME NEW q \in Proxies PROVE pc[q] # "dead"
  BY OwnerStays DEF Quiet
<1> QED BY <1>1, <1>2 DEF Quiet

\* In quiet states an owner remains one.
LEMMA OwnerRemains ==
  ASSUME TypeOK, [Next]_vars, Quiet', NEW q \in Proxies, pc[q] \in Named
  PROVE  pc'[q] \in Named
<1>1. pc'[q] \in Named \cup {"list", "dead"}
  BY OwnerStays
<1>2. pc'[q] \notin {"list", "dead"}
  BY DEF Quiet, RemovalBegan, Removing
<1> QED BY <1>1, <1>2

\* The pid that a client reads is that of an owner, if it is quiet.
LEMMA PidRead ==
  ASSUME Inv, Quiet, ClientContent("pid") \in Proxies
  PROVE  pc[ClientContent("pid")] \in Named
<1>1. /\ link["pid"] \in Proxies
      /\ ClientContent("pid") = text["pid"][link["pid"]]
  BY SentinelAssumption DEF ClientContent, Content, Inv, TypeOK, Files
<1>2. pc[ClientContent("pid")] \in
        (Owning \ {"write"}) \cup Removing \cup {"exited", "dead", "cut"}
  BY <1>1 DEF Inv, PidTextOwned
<1> QED BY <1>2 DEF Quiet, RemovalBegan, Owning, Named

\* The port that a client reads is that of an owner, if it is quiet.
LEMMA PortRead ==
  ASSUME Inv, Quiet, ClientContent("port") \in Proxies
  PROVE  pc[ClientContent("port")] \in Named
<1>1. /\ link["port"] \in Proxies
      /\ ClientContent("port") = text["port"][link["port"]]
  BY SentinelAssumption DEF ClientContent, Content, Inv, TypeOK, Files
<1>2. pc[ClientContent("port")] \in Published
  BY <1>1 DEF Inv, PortTextServes
<1> QED BY <1>2 DEF Quiet, RemovalBegan, Published, Named

\* What a step does to what client c has read.
Reads(c) ==
  \/ UNCHANGED <<cpc[c], seen[c], using[c]>>
  \/ /\ ClientContent("pid") \in Proxies /\ seen'[c] = ClientContent("pid")
     /\ cpc[c] # "done" /\ using'[c] = using[c]
  \/ /\ cpc[c] \in {"startPort", "pollPort"} /\ cpc'[c] = "done"
     /\ ClientContent("port") \in Proxies /\ using'[c] = ClientContent("port")
     /\ seen'[c] = seen[c]
  \/ /\ cpc'[c] \notin {"startPort", "pollPort"} /\ seen'[c] \in {seen[c], None}
     /\ using'[c] = None \/ (cpc[c] # "done" /\ using'[c] = using[c])

\* A client reads the pid, then the port, then is done.
LEMMA ReadsStep ==
  ASSUME TypeOK, [Next]_vars, NEW d \in Clients
  PROVE  Reads(d)
<1> USE RemoverAssumption, SentinelAssumption, FaultAssumption
<1> USE DEF TypeOK, disk, cvars, kvars, Files, ProxyPC, ClientPC, KillerPC,
   KillerModes, Starting, Owning, Removing, Ended, Reads
<1>1. ASSUME NEW p \in Proxies, ProxyStep(p) \/ IdleExit(p)
     PROVE  Reads(d)
  <2>1. CASE MakeDir(p)
    BY <2>1 DEF MakeDir, Goes
  <2>2. CASE OpenPidFile(p)
    BY <2>2 DEF OpenPidFile, Goes, OpenTrunc
  <2>3. CASE OpenPortFile(p)
    BY <2>3 DEF OpenPortFile, Goes, OpenTrunc
  <2>4. CASE LockPidFile(p)
    BY <2>4 DEF LockPidFile, Goes
  <2>5. CASE WritePid(p) \/ WritePort(p)
    BY <2>5 DEF WritePid, WritePort, Goes
  <2>6. CASE OpenPidFileFails(p) \/ OpenPortFileFails(p)
    BY <2>6 DEF OpenPidFileFails, OpenPortFileFails, Goes
  <2>7. CASE LockPidFileFails(p)
    BY <2>7 DEF LockPidFileFails, Goes
  <2>8. CASE UnlockPidFile(p)
    BY <2>8 DEF UnlockPidFile, Goes
  <2>9. CASE Boot(p) \/ BootCancelled(p) \/ ServeCancelled(p) \/ IdleExit(p)
    BY <2>9 DEF Boot, Goes, BootCancelled, ServeCancelled, IdleExit
  <2>10. CASE RemoveAllLists(p)
    BY <2>10 DEF RemoveAllLists, Goes, ListDir
  <2>11. CASE RemoveAllUnlinks(p)
    BY <2>11 DEF RemoveAllUnlinks, Goes, UnlinkOne
  <2>12. CASE RemoveAllEnds(p)
    BY <2>12 DEF RemoveAllEnds, Goes, RemoveDir
  <2> QED BY <1>1, <2>1, <2>2, <2>3, <2>4, <2>5, <2>6, <2>7, <2>8, <2>9,
     <2>10, <2>11, <2>12 DEF ProxyStep
<1>2. ASSUME NEW p \in Proxies, ProxyFault(p)
     PROVE  Reads(d)
  <2>1. CASE Crash(p)
    BY <2>1 DEF Crash, Fault, Dies, Alive
  <2>2. CASE ConfigFails(p) \/ WritePidFails(p)
    BY <2>2 DEF ConfigFails, WritePidFails, Fault
  <2>3. CASE BootFails(p) \/ Interrupt(p)
    BY <2>3 DEF BootFails, Interrupt, Fault, Alive
  <2> QED BY <1>2, <2>1, <2>2, <2>3 DEF ProxyFault
<1>3. ASSUME NEW c \in Clients, ClientStep(c) \/ UsePassthrough(c) \/ StartOver(c)
     PROVE  Reads(d)
  <2>1. CASE StartProxy(c)
    BY <2>1 DEF StartProxy, ClientGoes
  <2>2. CASE FirstGetPid(c) \/ PollPid(c)
    BY <2>2 DEF FirstGetPid, PollPid, GetPid, ClientGoes
  <2>3. CASE FirstGetReady(c) \/ PollReady(c)
    BY <2>3 DEF FirstGetReady, PollReady, GetReady, ClientGoes
  <2>4. CASE FirstGetFails(c) \/ FirstGetPending(c) \/ PollPending(c)
    BY <2>4 DEF FirstGetFails, FirstGetPending, PollPending, GetPending, ClientGoes
  <2>5. CASE UsePassthrough(c) \/ StartOver(c)
    BY <2>5 DEF UsePassthrough, StartOver, ClientGoes
  <2> QED BY <1>3, <2>1, <2>2, <2>3, <2>4, <2>5 DEF ClientStep
<1>4. ASSUME NEW k \in Killers, KillerStep(k) \/ WaitInterrupted(k)
     PROVE  Reads(d)
  <2>1. CASE ShutdownGets(k) \/ ShutdownGetFails(k)
    BY <2>1 DEF ShutdownGets, ShutdownGetFails, KillerGoes
  <2>2. CASE SignalFails(k) \/ SignalZombie(k) \/ SignalTerm(k)
    BY <2>2 DEF SignalFails, SignalZombie, SignalTerm, KillerGoes
  <2>3. CASE SignalTermAgain(k) \/ SignalKill(k)
    BY <2>3 DEF SignalTermAgain, SignalKill, KillerGoes, Dies, Alive
  <2>4. CASE ForceLists(k)
    BY <2>4 DEF ForceLists, KillerGoes, ListDir
  <2>5. CASE ForceUnlinks(k)
    BY <2>5 DEF ForceUnlinks, KillerGoes, UnlinkOne
  <2>6. CASE ForceEnds(k)
    BY <2>6 DEF ForceEnds, KillerGoes, RemoveDir
  <2>7. CASE WaitEnds(k) \/ WaitPanics(k) \/ WaitInterrupted(k)
    BY <2>7 DEF WaitEnds, WaitPanics, WaitInterrupted, KillerGoes
  <2> QED BY <1>4, <2>1, <2>2, <2>3, <2>4, <2>5, <2>6, <2>7 DEF KillerStep
<1>5. CASE UNCHANGED vars
  BY <1>5 DEF vars
<1> QED BY <1>1, <1>2, <1>3, <1>4, <1>5 DEF Next

\* What a client has read first remains an owner's.
LEMMA SeenStep ==
  ASSUME Inv, SeenOwns, [Next]_vars
  PROVE  SeenOwns'
<1> USE DEF Inv
<1> SUFFICES ASSUME NEW c \in Clients
             PROVE  /\ cpc'[c] \in {"startPort", "pollPort"} => seen'[c] # None
                    /\ using'[c] # None => cpc'[c] = "done"
                    /\ Quiet' /\ seen'[c] # None => pc'[seen'[c]] \in Named
  BY DEF SeenOwns
<1>1. Reads(c)
  BY ReadsStep
<1>2. TypeOK'
  BY TypeStep
<1>3. /\ cpc'[c] \in {"startPort", "pollPort"} => seen'[c] # None
      /\ using'[c] # None => cpc'[c] = "done"
  BY <1>1, SentinelAssumption DEF Reads, SeenOwns
<1>4. ASSUME Quiet', seen'[c] # None PROVE pc'[seen'[c]] \in Named
  <2>1. Quiet
    BY <1>4, QuietStep
  <2>2. CASE seen'[c] = seen[c]
    BY <1>2, <1>4, <2>1, <2>2, OwnerRemains DEF SeenOwns, TypeOK
  <2>3. CASE ClientContent("pid") \in Proxies /\ seen'[c] = ClientContent("pid")
    BY <1>4, <2>1, <2>3, PidRead, OwnerRemains
  <2> QED BY <1>1, <1>4, <2>2, <2>3 DEF Reads
<1> QED BY <1>3, <1>4

\* The second thing it reads is the same owner's: there is no other.
LEMMA PairStep ==
  ASSUME Inv, SeenOwns, OnePidOnePort, [Next]_vars
  PROVE  OnePidOnePort'
<1> SUFFICES ASSUME NEW c \in Clients, using'[c] # None, Quiet'
             PROVE  seen'[c] = using'[c]
  BY DEF OnePidOnePort, Quiet
<1> USE DEF Inv
<1>1. Reads(c)
  BY ReadsStep
<1>2. Quiet
  BY QuietStep
<1>3. CASE UNCHANGED <<cpc[c], seen[c], using[c]>>
  BY <1>2, <1>3 DEF OnePidOnePort, Quiet
<1>4. CASE /\ cpc[c] \in {"startPort", "pollPort"} /\ seen'[c] = seen[c]
           /\ ClientContent("port") \in Proxies /\ using'[c] = ClientContent("port")
  <2>1. seen[c] \in Proxies /\ pc[seen[c]] \in Named
    BY <1>2, <1>4 DEF SeenOwns, TypeOK
  <2>2. pc[ClientContent("port")] \in Named
    BY <1>2, <1>4, PortRead
  <2>3. Exclusive
    BY <1>2, InvExclusive DEF ExclusiveUntilRemoval, Quiet
  <2> QED BY <1>4, <2>1, <2>2, <2>3 DEF Exclusive, Named, Owning
<1>5. CASE cpc[c] # "done" /\ using'[c] = using[c]
  BY <1>5 DEF SeenOwns
<1> QED BY <1>1, <1>3, <1>4, <1>5 DEF Reads

-----------------------------------------------------------------------------
(* What is left behind                                                      *)

\* Only the owner of a pid file has it locked.
LEMMA LockedStep ==
  ASSUME TypeOK, LockedByOwner, [Next]_vars
  PROVE  LockedByOwner'
<1> USE RemoverAssumption, SentinelAssumption, FaultAssumption
<1> USE DEF TypeOK, disk, cvars, kvars, Files, ProxyPC, ClientPC, KillerPC,
   KillerModes, Starting, Owning, Removing, Ended, LockedByOwner
<1>1. ASSUME NEW p \in Proxies, ProxyStep(p) \/ IdleExit(p)
     PROVE  LockedByOwner'
  <2>1. CASE MakeDir(p)
    BY <2>1 DEF MakeDir, Goes
  <2>2. CASE OpenPidFile(p)
    BY <2>2 DEF OpenPidFile, Goes, OpenTrunc
  <2>3. CASE OpenPortFile(p)
    BY <2>3 DEF OpenPortFile, Goes, OpenTrunc
  <2>4. CASE LockPidFile(p)
    BY <2>4 DEF LockPidFile, Goes
  <2>5. CASE WritePid(p) \/ WritePort(p)
    BY <2>5 DEF WritePid, WritePort, Goes
  <2>6. CASE OpenPidFileFails(p) \/ OpenPortFileFails(p)
    BY <2>6 DEF OpenPidFileFails, OpenPortFileFails, Goes
  <2>7. CASE LockPidFileFails(p)
    BY <2>7 DEF LockPidFileFails, Goes
  <2>8. CASE UnlockPidFile(p)
    BY <2>8 DEF UnlockPidFile, Goes
  <2>9. CASE Boot(p) \/ BootCancelled(p) \/ ServeCancelled(p) \/ IdleExit(p)
    BY <2>9 DEF Boot, Goes, BootCancelled, ServeCancelled, IdleExit
  <2>10. CASE RemoveAllLists(p)
    BY <2>10 DEF RemoveAllLists, Goes, ListDir
  <2>11. CASE RemoveAllUnlinks(p)
    BY <2>11 DEF RemoveAllUnlinks, Goes, UnlinkOne
  <2>12. CASE RemoveAllEnds(p)
    BY <2>12 DEF RemoveAllEnds, Goes, RemoveDir
  <2> QED BY <1>1, <2>1, <2>2, <2>3, <2>4, <2>5, <2>6, <2>7, <2>8, <2>9,
     <2>10, <2>11, <2>12 DEF ProxyStep
<1>2. ASSUME NEW p \in Proxies, ProxyFault(p)
     PROVE  LockedByOwner'
  <2>1. CASE Crash(p)
    BY <2>1 DEF Crash, Fault, Dies, Alive
  <2>2. CASE ConfigFails(p) \/ WritePidFails(p)
    BY <2>2 DEF ConfigFails, WritePidFails, Fault
  <2>3. CASE BootFails(p) \/ Interrupt(p)
    BY <2>3 DEF BootFails, Interrupt, Fault, Alive
  <2> QED BY <1>2, <2>1, <2>2, <2>3 DEF ProxyFault
<1>3. ASSUME NEW c \in Clients, ClientStep(c) \/ UsePassthrough(c) \/ StartOver(c)
     PROVE  LockedByOwner'
  <2>1. CASE StartProxy(c)
    BY <2>1 DEF StartProxy, ClientGoes
  <2>2. CASE FirstGetPid(c) \/ PollPid(c)
    BY <2>2 DEF FirstGetPid, PollPid, GetPid, ClientGoes
  <2>3. CASE FirstGetReady(c) \/ PollReady(c)
    BY <2>3 DEF FirstGetReady, PollReady, GetReady, ClientGoes
  <2>4. CASE FirstGetFails(c) \/ FirstGetPending(c) \/ PollPending(c)
    BY <2>4 DEF FirstGetFails, FirstGetPending, PollPending, GetPending, ClientGoes
  <2>5. CASE UsePassthrough(c) \/ StartOver(c)
    BY <2>5 DEF UsePassthrough, StartOver, ClientGoes
  <2> QED BY <1>3, <2>1, <2>2, <2>3, <2>4, <2>5 DEF ClientStep
<1>4. ASSUME NEW k \in Killers, KillerStep(k) \/ WaitInterrupted(k)
     PROVE  LockedByOwner'
  <2>1. CASE ShutdownGets(k) \/ ShutdownGetFails(k)
    BY <2>1 DEF ShutdownGets, ShutdownGetFails, KillerGoes
  <2>2. CASE SignalFails(k) \/ SignalZombie(k) \/ SignalTerm(k)
    BY <2>2 DEF SignalFails, SignalZombie, SignalTerm, KillerGoes
  <2>3. CASE SignalTermAgain(k) \/ SignalKill(k)
    BY <2>3 DEF SignalTermAgain, SignalKill, KillerGoes, Dies, Alive
  <2>4. CASE ForceLists(k)
    BY <2>4 DEF ForceLists, KillerGoes, ListDir
  <2>5. CASE ForceUnlinks(k)
    BY <2>5 DEF ForceUnlinks, KillerGoes, UnlinkOne
  <2>6. CASE ForceEnds(k)
    BY <2>6 DEF ForceEnds, KillerGoes, RemoveDir
  <2>7. CASE WaitEnds(k) \/ WaitPanics(k) \/ WaitInterrupted(k)
    BY <2>7 DEF WaitEnds, WaitPanics, WaitInterrupted, KillerGoes
  <2> QED BY <1>4, <2>1, <2>2, <2>3, <2>4, <2>5, <2>6, <2>7 DEF KillerStep
<1>5. CASE UNCHANGED vars
  BY <1>5 DEF vars
<1> QED BY <1>1, <1>2, <1>3, <1>4, <1>5 DEF Next

\* The directory is removed when it is empty, and files are created in it when it
\* is there.
LEMMA LinkedStep ==
  ASSUME TypeOK, LinkedIsThere, [Next]_vars
  PROVE  LinkedIsThere'
<1> USE RemoverAssumption, SentinelAssumption, FaultAssumption
<1> USE DEF TypeOK, disk, cvars, kvars, Files, ProxyPC, ClientPC, KillerPC,
   KillerModes, Starting, Owning, Removing, Ended, LinkedIsThere
<1>1. ASSUME NEW p \in Proxies, ProxyStep(p) \/ IdleExit(p)
     PROVE  LinkedIsThere'
  <2>1. CASE MakeDir(p)
    BY <2>1 DEF MakeDir, Goes
  <2>2. CASE OpenPidFile(p)
    BY <2>2 DEF OpenPidFile, Goes, OpenTrunc
  <2>3. CASE OpenPortFile(p)
    BY <2>3 DEF OpenPortFile, Goes, OpenTrunc
  <2>4. CASE LockPidFile(p)
    BY <2>4 DEF LockPidFile, Goes
  <2>5. CASE WritePid(p) \/ WritePort(p)
    BY <2>5 DEF WritePid, WritePort, Goes
  <2>6. CASE OpenPidFileFails(p) \/ OpenPortFileFails(p)
    BY <2>6 DEF OpenPidFileFails, OpenPortFileFails, Goes
  <2>7. CASE LockPidFileFails(p)
    BY <2>7 DEF LockPidFileFails, Goes
  <2>8. CASE UnlockPidFile(p)
    BY <2>8 DEF UnlockPidFile, Goes
  <2>9. CASE Boot(p) \/ BootCancelled(p) \/ ServeCancelled(p) \/ IdleExit(p)
    BY <2>9 DEF Boot, Goes, BootCancelled, ServeCancelled, IdleExit
  <2>10. CASE RemoveAllLists(p)
    BY <2>10 DEF RemoveAllLists, Goes, ListDir
  <2>11. CASE RemoveAllUnlinks(p)
    BY <2>11 DEF RemoveAllUnlinks, Goes, UnlinkOne
  <2>12. CASE RemoveAllEnds(p)
    BY <2>12 DEF RemoveAllEnds, Goes, RemoveDir
  <2> QED BY <1>1, <2>1, <2>2, <2>3, <2>4, <2>5, <2>6, <2>7, <2>8, <2>9,
     <2>10, <2>11, <2>12 DEF ProxyStep
<1>2. ASSUME NEW p \in Proxies, ProxyFault(p)
     PROVE  LinkedIsThere'
  <2>1. CASE Crash(p)
    BY <2>1 DEF Crash, Fault, Dies, Alive
  <2>2. CASE ConfigFails(p) \/ WritePidFails(p)
    BY <2>2 DEF ConfigFails, WritePidFails, Fault
  <2>3. CASE BootFails(p) \/ Interrupt(p)
    BY <2>3 DEF BootFails, Interrupt, Fault, Alive
  <2> QED BY <1>2, <2>1, <2>2, <2>3 DEF ProxyFault
<1>3. ASSUME NEW c \in Clients, ClientStep(c) \/ UsePassthrough(c) \/ StartOver(c)
     PROVE  LinkedIsThere'
  <2>1. CASE StartProxy(c)
    BY <2>1 DEF StartProxy, ClientGoes
  <2>2. CASE FirstGetPid(c) \/ PollPid(c)
    BY <2>2 DEF FirstGetPid, PollPid, GetPid, ClientGoes
  <2>3. CASE FirstGetReady(c) \/ PollReady(c)
    BY <2>3 DEF FirstGetReady, PollReady, GetReady, ClientGoes
  <2>4. CASE FirstGetFails(c) \/ FirstGetPending(c) \/ PollPending(c)
    BY <2>4 DEF FirstGetFails, FirstGetPending, PollPending, GetPending, ClientGoes
  <2>5. CASE UsePassthrough(c) \/ StartOver(c)
    BY <2>5 DEF UsePassthrough, StartOver, ClientGoes
  <2> QED BY <1>3, <2>1, <2>2, <2>3, <2>4, <2>5 DEF ClientStep
<1>4. ASSUME NEW k \in Killers, KillerStep(k) \/ WaitInterrupted(k)
     PROVE  LinkedIsThere'
  <2>1. CASE ShutdownGets(k) \/ ShutdownGetFails(k)
    BY <2>1 DEF ShutdownGets, ShutdownGetFails, KillerGoes
  <2>2. CASE SignalFails(k) \/ SignalZombie(k) \/ SignalTerm(k)
    BY <2>2 DEF SignalFails, SignalZombie, SignalTerm, KillerGoes
  <2>3. CASE SignalTermAgain(k) \/ SignalKill(k)
    BY <2>3 DEF SignalTermAgain, SignalKill, KillerGoes, Dies, Alive
  <2>4. CASE ForceLists(k)
    BY <2>4 DEF ForceLists, KillerGoes, ListDir
  <2>5. CASE ForceUnlinks(k)
    BY <2>5 DEF ForceUnlinks, KillerGoes, UnlinkOne
  <2>6. CASE ForceEnds(k)
    BY <2>6 DEF ForceEnds, KillerGoes, RemoveDir
  <2>7. CASE WaitEnds(k) \/ WaitPanics(k) \/ WaitInterrupted(k)
    BY <2>7 DEF WaitEnds, WaitPanics, WaitInterrupted, KillerGoes
  <2> QED BY <1>4, <2>1, <2>2, <2>3, <2>4, <2>5, <2>6, <2>7 DEF KillerStep
<1>5. CASE UNCHANGED vars
  BY <1>5 DEF vars
<1> QED BY <1>1, <1>2, <1>3, <1>4, <1>5 DEF Next

\* Who fails to remove the directory leaves it to another one.
LEMMA CleansStep ==
  ASSUME TypeOK, LinkedIsThere, LockedByOwner, SomebodyCleans, [Next]_vars
  PROVE  SomebodyCleans'
<1> USE RemoverAssumption, SentinelAssumption, FaultAssumption
<1> USE DEF TypeOK, disk, cvars, kvars, Files, ProxyPC, ClientPC, KillerPC,
   KillerModes, Starting, Owning, Removing, Ended,
   LockedByOwner, SomebodyCleans, Bound, Clears
<1>1. ASSUME NEW p \in Proxies, ProxyStep(p) \/ IdleExit(p)
     PROVE  SomebodyCleans'
  <2>1. CASE MakeDir(p)
    BY <2>1 DEF MakeDir, Goes
  <2>2. CASE OpenPidFile(p)
    BY <2>2 DEF OpenPidFile, Goes, OpenTrunc
  <2>3. CASE OpenPortFile(p)
    BY <2>3 DEF OpenPortFile, Goes, OpenTrunc
  <2>4. CASE LockPidFile(p)
    BY <2>4 DEF LockPidFile, Goes
  <2>5. CASE WritePid(p) \/ WritePort(p)
    BY <2>5 DEF WritePid, WritePort, Goes
  <2>6. CASE OpenPidFileFails(p) \/ OpenPortFileFails(p)
    BY <2>6 DEF OpenPidFileFails, OpenPortFileFails, Goes
  <2>7. CASE LockPidFileFails(p)
    BY <2>7 DEF LockPidFileFails, Goes
  <2>8. CASE UnlockPidFile(p)
    BY <2>8 DEF UnlockPidFile, Goes
  <2>9. CASE Boot(p) \/ BootCancelled(p) \/ ServeCancelled(p) \/ IdleExit(p)
    BY <2>9 DEF Boot, Goes, BootCancelled, ServeCancelled, IdleExit
  <2>10. CASE RemoveAllLists(p)
    BY <2>10 DEF RemoveAllLists, Goes, ListDir
  <2>11. CASE RemoveAllUnlinks(p)
    BY <2>11 DEF RemoveAllUnlinks, Goes, UnlinkOne
  <2>12. CASE RemoveAllEnds(p)
    <3>1. CASE ~dir'
      BY <3>1
    <3>2. CASE dir'
      <4>1. /\ pc[p] = "unlink" /\ pc' = [pc EXCEPT ![p] = "exited"]
            /\ \E f \in Files : link[f] # None
            /\ todo[p] = {} /\ todo' = todo
            /\ UNCHANGED <<link, kpc, faults>>
        BY <2>12, <3>2 DEF RemoveAllEnds, Goes, RemoveDir
      <4>2. ~Clears(p)
        BY <4>1
      <4>3. ASSUME NEW q \in Proxies, q # p PROVE pc'[q] = pc[q]
        BY <4>1, <4>3
      <4>4. dir
        BY <4>1 DEF LinkedIsThere
      <4> DEFINE Cleans(q) == \/ pc[q] \in Bound \cup {"dead", "cut"}
                              \/ pc[q] = "unlink" /\ Clears(q)
      <4>5. CASE \E q \in Proxies : Cleans(q)
        <5>1. PICK q \in Proxies : Cleans(q)
          BY <4>5
        <5>2. q # p
          BY <4>1, <4>2, <5>1
        <5> QED BY <4>1, <4>3, <5>1, <5>2
      <4>6. CASE ~ \E q \in Proxies : Cleans(q)
        BY <4>1, <4>4, <4>6
      <4> QED BY <4>5, <4>6
    <3> QED BY <3>1, <3>2
  <2> QED BY <1>1, <2>1, <2>2, <2>3, <2>4, <2>5, <2>6, <2>7, <2>8, <2>9,
     <2>10, <2>11, <2>12 DEF ProxyStep
<1>2. ASSUME NEW p \in Proxies, ProxyFault(p)
     PROVE  SomebodyCleans'
  <2>1. CASE Crash(p)
    BY <2>1 DEF Crash, Fault, Dies, Alive
  <2>2. CASE ConfigFails(p) \/ WritePidFails(p)
    BY <2>2 DEF ConfigFails, WritePidFails, Fault
  <2>3. CASE BootFails(p) \/ Interrupt(p)
    BY <2>3 DEF BootFails, Interrupt, Fault, Alive
  <2> QED BY <1>2, <2>1, <2>2, <2>3 DEF ProxyFault
<1>3. ASSUME NEW c \in Clients, ClientStep(c) \/ UsePassthrough(c) \/ StartOver(c)
     PROVE  SomebodyCleans'
  <2>1. CASE StartProxy(c)
    BY <2>1 DEF StartProxy, ClientGoes
  <2>2. CASE FirstGetPid(c) \/ PollPid(c)
    BY <2>2 DEF FirstGetPid, PollPid, GetPid, ClientGoes
  <2>3. CASE FirstGetReady(c) \/ PollReady(c)
    BY <2>3 DEF FirstGetReady, PollReady, GetReady, ClientGoes
  <2>4. CASE FirstGetFails(c) \/ FirstGetPending(c) \/ PollPending(c)
    BY <2>4 DEF FirstGetFails, FirstGetPending, PollPending, GetPending, ClientGoes
  <2>5. CASE UsePassthrough(c) \/ StartOver(c)
    BY <2>5 DEF UsePassthrough, StartOver, ClientGoes
  <2> QED BY <1>3, <2>1, <2>2, <2>3, <2>4, <2>5 DEF ClientStep
<1>4. ASSUME NEW k \in Killers, KillerStep(k) \/ WaitInterrupted(k)
     PROVE  SomebodyCleans'
  <2>1. CASE ShutdownGets(k) \/ ShutdownGetFails(k)
    BY <2>1 DEF ShutdownGets, ShutdownGetFails, KillerGoes
  <2>2. CASE SignalFails(k) \/ SignalZombie(k) \/ SignalTerm(k)
    BY <2>2 DEF SignalFails, SignalZombie, SignalTerm, KillerGoes
  <2>3. CASE SignalTermAgain(k) \/ SignalKill(k)
    BY <2>3 DEF SignalTermAgain, SignalKill, KillerGoes, Dies, Alive
  <2>4. CASE ForceLists(k)
    BY <2>4 DEF ForceLists, KillerGoes, ListDir
  <2>5. CASE ForceUnlinks(k)
    BY <2>5 DEF ForceUnlinks, KillerGoes, UnlinkOne
  <2>6. CASE ForceEnds(k)
    <3>1. CASE ~dir'
      BY <3>1
    <3>2. CASE dir'
      <4>1. /\ kpc[k] = "unlink" /\ kpc' = [kpc EXCEPT ![k] = "done"]
            /\ \E f \in Files : link[f] # None
            /\ todo[k] = {} /\ todo' = todo
            /\ UNCHANGED <<link, pc, faults>>
        BY <2>6, <3>2 DEF ForceEnds, KillerGoes, RemoveDir
      <4>2. ~Clears(k)
        BY <4>1
      <4>3. ASSUME NEW j \in Killers, j # k PROVE kpc'[j] = kpc[j]
        BY <4>1, <4>3
      <4>4. dir
        BY <4>1 DEF LinkedIsThere
      <4>5. CASE \E j \in Killers : kpc[j] = "list" \/ (kpc[j] = "unlink" /\ Clears(j))
        <5>1. PICK j \in Killers : kpc[j] = "list" \/ (kpc[j] = "unlink" /\ Clears(j))
          BY <4>5
        <5>2. j # k
          BY <4>1, <4>2, <5>1
        <5> QED BY <4>1, <4>3, <5>1, <5>2
      <4>6. CASE ~ \E j \in Killers : kpc[j] = "list" \/ (kpc[j] = "unlink" /\ Clears(j))
        BY <4>1, <4>4, <4>6
      <4> QED BY <4>5, <4>6
    <3> QED BY <3>1, <3>2
  <2>7. CASE WaitEnds(k) \/ WaitPanics(k) \/ WaitInterrupted(k)
    BY <2>7 DEF WaitEnds, WaitPanics, WaitInterrupted, KillerGoes
  <2> QED BY <1>4, <2>1, <2>2, <2>3, <2>4, <2>5, <2>6, <2>7 DEF KillerStep
<1>5. CASE UNCHANGED vars
  BY <1>5 DEF vars
<1> QED BY <1>1, <1>2, <1>3, <1>4, <1>5 DEF Next

-----------------------------------------------------------------------------
(* What a proxy leaves of itself, and who makes a shutdown panic            *)

\* A proxy that removes its files has still to unlink all that name it, and one
\* that is through leaves none.
ForgetsItself ==
  \A p \in Proxies, f \in Files :
    /\ pc[p] = "unlink" /\ Content(f) = p => f \in todo[p]
    /\ pc[p] = "exited" => Content(f) # p

\* p may have opened the pid file.
Opened(p) == pc[p] \notin {"new", "mkdir", "open"}

\* A pid file was created by a process that has opened it.
InodesOpened ==
  /\ link["pid"] # None => Opened(link["pid"])
  /\ \A p \in Proxies : /\ fd["pid"][p] # None => Opened(fd["pid"][p])
                        /\ text["pid"][p] # Blank => Opened(p)

\* No other process than p has opened the pid file.
Alone(p) == \A q \in Proxies \ {p} : ~Opened(q)

\* Who is told to stop while it is alone has its pid in its file, and the shutdown
\* does not panic.
TargetNamed ==
  \A k \in Killers :
    kpc[k] \in {"signal", "wait", "panic"} /\ Alone(target[k]) =>
      /\ text["pid"][target[k]] = target[k]
      /\ target[k] \in Proxies /\ kpc[k] # "panic"

LastInv == ForgetsItself /\ InodesOpened /\ TargetNamed

\* Only the process itself writes its pid or its port into a file.
LEMMA ForgetsStep ==
  ASSUME TypeOK, ForgetsItself, [Next]_vars
  PROVE  ForgetsItself'
<1> USE RemoverAssumption, SentinelAssumption, FaultAssumption
<1> USE DEF TypeOK, disk, cvars, kvars, Files, ProxyPC, ClientPC, KillerPC,
   KillerModes, Starting, Owning, Removing, Ended, ForgetsItself, Content
<1>1. ASSUME NEW p \in Proxies, ProxyStep(p) \/ IdleExit(p)
     PROVE  ForgetsItself'
  <2>1. CASE MakeDir(p)
    BY <2>1 DEF MakeDir, Goes
  <2>2. CASE OpenPidFile(p)
    BY <2>2 DEF OpenPidFile, Goes, OpenTrunc
  <2>3. CASE OpenPortFile(p)
    BY <2>3 DEF OpenPortFile, Goes, OpenTrunc
  <2>4. CASE LockPidFile(p)
    BY <2>4 DEF LockPidFile, Goes
  <2>5. CASE WritePid(p) \/ WritePort(p)
    BY <2>5 DEF WritePid, WritePort, Goes
  <2>6. CASE OpenPidFileFails(p) \/ OpenPortFileFails(p)
    BY <2>6 DEF OpenPidFileFails, OpenPortFileFails, Goes
  <2>7. CASE LockPidFileFails(p)
    BY <2>7 DEF LockPidFileFails, Goes
  <2>8. CASE UnlockPidFile(p)
    BY <2>8 DEF UnlockPidFile, Goes
  <2>9. CASE Boot(p) \/ BootCancelled(p) \/ ServeCancelled(p) \/ IdleExit(p)
    BY <2>9 DEF Boot, Goes, BootCancelled, ServeCancelled, IdleExit
  <2>10. CASE RemoveAllLists(p)
    BY <2>10 DEF RemoveAllLists, Goes, ListDir
  <2>11. CASE RemoveAllUnlinks(p)
    BY <2>11 DEF RemoveAllUnlinks, Goes, UnlinkOne
  <2>12. CASE RemoveAllEnds(p)
    BY <2>12 DEF RemoveAllEnds, Goes, RemoveDir
  <2> QED BY <1>1, <2>1, <2>2, <2>3, <2>4, <2>5, <2>6, <2>7, <2>8, <2>9,
     <2>10, <2>11, <2>12 DEF ProxyStep
<1>2. ASSUME NEW p \in Proxies, ProxyFault(p)
     PROVE  ForgetsItself'
  <2>1. CASE Crash(p)
    BY <2>1 DEF Crash, Fault, Dies, Alive
  <2>2. CASE ConfigFails(p) \/ WritePidFails(p)
    BY <2>2 DEF ConfigFails, WritePidFails, Fault
  <2>3. CASE BootFails(p) \/ Interrupt(p)
    BY <2>3 DEF BootFails, Interrupt, Fault, Alive
  <2> QED BY <1>2, <2>1, <2>2, <2>3 DEF ProxyFault
<1>3. ASSUME NEW c \in Clients, ClientStep(c) \/ UsePassthrough(c) \/ StartOver(c)
     PROVE  ForgetsItself'
  <2>1. CASE StartProxy(c)
    BY <2>1 DEF StartProxy, ClientGoes
  <2>2. CASE FirstGetPid(c) \/ PollPid(c)
    BY <2>2 DEF FirstGetPid, PollPid, GetPid, ClientGoes
  <2>3. CASE FirstGetReady(c) \/ PollReady(c)
    BY <2>3 DEF FirstGetReady, PollReady, GetReady, ClientGoes
  <2>4. CASE FirstGetFails(c) \/ FirstGetPending(c) \/ PollPending(c)
    BY <2>4 DEF FirstGetFails, FirstGetPending, PollPending, GetPending, ClientGoes
  <2>5. CASE UsePassthrough(c) \/ StartOver(c)
    BY <2>5 DEF UsePassthrough, StartOver, ClientGoes
  <2> QED BY <1>3, <2>1, <2>2, <2>3, <2>4, <2>5 DEF ClientStep
<1>4. ASSUME NEW k \in Killers, KillerStep(k) \/ WaitInterrupted(k)
     PROVE  ForgetsItself'
  <2>1. CASE ShutdownGets(k) \/ ShutdownGetFails(k)
    BY <2>1 DEF ShutdownGets, ShutdownGetFails, KillerGoes
  <2>2. CASE SignalFails(k) \/ SignalZombie(k) \/ SignalTerm(k)
    BY <2>2 DEF SignalFails, SignalZombie, SignalTerm, KillerGoes
  <2>3. CASE SignalTermAgain(k) \/ SignalKill(k)
    BY <2>3 DEF SignalTermAgain, SignalKill, KillerGoes, Dies, Alive
  <2>4. CASE ForceLists(k)
    BY <2>4 DEF ForceLists, KillerGoes, ListDir
  <2>5. CASE ForceUnlinks(k)
    BY <2>5 DEF ForceUnlinks, KillerGoes, UnlinkOne
  <2>6. CASE ForceEnds(k)
    BY <2>6 DEF ForceEnds, KillerGoes, RemoveDir
  <2>7. CASE WaitEnds(k) \/ WaitPanics(k) \/ WaitInterrupted(k)
    BY <2>7 DEF WaitEnds, WaitPanics, WaitInterrupted, KillerGoes
  <2> QED BY <1>4, <2>1, <2>2, <2>3, <2>4, <2>5, <2>6, <2>7 DEF KillerStep
<1>5. CASE UNCHANGED vars
  BY <1>5 DEF vars
<1> QED BY <1>1, <1>2, <1>3, <1>4, <1>5 DEF Next

\* Who has opened the pid file is never before that again.
LEMMA OpenedStep ==
  ASSUME TypeOK, InodesOpened, [Next]_vars
  PROVE  InodesOpened'
<1> USE RemoverAssumption, SentinelAssumption, FaultAssumption
<1> USE DEF TypeOK, disk, cvars, kvars, Files, ProxyPC, ClientPC, KillerPC,
   KillerModes, Starting, Owning, Removing, Ended, InodesOpened, Opened
<1>1. ASSUME NEW p \in Proxies, ProxyStep(p) \/ IdleExit(p)
     PROVE  InodesOpened'
  <2>1. CASE MakeDir(p)
    BY <2>1 DEF MakeDir, Goes
  <2>2. CASE OpenPidFile(p)
    BY <2>2 DEF OpenPidFile, Goes, OpenTrunc
  <2>3. CASE OpenPortFile(p)
    BY <2>3 DEF OpenPortFile, Goes, OpenTrunc
  <2>4. CASE LockPidFile(p)
    BY <2>4 DEF LockPidFile, Goes
  <2>5. CASE WritePid(p) \/ WritePort(p)
    BY <2>5 DEF WritePid, WritePort, Goes
  <2>6. CASE OpenPidFileFails(p) \/ OpenPortFileFails(p)
    BY <2>6 DEF OpenPidFileFails, OpenPortFileFails, Goes
  <2>7. CASE LockPidFileFails(p)
    BY <2>7 DEF LockPidFileFails, Goes
  <2>8. CASE UnlockPidFile(p)
    BY <2>8 DEF UnlockPidFile, Goes
  <2>9. CASE Boot(p) \/ BootCancelled(p) \/ ServeCancelled(p) \/ IdleExit(p)
    BY <2>9 DEF Boot, Goes, BootCancelled, ServeCancelled, IdleExit
  <2>10. CASE RemoveAllLists(p)
    BY <2>10 DEF RemoveAllLists, Goes, ListDir
  <2>11. CASE RemoveAllUnlinks(p)
    BY <2>11 DEF RemoveAllUnlinks, Goes, UnlinkOne
  <2>12. CASE RemoveAllEnds(p)
    BY <2>12 DEF RemoveAllEnds, Goes, RemoveDir
  <2> QED BY <1>1, <2>1, <2>2, <2>3, <2>4, <2>5, <2>6, <2>7, <2>8, <2>9,
     <2>10, <2>11, <2>12 DEF ProxyStep
<1>2. ASSUME NEW p \in Proxies, ProxyFault(p)
     PROVE  InodesOpened'
  <2>1. CASE Crash(p)
    BY <2>1 DEF Crash, Fault, Dies, Alive
  <2>2. CASE ConfigFails(p) \/ WritePidFails(p)
    BY <2>2 DEF ConfigFails, WritePidFails, Fault
  <2>3. CASE BootFails(p) \/ Interrupt(p)
    BY <2>3 DEF BootFails, Interrupt, Fault, Alive
  <2> QED BY <1>2, <2>1, <2>2, <2>3 DEF ProxyFault
<1>3. ASSUME NEW c \in Clients, ClientStep(c) \/ UsePassthrough(c) \/ StartOver(c)
     PROVE  InodesOpened'
  <2>1. CASE StartProxy(c)
    BY <2>1 DEF StartProxy, ClientGoes
  <2>2. CASE FirstGetPid(c) \/ PollPid(c)
    BY <2>2 DEF FirstGetPid, PollPid, GetPid, ClientGoes
  <2>3. CASE FirstGetReady(c) \/ PollReady(c)
    BY <2>3 DEF FirstGetReady, PollReady, GetReady, ClientGoes
  <2>4. CASE FirstGetFails(c) \/ FirstGetPending(c) \/ PollPending(c)
    BY <2>4 DEF FirstGetFails, FirstGetPending, PollPending, GetPending, ClientGoes
  <2>5. CASE UsePassthrough(c) \/ StartOver(c)
    BY <2>5 DEF UsePassthrough, StartOver, ClientGoes
  <2> QED BY <1>3, <2>1, <2>2, <2>3, <2>4, <2>5 DEF ClientStep
<1>4. ASSUME NEW k \in Killers, KillerStep(k) \/ WaitInterrupted(k)
     PROVE  InodesOpened'
  <2>1. CASE ShutdownGets(k) \/ ShutdownGetFails(k)
    BY <2>1 DEF ShutdownGets, ShutdownGetFails, KillerGoes
  <2>2. CASE SignalFails(k) \/ SignalZombie(k) \/ SignalTerm(k)
    BY <2>2 DEF SignalFails, SignalZombie, SignalTerm, KillerGoes
  <2>3. CASE SignalTermAgain(k) \/ SignalKill(k)
    BY <2>3 DEF SignalTermAgain, SignalKill, KillerGoes, Dies, Alive
  <2>4. CASE ForceLists(k)
    BY <2>4 DEF ForceLists, KillerGoes, ListDir
  <2>5. CASE ForceUnlinks(k)
    BY <2>5 DEF ForceUnlinks, KillerGoes, UnlinkOne
  <2>6. CASE ForceEnds(k)
    BY <2>6 DEF ForceEnds, KillerGoes, RemoveDir
  <2>7. CASE WaitEnds(k) \/ WaitPanics(k) \/ WaitInterrupted(k)
    BY <2>7 DEF WaitEnds, WaitPanics, WaitInterrupted, KillerGoes
  <2> QED BY <1>4, <2>1, <2>2, <2>3, <2>4, <2>5, <2>6, <2>7 DEF KillerStep
<1>5. CASE UNCHANGED vars
  BY <1>5 DEF vars
<1> QED BY <1>1, <1>2, <1>3, <1>4, <1>5 DEF Next

\* The text of a pid file changes when another process opens it, or when its owner
\* writes it, once.
LEMMA TargetStep ==
  ASSUME TypeOK, PidTextOwned, InodesOpened, TargetNamed, [Next]_vars
  PROVE  TargetNamed'
<1> USE RemoverAssumption, SentinelAssumption, FaultAssumption
<1> USE DEF TypeOK, disk, cvars, kvars, Files, ProxyPC, ClientPC, KillerPC,
   KillerModes, Starting, Owning, Removing, Ended, 
   PidTextOwned, InodesOpened, TargetNamed, Alone, Opened, Content
<1>1. ASSUME NEW p \in Proxies, ProxyStep(p) \/ IdleExit(p)
     PROVE  TargetNamed'
  <2>1. CASE MakeDir(p)
    BY <2>1 DEF MakeDir, Goes
  <2>2. CASE OpenPidFile(p)
    BY <2>2 DEF OpenPidFile, Goes, OpenTrunc
  <2>3. CASE OpenPortFile(p)
    BY <2>3 DEF OpenPortFile, Goes, OpenTrunc
  <2>4. CASE LockPidFile(p)
    BY <2>4 DEF LockPidFile, Goes
  <2>5. CASE WritePid(p) \/ WritePort(p)
    BY <2>5 DEF WritePid, WritePort, Goes
  <2>6. CASE OpenPidFileFails(p) \/ OpenPortFileFails(p)
    BY <2>6 DEF OpenPidFileFails, OpenPortFileFails, Goes
  <2>7. CASE LockPidFileFails(p)
    BY <2>7 DEF LockPidFileFails, Goes
  <2>8. CASE UnlockPidFile(p)
    BY <2>8 DEF UnlockPidFile, Goes
  <2>9. CASE Boot(p) \/ BootCancelled(p) \/ ServeCancelled(p) \/ IdleExit(p)
    BY <2>9 DEF Boot, Goes, BootCancelled, ServeCancelled, IdleExit
  <2>10. CASE RemoveAllLists(p)
    BY <2>10 DEF RemoveAllLists, Goes, ListDir
  <2>11. CASE RemoveAllUnlinks(p)
    BY <2>11 DEF RemoveAllUnlinks, Goes, UnlinkOne
  <2>12. CASE RemoveAllEnds(p)
    BY <2>12 DEF RemoveAllEnds, Goes, RemoveDir
  <2> QED BY <1>1, <2>1, <2>2, <2>3, <2>4, <2>5, <2>6, <2>7, <2>8, <2>9,
     <2>10, <2>11, <2>12 DEF ProxyStep
<1>2. ASSUME NEW p \in Proxies, ProxyFault(p)
     PROVE  TargetNamed'
  <2>1. CASE Crash(p)
    BY <2>1 DEF Crash, Fault, Dies, Alive
  <2>2. CASE ConfigFails(p) \/ WritePidFails(p)
    BY <2>2 DEF ConfigFails, WritePidFails, Fault
  <2>3. CASE BootFails(p) \/ Interrupt(p)
    BY <2>3 DEF BootFails, Interrupt, Fault, Alive
  <2> QED BY <1>2, <2>1, <2>2, <2>3 DEF ProxyFault
<1>3. ASSUME NEW c \in Clients, ClientStep(c) \/ UsePassthrough(c) \/ StartOver(c)
     PROVE  TargetNamed'
  <2>1. CASE StartProxy(c)
    BY <2>1 DEF StartProxy, ClientGoes
  <2>2. CASE FirstGetPid(c) \/ PollPid(c)
    BY <2>2 DEF FirstGetPid, PollPid, GetPid, ClientGoes
  <2>3. CASE FirstGetReady(c) \/ PollReady(c)
    BY <2>3 DEF FirstGetReady, PollReady, GetReady, ClientGoes
  <2>4. CASE FirstGetFails(c) \/ FirstGetPending(c) \/ PollPending(c)
    BY <2>4 DEF FirstGetFails, FirstGetPending, PollPending, GetPending, ClientGoes
  <2>5. CASE UsePassthrough(c) \/ StartOver(c)
    BY <2>5 DEF UsePassthrough, StartOver, ClientGoes
  <2> QED BY <1>3, <2>1, <2>2, <2>3, <2>4, <2>5 DEF ClientStep
<1>4. ASSUME NEW k \in Killers, KillerStep(k) \/ WaitInterrupted(k)
     PROVE  TargetNamed'
  <2>1. CASE ShutdownGets(k) \/ ShutdownGetFails(k)
    BY <2>1 DEF ShutdownGets, ShutdownGetFails, KillerGoes
  <2>2. CASE SignalFails(k) \/ SignalZombie(k) \/ SignalTerm(k)
    BY <2>2 DEF SignalFails, SignalZombie, SignalTerm, KillerGoes, AfterSignal
  <2>3. CASE SignalTermAgain(k) \/ SignalKill(k)
    BY <2>3 DEF SignalTermAgain, SignalKill, KillerGoes, Dies, Alive, AfterSignal
  <2>4. CASE ForceLists(k)
    BY <2>4 DEF ForceLists, KillerGoes, ListDir
  <2>5. CASE ForceUnlinks(k)
    BY <2>5 DEF ForceUnlinks, KillerGoes, UnlinkOne
  <2>6. CASE ForceEnds(k)
    BY <2>6 DEF ForceEnds, KillerGoes, RemoveDir
  <2>7. CASE WaitEnds(k) \/ WaitPanics(k) \/ WaitInterrupted(k)
    BY <2>7 DEF WaitEnds, WaitPanics, WaitInterrupted, KillerGoes
  <2> QED BY <1>4, <2>1, <2>2, <2>3, <2>4, <2>5, <2>6, <2>7 DEF KillerStep
<1>5. CASE UNCHANGED vars
  BY <1>5 DEF vars
<1> QED BY <1>1, <1>2, <1>3, <1>4, <1>5 DEF Next

-----------------------------------------------------------------------------
(* A client that waits for a proxy does not wait in vain: the state that    *)
(* ClientServed passes through, as long as nothing disturbs the registry    *)

\* Where a proxy is when it has still to publish itself, or to let go.
Unsettled == Starting \cup {"write", "boot", "openPort", "writePort", "unlock"}

\* What the files say of the proxy that has the lock.  Its own file is emptied
\* only by a proxy that is to fail: it will not get the lock.
FilesFollow ==
  ~Disturbed =>
    \A p \in Proxies :
      /\ pc[p] = "write" => text["pid"][fd["pid"][p]] = Blank
      /\ pc[p] \in {"boot", "openPort", "writePort", "serve"} =>
           Content("pid") = p \/ \E q \in Proxies : pc[q] = "flock"
      /\ pc[p] = "writePort" => link["port"] = fd["port"][p]
      /\ pc[p] = "serve" => Content("port") = p

\* While a client polls, the proxy that it has started is there, or another one.
PolledIsThere ==
  ~Disturbed =>
    \A c \in Clients : cpc[c] \in {"poll", "pollPort"} =>
      \E p \in Proxies : pc[p] \in Unsettled \cup {"serve"}

\* A client that polls finds the pid and the port of a proxy that serves in the
\* files below its data root, unless some proxy is still on its way to the files.
PollerIsHeard ==
  ~Disturbed =>
    \A c \in Clients : cpc[c] \in {"poll", "pollPort"} =>
      \E p \in Proxies :
        \/ pc[p] \in Unsettled
        \/ /\ pc[p] = "serve"
           /\ ClientContent("pid") = p /\ ClientContent("port") = p

\* A registry that was disturbed remains so.
LEMMA DisturbedStays ==
  ASSUME TypeOK, ForceRemoves, Disturbed, [Next]_vars
  PROVE  Disturbed'
<1> USE RemoverAssumption, SentinelAssumption, FaultAssumption
<1> USE DEF TypeOK, disk, cvars, kvars, Files, ProxyPC, ClientPC, KillerPC,
   KillerModes, Starting, Owning, Removing, Ended, ForceRemoves, Disturbed, RemovalBegan
<1>1. ASSUME NEW p \in Proxies, ProxyStep(p) \/ IdleExit(p)
     PROVE  Disturbed'
  <2>1. CASE MakeDir(p)
    BY <2>1 DEF MakeDir, Goes
  <2>2. CASE OpenPidFile(p)
    BY <2>2 DEF OpenPidFile, Goes, OpenTrunc
  <2>3. CASE OpenPortFile(p)
    BY <2>3 DEF OpenPortFile, Goes, OpenTrunc
  <2>4. CASE LockPidFile(p)
    BY <2>4 DEF LockPidFile, Goes
  <2>5. CASE WritePid(p) \/ WritePort(p)
    BY <2>5 DEF WritePid, WritePort, Goes
  <2>6. CASE OpenPidFileFails(p) \/ OpenPortFileFails(p)
    BY <2>6 DEF OpenPidFileFails, OpenPortFileFails, Goes
  <2>7. CASE LockPidFileFails(p)
    BY <2>7 DEF LockPidFileFails, Goes
  <2>8. CASE UnlockPidFile(p)
    BY <2>8 DEF UnlockPidFile, Goes
  <2>9. CASE Boot(p) \/ BootCancelled(p) \/ ServeCancelled(p) \/ IdleExit(p)
    BY <2>9 DEF Boot, Goes, BootCancelled, ServeCancelled, IdleExit
  <2>10. CASE RemoveAllLists(p)
    BY <2>10 DEF RemoveAllLists, Goes, ListDir
  <2>11. CASE RemoveAllUnlinks(p)
    BY <2>11 DEF RemoveAllUnlinks, Goes, UnlinkOne
  <2>12. CASE RemoveAllEnds(p)
    BY <2>12 DEF RemoveAllEnds, Goes, RemoveDir
  <2> QED BY <1>1, <2>1, <2>2, <2>3, <2>4, <2>5, <2>6, <2>7, <2>8, <2>9,
     <2>10, <2>11, <2>12 DEF ProxyStep
<1>2. ASSUME NEW p \in Proxies, ProxyFault(p)
     PROVE  Disturbed'
  <2>1. CASE Crash(p)
    BY <2>1 DEF Crash, Fault, Dies, Alive
  <2>2. CASE ConfigFails(p) \/ WritePidFails(p)
    BY <2>2 DEF ConfigFails, WritePidFails, Fault
  <2>3. CASE BootFails(p) \/ Interrupt(p)
    BY <2>3 DEF BootFails, Interrupt, Fault, Alive
  <2> QED BY <1>2, <2>1, <2>2, <2>3 DEF ProxyFault
<1>3. ASSUME NEW c \in Clients, ClientStep(c) \/ UsePassthrough(c) \/ StartOver(c)
     PROVE  Disturbed'
  <2>1. CASE StartProxy(c)
    BY <2>1 DEF StartProxy, ClientGoes
  <2>2. CASE FirstGetPid(c) \/ PollPid(c)
    BY <2>2 DEF FirstGetPid, PollPid, GetPid, ClientGoes
  <2>3. CASE FirstGetReady(c) \/ PollReady(c)
    BY <2>3 DEF FirstGetReady, PollReady, GetReady, ClientGoes
  <2>4. CASE FirstGetFails(c) \/ FirstGetPending(c) \/ PollPending(c)
    BY <2>4 DEF FirstGetFails, FirstGetPending, PollPending, GetPending, ClientGoes
  <2>5. CASE UsePassthrough(c) \/ StartOver(c)
    BY <2>5 DEF UsePassthrough, StartOver, ClientGoes
  <2> QED BY <1>3, <2>1, <2>2, <2>3, <2>4, <2>5 DEF ClientStep
<1>4. ASSUME NEW k \in Killers, KillerStep(k) \/ WaitInterrupted(k)
     PROVE  Disturbed'
  <2>1. CASE ShutdownGets(k) \/ ShutdownGetFails(k)
    BY <2>1 DEF ShutdownGets, ShutdownGetFails, KillerGoes
  <2>2. CASE SignalFails(k) \/ SignalZombie(k) \/ SignalTerm(k)
    BY <2>2 DEF SignalFails, SignalZombie, SignalTerm, KillerGoes
  <2>3. CASE SignalTermAgain(k) \/ SignalKill(k)
    BY <2>3 DEF SignalTermAgain, SignalKill, KillerGoes, Dies, Alive
  <2>4. CASE ForceLists(k)
    BY <2>4 DEF ForceLists, KillerGoes, ListDir
  <2>5. CASE ForceUnlinks(k)
    BY <2>5 DEF ForceUnlinks, KillerGoes, UnlinkOne
  <2>6. CASE ForceEnds(k)
    BY <2>6 DEF ForceEnds, KillerGoes, RemoveDir
  <2>7. CASE WaitEnds(k) \/ WaitPanics(k) \/ WaitInterrupted(k)
    BY <2>7 DEF WaitEnds, WaitPanics, WaitInterrupted, KillerGoes
  <2> QED BY <1>4, <2>1, <2>2, <2>3, <2>4, <2>5, <2>6, <2>7 DEF KillerStep
<1>5. CASE UNCHANGED vars
  BY <1>5 DEF vars
<1> QED BY <1>1, <1>2, <1>3, <1>4, <1>5 DEF Next

\* The files change by the steps of their owner, and by the opening of a rival.
LEMMA FilesStep ==
  ASSUME Inv, FilesFollow, ~Disturbed, ~Disturbed', [Next]_vars
  PROVE  FilesFollow'
<1> USE RemoverAssumption, SentinelAssumption, FaultAssumption
<1> USE DEF TypeOK, disk, cvars, kvars, Files, ProxyPC, ClientPC, KillerPC,
   KillerModes, Starting, Owning, Removing, Ended, Inv, OwnersHoldTheirLock,
   LinkedUntilRemoval, PidTextOwned, FilesFollow, Disturbed, RemovalBegan, Content
<1>1. ASSUME NEW p \in Proxies, ProxyStep(p) \/ IdleExit(p)
     PROVE  FilesFollow'
  <2>1. CASE MakeDir(p)
    BY <2>1 DEF MakeDir, Goes
  <2>2. CASE OpenPidFile(p)
    BY <2>2 DEF OpenPidFile, Goes, OpenTrunc
  <2>3. CASE OpenPortFile(p)
    BY <2>3 DEF OpenPortFile, Goes, OpenTrunc
  <2>4. CASE LockPidFile(p)
    BY <2>4 DEF LockPidFile, Goes
  <2>5. CASE WritePid(p) \/ WritePort(p)
    BY <2>5 DEF WritePid, WritePort, Goes
  <2>6. CASE OpenPidFileFails(p) \/ OpenPortFileFails(p)
    BY <2>6 DEF OpenPidFileFails, OpenPortFileFails, Goes
  <2>7. CASE LockPidFileFails(p)
    BY <2>7 DEF LockPidFileFails, Goes
  <2>8. CASE UnlockPidFile(p)
    BY <2>8 DEF UnlockPidFile, Goes
  <2>9. CASE Boot(p) \/ BootCancelled(p) \/ ServeCancelled(p) \/ IdleExit(p)
    BY <2>9 DEF Boot, Goes, BootCancelled, ServeCancelled, IdleExit
  <2>10. CASE RemoveAllLists(p)
    BY <2>10 DEF RemoveAllLists, Goes, ListDir
  <2>11. CASE RemoveAllUnlinks(p)
    BY <2>11 DEF RemoveAllUnlinks, Goes, UnlinkOne
  <2>12. CASE RemoveAllEnds(p)
    BY <2>12 DEF RemoveAllEnds, Goes, RemoveDir
  <2> QED BY <1>1, <2>1, <2>2, <2>3, <2>4, <2>5, <2>6, <2>7, <2>8, <2>9,
     <2>10, <2>11, <2>12 DEF ProxyStep
<1>2. ASSUME NEW p \in Proxies, ProxyFault(p)
     PROVE  FilesFollow'
  <2>1. CASE Crash(p)
    BY <2>1 DEF Crash, Fault, Dies, Alive
  <2>2. CASE ConfigFails(p) \/ WritePidFails(p)
    BY <2>2 DEF ConfigFails, WritePidFails, Fault
  <2>3. CASE BootFails(p) \/ Interrupt(p)
    BY <2>3 DEF BootFails, Interrupt, Fault, Alive
  <2> QED BY <1>2, <2>1, <2>2, <2>3 DEF ProxyFault
<1>3. ASSUME NEW c \in Clients, ClientStep(c) \/ UsePassthrough(c) \/ StartOver(c)
     PROVE  FilesFollow'
  <2>1. CASE StartProxy(c)
    BY <2>1 DEF StartProxy, ClientGoes
  <2>2. CASE FirstGetPid(c) \/ PollPid(c)
    BY <2>2 DEF FirstGetPid, PollPid, GetPid, ClientGoes
  <2>3. CASE FirstGetReady(c) \/ PollReady(c)
    BY <2>3 DEF FirstGetReady, PollReady, GetReady, ClientGoes
  <2>4. CASE FirstGetFails(c) \/ FirstGetPending(c) \/ PollPending(c)
    BY <2>4 DEF FirstGetFails, FirstGetPending, PollPending, GetPending, ClientGoes
  <2>5. CASE UsePassthrough(c) \/ StartOver(c)
    BY <2>5 DEF UsePassthrough, StartOver, ClientGoes
  <2> QED BY <1>3, <2>1, <2>2, <2>3, <2>4, <2>5 DEF ClientStep
<1>4. ASSUME NEW k \in Killers, KillerStep(k) \/ WaitInterrupted(k)
     PROVE  FilesFollow'
  <2>1. CASE ShutdownGets(k) \/ ShutdownGetFails(k)
    BY <2>1 DEF ShutdownGets, ShutdownGetFails, KillerGoes
  <2>2. CASE SignalFails(k) \/ SignalZombie(k) \/ SignalTerm(k)
    BY <2>2 DEF SignalFails, SignalZombie, SignalTerm, KillerGoes
  <2>3. CASE SignalTermAgain(k) \/ SignalKill(k)
    BY <2>3 DEF SignalTermAgain, SignalKill, KillerGoes, Dies, Alive
  <2>4. CASE ForceLists(k)
    BY <2>4 DEF ForceLists, KillerGoes, ListDir
  <2>5. CASE ForceUnlinks(k)
    BY <2>5 DEF ForceUnlinks, KillerGoes, UnlinkOne
  <2>6. CASE ForceEnds(k)
    BY <2>6 DEF ForceEnds, KillerGoes, RemoveDir
  <2>7. CASE WaitEnds(k) \/ WaitPanics(k) \/ WaitInterrupted(k)
    BY <2>7 DEF WaitEnds, WaitPanics, WaitInterrupted, KillerGoes
  <2> QED BY <1>4, <2>1, <2>2, <2>3, <2>4, <2>5, <2>6, <2>7 DEF KillerStep
<1>5. CASE UNCHANGED vars
  BY <1>5 DEF vars
<1> QED BY <1>1, <1>2, <1>3, <1>4, <1>5 DEF Next

\* A proxy that was started goes on to serve, or the registry is disturbed.
LEMMA PolledStep ==
  ASSUME TypeOK, PolledIsThere, ~Disturbed, ~Disturbed', [Next]_vars
  PROVE  PolledIsThere'
<1> USE RemoverAssumption, SentinelAssumption, FaultAssumption
<1> USE DEF TypeOK, disk, cvars, kvars, Files, ProxyPC, ClientPC, KillerPC,
   KillerModes, Starting, Owning, Removing, Ended, PolledIsThere,
   Disturbed, RemovalBegan, Unsettled
<1>1. ASSUME NEW p \in Proxies, ProxyStep(p) \/ IdleExit(p)
     PROVE  PolledIsThere'
  <2>1. CASE MakeDir(p)
    BY <2>1 DEF MakeDir, Goes
  <2>2. CASE OpenPidFile(p)
    BY <2>2 DEF OpenPidFile, Goes, OpenTrunc
  <2>3. CASE OpenPortFile(p)
    BY <2>3 DEF OpenPortFile, Goes, OpenTrunc
  <2>4. CASE LockPidFile(p)
    BY <2>4 DEF LockPidFile, Goes
  <2>5. CASE WritePid(p) \/ WritePort(p)
    BY <2>5 DEF WritePid, WritePort, Goes
  <2>6. CASE OpenPidFileFails(p) \/ OpenPortFileFails(p)
    BY <2>6 DEF OpenPidFileFails, OpenPortFileFails, Goes
  <2>7. CASE LockPidFileFails(p)
    BY <2>7 DEF LockPidFileFails, Goes
  <2>8. CASE UnlockPidFile(p)
    BY <2>8 DEF UnlockPidFile, Goes
  <2>9. CASE Boot(p) \/ BootCancelled(p) \/ ServeCancelled(p) \/ IdleExit(p)
    BY <2>9 DEF Boot, Goes, BootCancelled, ServeCancelled, IdleExit
  <2>10. CASE RemoveAllLists(p)
    BY <2>10 DEF RemoveAllLists, Goes, ListDir
  <2>11. CASE RemoveAllUnlinks(p)
    BY <2>11 DEF RemoveAllUnlinks, Goes, UnlinkOne
  <2>12. CASE RemoveAllEnds(p)
    BY <2>12 DEF RemoveAllEnds, Goes, RemoveDir
  <2> QED BY <1>1, <2>1, <2>2, <2>3, <2>4, <2>5, <2>6, <2>7, <2>8, <2>9,
     <2>10, <2>11, <2>12 DEF ProxyStep
<1>2. ASSUME NEW p \in Proxies, ProxyFault(p)
     PROVE  PolledIsThere'
  <2>1. CASE Crash(p)
    BY <2>1 DEF Crash, Fault, Dies, Alive
  <2>2. CASE ConfigFails(p) \/ WritePidFails(p)
    BY <2>2 DEF ConfigFails, WritePidFails, Fault
  <2>3. CASE BootFails(p) \/ Interrupt(p)
    BY <2>3 DEF BootFails, Interrupt, Fault, Alive
  <2> QED BY <1>2, <2>1, <2>2, <2>3 DEF ProxyFault
<1>3. ASSUME NEW c \in Clients, ClientStep(c) \/ UsePassthrough(c) \/ StartOver(c)
     PROVE  PolledIsThere'
  <2>1. CASE StartProxy(c)
    BY <2>1 DEF StartProxy, ClientGoes
  <2>2. CASE FirstGetPid(c) \/ PollPid(c)
    BY <2>2 DEF FirstGetPid, PollPid, GetPid, ClientGoes
  <2>3. CASE FirstGetReady(c) \/ PollReady(c)
    BY <2>3 DEF FirstGetReady, PollReady, GetReady, ClientGoes
  <2>4. CASE FirstGetFails(c) \/ FirstGetPending(c) \/ PollPending(c)
    BY <2>4 DEF FirstGetFails, FirstGetPending, PollPending, GetPending, ClientGoes
  <2>5. CASE UsePassthrough(c) \/ StartOver(c)
    BY <2>5 DEF UsePassthrough, StartOver, ClientGoes
  <2> QED BY <1>3, <2>1, <2>2, <2>3, <2>4, <2>5 DEF ClientStep
<1>4. ASSUME NEW k \in Killers, KillerStep(k) \/ WaitInterrupted(k)
     PROVE  PolledIsThere'
  <2>1. CASE ShutdownGets(k) \/ ShutdownGetFails(k)
    BY <2>1 DEF ShutdownGets, ShutdownGetFails, KillerGoes
  <2>2. CASE SignalFails(k) \/ SignalZombie(k) \/ SignalTerm(k)
    BY <2>2 DEF SignalFails, SignalZombie, SignalTerm, KillerGoes
  <2>3. CASE SignalTermAgain(k) \/ SignalKill(k)
    BY <2>3 DEF SignalTermAgain, SignalKill, KillerGoes, Dies, Alive
  <2>4. CASE ForceLists(k)
    BY <2>4 DEF ForceLists, KillerGoes, ListDir
  <2>5. CASE ForceUnlinks(k)
    BY <2>5 DEF ForceUnlinks, KillerGoes, UnlinkOne
  <2>6. CASE ForceEnds(k)
    BY <2>6 DEF ForceEnds, KillerGoes, RemoveDir
  <2>7. CASE WaitEnds(k) \/ WaitPanics(k) \/ WaitInterrupted(k)
    BY <2>7 DEF WaitEnds, WaitPanics, WaitInterrupted, KillerGoes
  <2> QED BY <1>4, <2>1, <2>2, <2>3, <2>4, <2>5, <2>6, <2>7 DEF KillerStep
<1>5. CASE UNCHANGED vars
  BY <1>5 DEF vars
<1> QED BY <1>1, <1>2, <1>3, <1>4, <1>5 DEF Next

-----------------------------------------------------------------------------
(* A shutdown that waits does not wait in vain either                       *)

\* Who was given to KillProxy has run, and was told to stop by the time KillProxy
\* waits for it.
TargetTold ==
  \A k \in Killers : target[k] # None =>
    /\ pc[target[k]] # "new"
    /\ kpc[k] = "wait" /\ Alive(target[k]) => term[target[k]]

\* KillProxy waits for a process that was told to stop and has not ended yet; or the
\* pid that it looks for is not in the file any more; or the process was killed, and
\* has left it there.
WaiterIsHeard ==
  \A k \in Killers : kpc[k] = "wait" =>
    \/ Alive(target[k]) /\ term[target[k]]
    \/ Content("pid") # target[k]
    \/ pc[target[k]] \in {"dead", "cut"}

\* No process starts twice, and none forgets that it was told to stop.
LEMMA ToldStep ==
  ASSUME TypeOK, PidTextOwned, TargetTold, [Next]_vars
  PROVE  TargetTold'
<1> USE RemoverAssumption, SentinelAssumption, FaultAssumption
<1> USE DEF TypeOK, disk, cvars, kvars, Files, ProxyPC, ClientPC, KillerPC,
   KillerModes, Starting, Owning, Removing, Ended, TargetTold,
   PidTextOwned, Content, Alive
<1>1. ASSUME NEW p \in Proxies, ProxyStep(p) \/ IdleExit(p)
     PROVE  TargetTold'
  <2>1. CASE MakeDir(p)
    BY <2>1 DEF MakeDir, Goes
  <2>2. CASE OpenPidFile(p)
    BY <2>2 DEF OpenPidFile, Goes, OpenTrunc
  <2>3. CASE OpenPortFile(p)
    BY <2>3 DEF OpenPortFile, Goes, OpenTrunc
  <2>4. CASE LockPidFile(p)
    BY <2>4 DEF LockPidFile, Goes
  <2>5. CASE WritePid(p) \/ WritePort(p)
    BY <2>5 DEF WritePid, WritePort, Goes
  <2>6. CASE OpenPidFileFails(p) \/ OpenPortFileFails(p)
    BY <2>6 DEF OpenPidFileFails, OpenPortFileFails, Goes
  <2>7. CASE LockPidFileFails(p)
    BY <2>7 DEF LockPidFileFails, Goes
  <2>8. CASE UnlockPidFile(p)
    BY <2>8 DEF UnlockPidFile, Goes
  <2>9. CASE Boot(p) \/ BootCancelled(p) \/ ServeCancelled(p) \/ IdleExit(p)
    BY <2>9 DEF Boot, Goes, BootCancelled, ServeCancelled, IdleExit
  <2>10. CASE RemoveAllLists(p)
    BY <2>10 DEF RemoveAllLists, Goes, ListDir
  <2>11. CASE RemoveAllUnlinks(p)
    BY <2>11 DEF RemoveAllUnlinks, Goes, UnlinkOne
  <2>12. CASE RemoveAllEnds(p)
    BY <2>12 DEF RemoveAllEnds, Goes, RemoveDir
  <2> QED BY <1>1, <2>1, <2>2, <2>3, <2>4, <2>5, <2>6, <2>7, <2>8, <2>9,
     <2>10, <2>11, <2>12 DEF ProxyStep
<1>2. ASSUME NEW p \in Proxies, ProxyFault(p)
     PROVE  TargetTold'
  <2>1. CASE Crash(p)
    BY <2>1 DEF Crash, Fault, Dies, Alive
  <2>2. CASE ConfigFails(p) \/ WritePidFails(p)
    BY <2>2 DEF ConfigFails, WritePidFails, Fault
  <2>3. CASE BootFails(p) \/ Interrupt(p)
    BY <2>3 DEF BootFails, Interrupt, Fault, Alive
  <2> QED BY <1>2, <2>1, <2>2, <2>3 DEF ProxyFault
<1>3. ASSUME NEW c \in Clients, ClientStep(c) \/ UsePassthrough(c) \/ StartOver(c)
     PROVE  TargetTold'
  <2>1. CASE StartProxy(c)
    BY <2>1 DEF StartProxy, ClientGoes
  <2>2. CASE FirstGetPid(c) \/ PollPid(c)
    BY <2>2 DEF FirstGetPid, PollPid, GetPid, ClientGoes
  <2>3. CASE FirstGetReady(c) \/ PollReady(c)
    BY <2>3 DEF FirstGetReady, PollReady, GetReady, ClientGoes
  <2>4. CASE FirstGetFails(c) \/ FirstGetPending(c) \/ PollPending(c)
    BY <2>4 DEF FirstGetFails, FirstGetPending, PollPending, GetPending, ClientGoes
  <2>5. CASE UsePassthrough(c) \/ StartOver(c)
    BY <2>5 DEF UsePassthrough, StartOver, ClientGoes
  <2> QED BY <1>3, <2>1, <2>2, <2>3, <2>4, <2>5 DEF ClientStep
<1>4. ASSUME NEW k \in Killers, KillerStep(k) \/ WaitInterrupted(k)
     PROVE  TargetTold'
  <2>1. CASE ShutdownGets(k) \/ ShutdownGetFails(k)
    BY <2>1 DEF ShutdownGets, ShutdownGetFails, KillerGoes
  <2>2. CASE SignalFails(k) \/ SignalZombie(k) \/ SignalTerm(k)
    BY <2>2 DEF SignalFails, SignalZombie, SignalTerm, KillerGoes, AfterSignal
  <2>3. CASE SignalTermAgain(k) \/ SignalKill(k)
    BY <2>3 DEF SignalTermAgain, SignalKill, KillerGoes, Dies, AfterSignal
  <2>4. CASE ForceLists(k)
    BY <2>4 DEF ForceLists, KillerGoes, ListDir
  <2>5. CASE ForceUnlinks(k)
    BY <2>5 DEF ForceUnlinks, KillerGoes, UnlinkOne
  <2>6. CASE ForceEnds(k)
    BY <2>6 DEF ForceEnds, KillerGoes, RemoveDir
  <2>7. CASE WaitEnds(k) \/ WaitPanics(k) \/ WaitInterrupted(k)
    BY <2>7 DEF WaitEnds, WaitPanics, WaitInterrupted, KillerGoes
  <2> QED BY <1>4, <2>1, <2>2, <2>3, <2>4, <2>5, <2>6, <2>7 DEF KillerStep
<1>5. CASE UNCHANGED vars
  BY <1>5 DEF vars
<1> QED BY <1>1, <1>2, <1>3, <1>4, <1>5 DEF Next

-----------------------------------------------------------------------------
(* A proxy runs out of steps: what of CancelledProxyEnds is safety          *)

\* How many steps proxy p has left at most, with one for each name that its RemoveAll
\* has still to unlink.
StepsLeft(p) ==
  CASE pc[p] = "new" -> 14
    [] pc[p] = "mkdir" -> 13
    [] pc[p] = "open" -> 12
    [] pc[p] = "flock" -> 11
    [] pc[p] = "write" -> 10
    [] pc[p] = "boot" -> 9
    [] pc[p] = "openPort" -> 8
    [] pc[p] = "writePort" -> 7
    [] pc[p] = "serve" -> 6
    [] pc[p] = "unlock" -> 5
    [] pc[p] = "list" -> 4
    [] pc[p] = "unlink" -> 1 + (IF "pid" \in todo[p] THEN 1 ELSE 0)
                             + (IF "port" \in todo[p] THEN 1 ELSE 0)
    [] OTHER -> 0

\* Nothing that others do gives a proxy more to do.
LEMMA OthersStep ==
  ASSUME TypeOK, NEW a \in Proxies, [Next]_vars
  PROVE  StepsLeft(a)' <= StepsLeft(a)
<1> USE RemoverAssumption, SentinelAssumption, FaultAssumption
<1> USE DEF TypeOK, disk, cvars, kvars, Files, ProxyPC, ClientPC, KillerPC,
   KillerModes, Starting, Owning, Removing, Ended, StepsLeft
<1>1. ASSUME NEW p \in Proxies, ProxyStep(p) \/ IdleExit(p)
     PROVE  StepsLeft(a)' <= StepsLeft(a)
  <2>1. CASE MakeDir(p)
    BY <2>1 DEF MakeDir, Goes
  <2>2. CASE OpenPidFile(p)
    BY <2>2 DEF OpenPidFile, Goes, OpenTrunc
  <2>3. CASE OpenPortFile(p)
    BY <2>3 DEF OpenPortFile, Goes, OpenTrunc
  <2>4. CASE LockPidFile(p)
    BY <2>4 DEF LockPidFile, Goes
  <2>5. CASE WritePid(p) \/ WritePort(p)
    BY <2>5 DEF WritePid, WritePort, Goes
  <2>6. CASE OpenPidFileFails(p) \/ OpenPortFileFails(p)
    BY <2>6 DEF OpenPidFileFails, OpenPortFileFails, Goes
  <2>7. CASE LockPidFileFails(p)
    BY <2>7 DEF LockPidFileFails, Goes
  <2>8. CASE UnlockPidFile(p)
    BY <2>8 DEF UnlockPidFile, Goes
  <2>9. CASE Boot(p) \/ BootCancelled(p) \/ ServeCancelled(p) \/ IdleExit(p)
    BY <2>9 DEF Boot, Goes, BootCancelled, ServeCancelled, IdleExit
  <2>10. CASE RemoveAllLists(p)
    BY <2>10 DEF RemoveAllLists, Goes, ListDir
  <2>11. CASE RemoveAllUnlinks(p)
    BY <2>11 DEF RemoveAllUnlinks, Goes, UnlinkOne
  <2>12. CASE RemoveAllEnds(p)
    BY <2>12 DEF RemoveAllEnds, Goes, RemoveDir
  <2> QED BY <1>1, <2>1, <2>2, <2>3, <2>4, <2>5, <2>6, <2>7, <2>8, <2>9,
     <2>10, <2>11, <2>12 DEF ProxyStep
<1>2. ASSUME NEW p \in Proxies, ProxyFault(p)
     PROVE  StepsLeft(a)' <= StepsLeft(a)
  <2>1. CASE Crash(p)
    BY <2>1 DEF Crash, Fault, Dies, Alive
  <2>2. CASE ConfigFails(p) \/ WritePidFails(p)
    BY <2>2 DEF ConfigFails, WritePidFails, Fault
  <2>3. CASE BootFails(p) \/ Interrupt(p)
    BY <2>3 DEF BootFails, Interrupt, Fault, Alive
  <2> QED BY <1>2, <2>1, <2>2, <2>3 DEF ProxyFault
<1>3. ASSUME NEW c \in Clients, ClientStep(c) \/ UsePassthrough(c) \/ StartOver(c)
     PROVE  StepsLeft(a)' <= StepsLeft(a)
  <2>1. CASE StartProxy(c)
    BY <2>1 DEF StartProxy, ClientGoes
  <2>2. CASE FirstGetPid(c) \/ PollPid(c)
    BY <2>2 DEF FirstGetPid, PollPid, GetPid, ClientGoes
  <2>3. CASE FirstGetReady(c) \/ PollReady(c)
    BY <2>3 DEF FirstGetReady, PollReady, GetReady, ClientGoes
  <2>4. CASE FirstGetFails(c) \/ FirstGetPending(c) \/ PollPending(c)
    BY <2>4 DEF FirstGetFails, FirstGetPending, PollPending, GetPending, ClientGoes
  <2>5. CASE UsePassthrough(c) \/ StartOver(c)
    BY <2>5 DEF UsePassthrough, StartOver, ClientGoes
  <2> QED BY <1>3, <2>1, <2>2, <2>3, <2>4, <2>5 DEF ClientStep
<1>4. ASSUME NEW k \in Killers, KillerStep(k) \/ WaitInterrupted(k)
     PROVE  StepsLeft(a)' <= StepsLeft(a)
  <2>1. CASE ShutdownGets(k) \/ ShutdownGetFails(k)
    BY <2>1 DEF ShutdownGets, ShutdownGetFails, KillerGoes
  <2>2. CASE SignalFails(k) \/ SignalZombie(k) \/ SignalTerm(k)
    BY <2>2 DEF SignalFails, SignalZombie, SignalTerm, KillerGoes
  <2>3. CASE SignalTermAgain(k) \/ SignalKill(k)
    BY <2>3 DEF SignalTermAgain, SignalKill, KillerGoes, Dies, Alive
  <2>4. CASE ForceLists(k)
    BY <2>4 DEF ForceLists, KillerGoes, ListDir
  <2>5. CASE ForceUnlinks(k)
    BY <2>5 DEF ForceUnlinks, KillerGoes, UnlinkOne
  <2>6. CASE ForceEnds(k)
    BY <2>6 DEF ForceEnds, KillerGoes, RemoveDir
  <2>7. CASE WaitEnds(k) \/ WaitPanics(k) \/ WaitInterrupted(k)
    BY <2>7 DEF WaitEnds, WaitPanics, WaitInterrupted, KillerGoes
  <2> QED BY <1>4, <2>1, <2>2, <2>3, <2>4, <2>5, <2>6, <2>7 DEF KillerStep
<1>5. CASE UNCHANGED vars
  BY <1>5 DEF vars
<1> QED BY <1>1, <1>2, <1>3, <1>4, <1>5 DEF Next

\* Each step of a proxy is one of those that it had left.
LEMMA OwnStep ==
  ASSUME TypeOK, NEW p \in Proxies, ProxyStep(p) \/ IdleExit(p)
  PROVE  StepsLeft(p)' < StepsLeft(p)
<1> USE RemoverAssumption, SentinelAssumption, FaultAssumption
<1> USE DEF TypeOK, Files, ProxyPC, Starting, Owning, Removing, Ended, StepsLeft
<1>1. CASE MakeDir(p) \/ LockPidFile(p) \/ WritePid(p) \/ UnlockPidFile(p)
  BY <1>1 DEF MakeDir, LockPidFile, WritePid, UnlockPidFile, Goes
<1>2. CASE OpenPidFile(p) \/ OpenPortFile(p) \/ WritePort(p)
  BY <1>2 DEF OpenPidFile, OpenPortFile, WritePort, OpenTrunc, Goes
<1>3. CASE OpenPidFileFails(p) \/ OpenPortFileFails(p) \/ LockPidFileFails(p)
  BY <1>3 DEF OpenPidFileFails, OpenPortFileFails, LockPidFileFails, Goes
<1>4. CASE Boot(p) \/ BootCancelled(p) \/ ServeCancelled(p) \/ IdleExit(p)
  BY <1>4 DEF Boot, BootCancelled, ServeCancelled, IdleExit, Goes
<1>5. CASE RemoveAllLists(p)
  BY <1>5 DEF RemoveAllLists, Goes, ListDir
<1>6. CASE RemoveAllUnlinks(p)
  BY <1>6 DEF RemoveAllUnlinks, Goes, UnlinkOne
<1>7. CASE RemoveAllEnds(p)
  BY <1>7 DEF RemoveAllEnds, Goes, RemoveDir
<1> QED BY <1>1, <1>2, <1>3, <1>4, <1>5, <1>6, <1>7 DEF ProxyStep

-----------------------------------------------------------------------------
(* The theorems                                                             *)

\* Both invariants together hold in every reachable state.
LEMMA MoreInvariance == Spec => [](Inv /\ MoreInv)
<1>1. Init => Inv /\ MoreInv
  <2> SUFFICES ASSUME Init PROVE MoreInv
    BY InitInv
  <2>1. SeenOwns /\ OnePidOnePort
    BY DEF Init, SeenOwns, OnePidOnePort
  <2>2. LinkedIsThere /\ LockedByOwner /\ SomebodyCleans
    BY SentinelAssumption DEF Init, LinkedIsThere, LockedByOwner, SomebodyCleans
  <2> QED BY <2>1, <2>2 DEF MoreInv
<1>2. Inv /\ MoreInv /\ [Next]_vars => (Inv /\ MoreInv)'
  BY NextInv, SeenStep, PairStep, LinkedStep, LockedStep, CleansStep
     DEF MoreInv, Inv
<1> QED BY <1>1, <1>2, PTL DEF Spec

\* The same for the facts about what is left of a proxy.
LEMMA LastInvariance == Spec => [](Inv /\ LastInv)
<1>1. Init => Inv /\ LastInv
  <2>1. Init => ForgetsItself /\ InodesOpened /\ TargetNamed
    BY SentinelAssumption DEF Init, ForgetsItself, InodesOpened, TargetNamed, Opened,
       Content, Files
  <2> QED BY <2>1, InitInv DEF LastInv
<1>2. Inv /\ LastInv /\ [Next]_vars => (Inv /\ LastInv)'
  BY NextInv, ForgetsStep, OpenedStep, TargetStep DEF LastInv, Inv
<1> QED BY <1>1, <1>2, PTL DEF Spec

\* A proxy that has run through UnlockProxy is named by neither file.
THEOREM Forgotten == Spec => []ExitedIsForgotten
<1>1. Inv /\ LastInv => ExitedIsForgotten
  BY DEF LastInv, ForgetsItself, ExitedIsForgotten
<1> QED BY <1>1, LastInvariance, PTL

\* It takes a second process that opens the pid file to make a shutdown panic that
\* waits for the first one.
THEOREM PanicExplained == Spec => []PanicNeedsRival
<1>1. Inv /\ LastInv => PanicNeedsRival
  BY DEF LastInv, TargetNamed, PanicNeedsRival, Alone, Opened
<1> QED BY <1>1, LastInvariance, PTL

\* What a client polls for is in the files, or a proxy is about to put it there or
\* to fail, as long as nothing disturbs the registry: NewForConfig does not wait for
\* something that nobody will do.
THEOREM PollerHeard ==
  ASSUME ClientDataRoot = DefaultDataRoot
  PROVE  Spec => []PollerIsHeard
<1> DEFINE J == Inv /\ FilesFollow /\ PolledIsThere
<1>1. Init => J
  <2>1. Init => FilesFollow /\ PolledIsThere
    BY SentinelAssumption DEF Init, FilesFollow, PolledIsThere
  <2> QED BY <2>1, InitInv
<1>2. J /\ [Next]_vars => J'
  <2> SUFFICES ASSUME J, [Next]_vars PROVE FilesFollow' /\ PolledIsThere'
    BY NextInv
  <2>1. CASE Disturbed
    <3>1. Disturbed'
      BY <2>1, DisturbedStays DEF Inv
    <3> QED BY <3>1 DEF FilesFollow, PolledIsThere
  <2>2. CASE Disturbed'
    BY <2>2 DEF FilesFollow, PolledIsThere
  <2>3. CASE ~Disturbed /\ ~Disturbed'
    BY <2>3, FilesStep, PolledStep DEF Inv
  <2> QED BY <2>1, <2>2, <2>3
<1>3. J => PollerIsHeard
  <2> SUFFICES ASSUME J, ~Disturbed, NEW c \in Clients,
                      cpc[c] \in {"poll", "pollPort"},
                      \A p \in Proxies : pc[p] \notin Unsettled
               PROVE  \E p \in Proxies :
                        /\ pc[p] = "serve"
                        /\ ClientContent("pid") = p /\ ClientContent("port") = p
    BY DEF PollerIsHeard
  <2>1. PICK p \in Proxies : pc[p] = "serve"
    BY DEF PolledIsThere
  <2>2. Content("pid") = p /\ Content("port") = p
    BY <2>1 DEF FilesFollow, Unsettled, Starting
  <2> QED BY <2>1, <2>2 DEF ClientContent
<1> QED BY <1>1, <1>2, <1>3, PTL DEF Spec

\* KillProxy with wait only waits for what is on its way: WaitReturns, as far as it
\* is about one state.
THEOREM WaiterHeard == Spec => []WaiterIsHeard
<1>1. Init => Inv /\ TargetTold
  BY InitInv DEF Init, TargetTold
<1>2. Inv /\ TargetTold /\ [Next]_vars => (Inv /\ TargetTold)'
  BY NextInv, ToldStep DEF Inv
<1>3. Spec => []TargetTold
  BY <1>1, <1>2, PTL DEF Spec
<1>4. Inv /\ LastInv /\ TargetTold => WaiterIsHeard
  <2> SUFFICES ASSUME Inv, LastInv, TargetTold, NEW k \in Killers, kpc[k] = "wait",
                      Content("pid") = target[k], pc[target[k]] \notin {"dead", "cut"}
               PROVE  Alive(target[k]) /\ term[target[k]]
    BY DEF WaiterIsHeard
  <2>1. target[k] \in Proxies
    BY DEF Inv, TypeOK
  <2>2. pc[target[k]] # "exited"
    BY <2>1 DEF LastInv, ForgetsItself, Content, Files
  <2>3. pc[target[k]] \notin {"failed", "new"}
    BY <2>1, SentinelAssumption
       DEF Inv, TypeOK, PidTextOwned, Content, Files, Owning, Removing
  <2> QED BY <2>1, <2>2, <2>3, SentinelAssumption DEF TargetTold, Alive, Ended
<1> QED BY <1>3, <1>4, LastInvariance, PTL

\* A proxy takes at most fourteen steps from its start to its end, whatever others put
\* into the directory that it empties: no step of anybody adds to them.
THEOREM ProxyRunsOut ==
  ASSUME NEW p \in Proxies
  PROVE  Spec => /\ StepsLeft(p) = 14
                 /\ [][/\ StepsLeft(p)' \in Nat /\ StepsLeft(p)' <= StepsLeft(p)
                       /\ ProxyStep(p) \/ IdleExit(p) => StepsLeft(p)' < StepsLeft(p)]_vars
<1>1. Init => StepsLeft(p) = 14
  BY DEF Init, StepsLeft
<1>2. Inv /\ [Next]_vars =>
        [/\ StepsLeft(p)' \in Nat /\ StepsLeft(p)' <= StepsLeft(p)
         /\ ProxyStep(p) \/ IdleExit(p) => StepsLeft(p)' < StepsLeft(p)]_vars
  <2> SUFFICES ASSUME Inv, Next
               PROVE  /\ StepsLeft(p)' \in Nat /\ StepsLeft(p)' <= StepsLeft(p)
                      /\ ProxyStep(p) \/ IdleExit(p) => StepsLeft(p)' < StepsLeft(p)
    OBVIOUS
  <2>1. StepsLeft(p)' \in Nat
    BY DEF StepsLeft
  <2>2. StepsLeft(p)' <= StepsLeft(p)
    BY OthersStep DEF Inv
  <2>3. ProxyStep(p) \/ IdleExit(p) => StepsLeft(p)' < StepsLeft(p)
    BY OwnStep DEF Inv
  <2> QED BY <2>1, <2>2, <2>3
<1> QED BY <1>1, <1>2, Invariance, PTL DEF Spec

\* The pid and the port that Get puts into one Proxy are of one process, unless
\* somebody has removed files or died with the lock.
THEOREM OnePair == Spec => []OnePidOnePort
<1>1. Inv /\ MoreInv => OnePidOnePort
  BY DEF MoreInv
<1> QED BY <1>1, MoreInvariance, PTL

\* If no call fails, nothing remains of the data directory once all proxies have
\* ended in order and no shutdown is still removing files.
THEOREM NothingLeft ==
  ASSUME MaxFaults = 0
  PROVE  Spec => []NothingLeftBehind
<1>1. Inv /\ MoreInv => NothingLeftBehind
  <2> SUFFICES ASSUME Inv, SomebodyCleans,
                      \A p \in Proxies : pc[p] \in {"new", "exited", "failed"},
                      \A k \in Killers : kpc[k] \notin Removing
               PROVE  ~dir
    BY DEF MoreInv, NothingLeftBehind
  <2>1. faults = 0
    BY FaultAssumption DEF Inv, TypeOK
  <2> QED BY <2>1 DEF SomebodyCleans, Bound, Owning, Removing
<1> QED BY <1>1, MoreInvariance, PTL
=============================================================================
