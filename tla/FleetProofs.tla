------------------------------ MODULE FleetProofs ------------------------------
(***************************************************************************)
(* Proofs about Fleet, for any clients, kubeconfig files, flags and        *)
(* signatures, and any number of edits and crashes.                        *)
(*                                                                         *)
(* All of it rests on what the files name: a pid is that of a proxy, and a *)
(* port was published by one, that has made its configuration, for good,   *)
(* and whose signature is the name of the directory.                       *)
(***************************************************************************)
EXTENDS Fleet, TLAPS

\* A client starts its proxy once, after it has made its own configuration.
StartsOnce ==
  \A c \in Clients : client[c] \in {"load", "get"} => proxy[c] = "off" /\ uses[c] = NoPort

\* p had the lock of directory n.
Registered(n, p) == proxy[p] \in {"boot", "serve", "unlock", "gone"} /\ NameOf(p) = n

\* A proxy that listens has a port, to itself; none has one before.
PortsDiffer ==
  \A p \in Clients :
    /\ Listens(p) => port[p] # NoPort
    /\ port[p] # NoPort => proxy[p] \in {"serve", "unlock", "gone"}
    /\ \A q \in Clients : Listens(p) /\ Listens(q) /\ port[p] = port[q] => p = q

\* What the files of a directory, and a command that has read them, know.
FilesName ==
  \A n \in Names : /\ pidFile[n] # Nobody => Registered(n, pidFile[n])
                   /\ \A p \in Clients : <<n, p>> \in targets => Registered(n, p)
                   /\ held[n] # Nobody =>
                        Registered(n, held[n]) /\ proxy[held[n]] # "gone"

\* A proxy of this name has published port k.
Published(n, k) == \E q \in Clients : port[q] = k /\ NameOf(q) = n

\* The port that is in a file was published under its name, and so was the port that a
\* client has read there.
PortsPublished ==
  /\ \A n \in Names : portFile[n] # NoPort => Published(n, portFile[n])
  /\ \A c \in Clients : uses[c] # NoPort => Published(Signature(config[c]), uses[c])

\* A proxy that has not ended has its lock until its directory is removed; before a
\* shutdown removes directories by force, without exception.
OwnersHold ==
  \A p \in Clients : Alive(p) =>
    \/ held[NameOf(p)] = p
    \/ NameOf(p) \in removed /\ mode = "force" /\ cmd \notin {"off", "get"}

\* The proxies that were registered when the command began have had the lock.
PresentRegistered == \A p \in present : Registered(NameOf(p), p)

Reached(p) ==
  \/ p \in signalled \/ proxy[p] \in {"unlock", "gone"}
  \/ \E q \in Clients : proxy[q] = "lost" /\ NameOf(q) = NameOf(p)

\* The command will come to p.
Pending(p) ==
  \/ cmd = "get" /\ NameOf(p) \in todo /\ pidFile[NameOf(p)] = p
  \/ <<NameOf(p), p>> \in targets

NoneForgotten == \A p \in present : Reached(p) \/ Pending(p)

DoneIsEmpty == cmd = "done" /\ mode # "proxies" => targets = {}

Inv ==
  /\ TypeOK
  /\ StartsOnce
  /\ FilesName
  /\ PortsDiffer
  /\ PortsPublished
  /\ OwnersHold
  /\ PresentRegistered
  /\ NoneForgotten
  /\ DoneIsEmpty

-----------------------------------------------------------------------------
(* The steps of Next, one conjunct of the invariant at a time               *)

USE PassedOnAssumption, DigestAssumption, ArgumentsAssumption, NobodyAssumption,
    MaxPortsAssumption

\* What a step is, with the commands' names and processes in their sets.
LEMMA StepCases ==
  ASSUME TypeOK, [Next]_vars
  PROVE  \/ Edit
         \/ \E S \in SUBSET Names : Begins(S)
         \/ ListFails \/ GotAll \/ WaitEnds \/ Done
         \/ \E n \in Names : GetOne(n)
         \/ \E n \in Names, p \in Clients :
              Signal(n, p) \/ ForceKill(n, p) \/ SignalFails(n, p)
         \/ \E c \in Clients : \/ Load(c) \/ Uses(c, "get") \/ Uses(c, "wait")
                               \/ Start(c) \/ StartFails(c)
         \/ \E p \in Clients : \/ ProxyLoad(p) \/ LockProxy(p) \/ LockFails(p) \/ SetProxy(p)
                               \/ Cancelled(p) \/ Idle(p) \/ UnlockProxy(p) \/ Crash(p)
         \/ UNCHANGED vars
<1>1. CASE Command
  <2>1. CASE ListAll \/ ListNamed
    <3>1. \E S \in SUBSET Names : Begins(S)
      BY <2>1 DEF ListAll, ListNamed, TypeOK
    <3>2. QED
      BY <3>1
  <2>2. CASE \E t \in targets : \/ Signal(t[1], t[2]) \/ ForceKill(t[1], t[2])
                                \/ SignalFails(t[1], t[2])
    <3>1. PICK t \in targets : \/ Signal(t[1], t[2]) \/ ForceKill(t[1], t[2])
                               \/ SignalFails(t[1], t[2])
      BY <2>2
    <3>2. t[1] \in Names /\ t[2] \in Clients
      BY DEF TypeOK
    <3>3. QED
      BY <3>1, <3>2
  <2>3. QED
    BY <1>1, <2>1, <2>2 DEF Command
<1>2. CASE \E c \in Clients : Client(c) \/ StartFails(c)
  BY <1>2 DEF Client
<1>3. CASE \E p \in Clients : Proxy(p) \/ Idle(p) \/ Crash(p)
  BY <1>3 DEF Proxy
<1>4. QED
  BY <1>1, <1>2, <1>3 DEF Next

\* A signature is a name.
LEMMA SignatureType ==
  ASSUME TypeOK, NEW p \in Clients
  PROVE  Signature(config[p]) \in Names /\ NameOf(p) \in Names
  BY DEF TypeOK, NameOf, Signature

\* Every step keeps the types.
LEMMA TypeStep ==
  ASSUME TypeOK, [Next]_vars
  PROVE  TypeOK'
<1> USE SignatureType DEF TypeOK, clientVars, proxyVars, disk, cmdVars
<1>1. CASE Edit
  BY <1>1 DEF Edit
<1>2. ASSUME NEW S \in SUBSET Names, Begins(S)
      PROVE  TypeOK'
  <2>1. /\ todo' \subseteq Names /\ present' \subseteq Clients
        /\ cmd' = "get"
    BY <1>2 DEF Begins
  <2>2. UNCHANGED <<mode, targets, clientVars, proxyVars, disk>>
    BY <1>2 DEF Begins
  <2>3. QED
    BY <2>1, <2>2
<1>3. CASE ListFails
  BY <1>3 DEF ListFails
<1>4. ASSUME NEW n \in Names, GetOne(n)
      PROVE  TypeOK'
  <2>1. targets' \subseteq Names \X Clients
    <3>1. CASE pidFile[n] = Nobody
      BY <1>4, <3>1 DEF GetOne
    <3>2. CASE pidFile[n] # Nobody
      <4>1. pidFile[n] \in Clients
        BY <3>2
      <4>2. targets' = targets \cup {<<n, pidFile[n]>>}
        BY <1>4, <3>2 DEF GetOne
      <4>3. QED
        BY <4>1, <4>2
    <3>3. QED
      BY <3>1, <3>2
  <2>2. todo' \subseteq Names
    BY <1>4 DEF GetOne
  <2>3. UNCHANGED <<mode, cmd, present, clientVars, proxyVars, disk>>
    BY <1>4 DEF GetOne
  <2>4. QED
    BY <2>1, <2>2, <2>3
<1>5. CASE GotAll
  BY <1>5 DEF GotAll
<1>6. CASE WaitEnds
  BY <1>6 DEF WaitEnds
<1>7. CASE Done
  BY <1>7 DEF Done
<1>8. ASSUME NEW n \in Names, NEW p \in Clients, Signal(n, p)
      PROVE  TypeOK'
  <2>1. signalled' \subseteq Clients /\ targets' \subseteq Names \X Clients
    BY <1>8 DEF Signal, Takes
  <2>2. todo' \subseteq Names /\ cmd' \in {"kill", "await"}
    BY <1>8 DEF Signal, Takes
  <2>3. UNCHANGED <<mode, present, clientVars, proxyConfig, port, proxy, disk>>
    BY <1>8 DEF Signal, Takes
  <2>4. QED
    BY <2>1, <2>2, <2>3
<1>9. ASSUME NEW n \in Names, NEW p \in Clients, ForceKill(n, p)
      PROVE  TypeOK'
  BY <1>9 DEF ForceKill, Takes, RemoveAll, Alive
<1>10. ASSUME NEW n \in Names, NEW p \in Clients, SignalFails(n, p)
      PROVE  TypeOK'
  BY <1>10 DEF SignalFails, Takes, Alive
<1>11. ASSUME NEW c \in Clients, Load(c)
      PROVE  TypeOK'
  <2>1. <<file, flags[c]>> \in Configs
    BY DEF Configs
  <2>2. config' \in [Clients -> Configs]
    BY <1>11, <2>1 DEF Load
  <2>3. client' \in [Clients -> {"load", "get", "wait", "served", "direct"}]
    BY <1>11 DEF Load, ClientGoes
  <2>4. UNCHANGED <<file, flags, uses, proxyVars, disk, cmdVars>>
    BY <1>11 DEF Load, ClientGoes
  <2>5. QED
    BY <2>2, <2>3, <2>4
<1>12. ASSUME NEW c \in Clients, Uses(c, "get") \/ Uses(c, "wait")
      PROVE  TypeOK'
  BY <1>12 DEF Uses, ClientGoes, Ready
<1>13. ASSUME NEW c \in Clients, Start(c)
      PROVE  TypeOK'
  BY <1>13 DEF Start, ClientGoes
<1>14. ASSUME NEW c \in Clients, StartFails(c)
      PROVE  TypeOK'
  BY <1>14 DEF StartFails, ClientGoes
<1>15. ASSUME NEW p \in Clients, ProxyLoad(p)
      PROVE  TypeOK'
  <2>1. <<file, PassedOn[flags[p]]>> \in Configs
    BY DEF Configs
  <2>2. proxyConfig' \in [Clients -> Configs]
    BY <1>15, <2>1 DEF ProxyLoad
  <2>3. proxy' = [proxy EXCEPT ![p] = "lock"]
    BY <1>15 DEF ProxyLoad, ProxyGoes
  <2>4. UNCHANGED <<signalled, port, clientVars, disk, cmdVars>>
    BY <1>15 DEF ProxyLoad, ProxyGoes
  <2>5. QED
    BY <2>2, <2>3, <2>4
<1>16. ASSUME NEW p \in Clients, LockProxy(p)
      PROVE  TypeOK'
  <2>1. NameOf(p) \in Names
    OBVIOUS
  <2>2. dirs' = dirs \cup {NameOf(p)} /\ proxy' = [proxy EXCEPT ![p] = "boot"]
    BY <1>16 DEF LockProxy, ProxyGoes
  <2>3. /\ pidFile' = [pidFile EXCEPT ![NameOf(p)] = p]
        /\ held' = [held EXCEPT ![NameOf(p)] = p]
    BY <1>16 DEF LockProxy
  <2>4. UNCHANGED <<signalled, proxyConfig, port, clientVars, cmdVars, portFile, removed>>
    BY <1>16 DEF LockProxy, ProxyGoes
  <2>5. \A n \in Names \ dirs' : pidFile'[n] = Nobody /\ portFile'[n] = NoPort /\ held'[n] = Nobody
    BY <2>1, <2>2, <2>3, <2>4
  <2>6. QED
    BY <2>1, <2>2, <2>3, <2>4, <2>5
<1>17. ASSUME NEW p \in Clients, LockFails(p)
      PROVE  TypeOK'
  BY <1>17 DEF LockFails, ProxyGoes
<1>18. ASSUME NEW p \in Clients, SetProxy(p)
      PROVE  TypeOK'
  BY <1>18 DEF SetProxy, Publishes, Free, ProxyGoes
<1>19. ASSUME NEW p \in Clients, Cancelled(p)
      PROVE  TypeOK'
  BY <1>19 DEF Cancelled, ProxyGoes
<1>20. ASSUME NEW p \in Clients, Idle(p)
      PROVE  TypeOK'
  BY <1>20 DEF Idle, ProxyGoes
<1>21. ASSUME NEW p \in Clients, UnlockProxy(p)
      PROVE  TypeOK'
  <2>1. NameOf(p) \in Names
    OBVIOUS
  <2>2. /\ dirs' = dirs \ {NameOf(p)} /\ removed' = removed \cup {NameOf(p)}
        /\ proxy' = [proxy EXCEPT ![p] = "gone"]
    BY <1>21 DEF UnlockProxy, RemoveAll, ProxyGoes
  <2>3. /\ pidFile' = [pidFile EXCEPT ![NameOf(p)] = Nobody]
        /\ portFile' = [portFile EXCEPT ![NameOf(p)] = NoPort]
        /\ held' = [held EXCEPT ![NameOf(p)] = Nobody]
    BY <1>21 DEF UnlockProxy, RemoveAll
  <2>4. UNCHANGED <<signalled, proxyConfig, port, clientVars, cmdVars>>
    BY <1>21 DEF UnlockProxy, ProxyGoes
  <2>5. \A n \in Names \ dirs' : pidFile'[n] = Nobody /\ portFile'[n] = NoPort /\ held'[n] = Nobody
    BY <2>1, <2>2, <2>3
  <2>6. QED
    BY <2>1, <2>2, <2>3, <2>4, <2>5
<1>22. ASSUME NEW p \in Clients, Crash(p)
      PROVE  TypeOK'
  BY <1>22 DEF Crash, ProxyGoes
<1>23. CASE UNCHANGED vars
  BY <1>23 DEF vars, clientVars, proxyVars, disk, cmdVars
<1>24. QED
  BY <1>1, <1>2, <1>3, <1>4, <1>5, <1>6, <1>7, <1>8, <1>9, <1>10, <1>11, <1>12,
    <1>13, <1>14, <1>15, <1>16, <1>17, <1>18, <1>19, <1>20, <1>21, <1>22, <1>23,
    StepCases

\* No step starts a second proxy.
LEMMA StartsOnceStep ==
  ASSUME TypeOK, StartsOnce, [Next]_vars
  PROVE  StartsOnce'
<1> USE DEF TypeOK, StartsOnce, clientVars, proxyVars, disk, cmdVars
<1>1. CASE Edit
  BY <1>1 DEF Edit
<1>2. ASSUME NEW S \in SUBSET Names, Begins(S)
      PROVE  StartsOnce'
  BY <1>2 DEF Begins
<1>3. CASE ListFails
  BY <1>3 DEF ListFails
<1>4. ASSUME NEW n \in Names, GetOne(n)
      PROVE  StartsOnce'
  BY <1>4 DEF GetOne
<1>5. CASE GotAll
  BY <1>5 DEF GotAll
<1>6. CASE WaitEnds
  BY <1>6 DEF WaitEnds
<1>7. CASE Done
  BY <1>7 DEF Done
<1>8. ASSUME NEW n \in Names, NEW p \in Clients, Signal(n, p)
      PROVE  StartsOnce'
  BY <1>8 DEF Signal, Takes
<1>9. ASSUME NEW n \in Names, NEW p \in Clients, ForceKill(n, p)
      PROVE  StartsOnce'
  BY <1>9 DEF ForceKill, Takes, RemoveAll, Alive
<1>10. ASSUME NEW n \in Names, NEW p \in Clients, SignalFails(n, p)
      PROVE  StartsOnce'
  BY <1>10 DEF SignalFails, Takes, Alive
<1>11. ASSUME NEW c \in Clients, Load(c)
      PROVE  StartsOnce'
  BY <1>11 DEF Load, ClientGoes
<1>12. ASSUME NEW c \in Clients, Uses(c, "get") \/ Uses(c, "wait")
      PROVE  StartsOnce'
  BY <1>12 DEF Uses, ClientGoes, Ready
<1>13. ASSUME NEW c \in Clients, Start(c)
      PROVE  StartsOnce'
  BY <1>13 DEF Start, ClientGoes
<1>14. ASSUME NEW c \in Clients, StartFails(c)
      PROVE  StartsOnce'
  BY <1>14 DEF StartFails, ClientGoes
<1>15. ASSUME NEW p \in Clients, ProxyLoad(p)
      PROVE  StartsOnce'
  BY <1>15 DEF ProxyLoad, ProxyGoes
<1>16. ASSUME NEW p \in Clients, LockProxy(p)
      PROVE  StartsOnce'
  BY <1>16 DEF LockProxy, ProxyGoes
<1>17. ASSUME NEW p \in Clients, LockFails(p)
      PROVE  StartsOnce'
  BY <1>17 DEF LockFails, ProxyGoes
<1>18. ASSUME NEW p \in Clients, SetProxy(p)
      PROVE  StartsOnce'
  BY <1>18 DEF SetProxy, Publishes, Free, ProxyGoes
<1>19. ASSUME NEW p \in Clients, Cancelled(p)
      PROVE  StartsOnce'
  BY <1>19 DEF Cancelled, ProxyGoes
<1>20. ASSUME NEW p \in Clients, Idle(p)
      PROVE  StartsOnce'
  BY <1>20 DEF Idle, ProxyGoes
<1>21. ASSUME NEW p \in Clients, UnlockProxy(p)
      PROVE  StartsOnce'
  BY <1>21 DEF UnlockProxy, RemoveAll, ProxyGoes
<1>22. ASSUME NEW p \in Clients, Crash(p)
      PROVE  StartsOnce'
  BY <1>22 DEF Crash, ProxyGoes
<1>23. CASE UNCHANGED vars
  BY <1>23 DEF vars, clientVars, proxyVars, disk, cmdVars
<1>24. QED
  BY <1>1, <1>2, <1>3, <1>4, <1>5, <1>6, <1>7, <1>8, <1>9, <1>10, <1>11, <1>12,
    <1>13, <1>14, <1>15, <1>16, <1>17, <1>18, <1>19, <1>20, <1>21, <1>22, <1>23,
    StepCases

\* The files keep naming who registered under their name.
LEMMA FilesNameStep ==
  ASSUME TypeOK, FilesName, StartsOnce, [Next]_vars
  PROVE  FilesName'
<1> USE SignatureType DEF TypeOK, StartsOnce, FilesName, Registered, NameOf,
        Signature, clientVars, proxyVars, disk, cmdVars
<1>1. CASE Edit
  BY <1>1 DEF Edit
<1>2. ASSUME NEW S \in SUBSET Names, Begins(S)
      PROVE  FilesName'
  BY <1>2 DEF Begins
<1>3. CASE ListFails
  BY <1>3 DEF ListFails
<1>4. ASSUME NEW n \in Names, GetOne(n)
      PROVE  FilesName'
  BY <1>4 DEF GetOne
<1>5. CASE GotAll
  BY <1>5 DEF GotAll
<1>6. CASE WaitEnds
  BY <1>6 DEF WaitEnds
<1>7. CASE Done
  BY <1>7 DEF Done
<1>8. ASSUME NEW n \in Names, NEW p \in Clients, Signal(n, p)
      PROVE  FilesName'
  BY <1>8 DEF Signal, Takes
<1>9. ASSUME NEW n \in Names, NEW p \in Clients, ForceKill(n, p)
      PROVE  FilesName'
  BY <1>9 DEF ForceKill, Takes, RemoveAll, Alive
<1>10. ASSUME NEW n \in Names, NEW p \in Clients, SignalFails(n, p)
      PROVE  FilesName'
  BY <1>10 DEF SignalFails, Takes, Alive
<1>11. ASSUME NEW c \in Clients, Load(c)
      PROVE  FilesName'
  BY <1>11 DEF Load, ClientGoes
<1>12. ASSUME NEW c \in Clients, Uses(c, "get") \/ Uses(c, "wait")
      PROVE  FilesName'
  BY <1>12 DEF Uses, ClientGoes, Ready
<1>13. ASSUME NEW c \in Clients, Start(c)
      PROVE  FilesName'
  BY <1>13 DEF Start, ClientGoes
<1>14. ASSUME NEW c \in Clients, StartFails(c)
      PROVE  FilesName'
  BY <1>14 DEF StartFails, ClientGoes
<1>15. ASSUME NEW p \in Clients, ProxyLoad(p)
      PROVE  FilesName'
  BY <1>15 DEF ProxyLoad, ProxyGoes
<1>16. ASSUME NEW p \in Clients, LockProxy(p)
      PROVE  FilesName'
  BY <1>16 DEF LockProxy, ProxyGoes
<1>17. ASSUME NEW p \in Clients, LockFails(p)
      PROVE  FilesName'
  BY <1>17 DEF LockFails, ProxyGoes
<1>18. ASSUME NEW p \in Clients, SetProxy(p)
      PROVE  FilesName'
  BY <1>18 DEF SetProxy, Publishes, Free, ProxyGoes
<1>19. ASSUME NEW p \in Clients, Cancelled(p)
      PROVE  FilesName'
  BY <1>19 DEF Cancelled, ProxyGoes
<1>20. ASSUME NEW p \in Clients, Idle(p)
      PROVE  FilesName'
  BY <1>20 DEF Idle, ProxyGoes
<1>21. ASSUME NEW p \in Clients, UnlockProxy(p)
      PROVE  FilesName'
  BY <1>21 DEF UnlockProxy, RemoveAll, ProxyGoes
<1>22. ASSUME NEW p \in Clients, Crash(p)
      PROVE  FilesName'
  BY <1>22 DEF Crash, ProxyGoes
<1>23. CASE UNCHANGED vars
  BY <1>23 DEF vars, clientVars, proxyVars, disk, cmdVars
<1>24. QED
  BY <1>1, <1>2, <1>3, <1>4, <1>5, <1>6, <1>7, <1>8, <1>9, <1>10, <1>11, <1>12,
    <1>13, <1>14, <1>15, <1>16, <1>17, <1>18, <1>19, <1>20, <1>21, <1>22, <1>23,
    StepCases

\* Ports are given to one listener at a time.
LEMMA PortsDifferStep ==
  ASSUME TypeOK, StartsOnce, PortsDiffer, [Next]_vars
  PROVE  PortsDiffer'
<1> USE DEF TypeOK, StartsOnce, PortsDiffer, Listens, Ports, NoPort, clientVars,
        proxyVars, disk, cmdVars
<1>1. CASE Edit
  BY <1>1 DEF Edit
<1>2. ASSUME NEW S \in SUBSET Names, Begins(S)
      PROVE  PortsDiffer'
  BY <1>2 DEF Begins
<1>3. CASE ListFails
  BY <1>3 DEF ListFails
<1>4. ASSUME NEW n \in Names, GetOne(n)
      PROVE  PortsDiffer'
  BY <1>4 DEF GetOne
<1>5. CASE GotAll
  BY <1>5 DEF GotAll
<1>6. CASE WaitEnds
  BY <1>6 DEF WaitEnds
<1>7. CASE Done
  BY <1>7 DEF Done
<1>8. ASSUME NEW n \in Names, NEW p \in Clients, Signal(n, p)
      PROVE  PortsDiffer'
  BY <1>8 DEF Signal, Takes
<1>9. ASSUME NEW n \in Names, NEW p \in Clients, ForceKill(n, p)
      PROVE  PortsDiffer'
  BY <1>9 DEF ForceKill, Takes, RemoveAll, Alive
<1>10. ASSUME NEW n \in Names, NEW p \in Clients, SignalFails(n, p)
      PROVE  PortsDiffer'
  BY <1>10 DEF SignalFails, Takes, Alive
<1>11. ASSUME NEW c \in Clients, Load(c)
      PROVE  PortsDiffer'
  BY <1>11 DEF Load, ClientGoes
<1>12. ASSUME NEW c \in Clients, Uses(c, "get") \/ Uses(c, "wait")
      PROVE  PortsDiffer'
  BY <1>12 DEF Uses, ClientGoes, Ready
<1>13. ASSUME NEW c \in Clients, Start(c)
      PROVE  PortsDiffer'
  BY <1>13 DEF Start, ClientGoes
<1>14. ASSUME NEW c \in Clients, StartFails(c)
      PROVE  PortsDiffer'
  BY <1>14 DEF StartFails, ClientGoes
<1>15. ASSUME NEW p \in Clients, ProxyLoad(p)
      PROVE  PortsDiffer'
  BY <1>15 DEF ProxyLoad, ProxyGoes
<1>16. ASSUME NEW p \in Clients, LockProxy(p)
      PROVE  PortsDiffer'
  BY <1>16 DEF LockProxy, ProxyGoes
<1>17. ASSUME NEW p \in Clients, LockFails(p)
      PROVE  PortsDiffer'
  BY <1>17 DEF LockFails, ProxyGoes
<1>18. ASSUME NEW p \in Clients, SetProxy(p)
      PROVE  PortsDiffer'
  <2>1. CASE NameOf(p) \notin dirs
    BY <1>18, <2>1 DEF SetProxy, ProxyGoes
  <2>2. CASE NameOf(p) \in dirs
    <3>1. PICK k \in Free : Publishes(p, k)
      BY <1>18, <2>2 DEF SetProxy
    <3>2. k # NoPort /\ \A q \in Clients : Listens(q) => port[q] # k
      BY DEF Free
    <3>3. proxy' = [proxy EXCEPT ![p] = "serve"] /\ port' = [port EXCEPT ![p] = k]
      BY <3>1 DEF Publishes, ProxyGoes
    <3>4. QED
      BY <3>2, <3>3
  <2>3. QED
    BY <2>1, <2>2
<1>19. ASSUME NEW p \in Clients, Cancelled(p)
      PROVE  PortsDiffer'
  BY <1>19 DEF Cancelled, ProxyGoes
<1>20. ASSUME NEW p \in Clients, Idle(p)
      PROVE  PortsDiffer'
  BY <1>20 DEF Idle, ProxyGoes
<1>21. ASSUME NEW p \in Clients, UnlockProxy(p)
      PROVE  PortsDiffer'
  BY <1>21 DEF UnlockProxy, RemoveAll, ProxyGoes
<1>22. ASSUME NEW p \in Clients, Crash(p)
      PROVE  PortsDiffer'
  BY <1>22 DEF Crash, ProxyGoes
<1>23. CASE UNCHANGED vars
  BY <1>23 DEF vars, clientVars, proxyVars, disk, cmdVars
<1>24. QED
  BY <1>1, <1>2, <1>3, <1>4, <1>5, <1>6, <1>7, <1>8, <1>9, <1>10, <1>11, <1>12,
    <1>13, <1>14, <1>15, <1>16, <1>17, <1>18, <1>19, <1>20, <1>21, <1>22, <1>23,
    StepCases

\* A proxy that has published its port keeps it, and its configuration.
LEMMA PortsStay ==
  ASSUME TypeOK, StartsOnce, PortsDiffer, [Next]_vars,
         NEW q \in Clients, port[q] # NoPort
  PROVE  port'[q] = port[q] /\ proxyConfig'[q] = proxyConfig[q]
<1> USE DEF TypeOK, StartsOnce, PortsDiffer, clientVars, proxyVars, disk, cmdVars
<1>1. CASE Edit
  BY <1>1 DEF Edit
<1>2. ASSUME NEW S \in SUBSET Names, Begins(S)
      PROVE  port'[q] = port[q] /\ proxyConfig'[q] = proxyConfig[q]
  BY <1>2 DEF Begins
<1>3. CASE ListFails
  BY <1>3 DEF ListFails
<1>4. ASSUME NEW n \in Names, GetOne(n)
      PROVE  port'[q] = port[q] /\ proxyConfig'[q] = proxyConfig[q]
  BY <1>4 DEF GetOne
<1>5. CASE GotAll
  BY <1>5 DEF GotAll
<1>6. CASE WaitEnds
  BY <1>6 DEF WaitEnds
<1>7. CASE Done
  BY <1>7 DEF Done
<1>8. ASSUME NEW n \in Names, NEW p \in Clients, Signal(n, p)
      PROVE  port'[q] = port[q] /\ proxyConfig'[q] = proxyConfig[q]
  BY <1>8 DEF Signal, Takes
<1>9. ASSUME NEW n \in Names, NEW p \in Clients, ForceKill(n, p)
      PROVE  port'[q] = port[q] /\ proxyConfig'[q] = proxyConfig[q]
  BY <1>9 DEF ForceKill, Takes, RemoveAll, Alive
<1>10. ASSUME NEW n \in Names, NEW p \in Clients, SignalFails(n, p)
      PROVE  port'[q] = port[q] /\ proxyConfig'[q] = proxyConfig[q]
  BY <1>10 DEF SignalFails, Takes, Alive
<1>11. ASSUME NEW c \in Clients, Load(c)
      PROVE  port'[q] = port[q] /\ proxyConfig'[q] = proxyConfig[q]
  BY <1>11 DEF Load, ClientGoes
<1>12. ASSUME NEW c \in Clients, Uses(c, "get") \/ Uses(c, "wait")
      PROVE  port'[q] = port[q] /\ proxyConfig'[q] = proxyConfig[q]
  BY <1>12 DEF Uses, ClientGoes, Ready
<1>13. ASSUME NEW c \in Clients, Start(c)
      PROVE  port'[q] = port[q] /\ proxyConfig'[q] = proxyConfig[q]
  BY <1>13 DEF Start, ClientGoes
<1>14. ASSUME NEW c \in Clients, StartFails(c)
      PROVE  port'[q] = port[q] /\ proxyConfig'[q] = proxyConfig[q]
  BY <1>14 DEF StartFails, ClientGoes
<1>15. ASSUME NEW p \in Clients, ProxyLoad(p)
      PROVE  port'[q] = port[q] /\ proxyConfig'[q] = proxyConfig[q]
  BY <1>15 DEF ProxyLoad, ProxyGoes
<1>16. ASSUME NEW p \in Clients, LockProxy(p)
      PROVE  port'[q] = port[q] /\ proxyConfig'[q] = proxyConfig[q]
  BY <1>16 DEF LockProxy, ProxyGoes
<1>17. ASSUME NEW p \in Clients, LockFails(p)
      PROVE  port'[q] = port[q] /\ proxyConfig'[q] = proxyConfig[q]
  BY <1>17 DEF LockFails, ProxyGoes
<1>18. ASSUME NEW p \in Clients, SetProxy(p)
      PROVE  port'[q] = port[q] /\ proxyConfig'[q] = proxyConfig[q]
  BY <1>18 DEF SetProxy, Publishes, Free, ProxyGoes
<1>19. ASSUME NEW p \in Clients, Cancelled(p)
      PROVE  port'[q] = port[q] /\ proxyConfig'[q] = proxyConfig[q]
  BY <1>19 DEF Cancelled, ProxyGoes
<1>20. ASSUME NEW p \in Clients, Idle(p)
      PROVE  port'[q] = port[q] /\ proxyConfig'[q] = proxyConfig[q]
  BY <1>20 DEF Idle, ProxyGoes
<1>21. ASSUME NEW p \in Clients, UnlockProxy(p)
      PROVE  port'[q] = port[q] /\ proxyConfig'[q] = proxyConfig[q]
  BY <1>21 DEF UnlockProxy, RemoveAll, ProxyGoes
<1>22. ASSUME NEW p \in Clients, Crash(p)
      PROVE  port'[q] = port[q] /\ proxyConfig'[q] = proxyConfig[q]
  BY <1>22 DEF Crash, ProxyGoes
<1>23. CASE UNCHANGED vars
  BY <1>23 DEF vars, clientVars, proxyVars, disk, cmdVars
<1>24. QED
  BY <1>1, <1>2, <1>3, <1>4, <1>5, <1>6, <1>7, <1>8, <1>9, <1>10, <1>11, <1>12,
    <1>13, <1>14, <1>15, <1>16, <1>17, <1>18, <1>19, <1>20, <1>21, <1>22, <1>23,
    StepCases

\* What files and clients name stays published.
LEMMA PortsPublishedStep ==
  ASSUME TypeOK, StartsOnce, PortsDiffer, PortsPublished, [Next]_vars
  PROVE  PortsPublished'
<1>0. \A n \in Names, k \in Ports : Published(n, k) => Published(n, k)'
  BY PortsStay DEF Published, NameOf, Signature, Ports, NoPort
<1> USE <1>0, SignatureType DEF TypeOK, StartsOnce, PortsPublished, NameOf, Signature,
        clientVars, proxyVars, disk, cmdVars
<1>1. CASE Edit
  BY <1>1 DEF Edit
<1>2. ASSUME NEW S \in SUBSET Names, Begins(S)
      PROVE  PortsPublished'
  BY <1>2 DEF Begins
<1>3. CASE ListFails
  BY <1>3 DEF ListFails
<1>4. ASSUME NEW n \in Names, GetOne(n)
      PROVE  PortsPublished'
  BY <1>4 DEF GetOne
<1>5. CASE GotAll
  BY <1>5 DEF GotAll
<1>6. CASE WaitEnds
  BY <1>6 DEF WaitEnds
<1>7. CASE Done
  BY <1>7 DEF Done
<1>8. ASSUME NEW n \in Names, NEW p \in Clients, Signal(n, p)
      PROVE  PortsPublished'
  BY <1>8 DEF Signal, Takes
<1>9. ASSUME NEW n \in Names, NEW p \in Clients, ForceKill(n, p)
      PROVE  PortsPublished'
  BY <1>9 DEF ForceKill, Takes, RemoveAll, Alive
<1>10. ASSUME NEW n \in Names, NEW p \in Clients, SignalFails(n, p)
      PROVE  PortsPublished'
  BY <1>10 DEF SignalFails, Takes, Alive
<1>11. ASSUME NEW c \in Clients, Load(c)
      PROVE  PortsPublished'
  BY <1>11 DEF Load, ClientGoes
<1>12. ASSUME NEW c \in Clients, Uses(c, "get") \/ Uses(c, "wait")
      PROVE  PortsPublished'
  BY <1>12 DEF Uses, ClientGoes, Ready
<1>13. ASSUME NEW c \in Clients, Start(c)
      PROVE  PortsPublished'
  BY <1>13 DEF Start, ClientGoes
<1>14. ASSUME NEW c \in Clients, StartFails(c)
      PROVE  PortsPublished'
  BY <1>14 DEF StartFails, ClientGoes
<1>15. ASSUME NEW p \in Clients, ProxyLoad(p)
      PROVE  PortsPublished'
  BY <1>15 DEF ProxyLoad, ProxyGoes
<1>16. ASSUME NEW p \in Clients, LockProxy(p)
      PROVE  PortsPublished'
  BY <1>16 DEF LockProxy, ProxyGoes
<1>17. ASSUME NEW p \in Clients, LockFails(p)
      PROVE  PortsPublished'
  BY <1>17 DEF LockFails, ProxyGoes
<1>18. ASSUME NEW p \in Clients, SetProxy(p)
      PROVE  PortsPublished'
  <2>1. CASE NameOf(p) \notin dirs
    BY <1>18, <2>1 DEF SetProxy, ProxyGoes
  <2>2. CASE NameOf(p) \in dirs
    <3>1. PICK k \in Free : Publishes(p, k)
      BY <1>18, <2>2 DEF SetProxy
    <3>2. /\ portFile' = [portFile EXCEPT ![NameOf(p)] = k]
          /\ UNCHANGED <<uses, config, proxyConfig>> /\ port'[p] = k
      BY <3>1 DEF Publishes, ProxyGoes
    <3>3. Published(NameOf(p), k)'
      BY <3>2 DEF Published
    <3>4. QED
      BY <3>2, <3>3
  <2>3. QED
    BY <2>1, <2>2
<1>19. ASSUME NEW p \in Clients, Cancelled(p)
      PROVE  PortsPublished'
  BY <1>19 DEF Cancelled, ProxyGoes
<1>20. ASSUME NEW p \in Clients, Idle(p)
      PROVE  PortsPublished'
  BY <1>20 DEF Idle, ProxyGoes
<1>21. ASSUME NEW p \in Clients, UnlockProxy(p)
      PROVE  PortsPublished'
  BY <1>21 DEF UnlockProxy, RemoveAll, ProxyGoes
<1>22. ASSUME NEW p \in Clients, Crash(p)
      PROVE  PortsPublished'
  BY <1>22 DEF Crash, ProxyGoes
<1>23. CASE UNCHANGED vars
  BY <1>23 DEF vars, clientVars, proxyVars, disk, cmdVars
<1>24. QED
  BY <1>1, <1>2, <1>3, <1>4, <1>5, <1>6, <1>7, <1>8, <1>9, <1>10, <1>11, <1>12,
    <1>13, <1>14, <1>15, <1>16, <1>17, <1>18, <1>19, <1>20, <1>21, <1>22, <1>23,
    StepCases

\* Whoever listens at a port that was published under a client's signature either has
\* published it, or somebody of that signature has, and does not listen any more.
LEMMA SharesInv ==
  ASSUME TypeOK, PortsDiffer, PortsPublished
  PROVE  SharesBySignature
<1> SUFFICES ASSUME NEW c \in Clients, NEW p \in Clients, Listens(p), port[p] = uses[c]
             PROVE  \/ Digest[proxyConfig[p]] = Digest[config[c]]
                    \/ \E q \in Clients : /\ Digest[proxyConfig[q]] = Digest[config[c]]
                                          /\ port[q] = uses[c] /\ ~Listens(q)
  BY DEF SharesBySignature
<1>1. port[p] # NoPort
  BY DEF PortsDiffer
<1>2. PICK q \in Clients : port[q] = uses[c] /\ NameOf(q) = Signature(config[c])
  BY <1>1 DEF PortsPublished, Published
<1>3. CASE Listens(q)
  BY <1>2, <1>3 DEF PortsDiffer, NameOf, Signature
<1>4. QED
  BY <1>2, <1>3 DEF NameOf, Signature

\* Owners keep their lock.
LEMMA OwnersHoldStep ==
  ASSUME TypeOK, FilesName, StartsOnce, OwnersHold, [Next]_vars
  PROVE  OwnersHold'
<1> USE SignatureType DEF TypeOK, StartsOnce, FilesName, OwnersHold, Registered,
        NameOf, Signature, Alive, clientVars, proxyVars, disk, cmdVars
<1>1. CASE Edit
  BY <1>1 DEF Edit
<1>2. ASSUME NEW S \in SUBSET Names, Begins(S)
      PROVE  OwnersHold'
  BY <1>2 DEF Begins
<1>3. CASE ListFails
  BY <1>3 DEF ListFails
<1>4. ASSUME NEW n \in Names, GetOne(n)
      PROVE  OwnersHold'
  BY <1>4 DEF GetOne
<1>5. CASE GotAll
  BY <1>5 DEF GotAll
<1>6. CASE WaitEnds
  BY <1>6 DEF WaitEnds
<1>7. CASE Done
  BY <1>7 DEF Done
<1>8. ASSUME NEW n \in Names, NEW p \in Clients, Signal(n, p)
      PROVE  OwnersHold'
  BY <1>8 DEF Signal, Takes
<1>9. ASSUME NEW n \in Names, NEW p \in Clients, ForceKill(n, p)
      PROVE  OwnersHold'
  BY <1>9 DEF ForceKill, Takes, RemoveAll, Alive
<1>10. ASSUME NEW n \in Names, NEW p \in Clients, SignalFails(n, p)
      PROVE  OwnersHold'
  BY <1>10 DEF SignalFails, Takes, Alive
<1>11. ASSUME NEW c \in Clients, Load(c)
      PROVE  OwnersHold'
  BY <1>11 DEF Load, ClientGoes
<1>12. ASSUME NEW c \in Clients, Uses(c, "get") \/ Uses(c, "wait")
      PROVE  OwnersHold'
  BY <1>12 DEF Uses, ClientGoes, Ready
<1>13. ASSUME NEW c \in Clients, Start(c)
      PROVE  OwnersHold'
  BY <1>13 DEF Start, ClientGoes
<1>14. ASSUME NEW c \in Clients, StartFails(c)
      PROVE  OwnersHold'
  BY <1>14 DEF StartFails, ClientGoes
<1>15. ASSUME NEW p \in Clients, ProxyLoad(p)
      PROVE  OwnersHold'
  BY <1>15 DEF ProxyLoad, ProxyGoes
<1>16. ASSUME NEW p \in Clients, LockProxy(p)
      PROVE  OwnersHold'
  BY <1>16 DEF LockProxy, ProxyGoes
<1>17. ASSUME NEW p \in Clients, LockFails(p)
      PROVE  OwnersHold'
  BY <1>17 DEF LockFails, ProxyGoes
<1>18. ASSUME NEW p \in Clients, SetProxy(p)
      PROVE  OwnersHold'
  BY <1>18 DEF SetProxy, Publishes, Free, ProxyGoes
<1>19. ASSUME NEW p \in Clients, Cancelled(p)
      PROVE  OwnersHold'
  BY <1>19 DEF Cancelled, ProxyGoes
<1>20. ASSUME NEW p \in Clients, Idle(p)
      PROVE  OwnersHold'
  BY <1>20 DEF Idle, ProxyGoes
<1>21. ASSUME NEW p \in Clients, UnlockProxy(p)
      PROVE  OwnersHold'
  BY <1>21 DEF UnlockProxy, RemoveAll, ProxyGoes
<1>22. ASSUME NEW p \in Clients, Crash(p)
      PROVE  OwnersHold'
  BY <1>22 DEF Crash, ProxyGoes
<1>23. CASE UNCHANGED vars
  BY <1>23 DEF vars, clientVars, proxyVars, disk, cmdVars
<1>24. QED
  BY <1>1, <1>2, <1>3, <1>4, <1>5, <1>6, <1>7, <1>8, <1>9, <1>10, <1>11, <1>12,
    <1>13, <1>14, <1>15, <1>16, <1>17, <1>18, <1>19, <1>20, <1>21, <1>22, <1>23,
    StepCases

\* Who was present stays registered.
LEMMA PresentStep ==
  ASSUME TypeOK, FilesName, StartsOnce, PresentRegistered, [Next]_vars
  PROVE  PresentRegistered'
<1> USE SignatureType DEF TypeOK, StartsOnce, FilesName, PresentRegistered,
        Registered, NameOf, Signature, clientVars, proxyVars, disk, cmdVars
<1>1. CASE Edit
  BY <1>1 DEF Edit
<1>2. ASSUME NEW S \in SUBSET Names, Begins(S)
      PROVE  PresentRegistered'
  BY <1>2 DEF Begins
<1>3. CASE ListFails
  BY <1>3 DEF ListFails
<1>4. ASSUME NEW n \in Names, GetOne(n)
      PROVE  PresentRegistered'
  BY <1>4 DEF GetOne
<1>5. CASE GotAll
  BY <1>5 DEF GotAll
<1>6. CASE WaitEnds
  BY <1>6 DEF WaitEnds
<1>7. CASE Done
  BY <1>7 DEF Done
<1>8. ASSUME NEW n \in Names, NEW p \in Clients, Signal(n, p)
      PROVE  PresentRegistered'
  BY <1>8 DEF Signal, Takes
<1>9. ASSUME NEW n \in Names, NEW p \in Clients, ForceKill(n, p)
      PROVE  PresentRegistered'
  BY <1>9 DEF ForceKill, Takes, RemoveAll, Alive
<1>10. ASSUME NEW n \in Names, NEW p \in Clients, SignalFails(n, p)
      PROVE  PresentRegistered'
  BY <1>10 DEF SignalFails, Takes, Alive
<1>11. ASSUME NEW c \in Clients, Load(c)
      PROVE  PresentRegistered'
  BY <1>11 DEF Load, ClientGoes
<1>12. ASSUME NEW c \in Clients, Uses(c, "get") \/ Uses(c, "wait")
      PROVE  PresentRegistered'
  BY <1>12 DEF Uses, ClientGoes, Ready
<1>13. ASSUME NEW c \in Clients, Start(c)
      PROVE  PresentRegistered'
  BY <1>13 DEF Start, ClientGoes
<1>14. ASSUME NEW c \in Clients, StartFails(c)
      PROVE  PresentRegistered'
  BY <1>14 DEF StartFails, ClientGoes
<1>15. ASSUME NEW p \in Clients, ProxyLoad(p)
      PROVE  PresentRegistered'
  BY <1>15 DEF ProxyLoad, ProxyGoes
<1>16. ASSUME NEW p \in Clients, LockProxy(p)
      PROVE  PresentRegistered'
  BY <1>16 DEF LockProxy, ProxyGoes
<1>17. ASSUME NEW p \in Clients, LockFails(p)
      PROVE  PresentRegistered'
  BY <1>17 DEF LockFails, ProxyGoes
<1>18. ASSUME NEW p \in Clients, SetProxy(p)
      PROVE  PresentRegistered'
  BY <1>18 DEF SetProxy, Publishes, Free, ProxyGoes
<1>19. ASSUME NEW p \in Clients, Cancelled(p)
      PROVE  PresentRegistered'
  BY <1>19 DEF Cancelled, ProxyGoes
<1>20. ASSUME NEW p \in Clients, Idle(p)
      PROVE  PresentRegistered'
  BY <1>20 DEF Idle, ProxyGoes
<1>21. ASSUME NEW p \in Clients, UnlockProxy(p)
      PROVE  PresentRegistered'
  BY <1>21 DEF UnlockProxy, RemoveAll, ProxyGoes
<1>22. ASSUME NEW p \in Clients, Crash(p)
      PROVE  PresentRegistered'
  BY <1>22 DEF Crash, ProxyGoes
<1>23. CASE UNCHANGED vars
  BY <1>23 DEF vars, clientVars, proxyVars, disk, cmdVars
<1>24. QED
  BY <1>1, <1>2, <1>3, <1>4, <1>5, <1>6, <1>7, <1>8, <1>9, <1>10, <1>11, <1>12,
    <1>13, <1>14, <1>15, <1>16, <1>17, <1>18, <1>19, <1>20, <1>21, <1>22, <1>23,
    StepCases

\* No step of the command, and none of a proxy, loses a proxy that was present.
LEMMA ForgottenStep ==
  ASSUME TypeOK, FilesName, StartsOnce, OwnersHold, PresentRegistered,
         NoneForgotten, DoneIsEmpty, [Next]_vars
  PROVE  NoneForgotten'
<1> USE SignatureType DEF TypeOK, StartsOnce, FilesName, OwnersHold,
        PresentRegistered, NoneForgotten, DoneIsEmpty, Reached, Pending,
          Registered, NameOf, Signature, Alive, clientVars, proxyVars, disk, cmdVars
<1>1. CASE Edit
  BY <1>1 DEF Edit
<1>2. ASSUME NEW S \in SUBSET Names, Begins(S)
      PROVE  NoneForgotten'
  BY <1>2 DEF Begins
<1>3. CASE ListFails
  BY <1>3 DEF ListFails
<1>4. ASSUME NEW n \in Names, GetOne(n)
      PROVE  NoneForgotten'
  BY <1>4 DEF GetOne
<1>5. CASE GotAll
  BY <1>5 DEF GotAll
<1>6. CASE WaitEnds
  BY <1>6 DEF WaitEnds
<1>7. CASE Done
  BY <1>7 DEF Done
<1>8. ASSUME NEW n \in Names, NEW p \in Clients, Signal(n, p)
      PROVE  NoneForgotten'
  BY <1>8 DEF Signal, Takes
<1>9. ASSUME NEW n \in Names, NEW p \in Clients, ForceKill(n, p)
      PROVE  NoneForgotten'
  BY <1>9 DEF ForceKill, Takes, RemoveAll, Alive
<1>10. ASSUME NEW n \in Names, NEW p \in Clients, SignalFails(n, p)
      PROVE  NoneForgotten'
  BY <1>10 DEF SignalFails, Takes, Alive
<1>11. ASSUME NEW c \in Clients, Load(c)
      PROVE  NoneForgotten'
  BY <1>11 DEF Load, ClientGoes
<1>12. ASSUME NEW c \in Clients, Uses(c, "get") \/ Uses(c, "wait")
      PROVE  NoneForgotten'
  BY <1>12 DEF Uses, ClientGoes, Ready
<1>13. ASSUME NEW c \in Clients, Start(c)
      PROVE  NoneForgotten'
  BY <1>13 DEF Start, ClientGoes
<1>14. ASSUME NEW c \in Clients, StartFails(c)
      PROVE  NoneForgotten'
  BY <1>14 DEF StartFails, ClientGoes
<1>15. ASSUME NEW p \in Clients, ProxyLoad(p)
      PROVE  NoneForgotten'
  <2>1. proxyConfig' = [proxyConfig EXCEPT ![p] = <<file, PassedOn[flags[p]]>>]
    BY <1>15 DEF ProxyLoad
  <2>2. proxy[p] = "load" /\ proxy' = [proxy EXCEPT ![p] = "lock"]
    BY <1>15 DEF ProxyLoad, ProxyGoes
  <2>3. UNCHANGED <<signalled, cmdVars, disk>>
    BY <1>15 DEF ProxyLoad, ProxyGoes
  <2>4. \A q \in Clients \ {p} : proxyConfig'[q] = proxyConfig[q] /\ proxy'[q] = proxy[q]
    BY <2>1, <2>2
  <2>5. p \notin present /\ present \subseteq Clients
    BY <2>2
  <2>6. QED
    BY <2>2, <2>3, <2>4, <2>5
<1>16. ASSUME NEW p \in Clients, LockProxy(p)
      PROVE  NoneForgotten'
  BY <1>16 DEF LockProxy, ProxyGoes
<1>17. ASSUME NEW p \in Clients, LockFails(p)
      PROVE  NoneForgotten'
  BY <1>17 DEF LockFails, ProxyGoes
<1>18. ASSUME NEW p \in Clients, SetProxy(p)
      PROVE  NoneForgotten'
  BY <1>18 DEF SetProxy, Publishes, Free, ProxyGoes
<1>19. ASSUME NEW p \in Clients, Cancelled(p)
      PROVE  NoneForgotten'
  <2>1. proxy' = [proxy EXCEPT ![p] = "unlock"] /\ proxy[p] \in {"boot", "serve"}
    BY <1>19 DEF Cancelled, ProxyGoes
  <2>2. UNCHANGED <<proxyConfig, signalled, disk, cmdVars>>
    BY <1>19 DEF Cancelled, ProxyGoes
  <2>3. QED
    BY <2>1, <2>2
<1>20. ASSUME NEW p \in Clients, Idle(p)
      PROVE  NoneForgotten'
  BY <1>20 DEF Idle, ProxyGoes
<1>21. ASSUME NEW p \in Clients, UnlockProxy(p)
      PROVE  NoneForgotten'
  <2>1. /\ proxy[p] = "unlock" /\ proxy' = [proxy EXCEPT ![p] = "gone"]
        /\ pidFile' = [pidFile EXCEPT ![NameOf(p)] = Nobody]
    BY <1>21 DEF UnlockProxy, RemoveAll, ProxyGoes
  <2>2. UNCHANGED <<signalled, proxyConfig, cmdVars>>
    BY <1>21 DEF UnlockProxy, ProxyGoes
  <2>3. ASSUME NEW x \in present, cmd = "get", NameOf(x) = NameOf(p), x # p
        PROVE  proxy[x] = "gone"
    <3>1. held[NameOf(p)] = p
      BY <2>1, <2>3
    <3>2. Alive(x) => held[NameOf(x)] = x
      BY <2>3
    <3>3. ~Alive(x)
      BY <2>3, <3>1, <3>2
    <3>4. QED
      BY <2>3, <3>3
  <2>4. present \subseteq Clients
    OBVIOUS
  <2>5. ASSUME NEW x \in present
        PROVE  Reached(x)' \/ Pending(x)'
    <3>1. CASE Reached(x)
      BY <2>1, <2>2, <2>4, <3>1
    <3>2. CASE <<NameOf(x), x>> \in targets
      BY <2>2, <3>2
    <3>3. CASE x = p
      BY <2>1, <3>3
    <3>4. CASE x # p /\ cmd = "get" /\ NameOf(x) \in todo /\ pidFile[NameOf(x)] = x
      <4>1. NameOf(x) = NameOf(p) => Reached(x)
        BY <2>3, <3>4
      <4>2. NameOf(x) # NameOf(p) => pidFile'[NameOf(x)] = x
        BY <2>1, <2>4, <3>4
      <4>3. QED
        BY <2>2, <3>1, <3>4, <4>1, <4>2
    <3>5. QED
      BY <3>1, <3>2, <3>3, <3>4
  <2>6. QED
    BY <2>2, <2>5
<1>22. ASSUME NEW p \in Clients, Crash(p)
      PROVE  NoneForgotten'
  <2>1. \E s \in {"boot", "serve"} : proxy[p] = s /\ proxy' = [proxy EXCEPT ![p] = "gone"]
    BY <1>22 DEF Crash, ProxyGoes
  <2>2. UNCHANGED <<signalled, proxyConfig, cmdVars, pidFile>>
    BY <1>22 DEF Crash, ProxyGoes
  <2>3. \A q \in Clients \ {p} : proxy'[q] = proxy[q]
    BY <2>1
  <2>4. present \subseteq Clients /\ proxy'[p] = "gone" /\ proxy[p] # "lost"
    BY <2>1
  <2>5. QED
    BY <2>2, <2>3, <2>4
<1>23. CASE UNCHANGED vars
  BY <1>23 DEF vars, clientVars, proxyVars, disk, cmdVars
<1>24. QED
  BY <1>1, <1>2, <1>3, <1>4, <1>5, <1>6, <1>7, <1>8, <1>9, <1>10, <1>11, <1>12,
    <1>13, <1>14, <1>15, <1>16, <1>17, <1>18, <1>19, <1>20, <1>21, <1>22, <1>23,
    StepCases

\* A command that is over has no targets left.
LEMMA DoneStep ==
  ASSUME TypeOK, DoneIsEmpty, [Next]_vars
  PROVE  DoneIsEmpty'
<1> USE DEF TypeOK, DoneIsEmpty, clientVars, proxyVars, disk, cmdVars
<1>1. CASE Edit
  BY <1>1 DEF Edit
<1>2. ASSUME NEW S \in SUBSET Names, Begins(S)
      PROVE  DoneIsEmpty'
  BY <1>2 DEF Begins
<1>3. CASE ListFails
  BY <1>3 DEF ListFails
<1>4. ASSUME NEW n \in Names, GetOne(n)
      PROVE  DoneIsEmpty'
  BY <1>4 DEF GetOne
<1>5. CASE GotAll
  BY <1>5 DEF GotAll
<1>6. CASE WaitEnds
  BY <1>6 DEF WaitEnds
<1>7. CASE Done
  BY <1>7 DEF Done
<1>8. ASSUME NEW n \in Names, NEW p \in Clients, Signal(n, p)
      PROVE  DoneIsEmpty'
  BY <1>8 DEF Signal, Takes
<1>9. ASSUME NEW n \in Names, NEW p \in Clients, ForceKill(n, p)
      PROVE  DoneIsEmpty'
  BY <1>9 DEF ForceKill, Takes, RemoveAll, Alive
<1>10. ASSUME NEW n \in Names, NEW p \in Clients, SignalFails(n, p)
      PROVE  DoneIsEmpty'
  BY <1>10 DEF SignalFails, Takes, Alive
<1>11. ASSUME NEW c \in Clients, Load(c)
      PROVE  DoneIsEmpty'
  BY <1>11 DEF Load, ClientGoes
<1>12. ASSUME NEW c \in Clients, Uses(c, "get") \/ Uses(c, "wait")
      PROVE  DoneIsEmpty'
  BY <1>12 DEF Uses, ClientGoes, Ready
<1>13. ASSUME NEW c \in Clients, Start(c)
      PROVE  DoneIsEmpty'
  BY <1>13 DEF Start, ClientGoes
<1>14. ASSUME NEW c \in Clients, StartFails(c)
      PROVE  DoneIsEmpty'
  BY <1>14 DEF StartFails, ClientGoes
<1>15. ASSUME NEW p \in Clients, ProxyLoad(p)
      PROVE  DoneIsEmpty'
  BY <1>15 DEF ProxyLoad, ProxyGoes
<1>16. ASSUME NEW p \in Clients, LockProxy(p)
      PROVE  DoneIsEmpty'
  BY <1>16 DEF LockProxy, ProxyGoes
<1>17. ASSUME NEW p \in Clients, LockFails(p)
      PROVE  DoneIsEmpty'
  BY <1>17 DEF LockFails, ProxyGoes
<1>18. ASSUME NEW p \in Clients, SetProxy(p)
      PROVE  DoneIsEmpty'
  BY <1>18 DEF SetProxy, Publishes, Free, ProxyGoes
<1>19. ASSUME NEW p \in Clients, Cancelled(p)
      PROVE  DoneIsEmpty'
  BY <1>19 DEF Cancelled, ProxyGoes
<1>20. ASSUME NEW p \in Clients, Idle(p)
      PROVE  DoneIsEmpty'
  BY <1>20 DEF Idle, ProxyGoes
<1>21. ASSUME NEW p \in Clients, UnlockProxy(p)
      PROVE  DoneIsEmpty'
  BY <1>21 DEF UnlockProxy, RemoveAll, ProxyGoes
<1>22. ASSUME NEW p \in Clients, Crash(p)
      PROVE  DoneIsEmpty'
  BY <1>22 DEF Crash, ProxyGoes
<1>23. CASE UNCHANGED vars
  BY <1>23 DEF vars, clientVars, proxyVars, disk, cmdVars
<1>24. QED
  BY <1>1, <1>2, <1>3, <1>4, <1>5, <1>6, <1>7, <1>8, <1>9, <1>10, <1>11, <1>12,
    <1>13, <1>14, <1>15, <1>16, <1>17, <1>18, <1>19, <1>20, <1>21, <1>22, <1>23,
    StepCases

-----------------------------------------------------------------------------
(* The theorems                                                             *)

\* At the beginning there is no proxy and no directory.
LEMMA InvInit == Init => Inv
<1> SUFFICES ASSUME Init PROVE Inv
  OBVIOUS
<1>1. config \in [Clients -> Configs] /\ proxyConfig \in [Clients -> Configs]
  BY SettingsAssumption DEF Init, Configs
<1>2. TypeOK
  BY <1>1, SettingsAssumption DEF Init, TypeOK
<1>3. StartsOnce /\ FilesName /\ PortsDiffer /\ PortsPublished
  BY DEF Init, StartsOnce, FilesName, PortsDiffer, PortsPublished, Listens
<1>4. OwnersHold /\ PresentRegistered /\ NoneForgotten /\ DoneIsEmpty
  BY DEF Init, OwnersHold, PresentRegistered, NoneForgotten, DoneIsEmpty, Alive
<1>5. QED
  BY <1>2, <1>3, <1>4 DEF Inv

\* The invariant is inductive.
LEMMA InvNext == Inv /\ [Next]_vars => Inv'
  BY TypeStep, StartsOnceStep, FilesNameStep, PortsDifferStep, PortsPublishedStep,
     OwnersHoldStep, PresentStep, ForgottenStep, DoneStep DEF Inv

\* What the files name, who holds which lock, and whom the command will come to, for
\* every value of the constants.
THEOREM Invariance == Spec => []Inv
  BY InvInit, InvNext, PTL DEF Spec

\* Types; the files of a directory go with it.
THEOREM TypeCorrect == Spec => []TypeOK
<1>1. Inv => TypeOK
  BY DEF Inv
<1>2. QED
  BY <1>1, Invariance, PTL

\* Who answers a client has its signature, however the kubeconfig file is edited and
\* whatever crashes, unless the port was published by one that listens no more.
THEOREM SharedBySignature == Spec => []SharesBySignature
<1>1. Inv => SharesBySignature
  BY SharesInv DEF Inv
<1>2. QED
  BY <1>1, Invariance, PTL

\* A shutdown that comes to its end has left out nobody who was registered, unless a
\* rival had emptied the pid file.
THEOREM AllReached == Spec => []EveryProxyReached
<1>1. Inv => EveryProxyReached
  BY DEF Inv, NoneForgotten, DoneIsEmpty, Reached, Pending, EveryProxyReached
<1>2. QED
  BY <1>1, Invariance, PTL

\* Under each name a step is one of ProxyClaim, or none.
LEMMA ClaimStep ==
  ASSUME TypeOK, FilesName, StartsOnce, OwnersHold, NEW m \in Names, [Next]_vars
  PROVE  Claim(m)!Next \/ UNCHANGED Claim(m)!vars
<1> USE SignatureType DEF TypeOK, StartsOnce, FilesName, OwnersHold, Registered,
        NameOf, Signature, Alive, clientVars, proxyVars, disk, cmdVars, Claim!vars
<1>1. CASE Edit
  BY <1>1 DEF Edit
<1>2. ASSUME NEW S \in SUBSET Names, Begins(S)
      PROVE  Claim(m)!Next \/ UNCHANGED Claim(m)!vars
  BY <1>2 DEF Begins
<1>3. CASE ListFails
  BY <1>3 DEF ListFails
<1>4. ASSUME NEW n \in Names, GetOne(n)
      PROVE  Claim(m)!Next \/ UNCHANGED Claim(m)!vars
  BY <1>4 DEF GetOne
<1>5. CASE GotAll
  BY <1>5 DEF GotAll
<1>6. CASE WaitEnds
  BY <1>6 DEF WaitEnds
<1>7. CASE Done
  BY <1>7 DEF Done
<1>8. ASSUME NEW n \in Names, NEW p \in Clients, Signal(n, p)
      PROVE  Claim(m)!Next \/ UNCHANGED Claim(m)!vars
  BY <1>8 DEF Signal, Takes
<1>9. ASSUME NEW n \in Names, NEW p \in Clients, ForceKill(n, p)
      PROVE  Claim(m)!Next \/ UNCHANGED Claim(m)!vars
  <2> DEFINE owners == {q \in Clients : Alive(q) /\ NameOf(q) = m}
  <2>1. /\ proxy' = IF Alive(p) THEN [proxy EXCEPT ![p] = "gone"] ELSE proxy
        /\ proxyConfig' = proxyConfig /\ removed' = removed \cup {n}
        /\ proxy[p] \in {"boot", "serve", "unlock", "gone"} /\ NameOf(p) = n
    BY <1>9 DEF ForceKill, Takes, RemoveAll
  <2>2. CASE m = n /\ Alive(p)
    <3>1. p \in owners /\ owners' = owners \ {p} /\ (m \in removed)'
      BY <2>1, <2>2
    <3>2. QED
      BY <3>1 DEF Claim!Next, Claim!UnlockProxy
  <2>3. CASE m = n /\ ~Alive(p)
    <3>1. owners' = owners /\ (m \in removed)'
      BY <2>1, <2>3
    <3>2. QED
      BY <3>1 DEF Claim!Next, Claim!Remove
  <2>4. CASE m # n
    <3>1. owners' = owners /\ (m \in removed)' = (m \in removed)
      BY <2>1, <2>4
    <3>2. QED
      BY <3>1
  <2>5. QED
    BY <2>2, <2>3, <2>4
<1>10. ASSUME NEW n \in Names, NEW p \in Clients, SignalFails(n, p)
      PROVE  Claim(m)!Next \/ UNCHANGED Claim(m)!vars
  BY <1>10 DEF SignalFails, Takes, Alive
<1>11. ASSUME NEW c \in Clients, Load(c)
      PROVE  Claim(m)!Next \/ UNCHANGED Claim(m)!vars
  BY <1>11 DEF Load, ClientGoes
<1>12. ASSUME NEW c \in Clients, Uses(c, "get") \/ Uses(c, "wait")
      PROVE  Claim(m)!Next \/ UNCHANGED Claim(m)!vars
  BY <1>12 DEF Uses, ClientGoes, Ready
<1>13. ASSUME NEW c \in Clients, Start(c)
      PROVE  Claim(m)!Next \/ UNCHANGED Claim(m)!vars
  BY <1>13 DEF Start, ClientGoes
<1>14. ASSUME NEW c \in Clients, StartFails(c)
      PROVE  Claim(m)!Next \/ UNCHANGED Claim(m)!vars
  BY <1>14 DEF StartFails, ClientGoes
<1>15. ASSUME NEW p \in Clients, ProxyLoad(p)
      PROVE  Claim(m)!Next \/ UNCHANGED Claim(m)!vars
  BY <1>15 DEF ProxyLoad, ProxyGoes
<1>16. ASSUME NEW p \in Clients, LockProxy(p)
      PROVE  Claim(m)!Next \/ UNCHANGED Claim(m)!vars
  BY <1>16 DEF LockProxy, ProxyGoes, Claim!Next, Claim!LockProxy, Claim!Crash,
     Claim!UnlockProxy, Claim!Remove
<1>17. ASSUME NEW p \in Clients, LockFails(p)
      PROVE  Claim(m)!Next \/ UNCHANGED Claim(m)!vars
  BY <1>17 DEF LockFails, ProxyGoes
<1>18. ASSUME NEW p \in Clients, SetProxy(p)
      PROVE  Claim(m)!Next \/ UNCHANGED Claim(m)!vars
  BY <1>18 DEF SetProxy, Publishes, Free, ProxyGoes
<1>19. ASSUME NEW p \in Clients, Cancelled(p)
      PROVE  Claim(m)!Next \/ UNCHANGED Claim(m)!vars
  BY <1>19 DEF Cancelled, ProxyGoes
<1>20. ASSUME NEW p \in Clients, Idle(p)
      PROVE  Claim(m)!Next \/ UNCHANGED Claim(m)!vars
  BY <1>20 DEF Idle, ProxyGoes
<1>21. ASSUME NEW p \in Clients, UnlockProxy(p)
      PROVE  Claim(m)!Next \/ UNCHANGED Claim(m)!vars
  BY <1>21 DEF UnlockProxy, RemoveAll, ProxyGoes, Claim!Next, Claim!LockProxy,
     Claim!Crash, Claim!UnlockProxy, Claim!Remove
<1>22. ASSUME NEW p \in Clients, Crash(p)
      PROVE  Claim(m)!Next \/ UNCHANGED Claim(m)!vars
  BY <1>22 DEF Crash, ProxyGoes, Claim!Next, Claim!LockProxy, Claim!Crash,
     Claim!UnlockProxy, Claim!Remove
<1>23. CASE UNCHANGED vars
  BY <1>23 DEF vars, clientVars, proxyVars, disk, cmdVars
<1>24. QED
  BY <1>1, <1>2, <1>3, <1>4, <1>5, <1>6, <1>7, <1>8, <1>9, <1>10, <1>11, <1>12,
    <1>13, <1>14, <1>15, <1>16, <1>17, <1>18, <1>19, <1>20, <1>21, <1>22, <1>23,
    StepCases

\* What happens under one name is a claim of its own, exclusive until the first
\* removal there, no matter what happens under the others.
THEOREM Separate == Spec => ClaimsAreSeparate
<1> DEFINE Step == \A n \in Names : Claim(n)!Next \/ UNCHANGED Claim(n)!vars
<1>1. Init => \A n \in Names : Claim(n)!Init
  BY DEF Init, Claim!Init, Alive
<1>2. Inv /\ [Next]_vars => Step
  BY ClaimStep DEF Inv
<1>3. QED
  BY <1>1, <1>2, Invariance, PTL DEF Spec, ClaimsAreSeparate

-----------------------------------------------------------------------------
(* A client's own configuration, and what of ServedUnlessDisturbed is       *)
(* safety                                                                   *)

\* A client is answered by a proxy that has made the very configuration that the client
\* has, the same contents of the kubeconfig file, the same flags; unless one that had
\* made it published the port and has stopped listening.
OwnConfig ==
  \A c, p \in Clients : Listens(p) /\ port[p] = uses[c] =>
    \/ proxyConfig[p] = config[c]
    \/ \E q \in Clients : proxyConfig[q] = config[c] /\ port[q] = uses[c] /\ ~Listens(q)

\* Where no two configurations have the same signature, no client is answered with
\* another configuration by a proxy whose port has had no other owner, whatever is
\* edited between its start and that of the proxy.
THEOREM OwnProxy ==
  ASSUME \A x, y \in Configs : Digest[x] = Digest[y] => x = y
  PROVE  Spec => []OwnConfig
<1>1. TypeOK /\ SharesBySignature => OwnConfig
  BY DEF TypeOK, SharesBySignature, OwnConfig
<1>2. Inv => OwnConfig
  BY <1>1, SharesInv DEF Inv
<1>3. QED
  BY <1>2, Invariance, PTL

\* The flags that a proxy is not given do not count for the signature.
PassesEnough ==
  \A x \in Files, f \in Flags : Digest[<<x, PassedOn[f]>>] = Digest[<<x, f>>]

\* As long as nobody edits the file, a proxy has the signature of its client.
Unedited ==
  /\ edits \in Nat /\ crashes \in Nat
  /\ edits = 0 => \A c \in Clients : /\ config[c] = <<file, flags[c]>>
                                     /\ NameOf(c) = Signature(config[c])

\* The proxy of an undisturbed client is the only one to use its directory, and has
\* put into it what a proxy has at its stage.
OnItsWay ==
  \A c \in Clients : ~Disturbed(c) =>
    LET n == Signature(config[c])
    IN /\ proxy[c] # "lost"
       /\ proxy[c] \in {"off", "load", "lock"} => n \notin dirs
       /\ proxy[c] \in {"boot", "serve"} => n \in dirs /\ pidFile[n] = c
       /\ proxy[c] = "serve" => portFile[n] # NoPort
       /\ client[c] = "wait" => proxy[c] \in {"load", "lock", "boot", "serve"}

\* A client that waits undisturbed has a proxy that has a step to take, or finds
\* what it waits for.
WaitIsShort ==
  \A c \in Clients : client[c] = "wait" /\ ~Disturbed(c) =>
    \/ proxy[c] \in {"load", "boot"}
    \/ proxy[c] = "lock" /\ held[NameOf(c)] = Nobody
    \/ Ready(Signature(config[c]))

\* A directory that is not there is locked by nobody.
LEMMA NoDirNoLock ==
  ASSUME TypeOK, NEW n \in Names, n \notin dirs
  PROVE  held[n] = Nobody
  BY DEF TypeOK

\* Configurations differ in nothing but flags until the file is edited.
LEMMA UneditedStep ==
  ASSUME PassesEnough, TypeOK, StartsOnce, Unedited, [Next]_vars
  PROVE  Unedited'
<1> USE SignatureType DEF TypeOK, StartsOnce, Unedited, NameOf, Signature, clientVars, proxyVars,
        disk, cmdVars, PassesEnough, Configs
<1>1. CASE Edit
  BY <1>1 DEF Edit
<1>2. ASSUME NEW S \in SUBSET Names, Begins(S)
      PROVE  Unedited'
  BY <1>2 DEF Begins
<1>3. CASE ListFails
  BY <1>3 DEF ListFails
<1>4. ASSUME NEW n \in Names, GetOne(n)
      PROVE  Unedited'
  BY <1>4 DEF GetOne
<1>5. CASE GotAll
  BY <1>5 DEF GotAll
<1>6. CASE WaitEnds
  BY <1>6 DEF WaitEnds
<1>7. CASE Done
  BY <1>7 DEF Done
<1>8. ASSUME NEW n \in Names, NEW p \in Clients, Signal(n, p)
      PROVE  Unedited'
  BY <1>8 DEF Signal, Takes
<1>9. ASSUME NEW n \in Names, NEW p \in Clients, ForceKill(n, p)
      PROVE  Unedited'
  BY <1>9 DEF ForceKill, RemoveAll, Takes, Alive
<1>10. ASSUME NEW n \in Names, NEW p \in Clients, SignalFails(n, p)
      PROVE  Unedited'
  BY <1>10 DEF SignalFails, Takes, Alive
<1>11. ASSUME NEW c \in Clients, Load(c)
      PROVE  Unedited'
  BY <1>11 DEF Load, ClientGoes
<1>12. ASSUME NEW c \in Clients, Uses(c, "get") \/ Uses(c, "wait")
      PROVE  Unedited'
  BY <1>12 DEF Uses, ClientGoes, Ready
<1>13. ASSUME NEW c \in Clients, Start(c)
      PROVE  Unedited'
  BY <1>13 DEF Start, ClientGoes
<1>14. ASSUME NEW c \in Clients, StartFails(c)
      PROVE  Unedited'
  BY <1>14 DEF StartFails, ClientGoes
<1>15. ASSUME NEW p \in Clients, ProxyLoad(p)
      PROVE  Unedited'
  BY <1>15 DEF ProxyLoad, ProxyGoes
<1>16. ASSUME NEW p \in Clients, LockProxy(p)
      PROVE  Unedited'
  BY <1>16 DEF LockProxy, ProxyGoes
<1>17. ASSUME NEW p \in Clients, LockFails(p)
      PROVE  Unedited'
  BY <1>17 DEF LockFails, ProxyGoes
<1>18. ASSUME NEW p \in Clients, SetProxy(p)
      PROVE  Unedited'
  BY <1>18 DEF SetProxy, Publishes, Free, ProxyGoes
<1>19. ASSUME NEW p \in Clients, Cancelled(p)
      PROVE  Unedited'
  BY <1>19 DEF Cancelled, ProxyGoes
<1>20. ASSUME NEW p \in Clients, Idle(p)
      PROVE  Unedited'
  BY <1>20 DEF Idle, ProxyGoes
<1>21. ASSUME NEW p \in Clients, UnlockProxy(p)
      PROVE  Unedited'
  BY <1>21 DEF UnlockProxy, RemoveAll, ProxyGoes
<1>22. ASSUME NEW p \in Clients, Crash(p)
      PROVE  Unedited'
  BY <1>22 DEF Crash, ProxyGoes
<1>23. CASE UNCHANGED vars
  BY <1>23 DEF vars, clientVars, proxyVars, disk, cmdVars
<1>24. QED
  BY <1>1, <1>2, <1>3, <1>4, <1>5, <1>6, <1>7, <1>8, <1>9, <1>10, <1>11, <1>12, <1>13, <1>14, <1>15, <1>16, <1>17, <1>18, <1>19, <1>20, <1>21, <1>22, <1>23, StepCases

\* No other process acts on the directory of an undisturbed client.
LEMMA OnItsWayStep ==
  ASSUME TypeOK, StartsOnce, Unedited, OnItsWay, [Next]_vars
  PROVE  OnItsWay'
<1> USE SignatureType DEF TypeOK, StartsOnce, Unedited, OnItsWay, Disturbed, NameOf, Signature,
        clientVars, proxyVars, disk, cmdVars
<1>1. CASE Edit
  BY <1>1 DEF Edit
<1>2. ASSUME NEW S \in SUBSET Names, Begins(S)
      PROVE  OnItsWay'
  BY <1>2 DEF Begins
<1>3. CASE ListFails
  BY <1>3 DEF ListFails
<1>4. ASSUME NEW n \in Names, GetOne(n)
      PROVE  OnItsWay'
  BY <1>4 DEF GetOne
<1>5. CASE GotAll
  BY <1>5 DEF GotAll
<1>6. CASE WaitEnds
  BY <1>6 DEF WaitEnds
<1>7. CASE Done
  BY <1>7 DEF Done
<1>8. ASSUME NEW n \in Names, NEW p \in Clients, Signal(n, p)
      PROVE  OnItsWay'
  BY <1>8 DEF Signal, Takes
<1>9. ASSUME NEW n \in Names, NEW p \in Clients, ForceKill(n, p)
      PROVE  OnItsWay'
  BY <1>9 DEF ForceKill, RemoveAll, Takes, Alive
<1>10. ASSUME NEW n \in Names, NEW p \in Clients, SignalFails(n, p)
      PROVE  OnItsWay'
  BY <1>10 DEF SignalFails, Takes, Alive
<1>11. ASSUME NEW c \in Clients, Load(c)
      PROVE  OnItsWay'
  <2>1. /\ client[c] = "load" /\ client' = [client EXCEPT ![c] = "get"]
        /\ config' = [config EXCEPT ![c] = <<file, flags[c]>>]
        /\ UNCHANGED <<edits, proxyVars, disk, cmdVars>>
    BY <1>11 DEF Load, ClientGoes
  <2>2. CASE edits = 0
    <3>1. config' = config
      BY <2>1, <2>2
    <3>2. client'[c] # "wait" /\ \A d \in Clients \ {c} : client'[d] = client[d]
      BY <2>1
    <3>3. \A d \in Clients : Disturbed(d)' <=> Disturbed(d)
      BY <2>1, <3>1
    <3>4. QED
      BY <2>1, <3>1, <3>2, <3>3
  <2>3. CASE edits # 0
    BY <2>1, <2>3
  <2>4. QED
    BY <2>2, <2>3
<1>12. ASSUME NEW c \in Clients, Uses(c, "get") \/ Uses(c, "wait")
      PROVE  OnItsWay'
  BY <1>12 DEF Uses, ClientGoes, Ready
<1>13. ASSUME NEW c \in Clients, Start(c)
      PROVE  OnItsWay'
  BY <1>13 DEF Start, ClientGoes
<1>14. ASSUME NEW c \in Clients, StartFails(c)
      PROVE  OnItsWay'
  BY <1>14 DEF StartFails, ClientGoes
<1>15. ASSUME NEW p \in Clients, ProxyLoad(p)
      PROVE  OnItsWay'
  BY <1>15 DEF ProxyLoad, ProxyGoes
<1>16. ASSUME NEW p \in Clients, LockProxy(p)
      PROVE  OnItsWay'
  BY <1>16 DEF LockProxy, ProxyGoes
<1>17. ASSUME NEW p \in Clients, LockFails(p)
      PROVE  OnItsWay'
  <2> SUFFICES ASSUME NEW c \in Clients, ~Disturbed(c)'
               PROVE  /\ proxy'[c] # "lost"
                      /\ UNCHANGED <<dirs, portFile, client, config>>
                      /\ proxy'[c] = proxy[c]
                      /\ pidFile'[Signature(config[c])] = pidFile[Signature(config[c])]
    BY <1>17 DEF LockFails, ProxyGoes
  <2>1. ~Disturbed(c)
    BY <1>17 DEF LockFails, ProxyGoes
  <2>2. c # p
    <3>1. proxy[p] = "lock" /\ held[Signature(config[p])] # Nobody
      BY <1>17, <2>1 DEF LockFails, ProxyGoes
    <3>2. proxy[c] = "lock" => Signature(config[c]) \notin dirs
      BY <2>1
    <3>3. Signature(config[c]) \notin dirs => held[Signature(config[c])] = Nobody
      BY NoDirNoLock
    <3>4. QED
      BY <3>1, <3>2, <3>3
  <2>3. Signature(config[p]) # Signature(config[c])
    BY <2>1, <2>2
  <2>4. NameOf(p) = Signature(config[p])
    BY <2>1
  <2>5. QED
    BY <1>17, <2>1, <2>2, <2>3, <2>4 DEF LockFails, ProxyGoes
<1>18. ASSUME NEW p \in Clients, SetProxy(p)
      PROVE  OnItsWay'
  <2>1. UNCHANGED <<client, config, edits, crashes, signalled, cmd, dirs, pidFile, proxyConfig>>
    BY <1>18 DEF SetProxy, Publishes, ProxyGoes
  <2>2. CASE NameOf(p) \notin dirs
    <3>1. proxy[p] = "boot" /\ proxy' = [proxy EXCEPT ![p] = "unlock"] /\ portFile' = portFile
      BY <1>18, <2>2 DEF SetProxy, ProxyGoes
    <3>2. QED
      BY <2>1, <2>2, <3>1
  <2>3. CASE NameOf(p) \in dirs
    <3>1. PICK k \in Free : Publishes(p, k)
      BY <1>18, <2>3 DEF SetProxy
    <3>2. /\ proxy[p] = "boot" /\ proxy' = [proxy EXCEPT ![p] = "serve"]
          /\ portFile' = [portFile EXCEPT ![NameOf(p)] = k] /\ k # NoPort
      BY <3>1 DEF Publishes, ProxyGoes, Free, Ports, NoPort
    <3>3. QED
      BY <2>1, <3>2
  <2>4. QED
    BY <2>2, <2>3
<1>19. ASSUME NEW p \in Clients, Cancelled(p)
      PROVE  OnItsWay'
  BY <1>19 DEF Cancelled, ProxyGoes
<1>20. ASSUME NEW p \in Clients, Idle(p)
      PROVE  OnItsWay'
  BY <1>20 DEF Idle, ProxyGoes
<1>21. ASSUME NEW p \in Clients, UnlockProxy(p)
      PROVE  OnItsWay'
  BY <1>21 DEF UnlockProxy, RemoveAll, ProxyGoes
<1>22. ASSUME NEW p \in Clients, Crash(p)
      PROVE  OnItsWay'
  BY <1>22 DEF Crash, ProxyGoes
<1>23. CASE UNCHANGED vars
  BY <1>23 DEF vars, clientVars, proxyVars, disk, cmdVars
<1>24. QED
  BY <1>1, <1>2, <1>3, <1>4, <1>5, <1>6, <1>7, <1>8, <1>9, <1>10, <1>11, <1>12, <1>13, <1>14, <1>15, <1>16, <1>17, <1>18, <1>19, <1>20, <1>21, <1>22, <1>23, StepCases

\* An undisturbed client does not wait for ever for anything but the scheduler: its
\* proxy is never stuck, and what it publishes is not taken away.
THEOREM UndisturbedGoesOn ==
  ASSUME PassesEnough
  PROVE  Spec => []WaitIsShort
<1>1. Init => Unedited /\ OnItsWay
  BY DEF Init, Unedited, OnItsWay, NameOf, Signature
<1>2. Inv /\ Unedited /\ OnItsWay /\ [Next]_vars => (Unedited /\ OnItsWay)'
  BY UneditedStep, OnItsWayStep DEF Inv
<1>3. Inv /\ Unedited /\ OnItsWay => WaitIsShort
  <2> SUFFICES ASSUME TypeOK, Unedited, OnItsWay,
                      NEW c \in Clients, client[c] = "wait", ~Disturbed(c)
               PROVE  \/ proxy[c] \in {"load", "boot"}
                      \/ proxy[c] = "lock" /\ held[NameOf(c)] = Nobody
                      \/ Ready(Signature(config[c]))
    BY DEF Inv, WaitIsShort
  <2>1. NameOf(c) = Signature(config[c]) /\ Signature(config[c]) \in Names
    BY SignatureType DEF Unedited, Disturbed
  <2>2. CASE proxy[c] = "lock"
    <3>1. held[Signature(config[c])] = Nobody
      BY <2>1, <2>2, NoDirNoLock DEF OnItsWay
    <3>2. QED
      BY <2>1, <2>2, <3>1
  <2>3. CASE proxy[c] = "serve"
    BY <2>3 DEF OnItsWay, Ready
  <2>4. QED
    BY <2>2, <2>3 DEF OnItsWay
<1>4. QED
  BY <1>1, <1>2, <1>3, Invariance, PTL DEF Spec
=============================================================================
