-------------------------------- MODULE Fleet --------------------------------
(***************************************************************************)
(* Several client configurations side by side.  Clients (get and describe, *)
(* pkg/utils/cmdutil, pkg/proxyclientgetter) make a client configuration   *)
(* of the kubeconfig file and their flags; its signature                   *)
(* (pkg/proxymgr/config_signature.go) names the directory of the proxy     *)
(* that they share.  The proxy that a client starts makes its              *)
(* configuration anew, of the same file and of the flags that are passed   *)
(* on.  One command, shutdown or proxies, walks over the directories.      *)
(*                                                                         *)
(* ProxyManager has LockProxy, UnlockProxy and KillProxy system call by    *)
(* system call for one directory; here each is one step, and each          *)
(* directory implements ProxyClaim, as ProxyManager does.  Everybody uses  *)
(* the default --data-root.                                                *)
(***************************************************************************)
EXTENDS Naturals

CONSTANTS
  Clients,     \* processes of kubectl cache get; each may start one proxy
  Files,       \* contents of the kubeconfig file
  Flags,       \* the flags of a client
  Settings,    \* the flags that the clients may have together
  PassedOn,    \* the flags of its proxy
  Names,       \* signatures
  Digest,      \* four bytes of the hash of a client configuration
  Commands,    \* "proxies", "shutdown", and "wait" and "force" for its flags
  Arguments,   \* the sets of names that may be on its command line
  MaxEdits,    \* bounds: edits of the kubeconfig file,
  MaxCrashes,  \*   proxies that crash
  MaxPorts,    \*   and ports that the OS may give to listeners
  Nobody       \* no process

Configs == Files \X Flags

\* Ports are numbered in the order in which they are given out for the first time.
Ports == 1..MaxPorts
NoPort == 0

ASSUME SettingsAssumption == Settings \subseteq [Clients -> Flags]
ASSUME PassedOnAssumption == PassedOn \in [Flags -> Flags]
ASSUME DigestAssumption == Digest \in [Configs -> Names]
ASSUME ArgumentsAssumption == Arguments \subseteq SUBSET Names
ASSUME NobodyAssumption == Nobody \notin Clients
ASSUME MaxPortsAssumption == MaxPorts \in Nat

VARIABLES
  file,        \* what the kubeconfig file says
  edits,       \* how often it was edited
  client,      \* client[c]: where c is
  flags,       \* flags[c]: its flags
  config,      \* config[c]: what it made of file and flags
  uses,        \* uses[c]: the port it was given
  proxy,       \* proxy[c]: where the proxy that c started is
  proxyConfig, \* proxyConfig[c]: what that proxy made of file and flags
  port,        \* port[c]: the port at which that proxy listens, or has listened
  signalled,   \* the proxies that got a signal
  crashes,     \* how many proxies crashed
  dirs,        \* the directories that are there
  pidFile,     \* pidFile[n]: the process in the pid file of directory n
  portFile,    \* portFile[n]: the port in the port file of directory n
  held,        \* held[n]: who has locked the pid file that is there
  removed,     \* history: the directories that were removed at least once
  mode,        \* which command it is, which matters when it has looked up its names
  cmd,         \* where it is
  todo,        \* the names that it has still to look up
  targets,     \* the proxies, by name and pid, that it has found
  present      \* history: the proxies that were registered when it began

clientVars == <<file, edits, client, flags, config, uses>>
proxyVars == <<proxy, proxyConfig, port, signalled, crashes>>
disk == <<dirs, pidFile, portFile, held, removed>>
cmdVars == <<mode, cmd, todo, targets, present>>
vars == <<clientVars, proxyVars, disk, cmdVars>>

Init ==
  /\ file \in Files
  /\ edits = 0
  /\ client = [c \in Clients |-> "load"]
  /\ flags \in Settings
  /\ config = [c \in Clients |-> <<file, flags[c]>>]
  /\ uses = [c \in Clients |-> NoPort]
  /\ proxy = [c \in Clients |-> "off"]
  /\ proxyConfig = config
  /\ port = [c \in Clients |-> NoPort]
  /\ signalled = {}
  /\ crashes = 0
  /\ dirs = {}
  /\ pidFile = [n \in Names |-> Nobody]
  /\ portFile = [n \in Names |-> NoPort]
  /\ held = [n \in Names |-> Nobody]
  /\ removed = {}
  /\ mode = "none"
  /\ cmd = "off"
  /\ todo = {}
  /\ targets = {}
  /\ present = {}

\* Mutant: the flags do not count.
SignatureOfFile(cfg) == Digest[<<cfg[1], CHOOSE f \in Flags : TRUE>>]

\* GetConfigSignature
Signature(cfg) == Digest[cfg]

\* Somebody edits the kubeconfig file, or switches its context.
Edit ==
  /\ edits < MaxEdits
  /\ \E f \in Files \ {file} : file' = f
  /\ edits' = edits + 1
  /\ UNCHANGED <<client, flags, config, uses, proxyVars, disk, cmdVars>>

-----------------------------------------------------------------------------
(* Clients                                                                  *)

ClientGoes(c, from, to) ==
  /\ client[c] = from
  /\ client' = [client EXCEPT ![c] = to]
  /\ UNCHANGED <<file, edits, flags, cmdVars, disk>>

\* ToRESTConfig: the configuration is made.
Load(c) ==
  /\ ClientGoes(c, "load", "get")
  /\ config' = [config EXCEPT ![c] = <<file, flags[c]>>]
  /\ UNCHANGED <<uses, proxyVars>>

\* Get finds a process, which it takes to be running, and a port.
Ready(n) == pidFile[n] # Nobody /\ portFile[n] # NoPort

\* ToClientConfig: c talks to the port that is in the file, whoever listens there.
Uses(c, from) ==
  LET n == Signature(config[c])
  IN /\ Ready(n)
     /\ ClientGoes(c, from, "served")
     /\ uses' = [uses EXCEPT ![c] = portFile[n]]
     /\ UNCHANGED <<config, proxyVars>>

\* NewForConfig starts a proxy, if Get found none that is ready ...
Start(c) ==
  /\ ~Ready(Signature(config[c]))
  /\ ClientGoes(c, "get", "wait")
  /\ proxy' = [proxy EXCEPT ![c] = "load"]
  /\ UNCHANGED <<config, uses, proxyConfig, port, signalled, crashes>>

\* ... or cannot, and the client goes without.
StartFails(c) ==
  /\ ~Ready(Signature(config[c]))
  /\ ClientGoes(c, "get", "direct")
  /\ UNCHANGED <<config, uses, proxyVars>>

Client(c) == Load(c) \/ Uses(c, "get") \/ Start(c) \/ Uses(c, "wait")

-----------------------------------------------------------------------------
(* Proxies                                                                  *)

ProxyGoes(p, from, to) ==
  /\ proxy[p] = from
  /\ proxy' = [proxy EXCEPT ![p] = to]
  /\ UNCHANGED <<clientVars, cmdVars, signalled>>

NameOf(p) == Signature(proxyConfig[p])

\* Mutant: one of the flags is forgotten.
LoadPlain(p) ==
  /\ ProxyGoes(p, "load", "lock")
  /\ proxyConfig' = [proxyConfig EXCEPT ![p] = <<file, CHOOSE f \in Flags : TRUE>>]
  /\ UNCHANGED <<port, crashes, disk>>

\* GetStartInternalProxyArgs, and RunE of the proxy makes its configuration.
ProxyLoad(p) ==
  /\ ProxyGoes(p, "load", "lock")
  /\ proxyConfig' = [proxyConfig EXCEPT ![p] = <<file, PassedOn[flags[p]]>>]
  /\ UNCHANGED <<port, crashes, disk>>

\* Mutant: a lock that is taken does not stop it.
LockProxyAnyway(p) ==
  /\ ProxyGoes(p, "lock", "boot")
  /\ dirs' = dirs \cup {NameOf(p)}
  /\ pidFile' = [pidFile EXCEPT ![NameOf(p)] = p]
  /\ held' = [held EXCEPT ![NameOf(p)] = p]
  /\ UNCHANGED <<proxyConfig, port, crashes, portFile, removed>>

\* LockProxy: the pid file is emptied, locked, and written.
LockProxy(p) ==
  /\ held[NameOf(p)] = Nobody
  /\ ProxyGoes(p, "lock", "boot")
  /\ dirs' = dirs \cup {NameOf(p)}
  /\ pidFile' = [pidFile EXCEPT ![NameOf(p)] = p]
  /\ held' = [held EXCEPT ![NameOf(p)] = p]
  /\ UNCHANGED <<proxyConfig, port, crashes, portFile, removed>>

\* LockProxy: another process has it; its pid is gone from the file.
LockFails(p) ==
  /\ held[NameOf(p)] # Nobody
  /\ ProxyGoes(p, "lock", "lost")
  /\ pidFile' = [pidFile EXCEPT ![NameOf(p)] = Nobody]
  /\ UNCHANGED <<proxyConfig, port, crashes, dirs, portFile, held, removed>>

\* The listener of p is open.
Listens(p) == proxy[p] = "serve"

\* What the OS may give to a listener: a port that has been given before, and is not
\* in use any more, or the next one.
Free ==
  {k \in Ports : /\ \A q \in Clients : Listens(q) => port[q] # k
                 /\ 1..(k - 1) \subseteq {port[q] : q \in Clients}}

\* p has port k, and writes it to the port file.
Publishes(p, k) ==
  /\ ProxyGoes(p, "boot", "serve")
  /\ port' = [port EXCEPT ![p] = k]
  /\ portFile' = [portFile EXCEPT ![NameOf(p)] = k]
  /\ UNCHANGED <<proxyConfig, crashes, dirs, pidFile, held, removed>>

\* Mutant: the port file is written although its directory is gone.
SetProxyAnyway(p) == \E k \in Free : Publishes(p, k)

\* The server listens, and SetProxy writes its port; there is no file to write if
\* the directory was removed, and the server ends with its process.
SetProxy(p) ==
  \/ NameOf(p) \in dirs /\ \E k \in Free : Publishes(p, k)
  \/ /\ NameOf(p) \notin dirs
     /\ ProxyGoes(p, "boot", "unlock")
     /\ UNCHANGED <<proxyConfig, port, crashes, disk>>

\* A signal, while the server starts or serves.
Cancelled(p) ==
  /\ p \in signalled
  /\ ProxyGoes(p, "boot", "unlock") \/ ProxyGoes(p, "serve", "unlock")
  /\ UNCHANGED <<proxyConfig, port, crashes, disk>>

\* The proxy was idle for long enough.  The time is longer than a client that
\* waits for it sleeps.
Idle(p) ==
  /\ ~ \E c \in Clients : client[c] = "wait" /\ Signature(config[c]) = NameOf(p)
  /\ ProxyGoes(p, "serve", "unlock")
  /\ UNCHANGED <<proxyConfig, port, crashes, disk>>

\* os.RemoveAll of directory n; whoever has locked a file in it has that no more.
RemoveAll(n) ==
  /\ dirs' = dirs \ {n}
  /\ pidFile' = [pidFile EXCEPT ![n] = Nobody]
  /\ portFile' = [portFile EXCEPT ![n] = NoPort]
  /\ held' = [held EXCEPT ![n] = Nobody]
  /\ removed' = removed \cup {n}

\* UnlockProxy, and the process ends.
UnlockProxy(p) ==
  /\ ProxyGoes(p, "unlock", "gone")
  /\ RemoveAll(NameOf(p))
  /\ UNCHANGED <<proxyConfig, port, crashes>>

\* A process that has the lock crashes; its files stay.
Crash(p) ==
  /\ crashes < MaxCrashes
  /\ \E s \in {"boot", "serve"} : ProxyGoes(p, s, "gone")
  /\ crashes' = crashes + 1
  /\ held' = [n \in Names |-> IF held[n] = p THEN Nobody ELSE held[n]]
  /\ UNCHANGED <<proxyConfig, port, dirs, pidFile, portFile, removed>>

Proxy(p) ==
  ProxyLoad(p) \/ LockProxy(p) \/ LockFails(p) \/ SetProxy(p) \/ Cancelled(p) \/ UnlockProxy(p)

-----------------------------------------------------------------------------
(* shutdown and proxies                                                     *)

\* The command has to look up the names in S.
Begins(S) ==
  /\ cmd = "off"
  /\ cmd' = "get"
  /\ todo' = S
  /\ present' = {pidFile[n] : n \in S} \ {Nobody}
  /\ UNCHANGED <<mode, targets, clientVars, proxyVars, disk>>

\* List, for --all and for proxies without names, when the root directory is
\* there: the first proxy created it.
ListAll == dirs \cup removed # {} /\ Begins(dirs)

\* The names are on the command line.
ListNamed == \E S \in Arguments : Begins(S)

ListFails ==
  /\ cmd = "off" /\ dirs \cup removed = {}
  /\ cmd' = "failed"
  /\ UNCHANGED <<mode, todo, targets, present, clientVars, proxyVars, disk>>

\* Get of one name; one that fails is left out.
GetOne(n) ==
  /\ cmd = "get" /\ n \in todo
  /\ todo' = todo \ {n}
  /\ targets' = IF pidFile[n] = Nobody THEN targets ELSE targets \cup {<<n, pidFile[n]>>}
  /\ UNCHANGED <<mode, cmd, present, clientVars, proxyVars, disk>>

\* proxies prints what it has; shutdown goes on to kill it.
GotAll ==
  /\ cmd = "get" /\ todo = {}
  /\ mode' \in Commands
  /\ cmd' = IF mode' = "proxies" THEN "done" ELSE "kill"
  /\ UNCHANGED <<todo, targets, present, clientVars, proxyVars, disk>>

Alive(p) == proxy[p] \in {"boot", "serve", "unlock"}

\* KillProxy takes the next target.
Takes(t) ==
  /\ cmd = "kill" /\ t \in targets
  /\ targets' = targets \ {t}
  /\ UNCHANGED <<mode, present, clientVars, proxyConfig, port, crashes>>

\* KillProxy: TERM, and on to the next one or to the wait for this one.  The
\* client that started p never waits for its end, so that a signal to p succeeds
\* while that client runs even if p is over.
Signal(n, p) ==
  /\ mode \in {"shutdown", "wait"}
  /\ Takes(<<n, p>>)
  /\ signalled' = signalled \cup {p}
  /\ IF mode = "wait" THEN cmd' = "await" /\ todo' = {n} ELSE UNCHANGED <<cmd, todo>>
  /\ UNCHANGED <<proxy, disk>>

\* KillProxy with force: KILL, and the directory goes.
ForceKill(n, p) ==
  /\ mode = "force"
  /\ Takes(<<n, p>>)
  /\ proxy' = IF Alive(p) THEN [proxy EXCEPT ![p] = "gone"] ELSE proxy
  /\ RemoveAll(n)
  /\ UNCHANGED <<cmd, todo, signalled>>

\* Mutant: the first error ends the command.
SignalFailsStops(n, p) ==
  /\ cmd = "kill" /\ <<n, p>> \in targets /\ ~Alive(p)
  /\ targets' = {}
  /\ UNCHANGED <<mode, cmd, todo, present, clientVars, proxyVars, disk>>

\* KillProxy: the process is gone; the command goes on with the next one.
SignalFails(n, p) ==
  /\ ~Alive(p)
  /\ Takes(<<n, p>>)
  /\ UNCHANGED <<cmd, todo, signalled, proxy, disk>>

\* KillProxy: the directory is gone, or its pid file is empty, which it does not
\* survive; otherwise it waits on.
WaitEnds ==
  /\ cmd = "await"
  /\ \/ todo \cap dirs = {} /\ cmd' = "kill" /\ todo' = {}
     \/ /\ \E n \in todo \cap dirs : pidFile[n] = Nobody
        /\ cmd' = "panicked" /\ UNCHANGED todo
  /\ UNCHANGED <<mode, targets, present, clientVars, proxyVars, disk>>

Done ==
  /\ cmd = "kill" /\ targets = {}
  /\ cmd' = "done"
  /\ UNCHANGED <<mode, todo, targets, present, clientVars, proxyVars, disk>>

Command ==
  \/ ListAll \/ ListNamed \/ ListFails
  \/ \E n \in Names : GetOne(n)
  \/ GotAll
  \/ \E t \in targets : \/ Signal(t[1], t[2]) \/ ForceKill(t[1], t[2])
                        \/ SignalFails(t[1], t[2])
  \/ WaitEnds \/ Done

Next ==
  \/ Edit \/ Command
  \/ \E c \in Clients : Client(c) \/ StartFails(c)
  \/ \E p \in Clients : Proxy(p) \/ Idle(p) \/ Crash(p)

Spec == Init /\ [][Next]_vars

\* Every process runs on.  Nobody need edit the file, give a command, crash or be
\* idle.
Fairness == \A c \in Clients : WF_vars(Client(c)) /\ WF_vars(Proxy(c))

FairSpec == Spec /\ Fairness

-----------------------------------------------------------------------------
(* Properties                                                               *)

\* Types; a directory that is not there has no files, and the pid in a pid file
\* is that of a process that had the lock.
TypeOK ==
  /\ file \in Files
  /\ client \in [Clients -> {"load", "get", "wait", "served", "direct"}]
  /\ flags \in [Clients -> Flags]
  /\ config \in [Clients -> Configs] /\ proxyConfig \in [Clients -> Configs]
  /\ uses \in [Clients -> Ports \cup {NoPort}]
  /\ proxy \in [Clients -> {"off", "load", "lock", "lost", "boot", "serve", "unlock", "gone"}]
  /\ port \in [Clients -> Ports \cup {NoPort}]
  /\ signalled \subseteq Clients
  /\ dirs \subseteq Names /\ removed \subseteq Names /\ todo \subseteq Names
  /\ pidFile \in [Names -> Clients \cup {Nobody}]
  /\ portFile \in [Names -> Ports \cup {NoPort}]
  /\ held \in [Names -> Clients \cup {Nobody}]
  /\ targets \subseteq Names \X Clients /\ present \subseteq Clients
  /\ mode \in Commands \cup {"none"}
  /\ cmd \in {"off", "get", "kill", "await", "done", "failed", "panicked"}
  /\ \A n \in Names \ dirs : pidFile[n] = Nobody /\ portFile[n] = NoPort /\ held[n] = Nobody

\* Whoever answers a client at the port it was given has the client's signature,
\* also when flags differ or the kubeconfig file is edited between the reading of
\* client and proxy; unless a proxy of that signature published the port and has
\* stopped listening, so that the port may be anybody's by now: a port file
\* outlives a proxy that crashes, and for a moment every other.
SharesBySignature ==
  \A c, p \in Clients : Listens(p) /\ port[p] = uses[c] =>
    \/ Digest[proxyConfig[p]] = Digest[config[c]]
    \/ \E q \in Clients : /\ Digest[proxyConfig[q]] = Digest[config[c]]
                          /\ port[q] = uses[c] /\ ~Listens(q)

\* A shutdown that comes to its end has reached every proxy that was registered
\* under the names it was to look up, whatever went wrong with others; but for
\* one whose pid a rival for the same name has wiped from the file.
EveryProxyReached ==
  cmd = "done" /\ mode # "proxies" =>
    \A p \in present :
      \/ p \in signalled \/ proxy[p] \in {"unlock", "gone"}
      \/ \E q \in Clients : proxy[q] = "lost" /\ NameOf(q) = NameOf(p)

\* What happens under one name is a claim, as ProxyManager implements it, no
\* matter what happens under the others.
Claim(n) == INSTANCE ProxyClaim WITH
  Proxies <- Clients,
  owners <- {p \in Clients : Alive(p) /\ NameOf(p) = n},
  void <- n \in removed

ClaimsAreSeparate ==
  /\ \A n \in Names : Claim(n)!Init
  /\ [][\A n \in Names : Claim(n)!Next \/ UNCHANGED Claim(n)!vars]_vars

\* Only those who have something to do with the name of c can keep it waiting:
\* another client of that name, a command, a crash, or an edit of the file.
Disturbed(c) ==
  \/ edits > 0 \/ crashes > 0 \/ signalled # {} \/ cmd # "off"
  \/ \E d \in Clients \ {c} : Digest[config[d]] = Digest[config[c]]

ServedUnlessDisturbed ==
  \A c \in Clients : client[c] = "wait" ~> client[c] = "served" \/ Disturbed(c)
=============================================================================
