---------------------------- MODULE ProxyManager ----------------------------
(***************************************************************************)
(* The registry of cache proxies: pkg/proxymgr on top of a file system,    *)
(* the processes that use it and the order of their system calls.          *)
(*                                                                         *)
(* One data directory is modelled, the one of a single client              *)
(* configuration (<data root>/kubectl_cache_proxies/<signature>).  It      *)
(* holds a pid file and a port file.  Three kinds of process share it:     *)
(*                                                                         *)
(*   Proxies  `kubectl-cache internal-proxy`, each with its own pid        *)
(*   Clients  `kubectl-cache get` or `describe`, which want a proxy; one    *)
(*            client stands for a user who runs them one after the other   *)
(*   Killers  `kubectl-cache shutdown NAME`                                *)
(*                                                                         *)
(* They synchronise through nothing but the files and flock(2), so every   *)
(* system call is a step.  A file is known by the process that created it  *)
(* (a proxy creates each file at most once), which makes inode and path    *)
(* two different things: link[f] is the inode a path leads to, fd[f][p]    *)
(* the inode that p has open.                                              *)
(***************************************************************************)
EXTENDS Naturals, FiniteSets

CONSTANTS
  Proxies,          \* the internal-proxy processes that may ever be started
  Clients,          \* users of get and describe
  Killers,          \* invocations of shutdown
  None,             \* no process, no file
  Blank,            \* content that does not parse as a number
  ClientDataRoot,   \* the --data-root of the clients
  DefaultDataRoot,  \* the data root of a process started without --data-root
  MaxFaults         \* bound on crashes, failed calls and signals from elsewhere

Files == {"pid", "port"}

ASSUME SentinelAssumption ==
  /\ None \notin Proxies
  /\ Blank \notin Proxies
  /\ None # Blank
ASSUME RemoverAssumption == Proxies \cap Killers = {}
ASSUME FaultAssumption == MaxFaults \in Nat

VARIABLES
  dir,     \* the data directory exists
  link,    \* link[f]: the inode that the path of file f leads to
  text,    \* text[f][i]: what inode i of file f says, a process or Blank
  fd,      \* fd[f][p]: the inode of file f that p has open (left as it is when p dies)
  lock,    \* lock[i]: the process that has pid file i locked
  pc,      \* pc[p]: where internal-proxy p is
  term,    \* term[p]: the context of p is cancelled
  todo,    \* todo[a]: the names that the RemoveAll of a still has to unlink
  cpc,     \* cpc[c]: where client c is
  seen,    \* seen[c]: the pid in the Proxy object that Get builds for c
  using,   \* using[c]: the proxy whose port ToRESTConfig returned to c
  kpc,     \* kpc[k]: where shutdown k is
  kmode,   \* kmode[k]: the options of shutdown k
  target,  \* target[k]: the pid in the Proxy object that k was given
  faults   \* faults so far, at most MaxFaults

disk  == <<dir, link, text, lock>>
cvars == <<cpc, seen, using>>
kvars == <<kpc, kmode, target>>
vars  == <<disk, fd, pc, term, todo, cvars, kvars, faults>>

\* The stages of an internal-proxy, in the order of its code.
Starting  == {"mkdir", "open", "flock"}
Owning    == {"write", "boot", "openPort", "writePort", "serve", "unlock"}
Removing  == {"list", "unlink"}
Ended     == {"exited", "failed", "dead", "cut"}
ProxyPC   == {"new"} \cup Starting \cup Owning \cup Removing \cup Ended

ClientPC  == {"start", "startPort", "spawn", "poll", "pollPort", "done",
              "passthrough"}
KillerPC  == {"idle", "signal", "wait", "list", "unlink", "done", "failed",
              "panic"}
KillerModes == {"nowait", "wait", "force"}

Alive(p) == pc[p] \notin Ended \cup {"new"}

\* What reading file f by its path yields: None when there is no such file.
Content(f) == IF link[f] = None THEN None ELSE text[f][link[f]]

\* A client reads below its own data root; the proxies it starts are given no
\* --data-root, so what they write lies below the default one.
ClientContent(f) ==
  IF ClientDataRoot = DefaultDataRoot THEN Content(f) ELSE None

Init ==
  /\ dir = FALSE
  /\ link = [f \in Files |-> None]
  /\ text = [f \in Files |-> [i \in Proxies |-> Blank]]
  /\ fd = [f \in Files |-> [p \in Proxies |-> None]]
  /\ lock = [i \in Proxies |-> None]
  /\ pc = [p \in Proxies |-> "new"]
  /\ term = [p \in Proxies |-> FALSE]
  /\ todo = [a \in Proxies \cup Killers |-> {}]
  /\ cpc = [c \in Clients |-> "start"]
  /\ seen = [c \in Clients |-> None]
  /\ using = [c \in Clients |-> None]
  /\ kpc = [k \in Killers |-> "idle"]
  /\ kmode \in [Killers -> KillerModes]
  /\ target = [k \in Killers |-> None]
  /\ faults = 0

-----------------------------------------------------------------------------
(* os.OpenFile(O_RDWR|O_CREATE|O_TRUNC) and os.RemoveAll                    *)

\* Mutant: a file that is there already is removed and created anew.
OpenTruncAnew(f, p) ==
  /\ link' = [link EXCEPT ![f] = p]
  /\ text' = [text EXCEPT ![f][p] = Blank]
  /\ fd' = [fd EXCEPT ![f][p] = p]

\* p opens file f: it creates the file or empties the one that is there.
OpenTrunc(f, p) ==
  LET i == IF link[f] = None THEN p ELSE link[f]
  IN /\ link' = [link EXCEPT ![f] = i]
     /\ text' = [text EXCEPT ![f][i] = Blank]
     /\ fd' = [fd EXCEPT ![f][p] = i]

\* Mutant: only the port file is removed.
ListPortOnly(a) ==
  /\ todo' = [todo EXCEPT ![a] = {f \in {"port"} : link[f] # None}]
  /\ UNCHANGED <<disk, fd>>

\* RemoveAll reads the directory once, unlinks the names it read one by one,
\* and then removes the directory, which fails when it is not empty.
ListDir(a) ==
  /\ todo' = [todo EXCEPT ![a] = {f \in Files : link[f] # None}]
  /\ UNCHANGED <<disk, fd>>

UnlinkOne(a) ==
  /\ \E f \in todo[a] :
       /\ todo' = [todo EXCEPT ![a] = @ \ {f}]
       /\ link' = [link EXCEPT ![f] = None]
  /\ UNCHANGED <<dir, text, lock, fd>>

\* Mutant: RemoveAll does not return before the directory could be removed.
RemoveDirWaits(a) ==
  /\ todo[a] = {}
  /\ \A f \in Files : link[f] = None
  /\ dir' = FALSE
  /\ todo' = [b \in DOMAIN todo |-> {}]
  /\ UNCHANGED <<link, text, lock, fd>>

\* Names that another RemoveAll read in the directory lead nowhere once the
\* directory is gone: it unlinks them relative to the directory it opened.
RemoveDir(a) ==
  /\ todo[a] = {}
  /\ dir' = (\E f \in Files : link[f] # None)
  /\ todo' = IF dir' THEN todo ELSE [b \in DOMAIN todo |-> {}]
  /\ UNCHANGED <<link, text, lock, fd>>

\* The kernel drops the locks of a process that ends.  "cut" is the end of a
\* proxy that was removing its files, "dead" of one that had not begun to.
Dies(p) ==
  /\ pc' = [pc EXCEPT ![p] = IF @ \in Removing THEN "cut" ELSE "dead"]
  /\ lock' = [i \in Proxies |-> IF lock[i] = p THEN None ELSE lock[i]]

-----------------------------------------------------------------------------
(* internal-proxy: LockProxy, the server's start, SetProxy, UnlockProxy     *)

Goes(p, from, to) ==
  /\ pc[p] = from
  /\ pc' = [pc EXCEPT ![p] = to]
  /\ UNCHANGED <<term, cvars, kvars, faults>>

\* LockProxy: os.MkdirAll.
MakeDir(p) ==
  /\ Goes(p, "mkdir", "open")
  /\ dir' = TRUE
  /\ UNCHANGED <<link, text, lock, fd, todo>>

\* Mutant: the pid is written before the file is locked.
OpenPidFileWrites(p) ==
  LET i == IF link["pid"] = None THEN p ELSE link["pid"]
  IN /\ dir
     /\ Goes(p, "open", "flock")
     /\ link' = [link EXCEPT !["pid"] = i]
     /\ text' = [text EXCEPT !["pid"][i] = p]
     /\ fd' = [fd EXCEPT !["pid"][p] = i]
     /\ UNCHANGED <<dir, lock, todo>>

\* LockProxy: open the pid file; that empties it, whoever has it locked.
OpenPidFile(p) ==
  /\ dir
  /\ Goes(p, "open", "flock")
  /\ OpenTrunc("pid", p)
  /\ UNCHANGED <<dir, lock, todo>>

\* LockProxy fails: the directory was removed since MkdirAll.
OpenPidFileFails(p) ==
  /\ ~dir
  /\ Goes(p, "open", "failed")
  /\ UNCHANGED <<disk, fd, todo>>

\* Mutant: the result of flock is not looked at.
LockPidFileUnchecked(p) ==
  /\ Goes(p, "flock", "write")
  /\ lock' = IF lock[fd["pid"][p]] = None THEN [lock EXCEPT ![fd["pid"][p]] = p] ELSE lock
  /\ UNCHANGED <<dir, link, text, fd, todo>>

\* LockProxy: flock(LOCK_EX|LOCK_NB) on the inode that p opened.
LockPidFile(p) ==
  /\ Goes(p, "flock", "write")
  /\ lock[fd["pid"][p]] = None
  /\ lock' = [lock EXCEPT ![fd["pid"][p]] = p]
  /\ UNCHANGED <<dir, link, text, fd, todo>>

\* LockProxy fails: another process has that inode locked.
LockPidFileFails(p) ==
  /\ Goes(p, "flock", "failed")
  /\ lock[fd["pid"][p]] # None
  /\ UNCHANGED <<disk, fd, todo>>

\* Mutant: the pid file is closed as soon as it is written.
WritePidCloses(p) ==
  LET i == fd["pid"][p]
  IN /\ Goes(p, "write", "boot")
     /\ text' = [text EXCEPT !["pid"][i] = p]
     /\ lock' = [lock EXCEPT ![i] = None]
     /\ fd' = [fd EXCEPT !["pid"][p] = None]
     /\ UNCHANGED <<dir, link, todo>>

\* LockProxy: WriteString at offset 0.  When an earlier owner wrote its pid
\* after p had emptied the file, the tail of a longer pid may remain.
WritePid(p) ==
  LET i == fd["pid"][p]
  IN /\ Goes(p, "write", "boot")
     /\ \E t \in IF text["pid"][i] = Blank THEN {p} ELSE {p, Blank} :
          text' = [text EXCEPT !["pid"][i] = t]
     /\ UNCHANGED <<dir, link, lock, fd, todo>>

\* Mutant: the port is published before the server accepts connections.
BootPublishes(p) ==
  /\ Goes(p, "boot", "openPort")
  /\ link' = [link EXCEPT !["port"] = p]
  /\ text' = [text EXCEPT !["port"][p] = p]
  /\ UNCHANGED <<dir, lock, fd, todo>>

\* NewServer, Serve up to the closing of readyCh: p accepts connections.
Boot(p) ==
  /\ Goes(p, "boot", "openPort")
  /\ UNCHANGED <<disk, fd, todo>>

\* Mutant: UnlockProxy is not deferred yet when the context ends.
BootCancelledEarly(p) ==
  /\ term[p]
  /\ Goes(p, "boot", "failed")
  /\ UNCHANGED <<disk, fd, todo>>

\* ctx.Done() wins the select that waits for s.Ready().
BootCancelled(p) ==
  /\ term[p]
  /\ Goes(p, "boot", "unlock")
  /\ UNCHANGED <<disk, fd, todo>>

\* SetProxy: open the port file.
OpenPortFile(p) ==
  /\ dir
  /\ Goes(p, "openPort", "writePort")
  /\ OpenTrunc("port", p)
  /\ UNCHANGED <<dir, lock, todo>>

\* SetProxy fails: the directory is gone.  The deferred UnlockProxy runs.
OpenPortFileFails(p) ==
  /\ ~dir
  /\ Goes(p, "openPort", "unlock")
  /\ UNCHANGED <<disk, fd, todo>>

\* Mutant: the port is still 0 when SetProxy is called.
WritePortZero(p) ==
  /\ Goes(p, "writePort", "serve")
  /\ fd' = [fd EXCEPT !["port"][p] = None]
  /\ UNCHANGED <<disk, todo>>

\* SetProxy: write the port into the inode that was opened, and close it.
WritePort(p) ==
  /\ Goes(p, "writePort", "serve")
  /\ text' = [text EXCEPT !["port"][fd["port"][p]] = p]
  /\ fd' = [fd EXCEPT !["port"][p] = None]
  /\ UNCHANGED <<dir, link, lock, todo>>

\* A signal cancelled the context and Serve returned.
ServeCancelled(p) ==
  /\ term[p]
  /\ Goes(p, "serve", "unlock")
  /\ UNCHANGED <<disk, fd, todo>>

\* Some client is within its 500 ms poll of what p has published.  The idle
\* time is 10 minutes (internal-proxy is started without --max-idle-time), so
\* p does not run idle before that poll is over.
AwaitedByClient(p) ==
  \E c \in Clients : /\ cpc[c] \in {"poll", "pollPort"}
                     /\ ClientContent("pid") \in Proxies
                     /\ ClientContent("port") = p

\* The idle timer fired and Serve returned.
IdleExit(p) ==
  /\ ~AwaitedByClient(p)
  /\ Goes(p, "serve", "unlock")
  /\ UNCHANGED <<disk, fd, todo>>

\* Mutant: the pid is taken out of the file before the file is removed.
UnlockEmpties(p) ==
  LET i == fd["pid"][p]
  IN /\ Goes(p, "unlock", "list")
     /\ text' = [text EXCEPT !["pid"][i] = Blank]
     /\ lock' = [lock EXCEPT ![i] = None]
     /\ fd' = [fd EXCEPT !["pid"][p] = None]
     /\ UNCHANGED <<dir, link, todo>>

\* UnlockProxy: flock(LOCK_UN) and Close.
UnlockPidFile(p) ==
  /\ Goes(p, "unlock", "list")
  /\ lock' = [lock EXCEPT ![fd["pid"][p]] = None]
  /\ fd' = [fd EXCEPT !["pid"][p] = None]
  /\ UNCHANGED <<dir, link, text, todo>>

\* UnlockProxy: RemoveAll of the data directory, then the process exits.
RemoveAllLists(p) == Goes(p, "list", "unlink") /\ ListDir(p)
RemoveAllUnlinks(p) == Goes(p, "unlink", "unlink") /\ UnlinkOne(p)
RemoveAllEnds(p) == Goes(p, "unlink", "exited") /\ RemoveDir(p)

ProxyStep(p) ==
  \/ MakeDir(p)
  \/ OpenPidFile(p) \/ OpenPidFileFails(p)
  \/ LockPidFile(p) \/ LockPidFileFails(p)
  \/ WritePid(p)
  \/ Boot(p) \/ BootCancelled(p)
  \/ OpenPortFile(p) \/ OpenPortFileFails(p)
  \/ WritePort(p)
  \/ ServeCancelled(p)
  \/ UnlockPidFile(p)
  \/ RemoveAllLists(p) \/ RemoveAllUnlinks(p) \/ RemoveAllEnds(p)

-----------------------------------------------------------------------------
(* Faults                                                                   *)

Fault ==
  /\ faults < MaxFaults
  /\ faults' = faults + 1
  /\ UNCHANGED <<cvars, kvars>>

\* The process ends without its deferred UnlockProxy: SIGKILL, SIGHUP, a
\* panic elsewhere, loss of power.  The files stay.
Crash(p) ==
  /\ Alive(p)
  /\ Fault
  /\ Dies(p)
  /\ UNCHANGED <<dir, link, text, fd, term, todo>>

\* ToRESTConfig or ToRESTMapper of the internal-proxy fails: it returns early.
ConfigFails(p) ==
  /\ pc[p] = "mkdir"
  /\ Fault
  /\ pc' = [pc EXCEPT ![p] = "failed"]
  /\ UNCHANGED <<disk, fd, term, todo>>

\* LockProxy cannot write the pid: it returns before UnlockProxy is deferred.
WritePidFails(p) ==
  /\ pc[p] = "write"
  /\ Fault
  /\ pc' = [pc EXCEPT ![p] = "failed"]
  /\ lock' = [lock EXCEPT ![fd["pid"][p]] = None]
  /\ UNCHANGED <<dir, link, text, fd, term, todo>>

\* NewServer or the listener fails, or SetProxy cannot open or write the port
\* file, which it closes: the deferred UnlockProxy runs.
BootFails(p) ==
  /\ pc[p] \in {"boot", "openPort", "writePort"}
  /\ Fault
  /\ pc' = [pc EXCEPT ![p] = "unlock"]
  /\ fd' = [fd EXCEPT !["port"][p] = None]
  /\ UNCHANGED <<disk, term, todo>>

\* A signal from elsewhere: a Ctrl-C in a terminal reaches the client and the
\* proxy that it has just started, which is in its process group.
Interrupt(p) ==
  /\ Alive(p) /\ ~term[p]
  /\ Fault
  /\ term' = [term EXCEPT ![p] = TRUE]
  /\ UNCHANGED <<disk, fd, pc, todo>>

ProxyFault(p) ==
  Crash(p) \/ ConfigFails(p) \/ WritePidFails(p) \/ BootFails(p) \/ Interrupt(p)

-----------------------------------------------------------------------------
(* get, describe: ProxyClientGetter.ToRESTConfig, Get, NewForConfig         *)

ClientGoes(c, from, to) ==
  /\ cpc[c] = from
  /\ cpc' = [cpc EXCEPT ![c] = to]
  /\ UNCHANGED <<disk, fd, term, todo, kvars, faults>>

\* Get reads the pid file.  os.FindProcess never fails on Unix, so a parsed
\* pid is taken as that of a running process.
GetPid(c, from, to) ==
  /\ ClientContent("pid") \in Proxies
  /\ ClientGoes(c, from, to)
  /\ seen' = [seen EXCEPT ![c] = ClientContent("pid")]
  /\ UNCHANGED <<using, pc>>

\* Get reads the port file; the result is Ready and its port is returned.
GetReady(c, from) ==
  /\ ClientContent("port") \in Proxies
  /\ ClientGoes(c, from, "done")
  /\ using' = [using EXCEPT ![c] = ClientContent("port")]
  /\ UNCHANGED <<seen, pc>>

\* Get reads the port file; the result is Pending.
GetPending(c, from, to) ==
  /\ ClientContent("port") \notin Proxies
  /\ ClientGoes(c, from, to)
  /\ seen' = [seen EXCEPT ![c] = None]
  /\ UNCHANGED <<using, pc>>

\* ToRESTConfig: GetForConfig, and NewForConfig when it does not yield a
\* Ready proxy.
FirstGetPid(c)     == GetPid(c, "start", "startPort")
FirstGetFails(c)   == /\ ClientContent("pid") \notin Proxies
                      /\ ClientGoes(c, "start", "spawn")
                      /\ UNCHANGED <<seen, using, pc>>
FirstGetReady(c)   == GetReady(c, "startPort")
FirstGetPending(c) == GetPending(c, "startPort", "spawn")

\* NewForConfig: exec.Command(...).Start().
StartProxy(c) ==
  \E p \in Proxies :
    /\ pc[p] = "new"
    /\ ClientGoes(c, "spawn", "poll")
    /\ pc' = [pc EXCEPT ![p] = "mkdir"]
    /\ UNCHANGED <<seen, using>>

\* NewForConfig: the loop around GetForConfig.  A Get that fails changes
\* nothing, the loop goes on.
PollPid(c)     == GetPid(c, "poll", "pollPort")
PollReady(c)   == GetReady(c, "pollPort")
PollPending(c) == GetPending(c, "pollPort", "poll")

\* Start failed, or ctx is done while NewForConfig waits: ToRESTConfig
\* returns the original configuration.
UsePassthrough(c) ==
  /\ \E from \in {"spawn", "poll"} : ClientGoes(c, from, "passthrough")
  /\ UNCHANGED <<seen, using, pc>>

\* ToRESTConfig is called again: kubectl does so within one invocation, or
\* the user runs the next one.
StartOver(c) ==
  /\ \E from \in {"done", "passthrough"} : ClientGoes(c, from, "start")
  /\ seen' = [seen EXCEPT ![c] = None]
  /\ using' = [using EXCEPT ![c] = None]
  /\ UNCHANGED pc

ClientStep(c) ==
  \/ FirstGetPid(c) \/ FirstGetFails(c) \/ FirstGetReady(c) \/ FirstGetPending(c)
  \/ StartProxy(c)
  \/ PollPid(c) \/ PollReady(c) \/ PollPending(c)

-----------------------------------------------------------------------------
(* shutdown: Get, KillProxy                                                 *)

KillerGoes(k, from, to) ==
  /\ kpc[k] = from
  /\ kpc' = [kpc EXCEPT ![k] = to]
  /\ UNCHANGED <<kmode, cvars, faults>>

\* What KillProxy does after the signal.
AfterSignal(k) ==
  [nowait |-> "done", wait |-> "wait", force |-> "list"][kmode[k]]

\* The result of Get is used whatever its state is, so the port file does not
\* matter here.
ShutdownGets(k) ==
  /\ Content("pid") \in Proxies
  /\ KillerGoes(k, "idle", "signal")
  /\ target' = [target EXCEPT ![k] = Content("pid")]
  /\ UNCHANGED <<disk, fd, pc, term, todo>>

ShutdownGetFails(k) ==
  /\ Content("pid") \notin Proxies
  /\ KillerGoes(k, "idle", "failed")
  /\ UNCHANGED <<disk, fd, pc, term, todo, target>>

\* KillProxy fails: the signalled process has already finished.
SignalFails(k) ==
  /\ KillerGoes(k, "signal", "failed")
  /\ pc[target[k]] \in Ended
  /\ UNCHANGED <<disk, fd, pc, term, todo, target>>

\* A proxy that has ended is not reaped while the client that started it runs
\* (NewForConfig never waits for it), and signalling a zombie succeeds.
SignalZombie(k) ==
  /\ KillerGoes(k, "signal", AfterSignal(k))
  /\ pc[target[k]] \in Ended
  /\ UNCHANGED <<disk, fd, pc, term, todo, target>>

\* KillProxy without force: SIGTERM.  The first one cancels the context of
\* the process.
SignalTerm(k) ==
  /\ KillerGoes(k, "signal", AfterSignal(k))
  /\ kmode[k] # "force"
  /\ Alive(target[k])
  /\ ~term[target[k]]
  /\ term' = [term EXCEPT ![target[k]] = TRUE]
  /\ UNCHANGED <<disk, fd, pc, todo, target>>

\* A second SIGTERM makes the process exit at once, without the deferred
\* UnlockProxy, or is lost: the signal channel has no buffer.
SignalTermAgain(k) ==
  /\ KillerGoes(k, "signal", AfterSignal(k))
  /\ kmode[k] # "force"
  /\ Alive(target[k])
  /\ term[target[k]]
  /\ Dies(target[k]) \/ UNCHANGED <<pc, lock>>
  /\ UNCHANGED <<dir, link, text, fd, term, todo, target>>

\* KillProxy with force: SIGKILL, then RemoveAll of the data directory.
SignalKill(k) ==
  /\ KillerGoes(k, "signal", AfterSignal(k))
  /\ kmode[k] = "force"
  /\ Alive(target[k])
  /\ Dies(target[k])
  /\ UNCHANGED <<dir, link, text, fd, term, todo, target>>

ForceLists(k) ==
  KillerGoes(k, "list", "unlink") /\ ListDir(k) /\ UNCHANGED <<pc, term, target>>
ForceUnlinks(k) ==
  KillerGoes(k, "unlink", "unlink") /\ UnlinkOne(k) /\ UNCHANGED <<pc, term, target>>
ForceEnds(k) ==
  KillerGoes(k, "unlink", "done") /\ RemoveDir(k) /\ UNCHANGED <<pc, term, target>>

\* KillProxy waits: the pid file is gone.  (While Get succeeds, it waits on.)
WaitEnds(k) ==
  /\ Content("pid") = None
  /\ KillerGoes(k, "wait", "done")
  /\ UNCHANGED <<disk, fd, pc, term, todo, target>>

\* KillProxy waits: Get fails for another reason than a missing file, and
\* the error message is built from the nil Proxy that Get returned.
WaitPanics(k) ==
  /\ Content("pid") = Blank
  /\ KillerGoes(k, "wait", "panic")
  /\ UNCHANGED <<disk, fd, pc, term, todo, target>>

\* KillProxy waits: ctx is done.
WaitInterrupted(k) ==
  /\ KillerGoes(k, "wait", "failed")
  /\ UNCHANGED <<disk, fd, pc, term, todo, target>>

KillerStep(k) ==
  \/ ShutdownGets(k) \/ ShutdownGetFails(k)
  \/ SignalFails(k) \/ SignalZombie(k)
  \/ SignalTerm(k) \/ SignalTermAgain(k) \/ SignalKill(k)
  \/ ForceLists(k) \/ ForceUnlinks(k) \/ ForceEnds(k)
  \/ WaitEnds(k) \/ WaitPanics(k)

-----------------------------------------------------------------------------
Next ==
  \/ \E p \in Proxies : ProxyStep(p) \/ IdleExit(p)
  \/ \E p \in Proxies : ProxyFault(p)
  \/ \E c \in Clients : ClientStep(c) \/ UsePassthrough(c) \/ StartOver(c)
  \/ \E k \in Killers : KillerStep(k) \/ WaitInterrupted(k)

Spec == Init /\ [][Next]_vars

\* The scheduler runs every process that has a step to take.  Nothing forces
\* an idle exit, a fault or an interrupt.  A shutdown that was issued runs on.
Fairness ==
  /\ \A p \in Proxies : WF_vars(ProxyStep(p))
  /\ \A c \in Clients : WF_vars(ClientStep(c))
  /\ \A k \in Killers : WF_vars(kpc[k] # "idle" /\ KillerStep(k))

FairSpec == Spec /\ Fairness

-----------------------------------------------------------------------------
(* Properties                                                               *)

\* Every variable has its type: an open file is a file some process created, a
\* pending removal is a set of file names, a proxy that is past its open has
\* its pid file open and one that is past SetProxy's open its port file.
TypeOK ==
  /\ dir \in BOOLEAN
  /\ link \in [Files -> Proxies \cup {None}]
  /\ text \in [Files -> [Proxies -> Proxies \cup {Blank}]]
  /\ fd \in [Files -> [Proxies -> Proxies \cup {None}]]
  /\ lock \in [Proxies -> Proxies \cup {None}]
  /\ pc \in [Proxies -> ProxyPC]
  /\ term \in [Proxies -> BOOLEAN]
  /\ todo \in [Proxies \cup Killers -> SUBSET Files]
  /\ cpc \in [Clients -> ClientPC]
  /\ seen \in [Clients -> Proxies \cup {None}]
  /\ using \in [Clients -> Proxies \cup {None}]
  /\ kpc \in [Killers -> KillerPC]
  /\ kmode \in [Killers -> KillerModes]
  /\ target \in [Killers -> Proxies \cup {None}]
  /\ faults \in 0..MaxFaults
  /\ \A p \in Proxies :
       /\ pc[p] \in {"flock"} \cup Owning => fd["pid"][p] # None
       /\ pc[p] = "writePort" => fd["port"][p] # None
  /\ \A k \in Killers : kpc[k] \in {"signal", "wait"} => target[k] # None

\* Whoever is between LockProxy and UnlockProxy holds the lock of the pid file
\* it opened, so no pid file has two owners: flock is never given twice, and
\* neither the end of a process nor an UnlockProxy drops the lock of another.
OwnersHoldTheirLock ==
  \A p \in Proxies : pc[p] \in Owning => lock[fd["pid"][p]] = p

\* Somebody has begun to remove the data directory: UnlockProxy, or KillProxy
\* with force.
RemovalBegan ==
  \/ \E p \in Proxies : pc[p] \in Removing \cup {"exited", "cut"}
  \/ \E k \in Killers : \/ kpc[k] \in Removing
                        \/ kmode[k] = "force" /\ kpc[k] = "done"

\* LockProxy keeps other processes from starting a proxy for the same client
\* configuration: at most one process is between LockProxy and UnlockProxy.
Exclusive ==
  \A p, q \in Proxies : pc[p] \in Owning /\ pc[q] \in Owning => p = q

\* What LockProxy does promise: there is one owner at a time, across crashes,
\* kills and any number of concurrent starts, until the first RemoveAll begins.
ExclusiveUntilRemoval == ~RemovalBegan => Exclusive

\* The process that the pid file names has that file locked, or it is on its
\* way out: a loser of LockProxy never leaves its own pid there, and a new
\* owner never finds the pid of another live owner in the file it locked.
PidNamesOwner ==
  \A p \in Proxies : Content("pid") = p =>
    \/ lock[link["pid"]] = p
    \/ pc[p] \in Removing \cup {"exited", "dead", "cut"}

\* A port is handed to a client only after its proxy held the lock and accepted
\* connections: SetProxy comes after LockProxy and the server's readiness.
HandedOutServes ==
  \A c \in Clients : using[c] # None =>
    pc[using[c]] \in {"serve", "unlock"} \cup Removing \cup {"exited", "dead", "cut"}

\* The pid and the port in a Proxy are those of one process, although they are
\* read one after the other and from two files: it takes a crash, whose port
\* file the next owner does not remove, or a removal to mix them up.
OnePidOnePort ==
  \A c \in Clients : using[c] # None =>
    seen[c] = using[c] \/ RemovalBegan \/ \E p \in Proxies : pc[p] = "dead"

\* A proxy that has run through UnlockProxy is named by no file any more, although
\* others put files into the directory while it is emptied: what a client finds of
\* a proxy that is over was left by a crash, or the proxy is still removing it.
ExitedIsForgotten ==
  \A p \in Proxies : pc[p] = "exited" => \A f \in Files : Content(f) # p

\* KillProxy with wait panics only where another proxy was started for the same
\* client configuration: the proxy that it waits for does not empty its pid file.
PanicNeedsRival ==
  \A k \in Killers : kpc[k] = "panic" =>
    \E q \in Proxies \ {target[k]} : pc[q] \notin {"new", "mkdir", "open"}

\* When every process has come to its end and none was killed, nothing is left
\* of the data directory, however the starts and the removals interleaved.
NothingLeftBehind ==
  (/\ \A p \in Proxies : pc[p] \in {"new", "exited", "failed"}
   /\ \A k \in Killers : kpc[k] \notin Removing)
  => ~dir

\* What LockProxy amounts to for its callers: an exclusive claim, void from the
\* first removal on.  ProxyClaim says what that is.
Claim == INSTANCE ProxyClaim WITH
  owners <- {p \in Proxies : pc[p] \in Owning},
  void   <- RemovalBegan
ImplementsClaim == Claim!Spec

\* The registry of the clients was disturbed: files were removed, or a proxy
\* failed to start, was killed or was told to stop.
Disturbed ==
  \/ RemovalBegan
  \/ \E p \in Proxies : term[p] \/ pc[p] \in {"failed", "dead"}

\* NewForConfig returns: a client that waits for a proxy gets the port of one,
\* unless it is interrupted or something disturbs the registry.
ClientServed ==
  \A c \in Clients : cpc[c] = "poll" ~> (cpc[c] \in {"done", "passthrough"} \/ Disturbed)

\* A proxy whose context is cancelled comes to its end wherever it was, its
\* start included: its RemoveAll does not wait for a directory that others keep
\* putting files into.
CancelledProxyEnds ==
  \A p \in Proxies : term[p] ~> pc[p] \in Ended

\* KillProxy with wait returns once the process it signalled has cleaned up,
\* unless that process was killed or a successor's pid is in the file.
WaitReturns ==
  \A k \in Killers :
    kpc[k] = "wait" ~>
      \/ kpc[k] # "wait"
      \/ pc[target[k]] \in {"dead", "cut"}
      \/ Content("pid") \in Proxies \ {target[k]}

-----------------------------------------------------------------------------
(* What the comments and the README say, and the code does not do           *)

\* The README: get queries through a proxy, starting one when there is none.
\* NewForConfig returns.
EveryClientServed ==
  \A c \in Clients : cpc[c] = "poll" ~> cpc[c] \in {"done", "passthrough"}

\* The same while nobody removes files: a client is served although others
\* start proxies at the same time.
ServedDespiteRivals == []~RemovalBegan => EveryClientServed
=============================================================================
