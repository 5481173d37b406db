# kubectl-cache in TLA+

`kubectl-cache get` answers from a local cache: it looks for a background
process, `kubectl-cache internal-proxy`, starts one when there is none, and
sends its requests to it. The background process holds informers and exits when
it has been idle for ten minutes or `kubectl-cache shutdown` stops it.
`kubectl-cache proxy` runs the same server in the foreground. The parts of this
that are hard to test are the ones between processes (files, locks, signals),
between goroutines (informers, the idle timer, the start of the server), and
between two descriptions of one thing (which requests are cached, which fields
are indexed). They are what is modelled here.

All models are checked with TLC. Their safety properties are also proved with
TLAPS, for any number of processes, requests, objects and faults, and so is what
of their liveness can be said of single states and steps.

## The system

| component | state it keeps | operations | what is hard about it |
|---|---|---|---|
| proxy manager, `pkg/proxymgr` | per client configuration a directory with `proxy.pid` (also the lock) and `proxy_port` | `LockProxy`, `SetProxy`, `UnlockProxy`, `Get`, `NewForConfig`, `KillProxy`, `List` | processes that know nothing of each other share the files; they crash, are killed, and remove what others create |
| config signature, `pkg/proxymgr/config_signature.go` | none | `GetConfigSignature` | names the directory; client and proxy compute it separately, from files that change; 32 bits |
| proxy client getter, `pkg/proxyclientgetter` | none | `ToRESTConfig` | find or start a proxy, or do without |
| `get`, `describe`, `pkg/utils/cmdutil` | none | `GetStartInternalProxyArgs` | which options the proxy is given |
| `internal-proxy`, `pkg/commands/internal_proxy.go` | the claimed proxy object, the server | lock, start, publish, serve, unlock | signals and errors at every stage; two goroutines share `serveErr` |
| `proxy`, `pkg/commands/proxy.go` | the server | filter, serve on a port or a UNIX socket | the path of the socket is shared with others |
| `shutdown`, `proxies` | none | `List` or `Get`, `KillProxy` for each | several proxies, each of which may fail; waits for files that others create and remove |
| signals, `pkg/utils/ctxutil` | a context | first signal cancels, second exits | the second one skips all deferred calls |
| proxy server, `pkg/proxy/proxy_server.go` | listener, ready channel, idle timer | `Serve`, `Notify`, `Ready`, `Addr`, `listenUNIX` | idle timer against requests; end by signal against end by idleness |
| proxy handler, `pkg/proxy/handler.go` | none | `ServeHTTP` | cache or API server |
| cache handler, `pkg/proxy/cache_handler.go` | `startedInformers` under an RWMutex, the informers | `IsCached`, `Handle`, `ensureInformer`, `HandleGet`, `HandleList` | concurrent first requests, cancelled requests, a cache that is not running or not synced; verbs and selectors it takes over from the API server |
| field indexes, `pkg/proxy/field_index.go` | the indexers of an informer | `IndexFieldsForObject` | may be registered once only; must agree with the API server's |
| table convertors, `pkg/proxy/table_convertor.go` | a cache of convertors per kind, under an RWMutex | `TableConvertorForObject`, `ConvertToTable` | lookups outside the lock, in a store that nobody waits for |
| scheme, version, logging, options | none | wiring | |

How they interact: clients, proxies and commands only through the file system
and signals; a client and its proxy also through HTTP, once the client has read
the port. Inside a proxy `RunE` and `Serve` share two variables and two
channels; `ServeHTTP` calls `Notify` for every request, then the cache handler
or the API server; the cache handler shares the informers between all requests
and hands its result to the table convertors.

What makes each of them correct:

- *proxy manager*: one process at a time owns a client configuration; the pid in
  the file is the owner's; a port is only published by a proxy that serves;
  nothing is left behind by processes that end in an orderly way; a client gets
  a port, a shutdown returns.
- *signature and getter*: a client only talks to a proxy for its own
  configuration, as long as that proxy is there; what happens to one configuration does not touch another one.
- *shutdown*: every proxy that it was to stop is reached, whatever fails.
- *server*: a port is only published when there is a listener; the process ends
  when it is told to and when it is idle, whatever its requests do; a signal is
  not an error; a socket is there while it is served, and a file that was at its
  path stays.
- *cache handler*: a request is answered from an informer that has synced and has
  its indexes; each informer is started once; no request stays without answer
  because of another one; what is taken from the API server is answered as it
  would have answered.
- *table convertors*: once a kind is shown as a table it stays one.

## Modules

| module | models | proofs |
|---|---|---|
| `ProxyManager` | the registry for one client configuration, system call by system call: proxies, clients, shutdowns, their files and locks | `ProxyManagerProofs`, `RegistryProofs` |
| `ProxyClaim` | what the registry promises: an exclusive claim, void after the first removal; implemented by `ProxyManager` and, once per signature, by `Fleet` | |
| `Fleet` | several client configurations: signatures, kubeconfig and flags, `List`, `shutdown` and `proxies` over all of them | `FleetProofs` |
| `ProxyServer` | the goroutines of one `internal-proxy` or `proxy` process, its listener, timer and signals | `ProxyServerProofs` |
| `Routing` | one request through filter, `ServeHTTP`, `IsCached`, `Handle`, selectors, indexes, sorting | `RoutingProofs` |
| `InformerCache` | `ensureInformer` and the reads that follow it, under concurrent requests | `InformerCacheProofs` |
| `CacheService` | what the handler promises: complete answers, and errors that have an excuse; implemented by `InformerCache` | |
| `TableConvertors` | the last step of `Handle`: the convertor cache while CRDs change | `TableConvertorsProofs` |
| `MCProxyManager`, `MCFleet`, `MCRouting`, `MCInformerCache`, `MCTableConvertors` | the instances for TLC | |

The modules meet where one folds away what another one shows. `Fleet` takes
`LockProxy`, `UnlockProxy` and `KillProxy` of `ProxyManager` as one step each;
`ProxyClaim` is what the two have in common. `ProxyServer` unfolds the stages
`boot` and `serve` of `ProxyManager`. A request goes through `ProxyServer` up to
`Notify`, through `Routing`, through `InformerCache` where `Routing` reads its
store, and through `TableConvertors` at its end. Composing them in one state
space would add no behaviour: these stretches share no variable but the ones
that the folded step keeps (the claim, the store of an informer that has
synced).

In every module an operator under a comment that begins with "Mutant" is a
deliberately wrong variant of the definition that follows it. No specification
uses it. It shows which error in the code the property would catch:
`PROJECT.json` lists the pairs.

### ProxyManager

One data directory, `<data root>/kubectl_cache_proxies/<signature>`. Each system
call is one step: `mkdir`, `open`, `flock`, `write`, each `unlink`, `rmdir`. A
path and an inode are different things: `link[f]` is the inode that the path of
file `f` leads to, `fd[f][p]` the one that process `p` has open, `lock` belongs
to an inode. An inode is named after the process that created it, since a proxy
creates each file at most once. A port is named after the proxy that listens on
it. A file says the name of a process or `Blank`, which stands for all content
that `strconv.Atoi` does not parse. That the OS may give a port again does not
show here, where a port file has one configuration only; `Fleet` has it.

| code | model |
|---|---|
| `LockProxy` | `MakeDir`, `OpenPidFile`, `LockPidFile`, `WritePid`, and their failures |
| server start, `SetProxy` | `Boot`, `OpenPortFile`, `WritePort`, and `BootCancelled`, `BootFails`, `OpenPortFileFails` |
| end of `Serve` | `ServeCancelled`, `IdleExit` |
| `UnlockProxy` | `UnlockPidFile`, `RemoveAllLists`, `RemoveAllUnlinks`, `RemoveAllEnds` |
| `ToRESTConfig`, `Get`, `NewForConfig` | `FirstGet...`, `StartProxy`, `Poll...`, `UsePassthrough` |
| `shutdown`: `Get`, `KillProxy` | `ShutdownGets`, `Signal...`, `Force...`, `Wait...` |
| the end of a process, signals from elsewhere | `Crash`, `Interrupt` |

`os.RemoveAll` is modelled by what it does: it opens the directory, reads the
names once, unlinks them relative to the directory it opened, and removes the
directory if it is empty. A file created after the names were read keeps the
directory alive; names read in a directory that was removed and made anew lead
nowhere. Reading a file by its path is one step, because `Stat` and `ReadFile`
of `getPID` end in the same error when the file goes away in between; the two
reads of `Get`, pid and port, are two steps.

`WritePid` writes at offset 0 into a file that it emptied when it opened it. If
an earlier owner wrote its pid in between, the tail of a longer pid can remain,
which makes the content `Blank`: that is why it has two outcomes.

A client never waits for the child it has started, so that the child is a zombie
when it ends and a signal to it succeeds as long as the client runs.

The clients' data root is a constant. A client with another one than the default
reads below its own, and its proxy, which gets no `--data-root`, writes below
the default one.

### Fleet

A client configuration is a pair of what the kubeconfig file says and the flags
of the client; `Signature` is any function of it to a set of names, so that
collisions are included. The client makes its configuration when it starts, the
proxy makes its own later from the same file and from the flags in `PassedOn`;
`Edit` changes the file at any time. A directory that is gone has no files;
`held[n]` is the lock of the pid file that is there now, so that a process whose
directory was removed has lost it.

The port file holds a number, and all that a client takes from `Get` is that
number (`uses[c]`): who answers there is whoever listens at it. `Free` is what
the OS may give to a listener: a port that was given before and at which nobody
listens any more, or the next new one. New ones are taken in order, because one
unused number is as good as another; a used one may go to a proxy of any
configuration. So a port file that outlives its proxy, after a crash or for the
moment between the end of `Serve` and `RemoveAll`, may lead to another one's
server.

Which command a `Command` is, of `shutdown` with and without its flags and
`proxies`, is chosen when it has looked up its names (`GotAll`): until then all
of them do the same.

| code | model |
|---|---|
| `ToRESTConfig`, `NewForConfig` | `Load`, `Uses`, `Start`, `StartFails` |
| `GetStartInternalProxyArgs`, `RunE` | `ProxyLoad` |
| `LockProxy`, `SetProxy`, `UnlockProxy` | `LockProxy`, `LockFails`, `SetProxy`, `UnlockProxy` |
| `List`, `GetForConfig`, `Get` | `ListAll`, `ListNamed`, `ListFails`, `GetOne` |
| `shutdown`, `proxies` | `Signal`, `ForceKill`, `SignalFails`, `WaitEnds`, `GotAll`, `Done` |

### ProxyServer

The goroutines of `RunE`, of `Serve`, and the two that `Serve` starts; the idle
timer and its channel; requests; signals. `proxy` has no goroutine for `Serve`
and no idle time. `net/http` is external: when `Shutdown` begins, `Serve`
returns and no request is accepted, whether or not requests are in flight.
`Shutdown` waits for them, but nobody waits for `Shutdown`. A process that is
over does nothing any more, and its requests are lost.

`socket` is what is at the path of the UNIX socket: nothing, a socket that
nobody serves, a file, this process's socket or that of a rival. `listenUNIX`
asks what is there, removes it if it was a socket, and binds, in three steps
(`StatSocket`, `RemoveSocket`, `Listen`) between which others may act; Go's
listener unlinks its path when it is closed, whatever is there by then
(`Closed`). `Rival` is a second proxy on the same path, which does what this one
does, or somebody who renames a file over what is there; it comes at any time. A
killed process leaves its socket.

### Routing

One request over the store of one informer. The query says the kind that the
RESTMapper finds, verb, subresource, namespace, name, label, and the
requirements of the field selector; a text is a number in the order of texts.
`IsCached`, the early returns of `Handle` (`Refusal`), `HandleGet`,
`HandleList`, the index functions of `field_index.go` (`IndexedFields`,
`IndexValue`) and `sortObjectsByNamespaceName` (`Before` is its comparison,
`Sorted` its result) are operators; `Filter`,
`Route`, `Passthrough`, `Refuse` and `Read` are the steps. A requirement on a
field without an index fails when it is looked up, and it is only looked up if
the ones before it have left something over: `LookupFails` says so because
controller-runtime's `byIndexes` does. What the API server would say (`Selects`,
`ServerFields`) is external and defined apart from all of that. `ServerFields`
has the fields of all built-in kinds that Kubernetes 1.30, whose libraries the
proxy is built with, selects on without alpha features; `WithoutIndex` names
those that no switch of `field_index.go` has. The kinds of the two event groups
are told apart, since only those of the core group are `corev1.Event`.

### InformerCache

One step per stretch of code between two points where another goroutine can be
seen: the lookup of the kind, the check under the read lock, the lock with the
second check, the registration of the indexes, `GetInformer`, the wait for the
sync, the read. controller-runtime's cache is external and modelled as far as
the handler sees it: `IndexField` creates the informer and refuses an index that
is there; `GetInformer` waits for the sync only when the cache runs, and stops
waiting when the request is cancelled; a read fails when the cache does not run
yet. The registration is one step since `metadata.name`, the first index, is
there if and only if the registration began, and it happens under the lock.

`CacheService` says the same without lock and informers. The mapping sends a
resource to `spoiled` when the indexes of its kind are there, it is not
recorded, and no request is about to record it: that is when `IndexConflict` is
its fate. A request that gives up waiting (`SyncAborted`) is an `Abandon`, one
that registers the indexes a `Claim`, both of which spoil resources; all other
steps of the handler are answers or stutter.

### TableConvertors

Requests that have their objects. Types of a built-in group go to the first
getter and never get past it; the others to the cached getter, `LockForReading`,
`CheckCache`, `Lookup`, `LockForWriting`, `Store`. Printer columns are known by
the number of the edit that brought them, 0 means none. The CRD informer lags
behind the cluster (`Watch`), for ever if it likes. `promised[r]` is a history
variable: when `r` took the read lock, a request for the same type had got a
table.

## What is checked

Runs that pass:

| run | instance | what it shows |
|---|---|---|
| `Registry` | 3 proxies, 1 client, 1 fault | lock ownership, exclusion until the first removal, whose pid and port the files hold and a client gets, that no file names a proxy that has cleaned up, `ProxyManager` implements `ProxyClaim` |
| `Shutdown` | 2 proxies, 1 client, 2 shutdowns | with signals and forced removals, the directory is gone at the end; what a shutdown needs in order to panic |
| `Liveness` | 2 proxies, 1 client, 1 shutdown | a client is served, a cancelled proxy ends, a waiting shutdown returns |
| `Fleet` | 2 clients, 2 kubeconfigs, flags equal or different, 2 signatures, 2 ports, 1 edit, 1 crash, 1 command | who answers a client has its signature, or a used port; a shutdown reaches every proxy; names are separate claims; a client is served unless somebody has to do with its name |
| `Server` | 3 requests, idle time 3, both commands, port and socket, a rival | what a panic of `RunE` needs, a signal is no error, the process ends by signal and by idleness, the socket is there while it is served, when a file at its path is lost |
| `Routing` | 5 objects, two of them versions of one; queries of 6 kinds with up to 2 field requirements | what `IsCached` takes `Handle` answers; a list is what the API server would have answered; no exact selector is lost but those on `WithoutIndex` |
| `Informers` | 3 requests, 3 resources of 2 kinds | reads are from indexed informers; a conflict needs a cancelled request or two names of one kind; the handler implements `CacheService`; every request ends |
| `Tables` | 3 requests, 4 types, 1 CRD, 3 edits | a type keeps its tables; only early requests change its columns; every request is answered |

Each run finishes within three minutes, with 57,000 (`Server`) to 2.3 million
(`Shutdown`) distinct states.

The properties that took most thought, and what would violate them:

- `ExclusiveUntilRemoval`, `ClaimsAreSeparate`: two owners of one configuration
  while nobody has removed anything. It takes a process that has the pid file
  open before another one locks it.
- `OnePidOnePort`: a client that is given the port of one process next to the
  pid of another.
- `ExitedIsForgotten`: a client, or a shutdown, that is sent to a process that has
  cleaned up and is gone, by a file that somebody saw before it was emptied.
- `PanicNeedsRival`: a shutdown that reads a pid file in the middle of a change
  by the very process that it waits for.
- `SharesBySignature`: a client that is answered with the credentials, or from
  the cluster, of another configuration, although the port it was given has not
  been given up. It takes an edit between two readings of the kubeconfig, or a
  flag that is not passed on.
- `EveryProxyReached`: a proxy that survives `shutdown` because of what happened
  to another one, or to its file, in between.
- `SocketIsServed`: a proxy that accepts connections where nobody can connect.
- `SignalIsNoError`, `PanicNeedsFailedListen`: the order of two calls in one
  goroutine, seen by another one.
- `FileIsKept`: a file that is removed in place of a socket. It takes a check
  that is left out, or one that is older than the file.
- `ListMatchesServer`, `NoSelectorIsLost`, `CachedIsHandled`: two tables of
  fields, and two switches over verbs, that have to agree.
- `ConflictNeedsAbort`, `ImplementsService`: a request that fails although no
  other one has spoiled its resource.
- `TablesStay`, `FrozenOnceAnswered`: a lookup outside the lock that undoes, or
  changes, what a later request was promised.
- `EveryRequestEnds`, `CancelEndsProcess`, `IdleEndsProcess`, `WaitReturns`,
  `ClientServed`, `ServedUnlessDisturbed`, `EveryRequestAnswered`: somebody who
  waits for ever for a lock, a response, an informer or a file.

### The bounds

Three proxies are enough for an owner, a process that fails to lock its file,
and a third one that comes after a crash or a removal: the exclusion fails,
where it fails, with three and not with two. One client starts proxies one after
the other and can leave each of them at any stage (`UsePassthrough`, then
`StartOver`), so that starts overlap freely. Two shutdowns are enough for a
second signal and for two removals at once. `MaxFaults` bounds crashes, failing
calls and signals from elsewhere.

In `Fleet` the digest of the four configurations is chosen so that two that
differ in the file, and two that differ in the flags, collide, and two of each
kind do not. `Settings` are the flags that the clients may have together: both
plain, or one of them not. Which client has which makes no difference, and with
the other flags for both only one signature could be met. Two clients can share a name, or follow each other under it, or
stay apart; one edit can come between any two readings; the command works on two
names, with one proxy gone and one alive, or on one name given to it. With two
ports each of the two proxies can have a new one, or the second that of the
first.

Three requests to the informers are a first one that is cancelled, one that
races it, and one for the other name of its kind or for another kind; to the
tables, two that race and one that comes after. Three edits are a CRD that
appears, changes and goes. `MaxIdle` is the idle time in ticks. A tick may pass
between any two steps, so that 3 ticks let the timer fire before, between and
after requests. The objects of `Routing` have two namespaces, two names, equal
names in different namespaces, and events with and without a component.

Deadlock is not checked where the processes finish and then nothing happens;
`Routing` always has a change of the store to make.

### Fairness

In `ProxyManager` and `Fleet` each process that can take a step eventually takes
it; that is the scheduler of the operating system. Nothing forces an idle exit,
a fault, an interrupt, an edit or a user; in `ProxyManager` a shutdown runs on
once it was issued. A client polls every 500 ms and a proxy that nobody uses
stays for ten minutes: therefore an idle exit is not possible while a client is
polling for what this proxy has published. In `ProxyServer` every goroutine runs
on, one weak fairness condition each, time passes, and an accepted request
reaches `Notify`; a response need not end. In `InformerCache` handlers run on,
the cache starts, and each client gives up at some time; an informer need not
sync. In `TableConvertors` only handlers run on. Weak fairness of taking a lock
is enough because each of finitely many requests takes it a bounded number of
times.

### Where the code does not do what it says

Each of these runs checks one statement from a comment or the README of the
repository, and TLC finds a behaviour that violates it.

| run | statement | what happens |
|---|---|---|
| `Exclusion` | `LockProxy` keeps others from starting a proxy for the configuration | an exiting proxy unlocks, then removes the files of its successor; a third process gets a lock of its own |
| `Rivals` | `get` starts a proxy when there is none, and queries through it | two start at once; the one that does not get the lock has emptied the pid file, and both clients poll for ever |
| `DataRoot` | the same, with `--data-root` | the option is not passed on; the proxy registers where its client does not look |
| `Poisoned` | `ensureInformer` makes sure the informer is ready | a request that is cancelled during the sync leaves its indexes behind; all later ones fail |

What remains true in spite of them is what the passing runs state:
`ExclusiveUntilRemoval` instead of `Exclusive`, `ClientServed` instead of
`EveryClientServed`, `ConflictNeedsAbort` instead of `EnsureSucceeds`.
`ClientServed` has to leave out every registry that is `Disturbed`: files were
removed, or a proxy was told to stop, was killed or failed. That a start fails
because another one has the lock is among them, which is the price of `Rivals`.
`ServedUnlessDisturbed` of `Fleet` and the last disjunct of `EveryProxyReached`
pay it too.

The models contain more behaviours of that kind that no run singles out:

- `NewForConfig` polls on when its child has failed for whatever reason.
- `Get` never finds a proxy dead, since `os.FindProcess` does not fail on Unix.
- `LockProxy` keeps the port file of a crashed proxy, so that until `SetProxy`
  the new pid stands next to the old port. `OnePidOnePort` says that this takes
  a crash or a removal.
- `KillProxy` with wait waits for the pid file to be gone, also when it is that
  of a successor. `WaitReturns` leaves that case out.
- `KillProxy` with wait does not survive a pid file that is empty or no number:
  its error message (`proxy_manager.go:300`) uses the proxy that `Get` did not
  return. `WaitEnds` of `Fleet` goes to `panicked` there.
- When `listen` fails, `readyCh` is closed before `Serve` has returned the error
  (`proxy_server.go:137`). `RunE` may see the first and not the second, and calls
  a method of the nil address: `panicking` in `ProxyServer`.
- Requests that take longer than the idle time are cut when the process exits as
  idle (`request[r]` becomes `cut`).
- A port file that outlives its proxy may name a port that the OS has given to a
  proxy of another configuration. `Get` reads the number and looks no further
  (`proxy_manager.go:114`), so that the client is answered from another cluster or
  with the credentials of another user. In `Fleet` it takes twelve steps after
  the first state; `SharesBySignature` says that nothing else leads there.
- Of the fields that the API server selects built-in kinds on, the pod's
  `status.podIPs` and `spec.host`, `status.replicas` of replication controllers,
  `status.phase` of namespaces, `spec.unschedulable` of nodes, `status.successful`
  of jobs, `spec.clusterIP` and `spec.type` of services, `type` of secrets,
  `spec.signerName` of certificate signing requests, and all those of events of
  the group `events.k8s.io` have no index (`field_index.go:23` has three kinds): the
  list fails with 500 although the API server would answer it. The README of the
  repository names that limit for custom resources only. `NoSelectorIsLost`
  leaves these fields out (`WithoutIndex`).
- An API prefix of more than one segment, `--api-prefix=/custom/` in the help of
  `proxy`, makes `IsResourceRequest` false: nothing is cached.
- Columns of a CRD that change after the first table are never seen, and a late
  lookup may bring older ones over newer ones first (`FrozenOnceAnswered`).
- A proxy that starts on the path of a live proxy's socket takes it away, and a
  proxy that ends unlinks the path of whoever has it by then (`SocketIsServed`
  has to leave rivals out).
- A file that is put at the path after `listenUNIX` has found a socket there, or
  in the place of a proxy's own socket, is removed (`proxy_server.go:232`, and
  Go's listener). `FileIsKept` names these two cases.
- The winner of the run `Rivals`, whom nobody finds, ends after its ten idle
  minutes and takes its files along; clients that come later start anew.

Three more stand in code that the models leave out: `WriteResponse`
(`cache_handler.go:370`) goes on after an error of `Marshal` and writes a second
status, for objects that cannot be marshalled; `ProxyList.DeepCopyObject`
(`proxy_info.go:115`) appends the copies to the list it copies, but nothing
calls it; with a negative idle time `Notify` (`proxy_server.go:206`) resets a
timer that was never made.

## What is proved

For every value of the constants that satisfies the modules' assumptions, which
say what is a number, a function or a list of requirements, that `None`, `Blank`
and `Nobody` are no processes, that proxies are not shutdowns, and that a type of
a built-in group has no CRD. A theorem in italics is about a formula of the
proof module that is none of the runs' properties.

| module | theorem | states |
|---|---|---|
| `ProxyManagerProofs` | `TypeCorrect`, `LockHeld`, `Exclusion`, `PidFileOwner`, `PortHandedOut` | `TypeOK`, `OwnersHoldTheirLock`, `ExclusiveUntilRemoval`, `PidNamesOwner`, `HandedOutServes` |
| | `Refinement` | `Spec => ImplementsClaim` |
| `RegistryProofs` | `OnePair`, `Forgotten`, `PanicExplained` | `OnePidOnePort`, `ExitedIsForgotten`, `PanicNeedsRival` |
| | `NothingLeft` | when no call fails, `NothingLeftBehind` |
| | *`PollerHeard`*, *`WaiterHeard`*, *`ProxyRunsOut`* | see below: nobody waits for what nobody will do |
| `FleetProofs` | `TypeCorrect`, `SharedBySignature`, `AllReached` | `TypeOK`, `SharesBySignature`, `EveryProxyReached` |
| | `Separate` | `Spec => ClaimsAreSeparate` |
| | *`OwnProxy`* | without collisions of the digest a client is answered with its own configuration, unless the proxy that published its port listens no more |
| | *`UndisturbedGoesOn`* | nobody waits for what nobody will do |
| `ProxyServerProofs` | `TypeCorrect`, `PanicsOnlyUnheard`, `SignalEndsWell`, `SocketWithServer`, `FileStays` | `TypeOK`, `PanicNeedsFailedListen`, `SignalIsNoError`, `SocketIsServed`, `FileIsKept` |
| | *`CancelWakes`*, *`IdleWakes`*, *`StepsRunOut`* | no wakeup is lost, and the goroutines run out of steps |
| `RoutingProofs` | `TypeCorrect`, `HandlesCached`, `ListsMatch`, `SelectorsKept` | `TypeOK`, `CachedIsHandled`, `ListMatchesServer`, `NoSelectorIsLost` |
| | *`SortedIsTheList`* | there is exactly one sorted list of objects with distinct keys, it has them all, and `Sorted` is it |
| | *`GetsFindTheOne`* | a get returns the one object that it names, or 404 if there is none |
| `InformerCacheProofs` | `TypeCorrect`, `IndexedBeforeRead`, `ConflictsExplained` | `TypeOK`, `ReadsAreIndexed`, `ConflictNeedsAbort` |
| | `EnsuredUnlessAborted` | `EnsureSucceeds` (violated in `Poisoned`), where nobody gives up during a sync and each kind has one name |
| | `Refinement` | `Spec => ImplementsService` |
| | *`NoDeadlock`* | nobody waits for a request that waits for it |
| `TableConvertorsProofs` | `TypeCorrect`, `TablesRemain`, `ColumnsFreeze` | `TypeOK`, `TablesStay`, `FrozenOnceAnswered` |
| | *`NoDeadlock`* | the same |

Each module also has `Invariance`, `Spec => []Inv` (`MoreInvariance` in
`RegistryProofs`), from which the others follow.
There is one lemma per conjunct of `Inv`, or per group of actions where the
conjuncts are few, each with a case per kind of action.

*ProxyManager.* Two owners each hold the lock of the inode they have open
(`OwnersHoldTheirLock`), so if they have the same one open they are the same
process. Until something is removed, every process that has a pid file open has
the one that the path leads to (`LinkedUntilRemoval`): `open` creates a file only
where there is none. `ForceRemoves` (only shutdowns with `--force` remove) is
needed because `RemovalBegan` has to be stable. None of these is inductive
without the type invariant, which also says that a process that is about to lock
or write has the file open. For the files, `PidTextOwned` and `PortTextServes`
say of every inode, linked or not, what `PidNamesOwner` and `HandedOutServes` say
of the linked one: a process may still write into a file that was removed.

`RegistryProofs` adds four conjuncts. As long as it is `Quiet`, which means that
nothing was removed and no owner has died, the pid that a client has read is that
of an owner (`SeenOwns`), who remains one while the client goes on to the port;
the port it reads is an owner's as well, and there is one. `SomebodyCleans` says
who will remove the directory: a process on its way to listing it, or one whose
list has all that is in it. Where a `RemoveAll` finds the directory not empty,
the process that has put something into it is on its way, too. A process that
does not get the lock may leave because its owner has not listed the directory
yet (`LockedByOwner`). It takes `MaxFaults = 0`: when `LockProxy` cannot write the
pid, its process ends without an `UnlockProxy`, and what it has created stays.

Three more are about what is left of a proxy. `ForgetsItself` adds to
`ExitedIsForgotten` that all that names a proxy which is removing files is in the
list of its `RemoveAll`: others may empty the files or create new ones, but nobody
writes a pid or a port that is not its own. `TargetNamed` says that a process which a shutdown
waits for has its pid in its file as long as it is the only one that has opened
it; `InodesOpened`, that an inode is that of a process which has.

*Fleet.* Everything rests on what the files name. A pid, a lock or a target of the
command belongs to a proxy that has made its configuration, for good, and whose
signature is the name of the directory (`FilesName`). A port in a file, or in the
hands of a client, was published by such a proxy (`PortsPublished`), which may
have ended since. `StartsOnce` is what makes both stable: a client starts one
proxy, so that no proxy loads twice. `SharesBySignature` follows: whoever listens
at a client's port is the proxy that published it, because two listeners have two
ports (`PortsDiffer`), or that one listens no more. `OwnersHold` says
that a living proxy holds the lock of its name, unless a forced shutdown has
removed the directory under it; with it each name is a claim. For the command,
`NoneForgotten` says of each proxy that was there at the start that it is reached
or still pending, as a name to look up whose file names it or as a target.

*ProxyServer.* `PanicNeedsFailedListen` needs `ReadyHasReason`: `readyCh` is closed
because there is a listener, or none can be, and `RunE` asks for the address only
after that.
`SignalIsNoError` needs `ShutdownHasReason` (the HTTP server shuts down because
of the context or of the idle timer), which needs `NotBegun`: neither goroutine
runs before there is a listener. `FileIsKept` needs `RivalHasSocket`, a rival
that ends unlinks a socket, and `FileCameLater`: a file where `Serve` is about to
remove something was put there after it had looked.

*Routing.* `HandledIsCached` carries what `IsCached` said to `Handle`.
`FailsByLookup` gives every answer but 200 its reason, so that a list that fails
either is refused or has a requirement that cannot be looked up; the lemma
`FieldsHaveIndexes` compares the two tables of fields. That a list is what the
server would have answered takes two things. What the lookups leave is what the
server selects (`LookupsSelect`), because each index files an object under the
text that the server compares (`IndexAgreesWithServer`). And there is a sorted
list of it, and only one: the place of an object is the number of objects before
it, which is different for different keys (`SortedListExists`), and each object
is in the list once (`ListIsComplete`). In any list that is sorted so, an object has
this very place (`PlaceInList`), so that two of them are the same
(`ListIsUnique`): what `sort.Slice` returns does not depend on how it sorts, nor
on the order in which the informer's store gives its objects. The set is finite since the store, empty
at first, changes by one object at a time (`StoreIsFinite`). The assumptions are
that namespaces and names are ordered like numbers, and that a selector that
parses is a sequence of requirements.

*InformerCache.* `LockedKnows` says what the request inside the lock may find
there: its resource is not recorded, and past the registration the indexes of its
kind are there. `IndexedHaveCause` gives each kind with indexes a request that is
registering it, one that has given up, or a recorded resource; that is what makes
a conflict explicable. For the refinement `SpoilsNothing`, `AnswersOne` and
`MapHandle` map each step to one of `CacheService` or to a stutter.

*TableConvertors.* What is stored is never empty (`NeverEmpty`), so a type that
was answered has something in the map (`Stored`), and a request that came after
never gets as far as the lookup (`Kept`). Both properties follow.

*Nobody waits in vain.* Liveness is out of the prover's reach, but most of what
could go wrong with it is not. A property like `ClientServed` fails when somebody
waits for a step that nobody will take, or when there is no end to the steps that
come before it. The first is about states, the second about steps, and both are
proved, with the guards of the actions read off instead of `ENABLED`:

- `PollerHeard`: as long as the registry is not `Disturbed`, a client that polls
  finds the pid and the port of a serving proxy, or some proxy is on its way to the
  files. A rival may empty the pid file of the proxy that serves, but only while
  it is about to fail at the lock, which is a disturbance (`FilesFollow`). The
  clients' data root is the default one; the run `DataRoot` shows the other case.
- `WaiterHeard`: a shutdown that waits has a living process before it that was told
  to stop, or the pid it looks for is not in the file, or the process was killed.
- `ProxyRunsOut`: a proxy takes at most fourteen steps, `RemoveAll` included, and
  nobody adds to them, so that a `RemoveAll` does not chase the files of others.
- `UndisturbedGoesOn` (`Fleet`): the proxy of an undisturbed client can take its
  next step or is `Ready`. Signatures must not depend on what `PassedOn` drops.
- `CancelWakes`, `IdleWakes`, `StepsRunOut`: after a signal, and for a server with
  an idle time, some goroutine can go on or the timer runs (`Watched`: whoever
  accepts connections is watched); the goroutines take at most thirteen steps.
- `NoDeadlock` of `InformerCacheProofs` and of `TableConvertorsProofs`: a request
  waits for the first list of an informer that was started in a running cache, or
  for a request that has the lock and can go on.

Only model-checked: the liveness properties themselves (`ClientServed`,
`CancelledProxyEnds`, `WaitReturns`, `ServedUnlessDisturbed`, `CancelEndsProcess`,
`IdleEndsProcess`, `EveryRequestEnds`, `EveryRequestAnswered`), which with their
fairness and `ENABLED` are beyond the prover. `NothingLeftBehind` is neither
checked nor proved with faults: a failed write of the pid leaves the directory.

## What is not modelled

- Printing, of `proxies` as of tables; what Kubernetes' own convertors put into a
  table; what `ToPartial` copies of an object; the encoding of responses.
- The scheme, the root and version commands, logging and the parsing of options:
  wiring without state.
- Which bytes `GetConfigSignature` hashes: any function is allowed in its place.
- Reuse of a pid by the operating system: a signal would reach another process.
- Reuse of a port by a program that is no proxy: the client would be answered by
  it, or by nobody.
- Alpha fields of selectors, of kinds that are off by default.
- Windows: `lockFile` does nothing there, so that no exclusion is promised.
- `Server.Stop`, which nothing calls; static files, keepalive and the path that
  `proxy` appends to the server's: they are kubectl's.
- `--disable-filter` together with `--unix-socket`: `commands/proxy.go:63` keeps
  the filter then. The filter is a set of rejected queries here, whatever made it.
- Watches and writes: they are passed through, and end in `passed`. That a read
  after a write may come from an informer that has not heard of it is inherent in
  a cache; no property is about it.
- What the informers do when the context of the process ends: the server stops
  accepting requests at the same time.
- `limit`, `continue` and `resourceVersion` of a list, which the handler ignores,
  as the README of the repository says.
- kubectl, controller-runtime, client-go and net/http are external.

What is left is I/O, wiring and formatting, whose behaviour does not depend on
the order of steps; a model of it would restate it.
