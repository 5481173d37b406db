----------------------------- MODULE ProxyServer -----------------------------
(***************************************************************************)
(* One process of internal-proxy or of proxy from inside: the goroutines   *)
(* of RunE (pkg/commands/internal_proxy.go, proxy.go), of Server.Serve     *)
(* with its idle timer and its listener (pkg/proxy/proxy_server.go), of    *)
(* the HTTP requests, and the signals (pkg/utils/ctxutil).  ProxyManager   *)
(* models internal-proxy from outside, with all of this folded into its    *)
(* boot and serve stages; proxy runs the same server in the foreground and *)
(* may listen on the path of a UNIX socket, which others may use, too.     *)
(*                                                                         *)
(* net/http is modelled as far as it shows: once Shutdown is called, Serve *)
(* returns and no request is accepted, whether or not requests are still   *)
(* in flight.                                                              *)
(***************************************************************************)
EXTENDS Naturals

CONSTANTS
  Requests,   \* HTTP requests
  MaxIdle     \* --max-idle-time in ticks of the clock, 0 for no limit

ASSUME MaxIdleAssumption == MaxIdle \in Nat

VARIABLES
  command,    \* "internal-proxy" or "proxy"
  socket,     \* what is at the path of the UNIX socket, "tcp" if there is none
  rival,      \* another proxy that uses the path, or who puts a file there
  main,       \* the goroutine of RunE
  serve,      \* the goroutine of Serve
  watch,      \* the goroutine in Serve that waits for the context
  idle,       \* the goroutine in Serve that waits for the idle timer
  listener,   \* s.listener is set
  readyCh,    \* s.readyCh is closed
  serveErr,   \* what RunE reads: nil until Serve has returned
  ctxErr,     \* Serve's ctxErr is set
  shutdown,   \* the HTTP server shuts down
  timer,      \* ticks until s.idleTimer fires, 0 when it is not armed
  fired,      \* s.idleTimer.C holds a value
  cancelled,  \* the context of the process is done
  request     \* request[r]: where request r is

errs == <<serveErr, ctxErr>>
idleVars == <<timer, fired>>
place == <<command, socket, rival>>
vars == <<main, serve, watch, idle, listener, readyCh, errs, shutdown,
          idleVars, cancelled, request, place>>

Over == {"exited", "panicked", "killed"}

\* The process is there; nothing happens in one that is over.
Running == main \notin Over

\* RunE of proxy sets no idle time.
IdleTime == IF command = "proxy" THEN 0 ELSE MaxIdle

Init ==
  /\ \/ command = "internal-proxy" /\ socket = "tcp"
     \/ command = "proxy" /\ socket \in {"tcp", "none", "stale", "file"}
  /\ rival = "off"
  /\ main = "create"
  /\ serve = "off"
  /\ watch = "off"
  /\ idle = "off"
  /\ listener = FALSE
  /\ readyCh = FALSE
  /\ serveErr = "nil"
  /\ ctxErr = FALSE
  /\ shutdown = FALSE
  /\ timer = 0
  /\ fired = FALSE
  /\ cancelled = FALSE
  /\ request = [r \in Requests |-> "none"]

-----------------------------------------------------------------------------
(* RunE, from NewServer on                                                  *)

\* The goroutine of RunE goes on, in a process that still runs.
MainGoes(from, to) ==
  /\ main = from
  /\ main' = to
  /\ UNCHANGED <<watch, idle, listener, readyCh, errs, shutdown, idleVars,
                 cancelled, request, place>>

\* NewServer succeeds, and RunE starts the goroutine of Serve, or, in proxy, is
\* that goroutine; or NewServer fails.
NewServer ==
  \/ /\ MainGoes("create", IF command = "proxy" THEN "foreground" ELSE "ready")
     /\ serve = "off" /\ serve' = "listen"
  \/ MainGoes("create", "return") /\ UNCHANGED serve

\* Mutant: RunE does not wait for the server to be ready.
SeesReadyEarly == MainGoes("ready", "checkErr") /\ UNCHANGED serve

\* The select on s.Ready() and ctx.Done().
SeesReady == readyCh /\ MainGoes("ready", "checkErr") /\ UNCHANGED serve
SeesCancel == cancelled /\ MainGoes("ready", "return") /\ UNCHANGED serve

\* The check of serveErr, and s.Addr().String(): Addr is nil when the listener
\* is, and RunE panics.
CheckServeErr ==
  /\ \/ serveErr # "nil" /\ MainGoes("checkErr", "return")
     \/ serveErr = "nil" /\ listener /\ MainGoes("checkErr", "publish")
     \/ serveErr = "nil" /\ ~listener /\ MainGoes("checkErr", "panicking")
  /\ UNCHANGED serve

\* SetProxy, which may fail.
SetProxy ==
  /\ MainGoes("publish", "await") \/ MainGoes("publish", "return")
  /\ UNCHANGED serve

\* <-done, or the end of Serve in the foreground.
SeesDone ==
  /\ serve = "returned"
  /\ MainGoes("await", "return") \/ MainGoes("foreground", "return")
  /\ UNCHANGED serve

\* The deferred UnlockProxy of internal-proxy, also in a panic; then the process is over, with
\* every request it was answering.
Exit ==
  /\ \/ main = "return" /\ main' = "exited"
     \/ main = "panicking" /\ main' = "panicked"
  /\ request' = [r \in Requests |-> IF request[r] = "accepted" THEN "lost"
                                    ELSE IF request[r] = "handled" THEN "cut"
                                    ELSE request[r]]
  /\ UNCHANGED <<serve, watch, idle, listener, readyCh, errs, shutdown,
                 idleVars, cancelled, place>>

Main == NewServer \/ SeesReady \/ SeesCancel \/ CheckServeErr \/ SetProxy \/ SeesDone \/ Exit

-----------------------------------------------------------------------------
(* Server.Serve                                                             *)

\* Mutant: whatever is at the path goes.
StatNothing ==
  /\ Running /\ serve = "listen" /\ socket # "tcp"
  /\ serve' = "remove"
  /\ UNCHANGED <<main, watch, idle, listener, readyCh, errs, shutdown, idleVars,
                 cancelled, request, place>>

\* listenUNIX asks what is at the path: a socket, stale or not, is to go ...
StatSocket ==
  /\ Running /\ serve = "listen" /\ socket # "tcp"
  /\ serve' = IF socket \in {"none", "file"} THEN "bind" ELSE "remove"
  /\ UNCHANGED <<main, watch, idle, listener, readyCh, errs, shutdown, idleVars,
                 cancelled, request, place>>

\* ... and what is there by then is removed.
RemoveSocket ==
  /\ Running /\ serve = "remove"
  /\ serve' = "bind"
  /\ socket' = "none"
  /\ UNCHANGED <<main, watch, idle, listener, readyCh, errs, shutdown, idleVars,
                 cancelled, request, command, rival>>

\* s.listen() succeeds, where nothing is in its way.
Bound ==
  /\ Running
  /\ \/ serve = "listen" /\ socket = "tcp" /\ UNCHANGED socket
     \/ serve = "bind" /\ socket = "none" /\ socket' = "own"
  /\ serve' = "accept"
  /\ listener' = TRUE
  /\ readyCh' = TRUE
  /\ watch' = "context"
  /\ idle' = IF IdleTime > 0 THEN "timer" ELSE "off"
  /\ UNCHANGED <<main, errs, shutdown, fired, cancelled, request, command, rival>>

\* Mutant: the countdown starts with the first request.
ListenUnarmed == Bound /\ UNCHANGED timer

\* Serve starts its two goroutines and the timer, closes readyCh and goes on to
\* accept connections.
Listen == Bound /\ timer' = IdleTime

\* s.listen() fails: readyCh is closed before Serve returns the error ...
ListenFails ==
  /\ Running
  /\ \/ serve = "listen" /\ socket = "tcp"
     \/ serve = "bind"
  /\ serve' = "failing"
  /\ readyCh' = TRUE
  /\ UNCHANGED <<main, watch, idle, listener, errs, shutdown, idleVars, cancelled, request, place>>

\* It must fail where something is at the path.
ListenBlocked == socket \in {"file", "other"} /\ ListenFails

\* ... and the goroutine of RunE assigns it to serveErr and closes done.
ServeFails ==
  /\ Running /\ serve = "failing"
  /\ serve' = "returned"
  /\ serveErr' = "listen"
  /\ UNCHANGED <<main, watch, idle, listener, readyCh, ctxErr, shutdown,
                 idleVars, cancelled, request, place>>

\* What the HTTP server's Serve returns is replaced by the context's error; path
\* is what remains of the socket.
Returns(path) ==
  /\ Running /\ serve = "accept" /\ shutdown
  /\ serve' = "returned"
  /\ serveErr' = IF ctxErr THEN "canceled" ELSE "closed"
  /\ socket' = path
  /\ UNCHANGED <<main, watch, idle, listener, readyCh, ctxErr, shutdown,
                 idleVars, cancelled, request, command, rival>>

\* The listener is closed, which removes its path, whatever is there by now.
Closed == IF socket = "tcp" THEN "tcp" ELSE "none"

\* Mutant: Serve waits for the responses that are under way.
ServeDrains == Returns(Closed) /\ \A r \in Requests : request[r] # "handled"

\* Mutant: Serve does not wait for the listener to be closed.
ServeLeaves == Returns(socket)

\* The HTTP server's Serve returns as soon as a Shutdown begins.
ServeReturns == Returns(Closed)

\* Mutant: shut down first, then note why.
WatchContextLate ==
  /\ Running
  /\ \/ /\ watch = "context" /\ cancelled
        /\ watch' = "shutdown"
        /\ shutdown' = TRUE
        /\ UNCHANGED ctxErr
     \/ /\ watch = "shutdown"
        /\ watch' = "off"
        /\ ctxErr' = TRUE
        /\ UNCHANGED shutdown
  /\ UNCHANGED <<main, serve, idle, listener, readyCh, serveErr, idleVars, cancelled, request, place>>

\* The goroutine that waits for the context sets ctxErr and shuts down.
WatchContext ==
  /\ Running
  /\ \/ /\ watch = "context" /\ cancelled
        /\ watch' = "shutdown"
        /\ ctxErr' = TRUE
        /\ UNCHANGED shutdown
     \/ /\ watch = "shutdown"
        /\ watch' = "off"
        /\ shutdown' = TRUE
        /\ UNCHANGED ctxErr
  /\ UNCHANGED <<main, serve, idle, listener, readyCh, serveErr, idleVars, cancelled, request, place>>

\* The goroutine that waits for the idle timer: whichever case of its select
\* is ready.
WatchIdle ==
  /\ Running /\ idle = "timer"
  /\ \/ fired /\ fired' = FALSE /\ shutdown' = TRUE /\ idle' = "fired"
     \/ cancelled /\ idle' = "off" /\ UNCHANGED <<fired, shutdown>>
  /\ UNCHANGED <<main, serve, watch, listener, readyCh, errs, timer, cancelled, request, place>>

\* A tick of the clock; the timer fires into its channel.
Tick ==
  /\ Running /\ timer > 0
  /\ timer' = timer - 1
  /\ fired' = (fired \/ timer = 1)
  /\ UNCHANGED <<main, serve, watch, idle, listener, readyCh, errs, shutdown,
                 cancelled, request, place>>

Serve ==
  \/ StatSocket \/ RemoveSocket \/ Listen \/ ListenBlocked \/ ServeFails \/ ServeReturns
  \/ WatchContext \/ WatchIdle

-----------------------------------------------------------------------------
(* Requests and signals                                                     *)

RequestGoes(r, from, to) ==
  /\ Running /\ request[r] = from
  /\ request' = [request EXCEPT ![r] = to]
  /\ UNCHANGED <<main, serve, watch, idle, listener, readyCh, errs, shutdown, cancelled, place>>

\* The server accepts a request.
Accept(r) ==
  /\ serve = "accept" /\ ~shutdown
  /\ RequestGoes(r, "none", "accepted")
  /\ UNCHANGED idleVars

\* Mutant: a request adds the idle time to what is left.
NotifyAdds(r) ==
  /\ RequestGoes(r, "accepted", "handled")
  /\ timer' = timer + IdleTime
  /\ UNCHANGED fired

\* ServeHTTP calls Notify, which resets the timer; a value that is in the
\* channel already stays there.
Notify(r) ==
  /\ RequestGoes(r, "accepted", "handled")
  /\ timer' = IdleTime
  /\ UNCHANGED fired

\* The response is complete.
Respond(r) == RequestGoes(r, "handled", "done") /\ UNCHANGED idleVars

\* ctxutil.Notify: the first signal cancels the context ...
Signal ==
  /\ Running /\ ~cancelled
  /\ cancelled' = TRUE
  /\ UNCHANGED <<main, serve, watch, idle, listener, readyCh, errs, shutdown,
                 idleVars, request, place>>

\* ... the second one ends the process.
SignalAgain ==
  /\ Running /\ cancelled
  /\ main' = "killed"
  /\ UNCHANGED <<serve, watch, idle, listener, readyCh, errs, shutdown,
                 idleVars, cancelled, request, place>>

\* Another proxy is started for the same path, and ends; it does what this one
\* does.  Or somebody puts a file at the path, renaming it over what is there.
Rival ==
  /\ \/ /\ rival = "off" /\ socket \notin {"tcp", "file"}
        /\ rival' = "bound" /\ socket' = "other"
     \/ /\ rival = "bound"
        /\ rival' = "over" /\ socket' = "none"
     \/ /\ rival = "off" /\ socket \notin {"tcp", "file"}
        /\ rival' = "file" /\ socket' = "file"
  /\ UNCHANGED <<command, main, serve, watch, idle, listener, readyCh, errs,
                 shutdown, idleVars, cancelled, request>>

Next ==
  \/ Main \/ Serve \/ ListenFails
  \/ \E r \in Requests : Accept(r) \/ Notify(r) \/ Respond(r)
  \/ Tick \/ Signal \/ SignalAgain \/ Rival

Spec == Init /\ [][Next]_vars

\* The goroutines run on, one weak fairness condition each, and time passes.
\* Clients need not send requests, and a response need not end (a watch).
Fairness ==
  /\ WF_vars(Main)
  /\ WF_vars(StatSocket \/ RemoveSocket \/ Listen \/ ListenBlocked \/ ServeFails \/ ServeReturns)
  /\ WF_vars(WatchContext)
  /\ WF_vars(WatchIdle)
  /\ WF_vars(Tick)
  /\ \A r \in Requests : WF_vars(Notify(r))

FairSpec == Spec /\ Fairness

-----------------------------------------------------------------------------
(* Properties                                                               *)

\* Every variable has its type; the timer never runs for longer than MaxIdle.
TypeOK ==
  /\ command \in {"internal-proxy", "proxy"}
  /\ socket \in {"tcp", "none", "stale", "file", "own", "other"}
  /\ rival \in {"off", "bound", "over", "file"}
  /\ main \in {"create", "ready", "checkErr", "publish", "await", "foreground",
               "return", "panicking"} \cup Over
  /\ serve \in {"off", "listen", "remove", "bind", "failing", "accept", "returned"}
  /\ watch \in {"off", "context", "shutdown"}
  /\ idle \in {"off", "timer", "fired"}
  /\ listener \in BOOLEAN /\ readyCh \in BOOLEAN /\ ctxErr \in BOOLEAN
  /\ serveErr \in {"nil", "listen", "canceled", "closed"}
  /\ shutdown \in BOOLEAN /\ fired \in BOOLEAN /\ cancelled \in BOOLEAN
  /\ timer \in 0..MaxIdle
  /\ request \in [Requests -> {"none", "accepted", "handled", "done", "lost", "cut"}]

\* RunE asks for the address only when there is a listener, or listening has failed and
\* the error that says so comes too late: nothing else makes it panic.
PanicNeedsFailedListen ==
  main \in {"panicking", "panicked"} => ~listener /\ serve \in {"failing", "returned"}

\* A Serve that ends because of a signal returns the context's error, which RunE
\* takes for success; only a Serve that ran idle or never listened does not.
SignalIsNoError ==
  serve = "returned" /\ idle # "fired" => serveErr \in {"canceled", "listen"}

\* A cancelled process comes to its end, whatever it was doing: starting, failing
\* to listen, serving or running idle.
CancelEndsProcess == cancelled ~> main \in Over

\* A proxy that has a maximal idle time ends by itself when requests stop coming,
\* even if some response never ends.
IdleEndsProcess == main = "await" ~> main \in Over

\* A proxy that accepts connections on a socket can be reached there, and its
\* socket goes with it; only another proxy that is started for the same path can
\* take it away, or leave its own.
SocketIsServed ==
  rival = "off" => (socket = "own" <=> socket # "tcp" /\ serve = "accept")
                   \/ main = "killed"

\* A file at the path is only lost to a proxy if it was put there after that proxy had
\* found a socket to remove, or where its own socket was: what is there when it is
\* started, and is no socket, stays.
FileIsKept ==
  [][socket = "file" /\ socket' # "file" =>
       rival = "file" /\ serve \in {"remove", "accept"}]_vars
=============================================================================
