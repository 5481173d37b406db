--------------------------- MODULE ProxyServerProofs ---------------------------
(***************************************************************************)
(* Proofs about ProxyServer, for any number of requests and any idle time. *)
(*                                                                         *)
(* The inductive invariant Inv adds to the type invariant what Serve has   *)
(* not begun before it listens, why the HTTP server shuts down, why        *)
(* readyCh is closed, and how a file came to where the server removes one. *)
(* The last section has the safety that its liveness properties rest on:   *)
(* no goroutine waits in vain, and all of them run out of steps.           *)
(***************************************************************************)
EXTENDS ProxyServer, TLAPS

\* Until Serve accepts connections, or after a listen that failed, none of its
\* goroutines is there.
NotBegun ==
  serve \in {"off", "listen", "remove", "bind", "failing"} =>
    idle = "off" /\ watch = "off" /\ ~shutdown /\ ~ctxErr

\* The HTTP server shuts down because of the context, which is noted before, or
\* because the idle timer fired.
ShutdownHasReason ==
  /\ watch = "shutdown" => ctxErr
  /\ shutdown => ctxErr \/ idle = "fired"

\* The rival has the path as a socket.
RivalHasSocket == rival = "bound" => socket # "file"

\* A file where Serve is about to remove a socket, or has its own, came after it had
\* looked.
FileCameLater ==
  socket = "file" /\ serve \in {"remove", "accept"} => rival = "file"

\* readyCh is closed because Serve listens, or because it cannot; and RunE has waited
\* for that before it asks for the address.
ReadyHasReason ==
  /\ readyCh => listener \/ serve \in {"failing", "returned"}
  /\ serve \in {"off", "listen", "remove", "bind"} => ~readyCh
  /\ main \in {"checkErr", "publish", "await"} => readyCh

\* The inductive invariant.
Inv ==
  /\ TypeOK
  /\ NotBegun
  /\ ShutdownHasReason
  /\ RivalHasSocket
  /\ FileCameLater
  /\ ReadyHasReason
  /\ PanicNeedsFailedListen
  /\ SignalIsNoError
  /\ SocketIsServed

-----------------------------------------------------------------------------
(* The steps of Next, one conjunct at a time                                *)

\* Every step keeps the types.
LEMMA TypeStep ==
  ASSUME TypeOK, [Next]_vars
  PROVE  TypeOK'
<1> USE MaxIdleAssumption DEF TypeOK, Over, vars, errs, idleVars, place, Running
<1>1. CASE Main
  <2>1. CASE NewServer
    BY <2>1 DEF NewServer, MainGoes
  <2>2. CASE SeesReady
    BY <2>2 DEF SeesReady, MainGoes
  <2>3. CASE SeesCancel
    BY <2>3 DEF SeesCancel, MainGoes
  <2>4. CASE CheckServeErr
    BY <2>4 DEF CheckServeErr, MainGoes
  <2>5. CASE SetProxy
    BY <2>5 DEF SetProxy, MainGoes
  <2>6. CASE SeesDone
    BY <2>6 DEF SeesDone, MainGoes
  <2>7. CASE Exit
    BY <2>7 DEF Exit, Over
  <2>8. QED
    BY <1>1, <2>1, <2>2, <2>3, <2>4, <2>5, <2>6, <2>7 DEF Main
<1>2. CASE Serve
  <2>1. CASE StatSocket \/ RemoveSocket
    BY <2>1 DEF StatSocket, RemoveSocket
  <2>2. CASE Listen
    BY <2>2 DEF Listen, Bound, IdleTime
  <2>3. CASE ListenBlocked
    BY <2>3 DEF ListenBlocked, ListenFails
  <2>4. CASE ServeFails
    BY <2>4 DEF ServeFails
  <2>5. CASE ServeReturns
    BY <2>5 DEF ServeReturns, Returns, Closed
  <2>6. CASE WatchContext
    <3>1. CASE watch = "context" /\ watch' = "shutdown" /\ ctxErr' = TRUE /\ UNCHANGED shutdown
      BY <2>6, <3>1 DEF WatchContext
    <3>2. CASE watch = "shutdown" /\ watch' = "off" /\ shutdown' = TRUE /\ UNCHANGED ctxErr
      BY <2>6, <3>2 DEF WatchContext
    <3>3. QED
      BY <2>6, <3>1, <3>2 DEF WatchContext
  <2>7. CASE WatchIdle
    <3>1. CASE fired' = FALSE /\ shutdown' = TRUE /\ idle' = "fired"
      <4>1. UNCHANGED <<main, serve, watch, listener, readyCh, errs, timer, cancelled, request, place>>
        BY <2>7 DEF WatchIdle
      <4>2. fired' \in BOOLEAN /\ shutdown' \in BOOLEAN /\ idle' \in {"off", "timer", "fired"}
        BY <3>1, Zenon
      <4>3. QED
        BY <4>1, <4>2
    <3>2. CASE idle' = "off" /\ UNCHANGED <<fired, shutdown>>
      BY <2>7, <3>2 DEF WatchIdle
    <3>3. QED
      BY <2>7, <3>1, <3>2 DEF WatchIdle
  <2>8. QED
    BY <1>2, <2>1, <2>2, <2>3, <2>4, <2>5, <2>6, <2>7 DEF Serve
<1>3. CASE ListenFails
  BY <1>3 DEF ListenFails
<1>4. CASE Tick
  BY <1>4 DEF Tick
<1>5. CASE Signal
  BY <1>5 DEF Signal
<1>6. CASE SignalAgain
  BY <1>6 DEF SignalAgain
<1>7. CASE Rival
  BY <1>7 DEF Rival
<1>8. ASSUME NEW r \in Requests, Accept(r) \/ Notify(r) \/ Respond(r)
     PROVE  TypeOK'
  <2>1. CASE Accept(r)
    BY <2>1 DEF Accept, RequestGoes
  <2>2. CASE Notify(r)
    BY <2>2 DEF Notify, RequestGoes, IdleTime
  <2>3. CASE Respond(r)
    BY <2>3 DEF Respond, RequestGoes
  <2>4. QED
    BY <1>8, <2>1, <2>2, <2>3
<1>9. CASE UNCHANGED vars
  BY <1>9
<1>10. QED
  BY <1>1, <1>2, <1>3, <1>4, <1>5, <1>6, <1>7, <1>8, <1>9 DEF Next

\* Every step keeps what has not begun: the goroutines start with the listener.
LEMMA NotBegunStep ==
  ASSUME NotBegun, [Next]_vars
  PROVE  NotBegun'
<1> USE MaxIdleAssumption DEF NotBegun, vars, errs, idleVars, place, Running
<1>1. CASE Main
  <2>1. CASE NewServer
    BY <2>1 DEF NewServer, MainGoes
  <2>2. CASE SeesReady
    BY <2>2 DEF SeesReady, MainGoes
  <2>3. CASE SeesCancel
    BY <2>3 DEF SeesCancel, MainGoes
  <2>4. CASE CheckServeErr
    BY <2>4 DEF CheckServeErr, MainGoes
  <2>5. CASE SetProxy
    BY <2>5 DEF SetProxy, MainGoes
  <2>6. CASE SeesDone
    BY <2>6 DEF SeesDone, MainGoes
  <2>7. CASE Exit
    BY <2>7 DEF Exit, Over
  <2>8. QED
    BY <1>1, <2>1, <2>2, <2>3, <2>4, <2>5, <2>6, <2>7 DEF Main
<1>2. CASE Serve
  <2>1. CASE StatSocket \/ RemoveSocket
    BY <2>1 DEF StatSocket, RemoveSocket
  <2>2. CASE Listen
    BY <2>2 DEF Listen, Bound, IdleTime
  <2>3. CASE ListenBlocked
    BY <2>3 DEF ListenBlocked, ListenFails
  <2>4. CASE ServeFails
    BY <2>4 DEF ServeFails
  <2>5. CASE ServeReturns
    BY <2>5 DEF ServeReturns, Returns, Closed
  <2>6. CASE WatchContext
    BY <2>6 DEF WatchContext
  <2>7. CASE WatchIdle
    BY <2>7 DEF WatchIdle
  <2>8. QED
    BY <1>2, <2>1, <2>2, <2>3, <2>4, <2>5, <2>6, <2>7 DEF Serve
<1>3. CASE ListenFails
  BY <1>3 DEF ListenFails
<1>4. CASE Tick
  BY <1>4 DEF Tick
<1>5. CASE Signal
  BY <1>5 DEF Signal
<1>6. CASE SignalAgain
  BY <1>6 DEF SignalAgain
<1>7. CASE Rival
  BY <1>7 DEF Rival
<1>8. ASSUME NEW r \in Requests, Accept(r) \/ Notify(r) \/ Respond(r)
     PROVE  NotBegun'
  <2>1. CASE Accept(r)
    BY <2>1 DEF Accept, RequestGoes
  <2>2. CASE Notify(r)
    BY <2>2 DEF Notify, RequestGoes, IdleTime
  <2>3. CASE Respond(r)
    BY <2>3 DEF Respond, RequestGoes
  <2>4. QED
    BY <1>8, <2>1, <2>2, <2>3
<1>9. CASE UNCHANGED vars
  BY <1>9
<1>10. QED
  BY <1>1, <1>2, <1>3, <1>4, <1>5, <1>6, <1>7, <1>8, <1>9 DEF Next

\* Every step keeps the reason: the goroutine that shuts down has set ctxErr.
LEMMA ReasonStep ==
  ASSUME TypeOK, NotBegun, ShutdownHasReason, [Next]_vars
  PROVE  ShutdownHasReason'
<1> USE MaxIdleAssumption DEF TypeOK, NotBegun, ShutdownHasReason, vars, errs, idleVars, place, Running
<1>1. CASE Main
  <2>1. CASE NewServer
    BY <2>1 DEF NewServer, MainGoes
  <2>2. CASE SeesReady
    BY <2>2 DEF SeesReady, MainGoes
  <2>3. CASE SeesCancel
    BY <2>3 DEF SeesCancel, MainGoes
  <2>4. CASE CheckServeErr
    BY <2>4 DEF CheckServeErr, MainGoes
  <2>5. CASE SetProxy
    BY <2>5 DEF SetProxy, MainGoes
  <2>6. CASE SeesDone
    BY <2>6 DEF SeesDone, MainGoes
  <2>7. CASE Exit
    BY <2>7 DEF Exit, Over
  <2>8. QED
    BY <1>1, <2>1, <2>2, <2>3, <2>4, <2>5, <2>6, <2>7 DEF Main
<1>2. CASE Serve
  <2>1. CASE StatSocket \/ RemoveSocket
    BY <2>1 DEF StatSocket, RemoveSocket
  <2>2. CASE Listen
    BY <2>2 DEF Listen, Bound, IdleTime
  <2>3. CASE ListenBlocked
    BY <2>3 DEF ListenBlocked, ListenFails
  <2>4. CASE ServeFails
    BY <2>4 DEF ServeFails
  <2>5. CASE ServeReturns
    BY <2>5 DEF ServeReturns, Returns, Closed
  <2>6. CASE WatchContext
    BY <2>6 DEF WatchContext
  <2>7. CASE WatchIdle
    BY <2>7 DEF WatchIdle
  <2>8. QED
    BY <1>2, <2>1, <2>2, <2>3, <2>4, <2>5, <2>6, <2>7 DEF Serve
<1>3. CASE ListenFails
  BY <1>3 DEF ListenFails
<1>4. CASE Tick
  BY <1>4 DEF Tick
<1>5. CASE Signal
  BY <1>5 DEF Signal
<1>6. CASE SignalAgain
  BY <1>6 DEF SignalAgain
<1>7. CASE Rival
  BY <1>7 DEF Rival
<1>8. ASSUME NEW r \in Requests, Accept(r) \/ Notify(r) \/ Respond(r)
     PROVE  ShutdownHasReason'
  <2>1. CASE Accept(r)
    BY <2>1 DEF Accept, RequestGoes
  <2>2. CASE Notify(r)
    BY <2>2 DEF Notify, RequestGoes, IdleTime
  <2>3. CASE Respond(r)
    BY <2>3 DEF Respond, RequestGoes
  <2>4. QED
    BY <1>8, <2>1, <2>2, <2>3
<1>9. CASE UNCHANGED vars
  BY <1>9
<1>10. QED
  BY <1>1, <1>2, <1>3, <1>4, <1>5, <1>6, <1>7, <1>8, <1>9 DEF Next

\* Every step keeps the socket of the rival from becoming a file.
LEMMA RivalStep ==
  ASSUME RivalHasSocket, [Next]_vars
  PROVE  RivalHasSocket'
<1> USE MaxIdleAssumption DEF RivalHasSocket, vars, errs, idleVars, place, Running
<1>1. CASE Main
  <2>1. CASE NewServer
    BY <2>1 DEF NewServer, MainGoes
  <2>2. CASE SeesReady
    BY <2>2 DEF SeesReady, MainGoes
  <2>3. CASE SeesCancel
    BY <2>3 DEF SeesCancel, MainGoes
  <2>4. CASE CheckServeErr
    BY <2>4 DEF CheckServeErr, MainGoes
  <2>5. CASE SetProxy
    BY <2>5 DEF SetProxy, MainGoes
  <2>6. CASE SeesDone
    BY <2>6 DEF SeesDone, MainGoes
  <2>7. CASE Exit
    BY <2>7 DEF Exit, Over
  <2>8. QED
    BY <1>1, <2>1, <2>2, <2>3, <2>4, <2>5, <2>6, <2>7 DEF Main
<1>2. CASE Serve
  <2>1. CASE StatSocket \/ RemoveSocket
    BY <2>1 DEF StatSocket, RemoveSocket
  <2>2. CASE Listen
    BY <2>2 DEF Listen, Bound, IdleTime
  <2>3. CASE ListenBlocked
    BY <2>3 DEF ListenBlocked, ListenFails
  <2>4. CASE ServeFails
    BY <2>4 DEF ServeFails
  <2>5. CASE ServeReturns
    BY <2>5 DEF ServeReturns, Returns, Closed
  <2>6. CASE WatchContext
    BY <2>6 DEF WatchContext
  <2>7. CASE WatchIdle
    BY <2>7 DEF WatchIdle
  <2>8. QED
    BY <1>2, <2>1, <2>2, <2>3, <2>4, <2>5, <2>6, <2>7 DEF Serve
<1>3. CASE ListenFails
  BY <1>3 DEF ListenFails
<1>4. CASE Tick
  BY <1>4 DEF Tick
<1>5. CASE Signal
  BY <1>5 DEF Signal
<1>6. CASE SignalAgain
  BY <1>6 DEF SignalAgain
<1>7. CASE Rival
  BY <1>7 DEF Rival
<1>8. ASSUME NEW r \in Requests, Accept(r) \/ Notify(r) \/ Respond(r)
     PROVE  RivalHasSocket'
  <2>1. CASE Accept(r)
    BY <2>1 DEF Accept, RequestGoes
  <2>2. CASE Notify(r)
    BY <2>2 DEF Notify, RequestGoes, IdleTime
  <2>3. CASE Respond(r)
    BY <2>3 DEF Respond, RequestGoes
  <2>4. QED
    BY <1>8, <2>1, <2>2, <2>3
<1>9. CASE UNCHANGED vars
  BY <1>9
<1>10. QED
  BY <1>1, <1>2, <1>3, <1>4, <1>5, <1>6, <1>7, <1>8, <1>9 DEF Next

\* Every step keeps a file that was there before: where one is removed, it came later.
LEMMA FileCameLaterStep ==
  ASSUME FileCameLater, [Next]_vars
  PROVE  FileCameLater'
<1> USE MaxIdleAssumption DEF FileCameLater, vars, errs, idleVars,
        place, Running
<1>1. CASE Main
  <2>1. CASE NewServer
    BY <2>1 DEF NewServer, MainGoes
  <2>2. CASE SeesReady
    BY <2>2 DEF SeesReady, MainGoes
  <2>3. CASE SeesCancel
    BY <2>3 DEF SeesCancel, MainGoes
  <2>4. CASE CheckServeErr
    BY <2>4 DEF CheckServeErr, MainGoes
  <2>5. CASE SetProxy
    BY <2>5 DEF SetProxy, MainGoes
  <2>6. CASE SeesDone
    BY <2>6 DEF SeesDone, MainGoes
  <2>7. CASE Exit
    BY <2>7 DEF Exit, Over
  <2>8. QED
    BY <1>1, <2>1, <2>2, <2>3, <2>4, <2>5, <2>6, <2>7 DEF Main
<1>2. CASE Serve
  <2>1. CASE StatSocket \/ RemoveSocket
    BY <2>1 DEF StatSocket, RemoveSocket
  <2>2. CASE Listen
    BY <2>2 DEF Listen, Bound, IdleTime
  <2>3. CASE ListenBlocked
    BY <2>3 DEF ListenBlocked, ListenFails
  <2>4. CASE ServeFails
    BY <2>4 DEF ServeFails
  <2>5. CASE ServeReturns
    BY <2>5 DEF ServeReturns, Returns, Closed
  <2>6. CASE WatchContext
    BY <2>6 DEF WatchContext
  <2>7. CASE WatchIdle
    BY <2>7 DEF WatchIdle
  <2>8. QED
    BY <1>2, <2>1, <2>2, <2>3, <2>4, <2>5, <2>6, <2>7 DEF Serve
<1>3. CASE ListenFails
  BY <1>3 DEF ListenFails
<1>4. CASE Tick
  BY <1>4 DEF Tick
<1>5. CASE Signal
  BY <1>5 DEF Signal
<1>6. CASE SignalAgain
  BY <1>6 DEF SignalAgain
<1>7. CASE Rival
  BY <1>7 DEF Rival
<1>8. ASSUME NEW r \in Requests, Accept(r) \/ Notify(r) \/ Respond(r)
     PROVE  FileCameLater'
  <2>1. CASE Accept(r)
    BY <2>1 DEF Accept, RequestGoes
  <2>2. CASE Notify(r)
    BY <2>2 DEF Notify, RequestGoes, IdleTime
  <2>3. CASE Respond(r)
    BY <2>3 DEF Respond, RequestGoes
  <2>4. QED
    BY <1>8, <2>1, <2>2, <2>3
<1>9. CASE UNCHANGED vars
  BY <1>9
<1>10. QED
  BY <1>1, <1>2, <1>3, <1>4, <1>5, <1>6, <1>7, <1>8, <1>9 DEF Next

\* Every step keeps the reason for which readyCh is closed.
LEMMA ReadyStep ==
  ASSUME TypeOK, ReadyHasReason, [Next]_vars
  PROVE  ReadyHasReason'
<1> USE MaxIdleAssumption DEF TypeOK, Over, ReadyHasReason, vars, errs, idleVars,
        place, Running
<1>1. CASE Main
  <2>1. CASE NewServer
    BY <2>1 DEF NewServer, MainGoes
  <2>2. CASE SeesReady
    BY <2>2 DEF SeesReady, MainGoes
  <2>3. CASE SeesCancel
    BY <2>3 DEF SeesCancel, MainGoes
  <2>4. CASE CheckServeErr
    BY <2>4 DEF CheckServeErr, MainGoes
  <2>5. CASE SetProxy
    BY <2>5 DEF SetProxy, MainGoes
  <2>6. CASE SeesDone
    BY <2>6 DEF SeesDone, MainGoes
  <2>7. CASE Exit
    BY <2>7 DEF Exit, Over
  <2>8. QED
    BY <1>1, <2>1, <2>2, <2>3, <2>4, <2>5, <2>6, <2>7 DEF Main
<1>2. CASE Serve
  <2>1. CASE StatSocket \/ RemoveSocket
    BY <2>1 DEF StatSocket, RemoveSocket
  <2>2. CASE Listen
    BY <2>2 DEF Listen, Bound, IdleTime
  <2>3. CASE ListenBlocked
    BY <2>3 DEF ListenBlocked, ListenFails
  <2>4. CASE ServeFails
    BY <2>4 DEF ServeFails
  <2>5. CASE ServeReturns
    BY <2>5 DEF ServeReturns, Returns, Closed
  <2>6. CASE WatchContext
    BY <2>6 DEF WatchContext
  <2>7. CASE WatchIdle
    BY <2>7 DEF WatchIdle
  <2>8. QED
    BY <1>2, <2>1, <2>2, <2>3, <2>4, <2>5, <2>6, <2>7 DEF Serve
<1>3. CASE ListenFails
  BY <1>3 DEF ListenFails
<1>4. CASE Tick
  BY <1>4 DEF Tick
<1>5. CASE Signal
  BY <1>5 DEF Signal
<1>6. CASE SignalAgain
  BY <1>6 DEF SignalAgain
<1>7. CASE Rival
  BY <1>7 DEF Rival
<1>8. ASSUME NEW r \in Requests, Accept(r) \/ Notify(r) \/ Respond(r)
     PROVE  ReadyHasReason'
  <2>1. CASE Accept(r)
    BY <2>1 DEF Accept, RequestGoes
  <2>2. CASE Notify(r)
    BY <2>2 DEF Notify, RequestGoes, IdleTime
  <2>3. CASE Respond(r)
    BY <2>3 DEF Respond, RequestGoes
  <2>4. QED
    BY <1>8, <2>1, <2>2, <2>3
<1>9. CASE UNCHANGED vars
  BY <1>9
<1>10. QED
  BY <1>1, <1>2, <1>3, <1>4, <1>5, <1>6, <1>7, <1>8, <1>9 DEF Next

\* Every step keeps the reason for a panic: a listen that failed is not tried again.
LEMMA PanicStep ==
  ASSUME TypeOK, ReadyHasReason, PanicNeedsFailedListen, [Next]_vars
  PROVE  PanicNeedsFailedListen'
<1> USE MaxIdleAssumption DEF TypeOK, Over, ReadyHasReason, PanicNeedsFailedListen, vars, errs, idleVars,
        place, Running
<1>1. CASE Main
  <2>1. CASE NewServer
    BY <2>1 DEF NewServer, MainGoes
  <2>2. CASE SeesReady
    BY <2>2 DEF SeesReady, MainGoes
  <2>3. CASE SeesCancel
    BY <2>3 DEF SeesCancel, MainGoes
  <2>4. CASE CheckServeErr
    BY <2>4 DEF CheckServeErr, MainGoes
  <2>5. CASE SetProxy
    BY <2>5 DEF SetProxy, MainGoes
  <2>6. CASE SeesDone
    BY <2>6 DEF SeesDone, MainGoes
  <2>7. CASE Exit
    BY <2>7 DEF Exit, Over
  <2>8. QED
    BY <1>1, <2>1, <2>2, <2>3, <2>4, <2>5, <2>6, <2>7 DEF Main
<1>2. CASE Serve
  <2>1. CASE StatSocket \/ RemoveSocket
    BY <2>1 DEF StatSocket, RemoveSocket
  <2>2. CASE Listen
    BY <2>2 DEF Listen, Bound, IdleTime
  <2>3. CASE ListenBlocked
    BY <2>3 DEF ListenBlocked, ListenFails
  <2>4. CASE ServeFails
    BY <2>4 DEF ServeFails
  <2>5. CASE ServeReturns
    BY <2>5 DEF ServeReturns, Returns, Closed
  <2>6. CASE WatchContext
    BY <2>6 DEF WatchContext
  <2>7. CASE WatchIdle
    BY <2>7 DEF WatchIdle
  <2>8. QED
    BY <1>2, <2>1, <2>2, <2>3, <2>4, <2>5, <2>6, <2>7 DEF Serve
<1>3. CASE ListenFails
  BY <1>3 DEF ListenFails
<1>4. CASE Tick
  BY <1>4 DEF Tick
<1>5. CASE Signal
  BY <1>5 DEF Signal
<1>6. CASE SignalAgain
  BY <1>6 DEF SignalAgain
<1>7. CASE Rival
  BY <1>7 DEF Rival
<1>8. ASSUME NEW r \in Requests, Accept(r) \/ Notify(r) \/ Respond(r)
     PROVE  PanicNeedsFailedListen'
  <2>1. CASE Accept(r)
    BY <2>1 DEF Accept, RequestGoes
  <2>2. CASE Notify(r)
    BY <2>2 DEF Notify, RequestGoes, IdleTime
  <2>3. CASE Respond(r)
    BY <2>3 DEF Respond, RequestGoes
  <2>4. QED
    BY <1>8, <2>1, <2>2, <2>3
<1>9. CASE UNCHANGED vars
  BY <1>9
<1>10. QED
  BY <1>1, <1>2, <1>3, <1>4, <1>5, <1>6, <1>7, <1>8, <1>9 DEF Next

\* Every step keeps the error that Serve returns after a signal.
LEMMA SignalStep ==
  ASSUME TypeOK, NotBegun, ShutdownHasReason, SignalIsNoError, [Next]_vars
  PROVE  SignalIsNoError'
<1> USE MaxIdleAssumption DEF TypeOK, NotBegun, ShutdownHasReason, SignalIsNoError, vars, errs, idleVars, place, Running
<1>1. CASE Main
  <2>1. CASE NewServer
    BY <2>1 DEF NewServer, MainGoes
  <2>2. CASE SeesReady
    BY <2>2 DEF SeesReady, MainGoes
  <2>3. CASE SeesCancel
    BY <2>3 DEF SeesCancel, MainGoes
  <2>4. CASE CheckServeErr
    BY <2>4 DEF CheckServeErr, MainGoes
  <2>5. CASE SetProxy
    BY <2>5 DEF SetProxy, MainGoes
  <2>6. CASE SeesDone
    BY <2>6 DEF SeesDone, MainGoes
  <2>7. CASE Exit
    BY <2>7 DEF Exit, Over
  <2>8. QED
    BY <1>1, <2>1, <2>2, <2>3, <2>4, <2>5, <2>6, <2>7 DEF Main
<1>2. CASE Serve
  <2>1. CASE StatSocket \/ RemoveSocket
    BY <2>1 DEF StatSocket, RemoveSocket
  <2>2. CASE Listen
    BY <2>2 DEF Listen, Bound, IdleTime
  <2>3. CASE ListenBlocked
    BY <2>3 DEF ListenBlocked, ListenFails
  <2>4. CASE ServeFails
    BY <2>4 DEF ServeFails
  <2>5. CASE ServeReturns
    BY <2>5 DEF ServeReturns, Returns, Closed
  <2>6. CASE WatchContext
    BY <2>6 DEF WatchContext
  <2>7. CASE WatchIdle
    BY <2>7 DEF WatchIdle
  <2>8. QED
    BY <1>2, <2>1, <2>2, <2>3, <2>4, <2>5, <2>6, <2>7 DEF Serve
<1>3. CASE ListenFails
  BY <1>3 DEF ListenFails
<1>4. CASE Tick
  BY <1>4 DEF Tick
<1>5. CASE Signal
  BY <1>5 DEF Signal
<1>6. CASE SignalAgain
  BY <1>6 DEF SignalAgain
<1>7. CASE Rival
  BY <1>7 DEF Rival
<1>8. ASSUME NEW r \in Requests, Accept(r) \/ Notify(r) \/ Respond(r)
     PROVE  SignalIsNoError'
  <2>1. CASE Accept(r)
    BY <2>1 DEF Accept, RequestGoes
  <2>2. CASE Notify(r)
    BY <2>2 DEF Notify, RequestGoes, IdleTime
  <2>3. CASE Respond(r)
    BY <2>3 DEF Respond, RequestGoes
  <2>4. QED
    BY <1>8, <2>1, <2>2, <2>3
<1>9. CASE UNCHANGED vars
  BY <1>9
<1>10. QED
  BY <1>1, <1>2, <1>3, <1>4, <1>5, <1>6, <1>7, <1>8, <1>9 DEF Next

\* Every step keeps the socket with the proxy that serves it.
LEMMA SocketStep ==
  ASSUME TypeOK, SocketIsServed, [Next]_vars
  PROVE  SocketIsServed'
<1> USE MaxIdleAssumption DEF TypeOK, SocketIsServed, Over, vars, errs, idleVars, place, Running
<1>1. CASE Main
  <2>1. CASE NewServer
    BY <2>1 DEF NewServer, MainGoes
  <2>2. CASE SeesReady
    BY <2>2 DEF SeesReady, MainGoes
  <2>3. CASE SeesCancel
    BY <2>3 DEF SeesCancel, MainGoes
  <2>4. CASE CheckServeErr
    BY <2>4 DEF CheckServeErr, MainGoes
  <2>5. CASE SetProxy
    BY <2>5 DEF SetProxy, MainGoes
  <2>6. CASE SeesDone
    BY <2>6 DEF SeesDone, MainGoes
  <2>7. CASE Exit
    BY <2>7 DEF Exit, Over
  <2>8. QED
    BY <1>1, <2>1, <2>2, <2>3, <2>4, <2>5, <2>6, <2>7 DEF Main
<1>2. CASE Serve
  <2>1. CASE StatSocket \/ RemoveSocket
    BY <2>1 DEF StatSocket, RemoveSocket
  <2>2. CASE Listen
    BY <2>2 DEF Listen, Bound, IdleTime
  <2>3. CASE ListenBlocked
    BY <2>3 DEF ListenBlocked, ListenFails
  <2>4. CASE ServeFails
    BY <2>4 DEF ServeFails
  <2>5. CASE ServeReturns
    BY <2>5 DEF ServeReturns, Returns, Closed
  <2>6. CASE WatchContext
    BY <2>6 DEF WatchContext
  <2>7. CASE WatchIdle
    BY <2>7 DEF WatchIdle
  <2>8. QED
    BY <1>2, <2>1, <2>2, <2>3, <2>4, <2>5, <2>6, <2>7 DEF Serve
<1>3. CASE ListenFails
  BY <1>3 DEF ListenFails
<1>4. CASE Tick
  BY <1>4 DEF Tick
<1>5. CASE Signal
  BY <1>5 DEF Signal
<1>6. CASE SignalAgain
  BY <1>6 DEF SignalAgain
<1>7. CASE Rival
  BY <1>7 DEF Rival
<1>8. ASSUME NEW r \in Requests, Accept(r) \/ Notify(r) \/ Respond(r)
     PROVE  SocketIsServed'
  <2>1. CASE Accept(r)
    BY <2>1 DEF Accept, RequestGoes
  <2>2. CASE Notify(r)
    BY <2>2 DEF Notify, RequestGoes, IdleTime
  <2>3. CASE Respond(r)
    BY <2>3 DEF Respond, RequestGoes
  <2>4. QED
    BY <1>8, <2>1, <2>2, <2>3
<1>9. CASE UNCHANGED vars
  BY <1>9
<1>10. QED
  BY <1>1, <1>2, <1>3, <1>4, <1>5, <1>6, <1>7, <1>8, <1>9 DEF Next

\* No step removes a file that was there when the proxy looked.
LEMMA FileStep ==
  ASSUME RivalHasSocket, FileCameLater, [Next]_vars
  PROVE  socket = "file" /\ socket' # "file" =>
           rival = "file" /\ serve \in {"remove", "accept"}
<1> USE MaxIdleAssumption DEF RivalHasSocket, FileCameLater, vars, errs, idleVars, place, Running
<1>1. CASE Main
  <2>1. CASE NewServer
    BY <2>1 DEF NewServer, MainGoes
  <2>2. CASE SeesReady
    BY <2>2 DEF SeesReady, MainGoes
  <2>3. CASE SeesCancel
    BY <2>3 DEF SeesCancel, MainGoes
  <2>4. CASE CheckServeErr
    BY <2>4 DEF CheckServeErr, MainGoes
  <2>5. CASE SetProxy
    BY <2>5 DEF SetProxy, MainGoes
  <2>6. CASE SeesDone
    BY <2>6 DEF SeesDone, MainGoes
  <2>7. CASE Exit
    BY <2>7 DEF Exit, Over
  <2>8. QED
    BY <1>1, <2>1, <2>2, <2>3, <2>4, <2>5, <2>6, <2>7 DEF Main
<1>2. CASE Serve
  <2>1. CASE StatSocket \/ RemoveSocket
    BY <2>1 DEF StatSocket, RemoveSocket
  <2>2. CASE Listen
    BY <2>2 DEF Listen, Bound, IdleTime
  <2>3. CASE ListenBlocked
    BY <2>3 DEF ListenBlocked, ListenFails
  <2>4. CASE ServeFails
    BY <2>4 DEF ServeFails
  <2>5. CASE ServeReturns
    BY <2>5 DEF ServeReturns, Returns, Closed
  <2>6. CASE WatchContext
    BY <2>6 DEF WatchContext
  <2>7. CASE WatchIdle
    BY <2>7 DEF WatchIdle
  <2>8. QED
    BY <1>2, <2>1, <2>2, <2>3, <2>4, <2>5, <2>6, <2>7 DEF Serve
<1>3. CASE ListenFails
  BY <1>3 DEF ListenFails
<1>4. CASE Tick
  BY <1>4 DEF Tick
<1>5. CASE Signal
  BY <1>5 DEF Signal
<1>6. CASE SignalAgain
  BY <1>6 DEF SignalAgain
<1>7. CASE Rival
  BY <1>7 DEF Rival
<1>8. ASSUME NEW r \in Requests, Accept(r) \/ Notify(r) \/ Respond(r)
     PROVE  socket = "file" /\ socket' # "file" =>
           rival = "file" /\ serve \in {"remove", "accept"}
  <2>1. CASE Accept(r)
    BY <2>1 DEF Accept, RequestGoes
  <2>2. CASE Notify(r)
    BY <2>2 DEF Notify, RequestGoes, IdleTime
  <2>3. CASE Respond(r)
    BY <2>3 DEF Respond, RequestGoes
  <2>4. QED
    BY <1>8, <2>1, <2>2, <2>3
<1>9. CASE UNCHANGED vars
  BY <1>9
<1>10. QED
  BY <1>1, <1>2, <1>3, <1>4, <1>5, <1>6, <1>7, <1>8, <1>9 DEF Next

-----------------------------------------------------------------------------
(* Theorems                                                                 *)

\* Inv is an invariant of the process.
THEOREM Invariance == Spec => []Inv
<1>1. Init => Inv
  <2>1. Init => TypeOK
    <3>1. Init => timer \in 0..MaxIdle
      BY MaxIdleAssumption DEF Init
    <3>2. QED
      BY <3>1, Zenon DEF Init, TypeOK
  <2>2. Init => SocketIsServed
    BY DEF Init, SocketIsServed
  <2>3. Init => /\ NotBegun /\ ShutdownHasReason /\ RivalHasSocket
                /\ FileCameLater /\ ReadyHasReason /\ PanicNeedsFailedListen
                /\ SignalIsNoError
    BY DEF Init, NotBegun, ShutdownHasReason, RivalHasSocket, FileCameLater,
       ReadyHasReason, PanicNeedsFailedListen, SignalIsNoError
  <2>4. QED
    BY <2>1, <2>2, <2>3, Zenon DEF Inv
<1>2. Inv /\ [Next]_vars => Inv'
  BY TypeStep, NotBegunStep, ReasonStep, RivalStep, FileCameLaterStep, ReadyStep, PanicStep,
     SignalStep, SocketStep DEF Inv
<1>3. QED
  BY <1>1, <1>2, PTL DEF Spec

\* The types; the timer never runs for longer than the idle time.
THEOREM TypeCorrect == Spec => []TypeOK
BY Invariance, PTL DEF Inv

\* RunE panics on the address only where listening has failed, whoever runs when.
THEOREM PanicsOnlyUnheard == Spec => []PanicNeedsFailedListen
BY Invariance, PTL DEF Inv

\* A process that was asked to end reports no error.
THEOREM SignalEndsWell == Spec => []SignalIsNoError
BY Invariance, PTL DEF Inv

\* A socket is there as long as it is served, and no longer, if no other process
\* uses its path.
THEOREM SocketWithServer == Spec => []SocketIsServed
BY Invariance, PTL DEF Inv

\* A file that was at the path when the proxy was started stays; one that came later is
\* lost only between the two calls of listenUNIX, or with the listener.
THEOREM FileStays == Spec => FileIsKept
<1>1. Inv /\ [Next]_vars =>
        [socket = "file" /\ socket' # "file" =>
           rival = "file" /\ serve \in {"remove", "accept"}]_vars
  BY FileStep DEF Inv
<1>2. QED
  BY <1>1, Invariance, PTL DEF Spec, FileIsKept

-----------------------------------------------------------------------------
(* No wakeup is lost, and the goroutines run out of steps: what of          *)
(* CancelEndsProcess and IdleEndsProcess is safety                          *)

\* What the goroutines wait for, read off the guards of their actions.  RunE waits
\* in its select and for done, Serve for a shutdown once it accepts connections, its
\* goroutines for the context and the idle timer.
MainGoesOn ==
  \/ main \in {"create", "checkErr", "publish", "return", "panicking"}
  \/ main = "ready" /\ (readyCh \/ cancelled)
  \/ main \in {"await", "foreground"} /\ serve = "returned"
ServeGoesOn ==
  \/ serve \in {"listen", "remove", "failing"}
  \/ serve = "bind" /\ socket \in {"none", "file", "other"}
  \/ serve = "accept" /\ shutdown
WatchersGoOn ==
  \/ watch = "context" /\ cancelled
  \/ watch = "shutdown"
  \/ idle = "timer" /\ (fired \/ cancelled)

\* Some goroutine of the process has a step to take.
GoesOn == Running /\ (MainGoesOn \/ ServeGoesOn \/ WatchersGoOn)

\* A process whose context is cancelled never has all its goroutines waiting.
CancelledGoesOn == cancelled /\ Running => GoesOn

\* Neither has one that waits for a server with an idle time, but for the timer.
IdleGoesOn == main = "await" /\ MaxIdle > 0 => GoesOn \/ timer > 0

\* Which stages of RunE and of Serve go together.
Stages ==
  /\ main = "create" => serve = "off"
  /\ serve = "off" => main \in {"create", "return"} \cup Over
  /\ main \in {"ready", "checkErr", "publish", "await"} => command = "internal-proxy"
  /\ serve = "bind" => socket \in {"none", "file", "other"}

\* A server that accepts connections is watched: by the goroutine that waits for
\* the context, and, with an idle time, by the one that waits for a timer which
\* runs or has fired, unless the context ended that one.
Watched ==
  serve = "accept" /\ ~shutdown =>
    /\ watch # "off"
    /\ IdleTime > 0 =>
         \/ idle = "timer" /\ (timer > 0 \/ fired)
         \/ idle = "off" /\ cancelled

\* How many steps the goroutines have left at most.
StepsLeft ==
  LET ofMain == CASE main = "create" -> 6
                  [] main = "ready" -> 5
                  [] main = "checkErr" -> 4
                  [] main = "publish" -> 3
                  [] main \in {"await", "foreground", "panicking"} -> 2
                  [] main = "return" -> 1
                  [] OTHER -> 0
      ofServe == CASE serve \in {"off", "listen"} -> 7
                   [] serve = "remove" -> 6
                   [] serve = "bind" -> 5
                   [] serve \in {"accept", "failing"} -> 1
                   [] OTHER -> 0
      ofWatch == CASE watch = "context" -> 2 [] watch = "shutdown" -> 1 [] OTHER -> 0
      ofIdle == IF idle = "timer" THEN 1 ELSE 0
  IN ofMain + ofServe + ofWatch + ofIdle

\* Every step keeps the stages of RunE and Serve together.
LEMMA StagesStep ==
  ASSUME TypeOK, Stages, [Next]_vars
  PROVE  Stages'
<1> USE MaxIdleAssumption DEF TypeOK, Stages, Over, vars, errs, idleVars, place, Running
<1>1. CASE Main
  <2>1. CASE NewServer
    BY <2>1 DEF NewServer, MainGoes
  <2>2. CASE SeesReady
    BY <2>2 DEF SeesReady, MainGoes
  <2>3. CASE SeesCancel
    BY <2>3 DEF SeesCancel, MainGoes
  <2>4. CASE CheckServeErr
    BY <2>4 DEF CheckServeErr, MainGoes
  <2>5. CASE SetProxy
    BY <2>5 DEF SetProxy, MainGoes
  <2>6. CASE SeesDone
    BY <2>6 DEF SeesDone, MainGoes
  <2>7. CASE Exit
    BY <2>7 DEF Exit, Over
  <2>8. QED
    BY <1>1, <2>1, <2>2, <2>3, <2>4, <2>5, <2>6, <2>7 DEF Main
<1>2. CASE Serve
  <2>1. CASE StatSocket \/ RemoveSocket
    BY <2>1 DEF StatSocket, RemoveSocket
  <2>2. CASE Listen
    BY <2>2 DEF Listen, Bound, IdleTime
  <2>3. CASE ListenBlocked
    BY <2>3 DEF ListenBlocked, ListenFails
  <2>4. CASE ServeFails
    BY <2>4 DEF ServeFails
  <2>5. CASE ServeReturns
    BY <2>5 DEF ServeReturns, Returns, Closed
  <2>6. CASE WatchContext
    BY <2>6 DEF WatchContext
  <2>7. CASE WatchIdle
    BY <2>7 DEF WatchIdle
  <2>8. QED
    BY <1>2, <2>1, <2>2, <2>3, <2>4, <2>5, <2>6, <2>7 DEF Serve
<1>3. CASE ListenFails
  BY <1>3 DEF ListenFails
<1>4. CASE Tick
  BY <1>4 DEF Tick
<1>5. CASE Signal
  BY <1>5 DEF Signal
<1>6. CASE SignalAgain
  BY <1>6 DEF SignalAgain
<1>7. CASE Rival
  BY <1>7 DEF Rival
<1>8. ASSUME NEW r \in Requests, Accept(r) \/ Notify(r) \/ Respond(r)
     PROVE  Stages'
  <2>1. CASE Accept(r)
    BY <2>1 DEF Accept, RequestGoes
  <2>2. CASE Notify(r)
    BY <2>2 DEF Notify, RequestGoes, IdleTime
  <2>3. CASE Respond(r)
    BY <2>3 DEF Respond, RequestGoes
  <2>4. QED
    BY <1>8, <2>1, <2>2, <2>3
<1>9. CASE UNCHANGED vars
  BY <1>9
<1>10. QED
  BY <1>1, <1>2, <1>3, <1>4, <1>5, <1>6, <1>7, <1>8, <1>9 DEF Next

\* Every step leaves somebody to wake a server that accepts connections: a goroutine goes
\* only when the other one, or a shutdown, takes its place.
LEMMA WatchedStep ==
  ASSUME TypeOK, Watched, [Next]_vars
  PROVE  Watched'
<1> USE MaxIdleAssumption DEF TypeOK, Watched, Over, IdleTime, vars, errs, idleVars, place, Running
<1>1. CASE Main
  <2>1. CASE NewServer
    BY <2>1 DEF NewServer, MainGoes
  <2>2. CASE SeesReady
    BY <2>2 DEF SeesReady, MainGoes
  <2>3. CASE SeesCancel
    BY <2>3 DEF SeesCancel, MainGoes
  <2>4. CASE CheckServeErr
    BY <2>4 DEF CheckServeErr, MainGoes
  <2>5. CASE SetProxy
    BY <2>5 DEF SetProxy, MainGoes
  <2>6. CASE SeesDone
    BY <2>6 DEF SeesDone, MainGoes
  <2>7. CASE Exit
    BY <2>7 DEF Exit, Over
  <2>8. QED
    BY <1>1, <2>1, <2>2, <2>3, <2>4, <2>5, <2>6, <2>7 DEF Main
<1>2. CASE Serve
  <2>1. CASE StatSocket \/ RemoveSocket
    BY <2>1 DEF StatSocket, RemoveSocket
  <2>2. CASE Listen
    BY <2>2 DEF Listen, Bound, IdleTime
  <2>3. CASE ListenBlocked
    BY <2>3 DEF ListenBlocked, ListenFails
  <2>4. CASE ServeFails
    BY <2>4 DEF ServeFails
  <2>5. CASE ServeReturns
    BY <2>5 DEF ServeReturns, Returns, Closed
  <2>6. CASE WatchContext
    BY <2>6 DEF WatchContext
  <2>7. CASE WatchIdle
    BY <2>7 DEF WatchIdle
  <2>8. QED
    BY <1>2, <2>1, <2>2, <2>3, <2>4, <2>5, <2>6, <2>7 DEF Serve
<1>3. CASE ListenFails
  BY <1>3 DEF ListenFails
<1>4. CASE Tick
  <2>1. timer = 1 => fired'
    BY <1>4, Zenon DEF Tick
  <2>2. timer # 1 => timer' > 0
    BY <1>4 DEF Tick
  <2>3. fired => fired'
    BY <1>4, Zenon DEF Tick
  <2>4. QED
    BY <1>4, <2>1, <2>2, <2>3 DEF Tick
<1>5. CASE Signal
  BY <1>5 DEF Signal
<1>6. CASE SignalAgain
  BY <1>6 DEF SignalAgain
<1>7. CASE Rival
  BY <1>7 DEF Rival
<1>8. ASSUME NEW r \in Requests, Accept(r) \/ Notify(r) \/ Respond(r)
     PROVE  Watched'
  <2>1. CASE Accept(r)
    BY <2>1 DEF Accept, RequestGoes
  <2>2. CASE Notify(r)
    BY <2>2 DEF Notify, RequestGoes, IdleTime
  <2>3. CASE Respond(r)
    BY <2>3 DEF Respond, RequestGoes
  <2>4. QED
    BY <1>8, <2>1, <2>2, <2>3
<1>9. CASE UNCHANGED vars
  BY <1>9
<1>10. QED
  BY <1>1, <1>2, <1>3, <1>4, <1>5, <1>6, <1>7, <1>8, <1>9 DEF Next

\* Every step of a goroutine uses up one of those it has left.
LEMMA OwnStep ==
  ASSUME TypeOK, NotBegun, Main \/ Serve \/ ListenFails
  PROVE  StepsLeft' < StepsLeft
<1> USE MaxIdleAssumption DEF TypeOK, NotBegun, StepsLeft, Over, vars, errs, idleVars, place, Running
<1>1. CASE Main
  <2>1. CASE NewServer
    BY <2>1 DEF NewServer, MainGoes
  <2>2. CASE SeesReady
    BY <2>2 DEF SeesReady, MainGoes
  <2>3. CASE SeesCancel
    BY <2>3 DEF SeesCancel, MainGoes
  <2>4. CASE CheckServeErr
    BY <2>4 DEF CheckServeErr, MainGoes
  <2>5. CASE SetProxy
    BY <2>5 DEF SetProxy, MainGoes
  <2>6. CASE SeesDone
    BY <2>6 DEF SeesDone, MainGoes
  <2>7. CASE Exit
    BY <2>7 DEF Exit, Over
  <2>8. QED
    BY <1>1, <2>1, <2>2, <2>3, <2>4, <2>5, <2>6, <2>7 DEF Main
<1>2. CASE Serve
  <2>1. CASE StatSocket \/ RemoveSocket
    BY <2>1 DEF StatSocket, RemoveSocket
  <2>2. CASE Listen
    BY <2>2 DEF Listen, Bound, IdleTime
  <2>3. CASE ListenBlocked
    BY <2>3 DEF ListenBlocked, ListenFails
  <2>4. CASE ServeFails
    BY <2>4 DEF ServeFails
  <2>5. CASE ServeReturns
    BY <2>5 DEF ServeReturns, Returns, Closed
  <2>6. CASE WatchContext
    BY <2>6 DEF WatchContext
  <2>7. CASE WatchIdle
    BY <2>7 DEF WatchIdle
  <2>8. QED
    BY <1>2, <2>1, <2>2, <2>3, <2>4, <2>5, <2>6, <2>7 DEF Serve
<1>3. CASE ListenFails
  BY <1>3 DEF ListenFails
<1>4. QED
  BY <1>1, <1>2, <1>3

\* Requests, signals, the clock and rivals give a goroutine no steps.
LEMMA OtherStep ==
  ASSUME TypeOK,
         Tick \/ Signal \/ SignalAgain \/ Rival \/ UNCHANGED vars
           \/ \E r \in Requests : Accept(r) \/ Notify(r) \/ Respond(r)
  PROVE  StepsLeft' <= StepsLeft
<1> USE DEF TypeOK, StepsLeft, vars, errs, idleVars, place
<1>1. CASE Tick
  BY <1>1 DEF Tick
<1>2. CASE Signal
  BY <1>2 DEF Signal
<1>3. CASE SignalAgain
  BY <1>3 DEF SignalAgain
<1>4. CASE Rival
  BY <1>4 DEF Rival
<1>5. CASE UNCHANGED vars
  BY <1>5
<1>6. CASE \E r \in Requests : Accept(r) \/ Notify(r) \/ Respond(r)
  BY <1>6 DEF Accept, Notify, Respond, RequestGoes
<1>7. QED
  BY <1>1, <1>2, <1>3, <1>4, <1>5, <1>6

\* The stages and the watchers are invariant, too.
LEMMA StillGoing == Spec => [](Inv /\ Stages /\ Watched)
<1>1. Init => Stages /\ Watched
  BY DEF Init, Stages, Watched, Over
<1>2. Inv /\ Stages /\ Watched /\ [Next]_vars => (Stages /\ Watched)'
  BY StagesStep, WatchedStep DEF Inv
<1>3. QED
  BY <1>1, <1>2, Invariance, PTL DEF Spec

\* After a signal some goroutine can go on, in every state before the end of the
\* process: no interleaving of its start, its end and its requests makes them wait
\* for each other.
THEOREM CancelWakes == Spec => []CancelledGoesOn
<1>1. Inv /\ Stages /\ Watched => CancelledGoesOn
  BY DEF Inv, TypeOK, Stages, Watched, Over, Running, CancelledGoesOn, GoesOn,
     MainGoesOn, ServeGoesOn, WatchersGoOn
<1>2. QED
  BY <1>1, StillGoing, PTL

\* An internal-proxy that serves and has an idle time can go on, or its timer runs:
\* no request resets the timer after the last goroutine that would hear it is gone.
THEOREM IdleWakes == Spec => []IdleGoesOn
<1>1. Inv /\ Stages /\ Watched => IdleGoesOn
  BY MaxIdleAssumption
     DEF Inv, TypeOK, Stages, Watched, Over, Running, IdleGoesOn, IdleTime, GoesOn,
         MainGoesOn, ServeGoesOn, WatchersGoOn
<1>2. QED
  BY <1>1, StillGoing, PTL

\* The goroutines of a process take at most thirteen steps together, however many
\* requests, ticks and signals come: each step leaves fewer, and nothing adds any.
THEOREM StepsRunOut ==
  Spec => /\ StepsLeft = 13
          /\ [][/\ StepsLeft' \in Nat /\ StepsLeft' <= StepsLeft
                /\ Main \/ Serve \/ ListenFails => StepsLeft' < StepsLeft]_vars
<1>1. Init => StepsLeft = 13
  BY DEF Init, StepsLeft
<1>2. Inv /\ [Next]_vars =>
        [/\ StepsLeft' \in Nat /\ StepsLeft' <= StepsLeft
         /\ Main \/ Serve \/ ListenFails => StepsLeft' < StepsLeft]_vars
  <2> SUFFICES ASSUME Inv, Next
               PROVE  /\ StepsLeft' \in Nat /\ StepsLeft' <= StepsLeft
                      /\ Main \/ Serve \/ ListenFails => StepsLeft' < StepsLeft
    OBVIOUS
  <2>1. StepsLeft \in Nat /\ StepsLeft' \in Nat
    BY DEF StepsLeft
  <2>2. CASE Main \/ Serve \/ ListenFails
    BY <2>1, <2>2, OwnStep DEF Inv
  <2>3. CASE ~ (Main \/ Serve \/ ListenFails)
    <3>1. Tick \/ Signal \/ SignalAgain \/ Rival
            \/ \E r \in Requests : Accept(r) \/ Notify(r) \/ Respond(r)
      BY <2>3, Zenon DEF Next
    <3>2. QED
      BY <2>1, <2>3, <3>1, OtherStep DEF Inv
  <2>4. QED
    BY <2>1, <2>2, <2>3
<1>3. QED
  BY <1>1, <1>2, Invariance, PTL DEF Spec
=============================================================================
