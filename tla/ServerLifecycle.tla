--------------------------- MODULE ServerLifecycle ---------------------------
(***************************************************************************)
(* The server program around the server: ServerApp opens the primary       *)
(* screen, opens the listener and the Server, retries each with a timer    *)
(* when it is not available, stops the server when the machine is          *)
(* suspended, starts it again when it is resumed, resets it on request and *)
(* closes everything when it exits.                                        *)
(*                                                                         *)
(* The hard part is closeServer(): it runs the event loop again, inside    *)
(* the handler that called it, until the clients have gone or three        *)
(* seconds have passed, and both are signalled by a QUIT event, the same   *)
(* event that ends the program.  The handlers under way are the frames of  *)
(* `stack'; the innermost is the last.                                     *)
(*                                                                         *)
(* Of the event queue only the events whose order matters here are kept:   *)
(* SERVER_DISCONNECTED of the present server ("gone") and QUIT ("quit").   *)
(* The other events are dispatched by actions that may happen between any  *)
(* two steps, which is every place they can have in the queue.  Timers are *)
(* looked at only when the queue is empty (EventQueue::getEvent).          *)
(***************************************************************************)
EXTENDS Naturals, Sequences, Filtering

CONSTANTS
    Restartable,    \* args().m_restartable
    Faults,         \* what may go wrong when the server is brought up
    Unnoticed,      \* whether it may fail for good where the result is not looked at
    Within,         \* the requests that may arrive while the server closes
    MaxDepth,       \* bound: closes within one another
    MaxMisses,      \* bound: attempts in a row that find no screen
    MaxClients,     \* bound: clients connected or being closed
    MaxQueue        \* bound: queued events at which nothing more is asked for

ASSUME LifecycleConstants ==
    /\ Restartable \in BOOLEAN
    /\ Faults \subseteq {"unavailable", "noscreen", "inuse", "nolisten"}
    /\ Unnoticed \in BOOLEAN
    /\ Within \subseteq {"suspend", "resume", "reset"}
    /\ MaxDepth \in Nat
    /\ MaxMisses \in Nat
    /\ MaxClients \in Nat
    /\ MaxQueue \in Nat \ {0}

VARIABLES
    app,        \* the members of ServerApp and the queue
    stack,      \* handlers waiting in closeServer: why, and its 3 s timer
    phase,      \* "start", "loop", "exited", "failed" (m_bye), "aborted" (an assertion)
    asked       \* exit was requested: by a signal, the GUI or an error

vars == <<app, stack, phase, asked>>

\* EServerState.
Uninitialized == "Uninitialized"
Initializing == "Initializing"
InitializingToStart == "InitializingToStart"
Initialized == "Initialized"
Starting == "Starting"
Started == "Started"

States == {Uninitialized, Initializing, InitializingToStart, Initialized, Starting, Started}

(***************************************************************************)
(* server stands for server_ and m_listener, which are set and reset       *)
(* together; screen for server_screen_ and m_primaryClient; timer for      *)
(* m_timer; onGone for the handler of SERVER_DISCONNECTED of the present   *)
(* server; misses counts the attempts since the last screen.  broken       *)
(* records a failed assertion, or the use of a screen that is not there.   *)
(***************************************************************************)
NewApp ==
    [state |-> Uninitialized, timer |-> FALSE, suspended |-> FALSE, screen |-> FALSE,
     server |-> FALSE, onGone |-> "none", open |-> 0, closing |-> 0,
     misses |-> 0, queue |-> <<>>, broken |-> FALSE]

post(a, e) == [a EXCEPT !.queue = Append(@, e)]

assert(a, cond) == [a EXCEPT !.broken = @ \/ ~cond]

\* What a call that may fail leaves behind, and what it returns.
Result(a, ok) == [app |-> a, ok |-> ok]

-----------------------------------------------------------------------------
(***************************************************************************)
(* Bringing the server up.                                                 *)
(***************************************************************************)
stopRetryTimer(a) == [a EXCEPT !.timer = FALSE]

\* Install a timer to try again, if the program is to be restarted at all.
retryLater(a, state) ==
    IF Restartable
        THEN Result([assert(a, ~a.timer) EXCEPT !.timer = TRUE, !.state = state], TRUE)
        ELSE Result(a, FALSE)

\* A new screen replaces the buffer of the event queue and discards its events.
openScreen(a) ==
    [a EXCEPT !.screen = TRUE, !.queue = <<>>, !.misses = 0, !.state = Initialized]

unavailable(a) == "unavailable" \in Faults /\ a.misses < MaxMisses

initServer(a) ==
    IF a.state # Uninitialized
        THEN {Result(a, TRUE)}
        ELSE {Result(openScreen(a), TRUE)}
             \cup (IF unavailable(a)
                      THEN {retryLater([a EXCEPT !.misses = @ + 1], Initializing)} ELSE {})
             \cup {Result(a, FALSE) : f \in Faults \cap {"noscreen"}}

\* The listener and the server are opened, or the address is in use, or it fails.
openServer(a) ==
    {Result([assert(a, a.screen) EXCEPT !.server = TRUE, !.onGone = "status", !.state = Started], TRUE)}
    \cup {retryLater(a, Starting) : f \in Faults \cap {"inuse"}}
    \cup {Result(a, FALSE) : f \in Faults \cap {"nolisten"}}

\* Mutant: a server that has to wait for its screen does not remember to start.
startServerForgets(a) ==
    IF a.state \in {Starting, Started}
        THEN {Result(a, TRUE)}
        ELSE UNION { IF ~r.ok \/ r.app.state = Initializing THEN {r}
                     ELSE openServer(assert(r.app, r.app.state = Initialized))
                     : r \in initServer(a) }

startServer(a) ==
    IF a.state \in {Starting, Started}
        THEN {Result(a, TRUE)}
        ELSE UNION { IF ~r.ok THEN {r}
                     ELSE IF r.app.state = Initializing
                         THEN {Result([r.app EXCEPT !.state = InitializingToStart], TRUE)}
                         ELSE openServer(assert(r.app, r.app.state = Initialized))
                     : r \in initServer(a) }

-----------------------------------------------------------------------------
(***************************************************************************)
(* Taking it down.                                                         *)
(***************************************************************************)
\* Mutant: the clients told to close are still counted as open.
disconnectKeepsOpen(a) ==
    IF a.open + a.closing > 0 THEN [a EXCEPT !.closing = @ + a.open] ELSE post(a, "gone")

\* Server::disconnect: tell the clients to go, or report at once that none is there.
disconnect(a) ==
    IF a.open + a.closing > 0
        THEN [a EXCEPT !.closing = @ + a.open, !.open = 0]
        ELSE post(a, "gone")

\* closeServer up to its event loop: SERVER_DISCONNECTED now ends that loop.
closeServer(a) == [disconnect(a) EXCEPT !.onGone = "quit"]

\* Mutant: m_serverState is not set back.
dropServerStale(a) ==
    [a EXCEPT !.server = FALSE, !.onGone = "none", !.open = 0, !.closing = 0,
              !.queue = Kept(@, {"quit"})]

\* The end of stopServer: the handlers, the listener and the server are removed, and
\* with them the events of that server.
dropServer(a) ==
    [a EXCEPT !.server = FALSE, !.onGone = "none", !.open = 0, !.closing = 0,
              !.queue = Kept(@, {"quit"}), !.state = Initialized]

\* Mutant: the retry timer of kStarting is left armed.
stopIdleKeepsTimer(a) ==
    LET b == IF a.state = Starting THEN [a EXCEPT !.state = Initialized] ELSE a
    IN  assert(b, ~b.server)

\* stopServer where there is no server to close.
stopIdle(a) ==
    LET b == IF a.state = Starting THEN [stopRetryTimer(a) EXCEPT !.state = Initialized] ELSE a
    IN  assert(b, ~b.server)

\* The screen takes its event buffer with it, and the events in it.
closeScreen(a) == [a EXCEPT !.screen = FALSE, !.queue = <<>>, !.state = Uninitialized]

\* Mutant: a server that is still waiting for its screen is not cleaned up.
cleanupServerOpenOnly(a) ==
    LET b == IF a.state = Initialized THEN closeScreen(a) ELSE a
    IN  assert(b, ~b.screen /\ b.state = Uninitialized)

\* cleanupServer after its stopServer.
cleanupServer(a) ==
    LET b == CASE a.state = Initialized -> closeScreen(a)
               [] a.state \in {Initializing, InitializingToStart} ->
                      [stopRetryTimer(a) EXCEPT !.state = Uninitialized]
               [] OTHER -> a
    IN  assert(b, ~b.screen /\ b.state = Uninitialized)

\* The results of startServer where the caller ignores them.
started(a) == {r.app : r \in {q \in startServer(a) : q.ok \/ Unnoticed}}

\* Mutant: mainLoop stops the server and does not clean up.
afterStopNoCleanup(a, why) ==
    CASE why = "suspend" -> {[a EXCEPT !.suspended = TRUE]}
      [] why = "reset" -> started(cleanupServer(stopIdle(a)))
      [] why = "exit" -> {a}

\* What the handler that stopped the server does then.
afterStop(a, why) ==
    CASE why = "suspend" -> {[a EXCEPT !.suspended = TRUE]}
      [] why = "reset" -> started(cleanupServer(stopIdle(a)))
      [] why = "exit" -> {cleanupServer(a)}

\* A failed assertion ends the program; leaving the outermost handler of an exit too.
Settle(a, why) ==
    /\ app' = a
    /\ phase' = IF a.broken THEN "aborted" ELSE IF why = "exit" THEN "exited" ELSE phase

\* stopServer called by the handler `why': either a frame waits for the clients or the
\* handler goes on.
Stop(a, why) ==
    \/ /\ a.state = Started
       /\ app' = closeServer(a)
       /\ stack' = Append(stack, [why |-> why, timer |-> TRUE])
       /\ UNCHANGED phase
    \/ /\ a.state # Started
       /\ \E b \in afterStop(stopIdle(a), why) : Settle(b, why)
       /\ UNCHANGED stack

-----------------------------------------------------------------------------
Init ==
    /\ app = NewApp
    /\ stack = <<>>
    /\ phase = "start"
    /\ asked = FALSE

Running == phase = "loop"

\* A request the user or the system makes: not without bound, and while the server is
\* closing only if `Within' says so.
MayAsk(request) ==
    /\ Running
    /\ Len(app.queue) < MaxQueue
    /\ stack = <<>> \/ (request \in Within /\ Len(stack) < MaxDepth)

\* startNode: a failure ends the program at once (m_bye).
StartNode ==
    /\ phase = "start"
    /\ \E r \in startServer(app) :
          /\ app' = r.app
          /\ phase' = IF r.app.broken THEN "aborted" ELSE IF r.ok THEN "loop" ELSE "failed"
    /\ UNCHANGED <<stack, asked>>

\* The screen reports that the machine goes to sleep.
HandleSuspend ==
    /\ MayAsk("suspend")
    /\ app.screen
    /\ ~app.suspended
    /\ Stop(app, "suspend")
    /\ UNCHANGED asked

\* The screen reports that the machine woke up.  The result of startServer is ignored.
HandleResume ==
    /\ MayAsk("resume")
    /\ app.screen
    /\ app.suspended
    /\ \E a \in started(app) : Settle([a EXCEPT !.suspended = FALSE], "resume")
    /\ UNCHANGED <<stack, asked>>

HandleReset ==
    /\ MayAsk("reset")
    /\ Stop(app, "reset")
    /\ UNCHANGED asked

\* handle_retry: the one-shot timer of initServer or startServer.
retried(a) ==
    LET b == stopRetryTimer(assert(a, a.timer))
        quitUnless(results) == {IF r.ok THEN r.app ELSE post(r.app, "quit") : r \in results}
    IN  CASE a.state = Initializing ->
               quitUnless(initServer([b EXCEPT !.state = Uninitialized]))
          [] a.state = InitializingToStart ->
               quitUnless(UNION {IF r.ok /\ r.app.state = Initialized THEN startServer(r.app) ELSE {r}
                                 : r \in initServer([b EXCEPT !.state = Uninitialized])})
          [] a.state = Starting -> quitUnless(startServer([b EXCEPT !.state = Initialized]))
          [] OTHER -> {assert(b, FALSE)}

HandleRetry ==
    /\ Running
    /\ app.queue = <<>>
    /\ app.timer
    /\ \E a \in retried(app) :
          /\ Settle(a, "retry")
          /\ asked' = (asked \/ a.queue # <<>>)
    /\ UNCHANGED stack

\* Mutant: the timer has no handler.
HandleCloseTimeoutSilent ==
    /\ Running
    /\ app.queue = <<>>
    /\ \E i \in DOMAIN stack :
          /\ stack[i].timer
          /\ stack' = [stack EXCEPT ![i].timer = FALSE]
    /\ UNCHANGED <<app, phase, asked>>

\* The three seconds of a closeServer are over.
HandleCloseTimeout ==
    /\ Running
    /\ app.queue = <<>>
    /\ \E i \in DOMAIN stack :
          /\ stack[i].timer
          /\ stack' = [stack EXCEPT ![i].timer = FALSE]
    /\ app' = post(app, "quit")
    /\ UNCHANGED <<phase, asked>>

-----------------------------------------------------------------------------
(***************************************************************************)
(* The queue.                                                              *)
(***************************************************************************)
Popped == [app EXCEPT !.queue = Tail(@)]

Next1(e) == Running /\ app.queue # <<>> /\ Head(app.queue) = e

\* SERVER_DISCONNECTED: handle_no_clients, or handle_clients_disconnected while closing.
DispatchGone ==
    /\ Next1("gone")
    /\ app' = IF app.onGone = "quit" THEN post(Popped, "quit") ELSE Popped
    /\ UNCHANGED <<stack, phase, asked>>

\* QUIT ends the innermost event loop: closeServer returns and stopServer finishes.
FinishStop ==
    /\ Next1("quit")
    /\ stack # <<>>
    /\ LET why == stack[Len(stack)].why
       IN  \E b \in afterStop(dropServer(Popped), why) : Settle(b, why)
    /\ stack' = SubSeq(stack, 1, Len(stack) - 1)
    /\ UNCHANGED asked

\* QUIT ends the loop of mainLoop, which cleans up.
ExitMainLoop ==
    /\ Next1("quit")
    /\ stack = <<>>
    /\ Stop(Popped, "exit")
    /\ UNCHANGED asked

Dispatch == DispatchGone \/ FinishStop \/ ExitMainLoop

-----------------------------------------------------------------------------
(***************************************************************************)
(* The rest of the system.                                                 *)
(***************************************************************************)
\* EventQueue's interrupt handler, the task bar, or kIpcShutdown from the GUI.
RequestExit ==
    /\ Running
    /\ Len(app.queue) < MaxQueue
    /\ ~asked
    /\ asked' = TRUE
    /\ app' = post(app, "quit")
    /\ UNCHANGED <<stack, phase>>

\* The connection to the display is lost: its buffer goes, and handle_screen_error quits.
ScreenError ==
    /\ Running
    /\ app.screen
    /\ ~asked
    /\ asked' = TRUE
    /\ app' = post([app EXCEPT !.queue = <<>>], "quit")
    /\ UNCHANGED <<stack, phase>>

\* handle_client_connected: the listener has a client and the server adopts it.
HandleClientConnected ==
    /\ Running
    /\ app.server
    /\ app.open + app.closing < MaxClients
    /\ app' = [app EXCEPT !.open = @ + 1]
    /\ UNCHANGED <<stack, phase, asked>>

\* A client has gone; the last one is reported.
reportLast(a) == IF a.open + a.closing = 0 THEN post(a, "gone") ELSE a

HandleClientGone ==
    /\ Running
    /\ app.server
    /\ Len(app.queue) < MaxQueue
    /\ \/ app.open > 0 /\ app' = reportLast([app EXCEPT !.open = @ - 1])
       \/ app.closing > 0 /\ app' = reportLast([app EXCEPT !.closing = @ - 1])
    /\ UNCHANGED <<stack, phase, asked>>

\* The handlers of the next two are removed when the main loop has ended.
Exiting == \E i \in DOMAIN stack : stack[i].why = "exit"

HandleForceReconnect ==
    /\ Running
    /\ ~Exiting
    /\ Len(app.queue) < MaxQueue
    /\ app.server
    /\ app' = disconnect(app)
    /\ UNCHANGED <<stack, phase, asked>>

\* reload_config: the clients the new configuration does not name are closed.
HandleReloadConfig ==
    /\ Running
    /\ ~Exiting
    /\ app.server
    /\ \E n \in 1 .. app.open : app' = [app EXCEPT !.open = @ - n, !.closing = @ + n]
    /\ UNCHANGED <<stack, phase, asked>>

\* The program has ended.
Ended == phase \in {"exited", "failed", "aborted"} /\ UNCHANGED vars

Next ==
    \/ StartNode
    \/ HandleSuspend
    \/ HandleResume
    \/ HandleReset
    \/ HandleRetry
    \/ HandleCloseTimeout
    \/ Dispatch
    \/ RequestExit
    \/ ScreenError
    \/ HandleClientConnected
    \/ HandleClientGone
    \/ HandleForceReconnect
    \/ HandleReloadConfig
    \/ Ended

(***************************************************************************)
(* Timers expire and the loop goes on.  The screen and the address become  *)
(* available in the end: of infinitely many attempts one succeeds.         *)
(***************************************************************************)
Fairness ==
    /\ WF_vars(StartNode)
    /\ WF_vars(Dispatch)
    /\ WF_vars(HandleCloseTimeout)
    /\ WF_vars(HandleRetry)
    /\ SF_vars(HandleRetry /\ ~app'.timer)
    /\ SF_vars(HandleRetry /\ app'.server)

Spec == Init /\ [][Next]_vars /\ Fairness

-----------------------------------------------------------------------------
Apps ==
    [state: States, timer: BOOLEAN, suspended: BOOLEAN, screen: BOOLEAN, server: BOOLEAN,
     onGone: {"none", "status", "quit"}, open: 0 .. MaxClients, closing: 0 .. MaxClients,
     misses: 0 .. MaxMisses, queue: Seq({"gone", "quit"}), broken: BOOLEAN]

\* The state of the application has its shape (ServerApp.h).
TypeOK ==
    /\ app \in Apps
    /\ stack \in Seq([why: {"suspend", "reset", "exit"}, timer: BOOLEAN])
    /\ phase \in {"start", "loop", "exited", "failed", "aborted"}
    /\ asked \in BOOLEAN

\* A retry timer is armed exactly while the state says that something is being retried:
\* whichever handler stops, resets or suspends the server, no timer is left behind to
\* find a state handle_retry does not expect, and no state waits for a timer that is gone.
TimerMatchesState ==
    phase # "aborted" => (app.timer <=> app.state \in {Initializing, InitializingToStart, Starting})

\* The server exists exactly in kStarted and the screen from kInitialized on, also after
\* a stop that was itself interrupted: startServer never opens a server on a deleted
\* primary client and cleanupServer never leaves one.
PartsMatchState ==
    phase # "aborted" =>
        /\ app.server <=> app.state = Started
        /\ app.screen <=> app.state \in {Initialized, Starting, Started}

\* No assertion of stopServer, cleanupServer, initServer, startServer or handle_retry fails.
AssertsHold == phase # "aborted"

\* A program that ended in an orderly way holds no server, screen or timer, and no handler
\* is still waiting in closeServer.
ExitClean ==
    phase = "exited" => /\ ~app.server /\ ~app.screen /\ ~app.timer
                        /\ stack = <<>>

(* The state of the application, its timer and its parts agree at every step, to
   the last (see the parts).  About ServerApp. *)
StateMatches == TypeOK /\ TimerMatchesState /\ PartsMatchState /\ AssertsHold /\ ExitClean

\* "Exit has been requested" (EventTypes.h, QUIT): outside closeServer's own loop a QUIT
\* is queued only if somebody asked the program to exit.
QuitRequested ==
    Running /\ stack = <<>> /\ (\E i \in DOMAIN app.queue : app.queue[i] = "quit") => asked

\* Every closeServer ends: the clients go or the three seconds pass.  This is what
\* closeServer says of its wait.
EveryCloseReturns == (stack # <<>>) ~> (stack = <<>>)

\* If no close begins within another, every closeServer ends, whoever connects, goes,
\* reloads the configuration, loses the display or asks to exit meanwhile.  A second
\* closeServer within the first may take the one QUIT that both wait for.
CloseReturns == [](Len(stack) <= 1) => EveryCloseReturns

\* A program that is up and not suspended serves: it has a server or gets one, however
\* often the address was in use, unless it is suspended or ends.  This is what the
\* option --restart promises.
EveryAwakeServes ==
    (phase = "loop" /\ ~app.suspended) ~> (app.server \/ app.suspended \/ phase # "loop")

\* If the screen is never missed twice in a row, a program that is up and not suspended
\* serves.  Of a second miss handle_retry does not remember that it was to start the
\* server.
AwakeServes == [](app.misses <= 1) => EveryAwakeServes
=============================================================================
