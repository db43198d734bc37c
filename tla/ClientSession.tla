---------------------------- MODULE ClientSession ----------------------------
(***************************************************************************)
(* The client program: ClientApp, which opens the screen and schedules     *)
(* connection attempts; Client, which makes them, says hello and ends the  *)
(* session; ServerProxy, which parses what the server sends and watches    *)
(* its heartbeat; and PacketStreamFilter between them and the socket,      *)
(* which announces input only when it goes from having no whole message to *)
(* having one.                                                             *)
(*                                                                         *)
(* All of it runs in one thread.  handle_data reads message after message  *)
(* while `reading' holds, and nothing else of the program runs; the        *)
(* network goes on meanwhile.  The queue holds the events whose order      *)
(* matters: what Client tells ClientApp, and the events of its own stream. *)
(* Timers are looked at when the queue is empty.                           *)
(*                                                                         *)
(* The server keeps to the protocol, but the network and the server may    *)
(* fail, MaxFaults times in all: an attempt is refused, the connection is  *)
(* reset, the server hangs up, falls silent (perhaps in the middle of a    *)
(* message) or sends something it should not.                              *)
(***************************************************************************)
EXTENDS Naturals, Sequences, Filtering

CONSTANTS
    Restartable,    \* args().m_restartable
    Heartbeats,     \* the heartbeat options the server may set: on, off or both
    Unnoticed,      \* whether the screen may fail for good in a retry
    Secure,         \* whether TLS may fail with SOCKET_STOP_RETRY
    MaxFaults,      \* bound: failures of network and server
    MaxRestarts,    \* bound: restart timers and events that lead to one
    MaxWire         \* bound: messages on their way

ASSUME SessionConstants ==
    /\ {Restartable, Unnoticed, Secure} \subseteq BOOLEAN
    /\ Heartbeats \subseteq BOOLEAN
    /\ {MaxFaults, MaxRestarts, MaxWire} \subseteq Nat

VARIABLES
    prog,       \* the client program
    net         \* the server's side of the connection, the wire, faults so far

vars == <<prog, net>>

\* "part" is the beginning of a message whose rest never comes.
Messages == {"hello", "query", "options", "ack", "alive", "enter", "leave", "close", "junk", "part"}

\* What ClientApp is told when a connection ends.
Ends == {"failed", "disconnected"}

(***************************************************************************)
(* stream is m_stream and m_server: none, connecting, waiting for the      *)
(* hello, or a session with a ServerProxy.  timer is m_timer, alarm the    *)
(* timer of the proxy's heartbeat, handshake its parser.  screen is the    *)
(* Screen: absent, disabled, enabled or entered.  informed: the server was *)
(* sent our shape.                                                         *)
(***************************************************************************)
NewProg ==
    [phase |-> "start", restarts |-> 0, queue |-> <<>>, reading |-> FALSE,
     stream |-> "none", timer |-> FALSE, alarm |-> FALSE, handshake |-> TRUE, informed |-> FALSE,
     ready |-> FALSE, screen |-> "absent", active |-> FALSE,
     suspended |-> FALSE, onResume |-> FALSE, noRetry |-> FALSE,
     inbox |-> <<>>, partial |-> FALSE, shut |-> FALSE]

\* linked: the connection is made, whatever became of the server since.
NoPeer == [stage |-> "none", linked |-> FALSE, entered |-> FALSE, wire |-> <<>>]

Init ==
    /\ prog = NewProg
    /\ net = [peer |-> NoPeer, faults |-> 0]

Idle == prog.phase = "loop" /\ ~prog.reading

post(p, e) == [p EXCEPT !.queue = Append(@, e)]

\* A step of the program to `p', with `wire' still on its way and `n' more faults: a
\* connection that is gone takes the server's side with it.
Step(p, wire, n) ==
    /\ prog' = p
    /\ net' = [peer |-> IF p.stream = "none" THEN NoPeer
                        ELSE IF prog.stream = "none" THEN [NoPeer EXCEPT !.stage = "connect"]
                        ELSE [net.peer EXCEPT !.wire = wire],
               faults |-> net.faults + n]

Do(p) == Step(p, net.peer.wire, 0)

MayFail == net.faults < MaxFaults

-----------------------------------------------------------------------------
(***************************************************************************)
(* Client: the ends of a connection.                                       *)
(***************************************************************************)
cleanupTimer(p) == [p EXCEPT !.timer = FALSE]

\* Mutant: the screen is left enabled.
cleanupScreenOn(p) ==
    IF p.stream # "session" THEN p
    ELSE [p EXCEPT !.alarm = FALSE, !.ready = FALSE, !.handshake = TRUE,
                   !.informed = FALSE, !.reading = FALSE]

\* The proxy goes with its alarm; an enabled screen is left and disabled.
cleanupScreen(p) ==
    IF p.stream # "session" THEN p
    ELSE [p EXCEPT !.alarm = FALSE, !.ready = FALSE, !.screen = IF p.ready THEN "off" ELSE @,
                   !.handshake = TRUE, !.informed = FALSE, !.reading = FALSE]

\* The stream is deleted with its buffer; its events find no handler any more.
cleanupStream(p) ==
    [p EXCEPT !.stream = "none", !.inbox = <<>>, !.partial = FALSE, !.shut = FALSE,
              !.queue = Kept(@, Ends)]

\* disconnect(msg): `e' is what ClientApp is told.
disconnect(p, e) ==
    post(cleanupStream(cleanupScreen(cleanupTimer([p EXCEPT !.onResume = FALSE]))), e)

\* handle_disconnected and handle_output_error.
disconnected(p) == post(cleanupStream(cleanupScreen(cleanupTimer(p))), "disconnected")

\* A connection that never became a session.
failed(p) == post(cleanupStream(cleanupTimer(p)), "failed")

-----------------------------------------------------------------------------
(***************************************************************************)
(* Connecting.                                                             *)
(***************************************************************************)
\* Mutant: a suspended client connects.
connectAsleep(p) ==
    IF p.stream # "none" THEN p ELSE [p EXCEPT !.stream = "connecting", !.timer = TRUE]

\* Mutant: the attempt has no timer.
connectPatiently(p) ==
    IF p.stream # "none" THEN p
    ELSE IF p.suspended THEN [p EXCEPT !.onResume = TRUE]
    ELSE [p EXCEPT !.stream = "connecting"]

\* Client::connect.
connect(p) ==
    IF p.stream # "none" THEN p
    ELSE IF p.suspended THEN [p EXCEPT !.onResume = TRUE]
    ELSE [p EXCEPT !.stream = "connecting", !.timer = TRUE]

\* It may also fail at once: no address, no socket.
Connect(p) ==
    \/ Do(connect(p))
    \/ /\ connect(p).stream # p.stream
       /\ MayFail
       /\ Step(post(p, "failed"), <<>>, 1)

\* ClientApp::startClient: the screen is there or opens; or it is unavailable and tried
\* again later; or it cannot be opened, which only startNode looks at.
StartClient(p) ==
    \/ Connect([p EXCEPT !.phase = "loop", !.screen = IF @ = "absent" THEN "off" ELSE @])
    \/ /\ p.screen = "absent"
       /\ MayFail
       /\ Restartable
       /\ Step([p EXCEPT !.phase = "loop", !.restarts = @ + 1], <<>>, 1)
    \/ /\ p.screen = "absent"
       /\ MayFail
       /\ p.phase = "start" \/ Unnoticed
       /\ Step([p EXCEPT !.phase = IF @ = "start" THEN "over" ELSE @], <<>>, 1)

StartNode == prog.phase = "start" /\ StartClient(prog)

\* Mutant: the timer is not deleted.
HandleClientRestartAgain ==
    /\ Idle /\ prog.queue = <<>>
    /\ prog.restarts > 0
    /\ StartClient(prog)

HandleClientRestart ==
    /\ Idle /\ prog.queue = <<>>
    /\ prog.restarts > 0
    /\ StartClient([prog EXCEPT !.restarts = @ - 1])

\* Mutant: the event of a secure connection has no handler.
HandleConnectedUnheard ==
    /\ Idle
    /\ prog.stream = "connecting" /\ net.peer.linked
    /\ Do(prog)

\* The socket is connected, with TLS securely: from now on input has a handler.
HandleConnected ==
    /\ Idle
    /\ prog.stream = "connecting" /\ net.peer.linked
    /\ Do([prog EXCEPT !.stream = "hello"])

HandleConnectionFailed ==
    /\ Idle
    /\ prog.stream = "connecting" /\ net.peer.stage = "refused"
    /\ Do(failed(prog))

\* Fifteen seconds without a hello, and nine without a heartbeat: the server has failed.
Mute == net.peer.stage \in {"silent", "closed"}

HandleConnectTimeout ==
    /\ Idle /\ prog.queue = <<>>
    /\ prog.timer /\ Mute
    /\ Do(failed(prog))

\* Mutant: the alarm is set again instead.
HandleKeepAliveAlarmAgain ==
    /\ Idle /\ prog.queue = <<>>
    /\ prog.alarm /\ Mute
    /\ Do(prog)

HandleKeepAliveAlarm ==
    /\ Idle /\ prog.queue = <<>>
    /\ prog.alarm /\ Mute
    /\ Do(disconnect(prog, "failed"))

-----------------------------------------------------------------------------
(***************************************************************************)
(* PacketStreamFilter.  Idle states only: the program reads the buffer in  *)
(* the thread that fills it.                                               *)
(***************************************************************************)
Ready(p) == p.inbox # <<>>

\* readMore: whatever has arrived is buffered.
readMore(p, n) ==
    LET new == SubSeq(net.peer.wire, 1, n)
    IN  [p EXCEPT !.inbox = @ \o Kept(new, Messages \ {"part"}),
                  !.partial = @ \/ \E i \in 1 .. n : new[i] = "part"]

\* read: the next message is taken.  If the input has ended meanwhile, the end is to be
\* announced after the last whole message; but the input can only end behind messages
\* that wait with the hello, to which this server adds none that leaves the session, and
\* with it the stream the event would be for, alive.
taken(p) == [p EXCEPT !.inbox = Tail(@)]

\* Mutant: the messages behind the hello get no event.
helloOnly(p) ==
    IF Head(p.inbox) # "hello" THEN failed(p)
    ELSE [taken(p) EXCEPT !.stream = "session", !.timer = FALSE, !.alarm = TRUE]

\* Client::handle_hello reads one message.  What follows it gets an event of its own.
hello(p) ==
    LET q == [taken(p) EXCEPT !.stream = "session", !.timer = FALSE, !.alarm = TRUE]
    IN  IF Head(p.inbox) # "hello" THEN failed(p)
        ELSE IF Ready(q) THEN post(q, "input") ELSE q

\* The handler of STREAM_INPUT_READY: handle_hello, and once there is a proxy handle_data.
onInput(p) == IF p.stream = "hello" THEN hello(p) ELSE [p EXCEPT !.reading = TRUE]

\* The event is passed on only if there was no whole message before and there is one now.
FilterInput ==
    /\ Idle
    /\ prog.stream \in {"hello", "session"}
    /\ \E n \in 1 .. Len(net.peer.wire) :
          LET p == readMore(prog, n)
          IN  Step(IF Ready(p) # Ready(prog) THEN onInput(p) ELSE p,
                   SubSeq(net.peer.wire, n + 1, Len(net.peer.wire)), 0)

\* STREAM_INPUT_SHUTDOWN of the socket is kept back while a message is in the buffer.
FilterShutdown ==
    /\ Idle
    /\ prog.stream \in {"hello", "session"}
    /\ net.peer.stage = "closed" /\ net.peer.wire = <<>>
    /\ ~prog.shut
    /\ LET p == [prog EXCEPT !.shut = TRUE]
       IN  Do(IF Ready(p) \/ p.partial THEN p ELSE disconnected(p))

\* The connection is reset: SOCKET_DISCONNECTED or STREAM_OUTPUT_ERROR.
HandleDisconnected ==
    /\ Idle
    /\ prog.stream \in {"hello", "session"}
    /\ Mute
    /\ Do(disconnected(prog))

\* SecureSocket::disconnect after a fatal error: handle_stop_retry changes the Client's
\* own copy of the arguments, which nothing reads, and then the connection ends.
HandleStopRetry ==
    /\ Idle /\ Secure
    /\ prog.stream \in {"hello", "session"}
    /\ MayFail
    /\ Step(disconnected([prog EXCEPT !.noRetry = TRUE]), <<>>, 1)

-----------------------------------------------------------------------------
(***************************************************************************)
(* ServerProxy::handle_data, one message at a time.                        *)
(***************************************************************************)
\* setKeepAliveRate and resetKeepAliveAlarm: the option may turn the alarm off.
setOptions(p, on) ==
    IF p.handshake
        THEN [p EXCEPT !.alarm = on, !.handshake = FALSE, !.ready = TRUE, !.screen = "on"]
        ELSE [p EXCEPT !.alarm = on]

\* What a message does in the handshake, and after it.  Enter and leave belong to a
\* session; in the handshake they are unknown.
received(p, m, on) ==
    CASE m = "query" -> [p EXCEPT !.informed = TRUE]
      [] m = "options" -> setOptions(p, on)
      [] m \in {"ack", "alive"} -> p
      [] m = "enter" /\ ~p.handshake -> [p EXCEPT !.active = TRUE, !.screen = "entered"]
      [] m = "leave" /\ ~p.handshake -> [p EXCEPT !.active = FALSE, !.screen = "on"]
      [] m = "close" -> disconnect(p, "disconnected")
      [] OTHER -> disconnect(p, "failed")

Reading == prog.phase = "loop" /\ prog.reading

ReadMessage ==
    /\ Reading
    /\ Ready(prog)
    /\ \E on \in Heartbeats : Do(received(taken(prog), Head(prog.inbox), on))

\* Nothing is left: the handler returns.
EndOfData ==
    /\ Reading
    /\ ~Ready(prog)
    /\ Do([prog EXCEPT !.reading = FALSE])

-----------------------------------------------------------------------------
(***************************************************************************)
(* The queue, sleep and the end of the program.                            *)
(***************************************************************************)
First(e) == Idle /\ prog.queue # <<>> /\ Head(prog.queue) = e

popped(p) == [p EXCEPT !.queue = Tail(@)]

\* Mutant: nothing is scheduled while the machine sleeps.
restartOrQuitLazily(p) ==
    IF Restartable THEN (IF p.suspended THEN p ELSE [p EXCEPT !.restarts = @ + 1])
    ELSE [p EXCEPT !.phase = "over"]

\* ClientApp::handle_client_failed and handle_client_disconnected.
restartOrQuit(p) ==
    IF Restartable THEN [p EXCEPT !.restarts = @ + 1] ELSE [p EXCEPT !.phase = "over"]

DispatchFailed == First("failed") /\ Do(restartOrQuit(popped(prog)))

DispatchDisconnected == First("disconnected") /\ Do(restartOrQuit(popped(prog)))

\* The event handle_hello queued for the messages behind the hello.
DispatchInput ==
    /\ First("input")
    /\ Do(onInput(popped(prog)))

HandleSuspend ==
    /\ Idle
    /\ prog.screen # "absent"
    /\ prog.restarts + Len(prog.queue) < MaxRestarts
    /\ Do([disconnect([prog EXCEPT !.suspended = TRUE], "disconnected")
             EXCEPT !.onResume = (prog.stream = "session")])

HandleResume ==
    /\ Idle
    /\ prog.screen # "absent"
    /\ LET p == [prog EXCEPT !.suspended = FALSE]
       IN  IF p.onResume THEN Connect([p EXCEPT !.onResume = FALSE]) ELSE Do(p)

\* The main loop ends; stopClient deletes the client and the screen.
Exit ==
    /\ Idle
    /\ Do([NewProg EXCEPT !.phase = "over"])

-----------------------------------------------------------------------------
(***************************************************************************)
(* The server.                                                             *)
(***************************************************************************)
Peer(stage, ms) ==
    /\ prog.phase = "loop"
    /\ Len(net.peer.wire) + Len(ms) <= MaxWire
    /\ net' = [net EXCEPT !.peer.stage = stage, !.peer.wire = @ \o ms]
    /\ UNCHANGED prog

PeerAccepts ==
    /\ net.peer.stage = "connect"
    /\ net' = [net EXCEPT !.peer.stage = "accepted", !.peer.linked = TRUE]
    /\ UNCHANGED prog

PeerGreets == net.peer.stage = "accepted" /\ Peer("greeted", <<"hello">>)

\* After the answer to the hello the server asks for the shape; with it, it accepts.
PeerQueries ==
    /\ net.peer.stage = "greeted" /\ prog.stream = "session"
    /\ Peer("asked", <<"query">>)

PeerAdmits ==
    /\ net.peer.stage = "asked" /\ prog.informed
    /\ Peer("up", <<"ack", "options">>)

\* In a session: the cursor comes and goes, the heartbeat, new options, the farewell.
PeerTalks ==
    /\ net.peer.stage = "up"
    /\ \/ Peer("up", <<"alive">>)
       \/ Peer("up", <<"options">>)
       \/ Peer("bye", <<"close">>)

PeerMovesCursor ==
    /\ net.peer.stage = "up"
    /\ Len(net.peer.wire) < MaxWire
    /\ net' = [net EXCEPT !.peer.entered = ~@,
                          !.peer.wire = Append(@, IF net.peer.entered THEN "leave" ELSE "enter")]
    /\ UNCHANGED prog

\* The connection is refused, ends, or falls silent; the last words may be cut short, or
\* be nothing the client knows (a refusal, another protocol).
PeerFails ==
    /\ MayFail
    /\ prog.phase = "loop"
    /\ \/ /\ net.peer.stage = "connect"
          /\ \E s \in {"refused", "silent"} : net' = [peer |-> [net.peer EXCEPT !.stage = s],
                                                      faults |-> net.faults + 1]
       \/ /\ net.peer.stage \in {"accepted", "greeted", "asked", "up", "bye"}
          /\ Len(net.peer.wire) < MaxWire
          /\ \E s \in {"closed", "silent"}, last \in {<<>>, <<"part">>, <<"junk">>} :
                net' = [peer |-> [net.peer EXCEPT !.stage = s, !.wire = @ \o last],
                        faults |-> net.faults + 1]
    /\ UNCHANGED prog

\* The program has ended.
Over == prog.phase = "over" /\ UNCHANGED vars

Next ==
    \/ StartNode
    \/ HandleClientRestart
    \/ HandleConnected
    \/ HandleConnectionFailed
    \/ HandleConnectTimeout
    \/ HandleKeepAliveAlarm
    \/ FilterInput
    \/ FilterShutdown
    \/ HandleDisconnected
    \/ HandleStopRetry
    \/ ReadMessage
    \/ EndOfData
    \/ DispatchFailed
    \/ DispatchDisconnected
    \/ DispatchInput
    \/ HandleSuspend
    \/ HandleResume
    \/ Exit
    \/ PeerAccepts
    \/ PeerGreets
    \/ PeerQueries
    \/ PeerAdmits
    \/ PeerTalks
    \/ PeerMovesCursor
    \/ PeerFails
    \/ Over

(***************************************************************************)
(* The loop goes on, timers expire, and a server that has not failed       *)
(* answers.  Nobody has to suspend, resume, talk or fail.                  *)
(***************************************************************************)
Fairness ==
    /\ WF_vars(StartNode)
    /\ SF_vars(HandleClientRestart)
    /\ SF_vars(HandleConnectTimeout)
    /\ SF_vars(HandleKeepAliveAlarm)
    /\ WF_vars(HandleConnected) /\ WF_vars(HandleConnectionFailed)
    /\ WF_vars(FilterInput) /\ WF_vars(FilterShutdown)
    /\ WF_vars(ReadMessage) /\ WF_vars(EndOfData)
    /\ WF_vars(DispatchFailed) /\ WF_vars(DispatchDisconnected)
    /\ WF_vars(DispatchInput)
    /\ WF_vars(PeerAccepts) /\ WF_vars(PeerGreets)
    /\ WF_vars(PeerQueries) /\ WF_vars(PeerAdmits)

Spec == Init /\ [][Next]_vars /\ Fairness

-----------------------------------------------------------------------------
Progs ==
    [phase: {"start", "loop", "over"}, restarts: 0 .. MaxRestarts + 1,
     queue: Seq(Ends \cup {"input"}), reading: BOOLEAN,
     stream: {"none", "connecting", "hello", "session"}, timer: BOOLEAN, alarm: BOOLEAN,
     handshake: BOOLEAN, informed: BOOLEAN, ready: BOOLEAN,
     screen: {"absent", "off", "on", "entered"}, active: BOOLEAN,
     suspended: BOOLEAN, onResume: BOOLEAN, noRetry: BOOLEAN,
     inbox: Seq(Messages), partial: BOOLEAN, shut: BOOLEAN]

Peers ==
    [stage: {"none", "connect", "refused", "accepted", "greeted", "asked", "up", "bye",
             "closed", "silent"},
     linked: BOOLEAN, entered: BOOLEAN, wire: Seq(Messages)]

\* The state of the application, the session and the stream has its shape
\* (Client.h, ClientApp.h, ServerProxy.h).
TypeOK ==
    /\ prog \in Progs
    /\ net \in [peer: Peers, faults: 0 .. MaxFaults]

\* The client never waits for the server without a timer of its own: the connect timer
\* runs until there is a proxy, and the proxy's alarm from then on, through every option
\* message, unless the server turned the heartbeat off.
WaitsTimed ==
    (FALSE \notin Heartbeats) =>
        /\ prog.timer <=> prog.stream \in {"connecting", "hello"}
        /\ prog.alarm <=> prog.stream = "session"

\* No message is left lying: when no handler is reading, whole messages in the filter
\* have an event in the queue that will read them.
NothingUnread ==
    Idle /\ prog.inbox # <<>> => \E i \in DOMAIN prog.queue : prog.queue[i] = "input"

\* However a session ends, the screen is left and disabled with it, and it is never
\* enabled twice or disabled when it is not enabled (assertions of Screen).
ScreenFollows ==
    /\ prog.screen \in {"on", "entered"} <=> prog.ready
    /\ prog.ready => prog.stream = "session" /\ ~prog.handshake

\* While the machine sleeps there is no connection.
AsleepOffline == prog.suspended => prog.stream = "none"

\* The client does not give up unless it is told not to reconnect: without a connection
\* something is pending that leads to one, a restart timer, an event that schedules one,
\* or the attempt made on resume.
KeepsTrying ==
    prog.phase = "loop" /\ Restartable /\ ~prog.noRetry /\ prog.stream = "none" =>
        \/ prog.restarts > 0
        \/ \E i \in DOMAIN prog.queue : prog.queue[i] \in Ends
        \/ prog.suspended /\ prog.onResume

(* Whatever the client waits for has a timer, its screen follows its session, and
   it tries again unless it is asleep or ended (see the parts).  About Client,
   ServerProxy and ClientApp. *)
SessionInv == TypeOK /\ WaitsTimed /\ ScreenFollows /\ AsleepOffline /\ KeepsTrying

\* An awake client gets a session, once the faults are over, unless a fatal error of the
\* secure socket told it not to reconnect.
Reconnects ==
    (prog.phase = "loop" /\ ~prog.suspended)
        ~> (prog.ready \/ prog.suspended \/ prog.phase = "over" \/ prog.noRetry)

\* A server that fell silent is noticed, whatever part of a message it left behind.
SilenceNoticed == Mute ~> ~Mute

\* "if we're not the active screen then send the clipboard now" (Client.cpp): a client
\* takes itself for the active screen only while its screen is entered.
ActiveEntered == prog.active => prog.screen = "entered"

\* "the client doesn't want to reconnect" (EventTypes.h, SOCKET_STOP_RETRY): after a fatal
\* error of the secure socket there is no other attempt.  This is what the event is said
\* to mean, but handle_stop_retry clears m_restartable in a copy of the arguments.
StopsRetrying == prog.noRetry => prog.stream = "none"
=============================================================================
