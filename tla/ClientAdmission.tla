--------------------------- MODULE ClientAdmission ---------------------------
(***************************************************************************)
(* How a connection becomes a client of the server: ClientListener accepts *)
(* the socket, ClientProxyUnknown exchanges hellos within 30 s,            *)
(* ClientProxy1_6 asks for the screen's shape, and Server adopts the proxy *)
(* and later lets go of it.  The four hand one another the stream, the     *)
(* proxy and the handlers of its events through one event queue, in which  *)
(* events outlive what they are about.                                     *)
(*                                                                         *)
(* An event whose target has no handler is dropped (EventQueue), and       *)
(* timers are looked at only when the queue is empty (EventQueue::getEvent).*)
(* Destroying an object removes its handlers (~EventTarget); that a new    *)
(* object may get the same address is not modelled.                        *)
(***************************************************************************)
EXTENDS Naturals, Sequences, FiniteSets, Filtering

CONSTANTS
  Conns,        \* the connections, each tried once
  Replies,      \* what clients answer to the hello
  MaxChats      \* messages of clients that change nothing, or are garbage

Supported == "HELLO16"        \* version 1.6
Unsupported == "HELLOOLD"     \* another valid version
Invalid == "HELLONONSENSE"    \* an impossible version number
Malformed == "HELLOBROKEN"    \* not a hello at all, or too long

ASSUME AdmissionAssumption ==
  /\ Replies \subseteq {Supported, Unsupported, Invalid, Malformed}
  /\ MaxChats \in Nat

VARIABLES
  secure,     \* security_level_ is not PLAINTEXT
  listening,  \* the ClientListener exists
  conn,       \* the server's objects for each connection
  waiting,    \* m_waitingClients
  served,     \* proxies in the server's m_clientSet
  closing,    \* proxies in the server's m_oldClients, a 5 s timer running
  queue,      \* the event queue, each event with the connection it is about
  peer,       \* the other end
  chats,      \* messages the peers sent besides the handshake
  told,       \* connections that were told why they are being hung up on
  aborted     \* the process died

ours == <<conn, waiting, served, closing, queue, told, aborted>>
vars == <<secure, listening, ours, peer, chats>>

(***************************************************************************)
(* socket: who owns the socket or stream; fresh: a ClientProxyUnknown in   *)
(* m_newClients; ready: its m_ready; timer: its 30 s timer; proxy: the     *)
(* ClientProxy1_6; reads: whose handlers the stream's events go to; watch: *)
(* whose handlers the proxy's events go to; beat: the heartbeat alarm of   *)
(* the proxy, with its handler.                                            *)
(***************************************************************************)
ConnType == [socket : {"nobody", "listener", "unknown", "proxy", "closed"},
             fresh : BOOLEAN, ready : BOOLEAN, timer : BOOLEAN,
             proxy : {"none", "handshake", "open", "closed", "deleted"},
             reads : {"nobody", "unknown", "proxy"},
             watch : {"nobody", "unknown", "listener", "server"},
             beat : BOOLEAN]

EventTypes == {"CONNECTING", "ACCEPTED", "ACCEPT_FAILED", "SHUTDOWN", "READY", "DISCONNECTED",
               "SUCCESS", "FAILURE", "CONNECTED", "INFO", "NOOP", "GARBAGE"} \cup Replies

Waiting == {waiting[i] : i \in DOMAIN waiting}

TypeOK ==
  /\ secure \in BOOLEAN /\ listening \in BOOLEAN /\ aborted \in BOOLEAN
  /\ conn \in [Conns -> ConnType]
  /\ waiting \in Seq(Conns)
  /\ served \subseteq Conns /\ closing \subseteq Conns /\ told \subseteq Conns
  /\ queue \in Seq(EventTypes \X Conns)
  /\ peer \in [Conns -> {"away", "knocking", "connected", "greeted", "replied", "queried",
                         "informed", "quiet", "cut"}]
  /\ chats \in 0..MaxChats

Live == {"handshake", "open", "closed"}
Queued(type, c) == \E i \in DOMAIN queue : queue[i] = <<type, c>>

----------------------------------------------------------------------------
(* The peer *)

\* A message that arrives, or the end of the stream, as the event it becomes.
Arrives(c, type) == queue' = Append(queue, <<type, c>>)

PeerOnly == UNCHANGED <<secure, listening, conn, waiting, served, closing, told, aborted>>

Knock(c) ==
  /\ peer[c] = "away" /\ listening
  /\ peer' = [peer EXCEPT ![c] = "knocking"]
  /\ Arrives(c, "CONNECTING")
  /\ PeerOnly /\ UNCHANGED chats

\* The TLS handshake, in the socket's thread, succeeds or fails
\* (SecureSocket::serviceAccept).
SecureAccept(c) ==
  /\ secure /\ peer[c] = "connected" /\ conn[c].socket = "listener"
  /\ \/ Arrives(c, "ACCEPTED") /\ peer' = [peer EXCEPT ![c] = "replied"]
     \/ Arrives(c, "ACCEPT_FAILED") /\ peer' = [peer EXCEPT ![c] = "cut"]
  /\ PeerOnly /\ UNCHANGED chats

Reply(c, type) ==
  /\ peer[c] = "greeted"
  /\ peer' = [peer EXCEPT ![c] = "replied"]
  /\ Arrives(c, type)
  /\ PeerOnly /\ UNCHANGED chats

Inform(c) ==
  /\ peer[c] = "queried"
  /\ peer' = [peer EXCEPT ![c] = "informed"]
  /\ Arrives(c, "INFO")
  /\ PeerOnly /\ UNCHANGED chats

Chat(c) ==
  /\ peer[c] \in {"queried", "informed"} /\ chats < MaxChats
  /\ chats' = chats + 1
  /\ \E type \in {"NOOP", "GARBAGE"} : Arrives(c, type)
  /\ PeerOnly /\ UNCHANGED peer

Up(c) == peer[c] \in {"greeted", "replied", "queried", "informed"}

\* The stream ends (STREAM_INPUT_SHUTDOWN, or an output error).
Cut(c) ==
  /\ Up(c)
  /\ peer' = [peer EXCEPT ![c] = "cut"]
  /\ Arrives(c, "SHUTDOWN")
  /\ PeerOnly /\ UNCHANGED chats

\* The machine is gone and nothing says so, in the TLS handshake or later.
Vanish(c) ==
  /\ Up(c) \/ (secure /\ peer[c] = "connected")
  /\ peer' = [peer EXCEPT ![c] = "quiet"]
  /\ PeerOnly /\ UNCHANGED <<queue, chats>>

----------------------------------------------------------------------------
(* What happens to the objects of one connection *)

\* ~ClientProxy1_6 and what it owns.
deleteProxy(r) ==
  [r EXCEPT !.proxy = "deleted", !.socket = "closed", !.reads = "nobody", !.watch = "nobody",
            !.beat = FALSE]

\* ClientProxy1_6::disconnect; DISCONNECTED is queued.
disconnect(r) == [r EXCEPT !.proxy = "closed", !.reads = "nobody", !.beat = FALSE]

\* Mutant: the proxy's memory is freed but m_proxy is kept.
sendFailureFreed(r) ==
  [r EXCEPT !.proxy = IF @ = "none" THEN @ ELSE "freed", !.ready = FALSE, !.timer = FALSE,
            !.reads = "nobody"]

\* ClientProxyUnknown::sendFailure; FAILURE is queued.
sendFailure(r) ==
  [(IF r.proxy \in Live THEN deleteProxy(r) ELSE r)
     EXCEPT !.ready = FALSE, !.timer = FALSE, !.reads = "nobody"]

\* ClientProxyUnknown::sendSuccess; SUCCESS is queued.
sendSuccess(r) == [r EXCEPT !.ready = TRUE, !.timer = FALSE]

\* Mutant: the 30 s timer stops with the hello.
createProxyUntimed(r) ==
  [r EXCEPT !.socket = "proxy", !.proxy = "handshake", !.reads = "proxy", !.watch = "unknown",
            !.timer = FALSE]

\* The proxy of a supported client takes over the stream.
createProxy(r) ==
  [r EXCEPT !.socket = "proxy", !.proxy = "handshake", !.reads = "proxy", !.watch = "unknown"]

\* ClientProxyUnknown::orphanClientProxy, and the listener's own handler.
orphanClientProxy(r) == [r EXCEPT !.fresh = FALSE, !.watch = "listener"]

\* ~ClientProxyUnknown of a handshake that did not succeed.
deleteUnknown(r) ==
  [(IF r.proxy \in Live THEN deleteProxy(r) ELSE r)
     EXCEPT !.fresh = FALSE, !.timer = FALSE, !.reads = "nobody", !.socket = "closed"]

\* ClientProxy::close flushes the stream; it writes nothing to it.
closeMessage(t, c) == t

----------------------------------------------------------------------------
(* Handlers, each run for the event at the head of the queue *)

Next1(type, c) == queue # <<>> /\ Head(queue) = <<type, c>>

\* The event is done and those in s are queued.
Add(s) == queue' = Tail(queue) \o s

Steady == UNCHANGED <<secure, listening, chats>>
Lists == <<waiting, served, closing>>

\* ClientListener::handle_client_connecting.  Without TLS the client is
\* accepted at once, but the socket's thread may see it leave even earlier.
HandleClientConnecting(c) ==
  /\ Next1("CONNECTING", c)
  /\ \/ /\ listening
        /\ conn' = [conn EXCEPT ![c].socket = "listener"]
        /\ \/ secure /\ Add(<<>>) /\ peer' = [peer EXCEPT ![c] = "connected"]
           \/ ~secure /\ Add(<< <<"ACCEPTED", c>> >>) /\ peer' = [peer EXCEPT ![c] = "replied"]
           \/ /\ ~secure /\ Add(<< <<"SHUTDOWN", c>>, <<"ACCEPTED", c>> >>)
              /\ peer' = [peer EXCEPT ![c] = "cut"]
     \/ /\ peer' = [peer EXCEPT ![c] = "cut"]     \* accept fails, or nobody listens
        /\ Add(<<>>) /\ UNCHANGED conn
  /\ Steady /\ UNCHANGED <<Lists, told, aborted>>

\* A peer that can still be talked to gets the next question.
Asked(c, question) == IF peer[c] \in {"quiet", "cut"} THEN peer ELSE [peer EXCEPT ![c] = question]

\* ClientListener::handle_client_accepted, and the hello.
HandleClientAccepted(c) ==
  /\ Next1("ACCEPTED", c) /\ conn[c].socket = "listener"
  /\ conn' = [conn EXCEPT ![c].socket = "unknown", ![c].fresh = TRUE, ![c].timer = TRUE,
                          ![c].reads = "unknown"]
  /\ Add(<<>>) /\ peer' = Asked(c, "greeted")
  /\ Steady /\ UNCHANGED <<Lists, told, aborted>>

HandleClientAcceptFailed(c) ==
  /\ Next1("ACCEPT_FAILED", c) /\ conn[c].socket = "listener"
  /\ conn' = [conn EXCEPT ![c].socket = "closed"]
  /\ Add(<<>>) /\ Steady /\ UNCHANGED <<Lists, peer, told, aborted>>

\* ClientProxyUnknown::handle_data.  For an unsupported version the stream has
\* been moved away, and destroyed, when the refusal is written.
HandleHello(c) ==
  /\ \E type \in Replies : Next1(type, c)
  /\ conn[c].reads = "unknown"
  /\ LET type == Head(queue)[1] IN
     \/ /\ type = Supported
        /\ conn' = [conn EXCEPT ![c] = createProxy(@)]
        /\ peer' = Asked(c, "queried")
        /\ Add(<<>>) /\ UNCHANGED <<told, aborted>>
     \/ /\ type \in {Invalid, Malformed}
        /\ conn' = [conn EXCEPT ![c] = sendFailure(@)]
        /\ told' = told \cup {c}
        /\ Add(<< <<"FAILURE", c>> >>) /\ UNCHANGED <<peer, aborted>>
     \/ /\ type = Unsupported
        /\ conn' = [conn EXCEPT ![c].reads = "nobody", ![c].socket = "closed"]
        /\ aborted' = TRUE
        /\ Add(<<>>) /\ UNCHANGED <<peer, told>>
  /\ Steady /\ UNCHANGED Lists

\* The first information message (parseHandshakeMessage, addHeartbeatTimer).
recvInfo(r) == [r EXCEPT !.proxy = "open", !.beat = TRUE]

\* ClientProxy1_6::handle_data; every good message restarts the alarm.
HandleData(c) ==
  /\ \E type \in {"INFO", "NOOP", "GARBAGE"} : Next1(type, c)
  /\ conn[c].reads = "proxy"
  /\ LET type == Head(queue)[1] IN
     \/ /\ type = "INFO"
        /\ conn' = [conn EXCEPT ![c] = recvInfo(@)]
        /\ Add(<< <<"READY", c>> >>)
     \/ /\ type = "NOOP"
        /\ conn' = [conn EXCEPT ![c].beat = TRUE]
        /\ Add(<<>>)
     \/ /\ type = "GARBAGE"
        /\ conn' = [conn EXCEPT ![c] = disconnect(@)]
        /\ Add(<< <<"DISCONNECTED", c>> >>)
  /\ Steady /\ UNCHANGED <<Lists, peer, told, aborted>>

\* The stream ends under the hello (ClientProxyUnknown::handle_disconnect,
\* handle_write_error) or under the proxy (ClientProxy1_6's).
HandleShutdown(c) ==
  /\ Next1("SHUTDOWN", c)
  /\ \/ /\ conn[c].reads = "unknown"
        /\ conn' = [conn EXCEPT ![c] = sendFailure(@)]
        /\ Add(<< <<"FAILURE", c>> >>)
     \/ /\ conn[c].reads = "proxy"
        /\ conn' = [conn EXCEPT ![c] = disconnect(@)]
        /\ Add(<< <<"DISCONNECTED", c>> >>)
  /\ Steady /\ UNCHANGED <<Lists, peer, told, aborted>>

HandleReady(c) ==
  /\ Next1("READY", c) /\ conn[c].watch = "unknown"
  /\ conn' = [conn EXCEPT ![c] = sendSuccess(@)]
  /\ Add(<< <<"SUCCESS", c>> >>)
  /\ Steady /\ UNCHANGED <<Lists, peer, told, aborted>>

\* CLIENT_PROXY_DISCONNECTED goes to whoever holds the proxy: the handshake
\* fails, the listener or the server deletes it.
HandleDisconnected(c) ==
  /\ Next1("DISCONNECTED", c)
  /\ \/ /\ conn[c].watch = "unknown"
        /\ conn' = [conn EXCEPT ![c] = sendFailure(@)]
        /\ Add(<< <<"FAILURE", c>> >>) /\ UNCHANGED Lists
     \/ /\ conn[c].watch = "listener"
        /\ conn' = [conn EXCEPT ![c] = deleteProxy(@)]
        /\ waiting' = Kept(waiting, Conns \ {c})
        /\ Add(<<>>) /\ UNCHANGED <<served, closing>>
     \/ /\ conn[c].watch = "server"
        /\ conn' = [conn EXCEPT ![c] = deleteProxy(@)]
        /\ served' = served \ {c} /\ closing' = closing \ {c}
        /\ Add(<<>>) /\ UNCHANGED waiting
  /\ Steady /\ UNCHANGED <<peer, told, aborted>>

\* Mutant: only the first client to wait is announced.
announceFirst(w, c) == IF w = <<>> THEN << <<"CONNECTED", c>> >> ELSE <<>>

\* Every client that joins the waiting ones is announced.
announce(w, c) == << <<"CONNECTED", c>> >>

\* ClientListener::handle_unknown_client, for SUCCESS and for FAILURE.
HandleUnknownClient(c) ==
  /\ Next1("SUCCESS", c) \/ Next1("FAILURE", c)
  /\ listening /\ conn[c].fresh
  /\ \/ /\ conn[c].ready
        /\ conn' = [conn EXCEPT ![c] = orphanClientProxy(@)]
        /\ waiting' = Append(waiting, c)
        /\ Add(announce(waiting, c))
     \/ /\ ~conn[c].ready
        /\ conn' = [conn EXCEPT ![c] = deleteUnknown(@)]
        /\ Add(<<>>) /\ UNCHANGED waiting
  /\ Steady /\ UNCHANGED <<served, closing, peer, told, aborted>>


\* Server::adoptClient; its sendOptions restarts the alarm
\* (ClientProxy1_6::resetOptions), whose handler a closed proxy has not.
adopt(r) == [r EXCEPT !.watch = "server", !.beat = r.proxy = "open"]

\* ServerApp::handle_client_connected: the first waiting client, whoever the
\* event was for, is adopted, or refused for its name (Server::closeClient).
HandleClientConnected(c) ==
  /\ Next1("CONNECTED", c) /\ listening /\ waiting # <<>>
  /\ LET w == Head(waiting) IN
     \/ /\ served' = served \cup {w}
        /\ conn' = [conn EXCEPT ![w] = adopt(@)]
        /\ UNCHANGED <<closing, told>>
     \/ /\ closing' = closing \cup {w}
        /\ conn' = [conn EXCEPT ![w].watch = "server"]
        /\ told' = closeMessage(told, w) /\ UNCHANGED served
  /\ waiting' = Tail(waiting)
  /\ Add(<<>>) /\ Steady /\ UNCHANGED <<peer, aborted>>

\* Does the event at the head of the queue have a handler?
Handled ==
  LET type == Head(queue)[1]
      r == conn[Head(queue)[2]]
  IN CASE type = "CONNECTING" -> TRUE
       [] type \in {"ACCEPTED", "ACCEPT_FAILED"} -> r.socket = "listener"
       [] type \in Replies -> r.reads = "unknown"
       [] type \in {"INFO", "NOOP", "GARBAGE"} -> r.reads = "proxy"
       [] type = "SHUTDOWN" -> r.reads # "nobody"
       [] type = "READY" -> r.watch = "unknown"
       [] type = "DISCONNECTED" -> r.watch # "nobody"
       [] type \in {"SUCCESS", "FAILURE"} -> listening /\ r.fresh
       [] type = "CONNECTED" -> listening /\ waiting # <<>>

\* EventQueue::dispatchEvent finds no handler, or getNextClient no client.
Drop ==
  /\ queue # <<>> /\ ~Handled
  /\ Add(<<>>)
  /\ Steady /\ UNCHANGED <<conn, Lists, peer, told, aborted>>

----------------------------------------------------------------------------
(* Timers, when nothing is queued, and the decisions of the application *)

\* ClientProxyUnknown::handle_timeout, after 30 s.
HandleTimeout(c) ==
  /\ queue = <<>> /\ conn[c].timer
  /\ conn' = [conn EXCEPT ![c] = sendFailure(@)]
  /\ queue' = << <<"FAILURE", c>> >>
  /\ Steady /\ UNCHANGED <<Lists, peer, told, aborted>>

\* Mutant: nobody is told.
HandleFlatlineSilent(c) ==
  /\ queue = <<>> /\ conn[c].beat
  /\ conn' = [conn EXCEPT ![c] = disconnect(@)]
  /\ Steady /\ UNCHANGED <<queue, Lists, peer, told, aborted>>

\* ClientProxy1_6::handle_flatline: no message for too long.
HandleFlatline(c) ==
  /\ queue = <<>> /\ conn[c].beat
  /\ conn' = [conn EXCEPT ![c] = disconnect(@)]
  /\ queue' = << <<"DISCONNECTED", c>> >>
  /\ Steady /\ UNCHANGED <<Lists, peer, told, aborted>>

\* Server::closeClient of an adopted client: a reload or a shutdown.
CloseClient(c) ==
  /\ c \in served
  /\ served' = served \ {c} /\ closing' = closing \cup {c}
  /\ told' = closeMessage(told, c)
  /\ Steady /\ UNCHANGED <<conn, waiting, queue, peer, aborted>>

\* Server::handle_client_close_timeout, after 5 s.
HandleClientCloseTimeout(c) ==
  /\ queue = <<>> /\ c \in closing
  /\ closing' = closing \ {c}
  /\ conn' = [conn EXCEPT ![c] = deleteProxy(@)]
  /\ Steady /\ UNCHANGED <<waiting, served, queue, peer, told, aborted>>

\* Mutant: the clients that wait are forgotten.
CloseListenerLeak ==
  /\ listening /\ listening' = FALSE
  /\ conn' = [c \in Conns |->
                IF conn[c].fresh THEN deleteUnknown(conn[c])
                ELSE IF conn[c].socket = "listener" THEN [conn[c] EXCEPT !.socket = "closed"]
                ELSE conn[c]]
  /\ waiting' = <<>>
  /\ UNCHANGED <<secure, served, closing, queue, peer, chats, told, aborted>>

\* ServerApp::closeClientListener, ~ClientListener.
CloseListener ==
  /\ listening /\ listening' = FALSE
  /\ conn' = [c \in Conns |->
                IF conn[c].fresh THEN deleteUnknown(conn[c])
                ELSE IF c \in Waiting THEN deleteProxy(conn[c])
                ELSE IF conn[c].socket = "listener" THEN [conn[c] EXCEPT !.socket = "closed"]
                ELSE conn[c]]
  /\ waiting' = <<>>
  /\ UNCHANGED <<secure, served, closing, queue, peer, chats, told, aborted>>

----------------------------------------------------------------------------
Untouched == [socket |-> "nobody", fresh |-> FALSE, ready |-> FALSE, timer |-> FALSE,
              proxy |-> "none", reads |-> "nobody", watch |-> "nobody", beat |-> FALSE]

Init ==
  /\ secure \in BOOLEAN /\ listening = TRUE
  /\ conn = [c \in Conns |-> Untouched]
  /\ waiting = <<>> /\ served = {} /\ closing = {} /\ queue = <<>>
  /\ peer = [c \in Conns |-> "away"] /\ chats = 0
  /\ told = {} /\ aborted = FALSE

Peer(c) ==
  \/ Knock(c) \/ SecureAccept(c) \/ Inform(c) \/ Chat(c) \/ Cut(c) \/ Vanish(c)
  \/ \E type \in Replies : Reply(c, type)

Dispatch(c) ==
  \/ HandleClientConnecting(c) \/ HandleClientAccepted(c) \/ HandleClientAcceptFailed(c)
  \/ HandleHello(c) \/ HandleData(c) \/ HandleShutdown(c) \/ HandleReady(c)
  \/ HandleDisconnected(c) \/ HandleUnknownClient(c) \/ HandleClientConnected(c)

Timers(c) == HandleTimeout(c) \/ HandleFlatline(c) \/ HandleClientCloseTimeout(c)

Next ==
  /\ ~aborted
  /\ \/ \E c \in Conns : Peer(c) \/ Dispatch(c) \/ Timers(c) \/ CloseClient(c)
     \/ Drop
     \/ CloseListener

Spec == Init /\ [][Next]_vars

(***************************************************************************)
(* The event loop dispatches what is queued and looks at timers when       *)
(* nothing is.  The alarm of a client that is heard of is put off again    *)
(* and again; that of one that is not, fires.                              *)
(***************************************************************************)
Silent(c) == peer[c] \in {"quiet", "cut"}

Fairness ==
  /\ WF_vars(~aborted /\ (Drop \/ \E c \in Conns : Dispatch(c)))
  /\ \A c \in Conns : /\ WF_vars(~aborted /\ HandleTimeout(c))
                      /\ WF_vars(~aborted /\ Silent(c) /\ HandleFlatline(c))
                      /\ WF_vars(~aborted /\ HandleClientCloseTimeout(c))

FairSpec == Spec /\ Fairness

----------------------------------------------------------------------------
(* Properties *)

Holders(c) == {h \in {"unknown", "listener", "server"} :
                 \/ h = "unknown" /\ conn[c].fresh
                 \/ h = "listener" /\ c \in Waiting
                 \/ h = "server" /\ c \in served \cup closing}

\* A proxy that exists is held by exactly one of ClientProxyUnknown, the
\* listener's queue and the server, and it is the holder's handler that hears
\* of its disconnection; a proxy that was deleted is in no list.
HolderHears ==
  \A c \in Conns :
    /\ conn[c].proxy \in Live => Holders(c) = {conn[c].watch}
    /\ conn[c].proxy = "deleted" => Holders(c) \subseteq {"unknown"}

\* No waiting client is forgotten: as many CONNECTED events are queued as
\* clients wait, although each event takes the first one, whoever it was for,
\* and clients leave the queue by disconnecting.
WaitingAnnounced ==
  Len(waiting) <= Cardinality({i \in DOMAIN queue : queue[i][1] = "CONNECTED"})

\* A new client is under the 30 s timer until its success or failure is queued,
\* so that handle_unknown_client is always reached.
NewClientDecided ==
  \A c \in Conns : conn[c].fresh /\ ~aborted =>
    conn[c].timer \/ Queued("SUCCESS", c) \/ Queued("FAILURE", c)

\* A proxy that has hung up (ClientProxy1_6::disconnect) is about to be deleted
\* by its holder, who has not been told yet.
HangUpQueued == \A c \in Conns : conn[c].proxy = "closed" => Queued("DISCONNECTED", c)

\* Every connection has one holder, who hears of its end, and every handshake is
\* decided or timed (see the parts).  About ClientListener and ClientProxyUnknown.
AdmissionInv == TypeOK /\ HolderHears /\ NewClientDecided /\ HangUpQueued

Remembered(c) == conn[c].socket = "listener" \/ conn[c].fresh \/ conn[c].proxy \in Live

\* The TLS handshake of a silent peer is retried for ever (SecureSocket::serviceAccept).
Unanswered(c) ==
  /\ secure /\ conn[c].socket = "listener"
  /\ ~Queued("ACCEPTED", c) /\ ~Queued("ACCEPT_FAILED", c)


\* A client that Server::closeClient hangs up on was told why.
CloseTold == closing \subseteq told

\* A refusal is written to a stream that exists (ProtocolUtil::writef).
RefusalWritten == ~aborted
=============================================================================
