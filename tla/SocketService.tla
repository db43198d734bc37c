---------------------------- MODULE SocketService ----------------------------
(***************************************************************************)
(* SocketMultiplexer and the sockets it serves: a listening socket and one *)
(* data socket (TCPSocket or SecureSocket), through which a peer is        *)
(* accepted or connected to.  The service thread polls the registered jobs *)
(* and runs them; other threads register and remove jobs with a pair of    *)
(* locks and a pipe that interrupts the poll.  A job is computed under the *)
(* socket's own lock and registered after that lock was released.          *)
(*                                                                         *)
(* Sections under tcp_mutex_ are atomic; so is what a thread does while it *)
(* holds the job list, except for the service thread, which polls and runs *)
(* jobs under it.  Bytes are counted, not kept.  Nothing in the program    *)
(* shuts a socket down in one direction (StreamFilter only passes such     *)
(* calls on), so shutdownInput and shutdownOutput are left out.            *)
(***************************************************************************)
EXTENDS Naturals, Sequences, SequencesExt, FiniteSets

CONSTANTS
  Writers,      \* threads that only write, like the one that sends the log to the GUI, without TLS
  MaxIn         \* bytes the peer sends

Users == Writers \cup {"main"}
Procs == Users \cup {"service"}
NoJob == [does |-> "nothing", r |-> FALSE, w |-> FALSE]
Socks == {"listen", "data"}

ASSUME ServiceAssumption ==
  /\ {"main", "service", "nobody"} \cap Writers = {}
  /\ MaxIn \in Nat

VARIABLES
  secure,           \* the sockets are SecureSockets
  server,           \* there is a listening socket; without it the program connects
  lockLock,         \* who holds the lock on the lock (m_jobListLockLocker)
  listLock,         \* who holds the job list (m_jobListLocker)
  unblock,          \* a byte is in the pipe that interrupts the poll
  m_socketJobs,     \* the sockets of the job list, in its order
  job,              \* the job of each, NoJob for one that is to be erased
  m_update,         \* the job list changed since pfds was made
  jobs_are_ready_,  \* the service thread has something to do
  pfds,             \* the sockets that are polled, in order, and what for
  service,          \* what the service thread is doing, and with which job
  gate,             \* who holds job_registration_
  closed_,          \* its closed_
  user,             \* what each other thread is doing, and the jobs it will register
  sock,             \* the data socket
  net,              \* its connection and the listening queue
  posted,           \* events: those for a handler of this module, and the reports of the connection
  writes            \* the threads that have written; each does so once

mvars == <<lockLock, listLock, unblock, m_socketJobs, job, m_update, jobs_are_ready_, pfds>>
gvars == <<gate, closed_>>
vars == <<secure, server, mvars, service, gvars, user, sock, net, posted, writes>>

JobType == [does : {"nothing", "listen", "connecting", "connected", "handshake"},
            r : BOOLEAN, w : BOOLEAN]
EventTypes == {"CONNECTING", "CONNECTED", "SECURE_CONNECTED", "INPUT_READY", "CONNECTION_FAILED",
               "DISCONNECTED"}

\* exists, and open: m_socket is not null; missed: a read that failed left data nobody was told of
SockType == [exists : BOOLEAN, open : BOOLEAN, connected : BOOLEAN, readable : BOOLEAN,
             writable : BOOLEAN, in : 0..MaxIn, out : 0..Cardinality(Users), flushed : BOOLEAN,
             missed : BOOLEAN, secureReady : BOOLEAN, fatal : BOOLEAN]

\* Sockets, jobs, locks and threads have their shape (TCPSocket.h,
\* SocketMultiplexer.h).
TypeOK ==
  /\ secure \in BOOLEAN /\ server \in BOOLEAN /\ unblock \in BOOLEAN /\ m_update \in BOOLEAN
  /\ jobs_are_ready_ \in BOOLEAN /\ closed_ \in BOOLEAN
  /\ {lockLock, listLock} \subseteq Procs \cup {"nobody"} /\ gate \in Users \cup {"nobody"}
  /\ IsInjective(m_socketJobs) /\ ToSet(m_socketJobs) \subseteq Socks
  /\ job \in [Socks -> JobType]
  /\ \A s \in Socks \ ToSet(m_socketJobs) : job[s] = NoJob
  /\ pfds \in Seq(Socks \X BOOLEAN \X BOOLEAN)
  /\ service.at \in {"wait", "lock", "poll", "run", "sweep", "stuck"}
  /\ \A u \in Users : user[u].at \in {"idle", "register", "lockLock", "lock", "cleanup", "flush"}
  /\ sock \in SockType
  /\ net \in [link : {"none", "trying", "up", "refused"}, in : 0..MaxIn, sent : 0..MaxIn,
              eof : BOOLEAN, reset : BOOLEAN, room : BOOLEAN, knock : BOOLEAN, deaf : BOOLEAN]
  /\ posted \subseteq EventTypes
  /\ writes \subseteq Users

----------------------------------------------------------------------------
(* The data socket, under tcp_mutex_ *)

\* SecureSocket::newJob: nothing is served between the connection and the handshake.
AwaitsHandshake(d) == secure /\ d.connected /\ ~d.secureReady

newJob(d) ==
  LET w == d.writable /\ (d.connected => d.out > 0) IN
  IF ~d.open \/ AwaitsHandshake(d) \/ ~(d.readable \/ w)
  THEN NoJob
  ELSE [does |-> IF d.connected THEN "connected" ELSE "connecting", r |-> d.readable, w |-> w]

onConnected(d) == [d EXCEPT !.connected = TRUE, !.readable = TRUE, !.writable = TRUE]

\* A mutant: what is discarded is not taken for flushed.
onDisconnectedUnflushed(d) ==
  [d EXCEPT !.connected = FALSE, !.readable = FALSE, !.writable = FALSE, !.in = 0, !.out = 0]

onDisconnected(d) ==
  [d EXCEPT !.connected = FALSE, !.readable = FALSE, !.writable = FALSE,
            !.in = 0, !.out = 0, !.flushed = TRUE]

\* What a job leaves behind: the socket, events, and which job follows.
Result(d, ev, next) == [d |-> d, ev |-> ev, next |-> next]

\* SecureSocket::checkResult with a fatal error: the program is told, the socket stays as it is.
Fatal(d) == Result([d EXCEPT !.fatal = TRUE], {"DISCONNECTED", "INPUT_SHUTDOWN"}, "break")

\* A job that runs while the socket is closed: close has marked it fatal, and frees the SSL,
\* without which nothing is read or written.
Abandoned(d) == {Fatal(d), Result(d, {}, "new")}

\* Some of the buffer goes out.
Sent(d) == {Result([d EXCEPT !.out = k, !.flushed = @ \/ k = 0],
                   IF k = 0 THEN {"FLUSHED"} ELSE {}, "new") : k \in 0..(d.out - 1)}

\* SecureSocket::doWrite
secureDoWrite(d) ==
  IF ~d.secureReady \/ d.out = 0 THEN {Result(d, {}, "retry")}
  ELSE IF closed_ THEN Abandoned(d)
  ELSE IF net.reset \/ d.fatal THEN {Fatal(d)}
  ELSE IF net.room THEN Sent(d) ELSE {Result(d, {}, "new")}

\* The output side is shut, and with it the connection if no input is left.
OutputShut(d) ==
  LET over == ~d.readable /\ d.in = 0 IN
  Result([d EXCEPT !.out = 0, !.writable = FALSE, !.flushed = TRUE, !.connected = @ /\ ~over],
         {"OUTPUT_SHUTDOWN"} \cup (IF over THEN {"DISCONNECTED"} ELSE {}), "new")

\* doWrite, with the exceptions serviceConnected catches.
doWrite(d) ==
  IF secure THEN secureDoWrite(d)
  ELSE IF d.out = 0 THEN {Result(d, {}, "retry")}
  ELSE IF net.reset THEN {OutputShut(d),
                          Result(onDisconnected(d), {"DISCONNECTED"}, "new"),
                          Result(onDisconnected(d), {"OUTPUT_ERROR", "DISCONNECTED"}, "new")}
  ELSE IF net.room THEN Sent(d) ELSE {Result(d, {}, "retry")}

\* A mutant: data that joins an empty buffer is announced only if some was left before.
doReadQuiet(d) ==
  {Result([d EXCEPT !.in = @ + net.in], IF d.in > 0 THEN {"INPUT_READY"} ELSE {}, "retry")}

\* Everything there is, and the program is told if the buffer was empty.
Slurped(d) == Result([d EXCEPT !.in = @ + net.in], IF d.in = 0 THEN {"INPUT_READY"} ELSE {}, "retry")

\* SecureSocket::doRead; for TLS the end of the input is an error.  When it follows the data that
\* is slurped up, doRead returns before it announces that data; the end is announced.
secureDoRead(d) ==
  LET over == net.reset \/ net.eof IN
  IF ~d.secureReady THEN {Result(d, {}, "retry")}
  ELSE IF closed_ THEN Abandoned(d)
  ELSE IF d.fatal \/ (over /\ net.in = 0) THEN {Fatal(d)}
  ELSE IF net.in = 0 THEN {Result(d, {}, "new")}
  ELSE IF over THEN {Fatal(d), Fatal([d EXCEPT !.in = @ + net.in]), Slurped(d)}
  ELSE {Slurped(d)}

\* An error other than a disconnection is only logged, also when data was slurped up before it.
ReadError(d) ==
  {Result(d, {}, "retry"),
   Result([d EXCEPT !.in = @ + net.in, !.missed = @ \/ (d.in = 0 /\ net.in > 0)], {}, "retry")}

\* doRead, with the exceptions serviceConnected catches.
doRead(d) ==
  LET over == ~d.writable /\ d.in = 0
      lost == Result(onDisconnected(d), {"DISCONNECTED"}, "new")
      end == Result([d EXCEPT !.readable = FALSE, !.connected = @ /\ ~over],
                    {"INPUT_SHUTDOWN"} \cup (IF over THEN {"DISCONNECTED"} ELSE {}), "new")
  IN
  IF secure THEN secureDoRead(d)
  ELSE ReadError(d) \cup {IF net.reset THEN lost ELSE IF net.in > 0 THEN Slurped(d) ELSE end}

Stronger(a, b) == IF "break" \in {a, b} THEN "break" ELSE IF "new" \in {a, b} THEN "new" ELSE "retry"

serviceConnected(d, read, write, error) ==
  IF error THEN {Result(onDisconnected(d), {"DISCONNECTED"}, "new")}
  ELSE UNION {IF read /\ x.d.readable
              THEN {Result(y.d, x.ev \cup y.ev, Stronger(x.next, y.next)) : y \in doRead(x.d)}
              ELSE {x} : x \in IF write THEN doWrite(d) ELSE {Result(d, {}, "retry")}}

serviceConnecting(d, write) ==
  IF net.link = "refused" THEN {Result(onDisconnected(d), {"CONNECTION_FAILED"}, "new")}
  ELSE IF write THEN {Result(onConnected(d), {"CONNECTED"}, "new")}
  ELSE {Result(d, {}, "retry")}

\* secureConnect and secureAccept: the handshake has failed, needs another round, or is done and
\* the peer's fingerprint is trusted or not.  One that connects is ready before it is verified.
secureShake(d) ==
  IF d.fatal THEN {<<d, "failed">>}
  ELSE {<<d, "failed">>, <<d, "again">>}
       \cup (IF net.reset \/ net.eof THEN {}
             ELSE {<<[d EXCEPT !.secureReady = TRUE], "done">>,
                   <<[d EXCEPT !.secureReady = ~server], "untrusted">>})

\* serviceConnect and serviceAccept; an untrusted peer is no fatal error of the socket.
serviceHandshake(d) ==
  {CASE x[2] = "failed" -> Fatal(d)
     [] x[2] = "again" -> Result(d, {}, "retry")
     [] x[2] = "untrusted" -> Result(x[1], Fatal(d).ev, "break")
     [] x[2] = "done" -> Result(x[1], {"SECURE_CONNECTED"}, "new") : x \in secureShake(d)}

----------------------------------------------------------------------------
(* The threads that use the sockets *)

Idle(u) == user[u].at = "idle"
\* A thread goes on to register jobs, one after the other; one that is null is not registered.
Register(u, todo) ==
  user' = [user EXCEPT ![u] = [at |-> IF todo = <<>> THEN "idle" ELSE "register", todo |-> todo]]
Job(s, j) == IF j = NoJob THEN <<>> ELSE <<[s |-> s, j |-> j]>>
ListenJob == [does |-> "listen", r |-> TRUE, w |-> FALSE]
HandshakeJob == [does |-> "handshake", r |-> TRUE, w |-> TRUE]

FreshSock == [exists |-> TRUE, open |-> TRUE, connected |-> FALSE, readable |-> FALSE,
              writable |-> FALSE, in |-> 0, out |-> 0, flushed |-> TRUE,
              missed |-> FALSE, secureReady |-> FALSE, fatal |-> FALSE]

\* A socket is made and connects to the peer, at once or in time.
Connect ==
  /\ Idle("main") /\ ~server /\ ~sock.exists
  /\ \/ /\ sock' = onConnected(FreshSock) /\ net' = [net EXCEPT !.link = "up"]
        /\ posted' = posted \cup {"CONNECTED"}
     \/ /\ sock' = [FreshSock EXCEPT !.writable = TRUE]
        /\ net' = [net EXCEPT !.link = "trying"]
        /\ UNCHANGED posted
  /\ Register("main", Job("data", newJob(sock')))
  /\ UNCHANGED <<secure, server, mvars, service, gvars, writes>>

\* handle_tcp_connected: the handshake starts.
HandleConnected ==
  /\ Idle("main") /\ "CONNECTED" \in posted
  /\ posted' = posted \ {"CONNECTED"}
  /\ Register("main", IF secure /\ sock.open THEN Job("data", HandshakeJob) ELSE <<>>)
  /\ UNCHANGED <<secure, server, mvars, service, gvars, sock, net, writes>>

\* A mutant: the listening socket is not polled again after it accepted.
AcceptOnce ==
  /\ Idle("main") /\ "CONNECTING" \in posted /\ ~sock.exists
  /\ posted' = posted \ {"CONNECTING"}
  /\ sock' = onConnected(FreshSock)
  /\ net' = [net EXCEPT !.knock = FALSE, !.link = "up"]
  /\ Register("main", Job("data", [does |-> "connected", r |-> TRUE, w |-> FALSE])
                      \o (IF secure THEN Job("data", HandshakeJob) ELSE <<>>))
  /\ UNCHANGED <<secure, server, mvars, service, gvars, writes>>

\* TCPListenSocket::accept: TCPSocket's constructor registers the job of a plain socket, then
\* the listening socket is polled again.
AcceptJobs == Job("data", [does |-> "connected", r |-> TRUE, w |-> FALSE]) \o Job("listen", ListenJob)

\* accept; a secure socket then starts its handshake.
Accept ==
  /\ Idle("main") /\ "CONNECTING" \in posted
  /\ posted' = posted \ {"CONNECTING"}
  /\ \/ /\ ~sock.exists
        /\ sock' = onConnected(FreshSock)
        /\ net' = [net EXCEPT !.knock = FALSE, !.link = "up"]
        /\ Register("main", AcceptJobs \o (IF secure THEN Job("data", HandshakeJob) ELSE <<>>))
     \* The peer is refused, its socket made and deleted (no certificate): polled again.
     \/ /\ net' = [net EXCEPT !.knock = FALSE]
        /\ Register("main", Job("listen", ListenJob))
        /\ UNCHANGED sock
     \* acceptSocket fails: there is no socket and the listening socket is not polled again.
     \/ /\ net' = [net EXCEPT !.knock = FALSE, !.deaf = TRUE]
        /\ Register("main", <<>>)
        /\ UNCHANGED sock
  /\ UNCHANGED <<secure, server, mvars, service, gvars, writes>>

\* A socket is written to and flushed once it is connected, TLS included.
Usable == sock.exists /\ net.link = "up" /\ (secure => "SECURE_CONNECTED" \in posted)

\* connect() or accept() has not returned: nobody else knows of the socket.
Making == \E i \in DOMAIN user["main"].todo :
            LET j == user["main"].todo[i].j IN j # NoJob /\ (j.does # "connected" \/ ~j.w)

\* A mutant: the job is computed for every write but the one that needs it.
WriteUnregistered(u) ==
  /\ Idle(u) /\ ~Making /\ Usable /\ u \notin writes /\ (u \in Writers => ~secure)
  /\ writes' = writes \cup {u}
  /\ IF sock.writable
     THEN /\ sock' = [sock EXCEPT !.out = @ + 1, !.flushed = FALSE]
          /\ Register(u, IF sock.out > 0 THEN Job("data", newJob(sock')) ELSE <<>>)
     ELSE UNCHANGED <<sock, user>>   \* STREAM_OUTPUT_ERROR
  /\ UNCHANGED <<secure, server, mvars, service, gvars, net, posted>>

\* write: the job is computed here and registered later.
Write(u) ==
  /\ Idle(u) /\ ~Making /\ Usable /\ u \notin writes /\ (u \in Writers => ~secure)
  /\ writes' = writes \cup {u}
  /\ IF sock.writable
     THEN /\ sock' = [sock EXCEPT !.out = @ + 1, !.flushed = FALSE]
          /\ Register(u, IF sock.out = 0 THEN Job("data", newJob(sock')) ELSE <<>>)
     ELSE UNCHANGED <<sock, user>>   \* STREAM_OUTPUT_ERROR
  /\ UNCHANGED <<secure, server, mvars, service, gvars, net, posted>>

\* A mutant: the end is not reported with the last data.
ReadSilently ==
  LET last == ~sock.readable /\ ~sock.writable /\ sock.in > 0 IN
  /\ Idle("main") /\ "INPUT_READY" \in posted
  /\ sock' = [sock EXCEPT !.in = 0, !.connected = @ /\ ~last]
  /\ posted' = posted \ {"INPUT_READY"}
  /\ UNCHANGED <<secure, server, mvars, service, gvars, user, net, writes>>

\* The handler of INPUT_READY reads everything.
Read ==
  LET last == ~sock.readable /\ ~sock.writable /\ sock.in > 0 IN
  /\ Idle("main") /\ "INPUT_READY" \in posted
  /\ sock' = [sock EXCEPT !.in = 0, !.connected = @ /\ ~last]
  /\ posted' = (posted \ {"INPUT_READY"}) \cup (IF last THEN {"DISCONNECTED"} ELSE {})
  /\ UNCHANGED <<secure, server, mvars, service, gvars, user, net, writes>>

Flush ==
  /\ Idle("main") /\ Usable
  /\ user' = [user EXCEPT !["main"].at = "flush"]
  /\ UNCHANGED <<secure, server, mvars, service, gvars, sock, net, posted, writes>>

Flushed ==
  /\ user["main"].at = "flush" /\ sock.flushed
  /\ user' = [user EXCEPT !["main"].at = "idle"]
  /\ UNCHANGED <<secure, server, mvars, service, gvars, sock, net, posted, writes>>

\* close: the gate is shut, and the job removed, before the socket is closed; a secure one is
\* marked fatal and gives up its SSL before that (Abandoned).
Close ==
  /\ Idle("main") /\ sock.exists /\ sock.open /\ gate = "nobody"
  /\ closed_' = TRUE /\ gate' = "main"
  /\ sock' = [sock EXCEPT !.fatal = @ \/ secure]
  /\ user' = [user EXCEPT !["main"] = [at |-> "lockLock", todo |-> <<[s |-> "data", j |-> NoJob]>>]]
  /\ UNCHANGED <<secure, server, mvars, service, net, posted, writes>>

Cleanup ==
  /\ user["main"].at = "cleanup"
  /\ sock' = [onDisconnected(sock) EXCEPT !.open = FALSE]
  /\ posted' = IF sock.connected THEN posted \cup {"DISCONNECTED"} ELSE posted
  /\ user' = [user EXCEPT !["main"] = [at |-> "idle", todo |-> <<>>]]
  /\ UNCHANGED <<secure, server, mvars, service, gvars, net, writes>>

\* A mutant: a job is registered whether the gate is shut or not.
RegisterJobAnyway(u) ==
  /\ user[u].at = "register" /\ gate = "nobody"
  /\ IF Head(user[u].todo).s = "data" THEN gate' = u ELSE UNCHANGED gate
  /\ user' = [user EXCEPT ![u].at = "lockLock"]
  /\ UNCHANGED <<secure, server, mvars, service, closed_, sock, net, posted, writes>>

\* setJob: registerJob keeps the gate while the job is added; the listening socket has none.
RegisterJob(u) ==
  LET first == Head(user[u].todo) IN
  /\ user[u].at = "register"
  /\ \/ /\ first.s = "data" /\ gate = "nobody"
        /\ IF closed_
           THEN Register(u, Tail(user[u].todo)) /\ UNCHANGED gate
           ELSE gate' = u /\ user' = [user EXCEPT ![u].at = "lockLock"]
     \/ /\ first.s = "listen"
        /\ user' = [user EXCEPT ![u].at = "lockLock"]
        /\ UNCHANGED gate
  /\ UNCHANGED <<secure, server, mvars, service, closed_, sock, net, posted, writes>>

----------------------------------------------------------------------------
(* The multiplexer *)

\* A mutant: the service thread is not interrupted.
LockJobListLockSilently(u) ==
  /\ user[u].at = "lockLock" /\ lockLock = "nobody"
  /\ lockLock' = u
  /\ user' = [user EXCEPT ![u].at = "lock"]
  /\ UNCHANGED <<secure, server, listLock, unblock, m_socketJobs, job, m_update, jobs_are_ready_, pfds,
                 service, gvars, sock, net, posted, writes>>

\* lockJobListLock and unblockPollSocket
LockJobListLock(u) ==
  /\ user[u].at = "lockLock" /\ lockLock = "nobody"
  /\ lockLock' = u /\ unblock' = TRUE
  /\ user' = [user EXCEPT ![u].at = "lock"]
  /\ UNCHANGED <<secure, server, listLock, m_socketJobs, job, m_update, jobs_are_ready_, pfds,
                 service, gvars, sock, net, posted, writes>>

\* A mutant: a removed job does not make the service thread look at the list again.
ChangeJobQuietly(s, j) ==
  /\ job' = [job EXCEPT ![s] = j]
  /\ m_socketJobs' = IF j # NoJob /\ s \notin ToSet(m_socketJobs) THEN Append(m_socketJobs, s)
                     ELSE m_socketJobs
  /\ m_update' = (m_update \/ j # NoJob)

\* A mutant: a new job is not put into the list.
ChangeJobUnlisted(s, j) ==
  /\ job' = [job EXCEPT ![s] = j]
  /\ m_update' = (m_update \/ j # job[s] \/ j # NoJob)
  /\ UNCHANGED m_socketJobs

\* The body of addSocket, and of removeSocket, which leaves a null job in its place.
ChangeJob(s, j) ==
  /\ job' = [job EXCEPT ![s] = j]
  /\ m_socketJobs' = IF j # NoJob /\ s \notin ToSet(m_socketJobs) THEN Append(m_socketJobs, s)
                     ELSE m_socketJobs
  /\ m_update' = (m_update \/ j # job[s] \/ j # NoJob)

\* lockJobList, the change, and unlockJobList; the lock on the lock is given up for the list's.
LockJobList(u) ==
  LET first == Head(user[u].todo) IN
  /\ user[u].at = "lock" /\ listLock = "nobody"
  /\ lockLock' = "nobody"
  /\ ChangeJob(first.s, first.j)
  /\ jobs_are_ready_' = (m_socketJobs' # <<>>)
  /\ IF first.j = NoJob
     THEN user' = [user EXCEPT ![u] = [at |-> "cleanup", todo |-> <<>>]]
     ELSE Register(u, Tail(user[u].todo))
  /\ gate' = IF gate = u THEN "nobody" ELSE gate
  /\ UNCHANGED <<secure, server, listLock, unblock, pfds, service, closed_, sock, net, posted, writes>>

\* The wait for jobs, and lockJobListLock
ServiceLockLock ==
  /\ service.at = "wait" /\ jobs_are_ready_ /\ lockLock = "nobody"
  /\ lockLock' = "service"
  /\ service' = [service EXCEPT !.at = "lock"]
  /\ UNCHANGED <<secure, server, listLock, unblock, m_socketJobs, job, m_update, jobs_are_ready_, pfds,
                 gvars, user, sock, net, posted, writes>>

\* The sockets to poll, in the order of the list.
Polled == LET live == SelectSeq(m_socketJobs, LAMBDA s : job[s] # NoJob) IN
          [i \in DOMAIN live |-> <<live[i], job[live[i]].r, job[live[i]].w>>]

\* lockJobList in the service thread; pfds is collected if the list changed.
Collect ==
  /\ service.at = "lock" /\ listLock = "nobody"
  /\ listLock' = "service" /\ lockLock' = "nobody"
  /\ pfds' = IF m_update THEN Polled ELSE pfds
  /\ m_update' = FALSE
  /\ service' = [service EXCEPT !.at = "poll"]
  /\ UNCHANGED <<secure, server, unblock, m_socketJobs, job, jobs_are_ready_, gvars, user, sock, net,
                 posted, writes>>

\* The service thread, not in the middle of the jobs.
Serving(x) == [at |-> x, i |-> 1, found |-> <<>>, left |-> <<>>]

\* What poll reports of a socket.
CanRead(s) == IF s = "listen" THEN net.knock
              ELSE net.link = "up" /\ (net.in > 0 \/ net.eof \/ net.reset)
CanWrite(s) == s = "data" /\ (net.link = "refused" \/ (net.link = "up" /\ (net.room \/ net.reset)))
Failed(s) == s = "data" /\ net.link = "up" /\ net.reset
Revents(p) == [s |-> p[1], r |-> p[2] /\ CanRead(p[1]), w |-> p[3] /\ CanWrite(p[1]),
               e |-> Failed(p[1])]

\* pollSocket returns: for a socket, for the pipe, or because there is nothing to poll.
Poll ==
  LET found == [i \in DOMAIN pfds |-> Revents(pfds[i])]
      some == \E i \in DOMAIN found : found[i].r \/ found[i].w \/ found[i].e
  IN
  /\ service.at = "poll"
  /\ some \/ unblock \/ pfds = <<>>
  /\ unblock' = (unblock /\ pfds = <<>>)
  /\ service' = IF some THEN [at |-> "run", i |-> 1, found |-> found,
                              left |-> SelectSeq(m_socketJobs, LAMBDA s : job[s] # NoJob)]
                ELSE Serving("sweep")
  /\ UNCHANGED <<secure, server, lockLock, listLock, m_socketJobs, job, m_update, jobs_are_ready_, pfds,
                 gvars, user, sock, net, posted, writes>>

Advance == IF service.i = Len(service.left) THEN Serving("sweep") ELSE [service EXCEPT !.i = @ + 1]

\* The listening socket's job: a peer is announced and the socket is not polled until it is accepted.
RunListening ==
  /\ service.at = "run" /\ service.left[service.i] = "listen"
  /\ IF service.found[service.i].r
     THEN /\ posted' = posted \cup {"CONNECTING"}
          /\ job' = [job EXCEPT !["listen"] = NoJob] /\ m_update' = TRUE
     ELSE UNCHANGED <<posted, job, m_update>>
  /\ service' = Advance
  /\ UNCHANGED <<secure, server, lockLock, listLock, unblock, m_socketJobs, jobs_are_ready_, pfds, gvars,
                 user, sock, net, writes>>

\* An error of the listening socket: close() in the service thread waits for the job list
\* that the thread itself holds.
ListenError ==
  /\ service.at = "run" /\ service.left[service.i] = "listen"
  /\ service' = [service EXCEPT !.at = "stuck"]
  /\ UNCHANGED <<secure, server, mvars, gvars, user, sock, net, posted, writes>>

Outcomes(found) ==
  CASE job["data"].does = "connected" ->
         serviceConnected(sock, found.r, found.w, found.e)
    [] job["data"].does = "connecting" -> serviceConnecting(sock, found.w)
    [] job["data"].does = "handshake" -> serviceHandshake(sock)
    [] OTHER -> {Result(sock, {}, "retry")}

\* The data socket's job, under tcp_mutex_, and the job that takes its place.
RunData ==
  LET found == service.found[service.i] IN
  /\ service.at = "run" /\ service.left[service.i] = "data"
  /\ \E x \in Outcomes(found), room \in BOOLEAN :
       /\ sock' = x.d
       /\ posted' = posted \cup (x.ev \cap EventTypes)
       /\ net' = [net EXCEPT !.in = IF x.d.in > sock.in THEN 0 ELSE @,
                             !.room = IF x.d.out < sock.out THEN room ELSE @]
       /\ job' = [job EXCEPT !["data"] = CASE x.next = "retry" -> @
                                           [] x.next = "new" -> newJob(x.d)
                                           [] x.next = "break" -> NoJob]
       /\ m_update' = (m_update \/ x.next # "retry")
  /\ service' = Advance
  /\ UNCHANGED <<secure, server, lockLock, listLock, unblock, m_socketJobs, jobs_are_ready_, pfds, gvars,
                 user, writes>>

\* Null jobs are erased and the list is unlocked.
Sweep ==
  LET kept == SelectSeq(m_socketJobs, LAMBDA s : job[s] # NoJob) IN
  /\ service.at = "sweep"
  /\ m_socketJobs' = kept
  /\ m_update' = (m_update \/ kept # m_socketJobs)
  /\ jobs_are_ready_' = (kept # <<>>)
  /\ listLock' = "nobody"
  /\ service' = Serving("wait")
  /\ UNCHANGED <<secure, server, lockLock, unblock, job, pfds, gvars, user, sock, net, posted, writes>>

----------------------------------------------------------------------------
(* The peer *)

PeerStep(new) ==
  /\ net' = new
  /\ UNCHANGED <<secure, server, mvars, service, gvars, user, sock, posted, writes>>

Alive == net.link = "up" /\ sock.open /\ ~net.reset
Knock == server /\ ~sock.exists /\ ~net.knock /\ PeerStep([net EXCEPT !.knock = TRUE])
Answer == net.link = "trying" /\ \E x \in {"up", "refused"} : PeerStep([net EXCEPT !.link = x])
Send == Alive /\ net.sent < MaxIn /\ ~net.eof /\ PeerStep([net EXCEPT !.in = @ + 1, !.sent = @ + 1])
HangUp == Alive /\ ~net.eof /\ PeerStep([net EXCEPT !.eof = TRUE])
Reset == Alive /\ PeerStep([net EXCEPT !.reset = TRUE])
MakeRoom == Alive /\ ~net.room /\ PeerStep([net EXCEPT !.room = TRUE])

----------------------------------------------------------------------------

Init ==
  /\ secure \in BOOLEAN
  /\ lockLock = "nobody" /\ listLock = "nobody" /\ gate = "nobody" /\ closed_ = FALSE
  /\ server \in BOOLEAN /\ m_update = server /\ jobs_are_ready_ = server /\ unblock = server
  /\ m_socketJobs = IF server THEN <<"listen">> ELSE <<>>
  /\ job = [s \in Socks |-> IF server /\ s = "listen" THEN ListenJob ELSE NoJob]
  /\ pfds = <<>>
  /\ service = Serving("wait")
  /\ user = [u \in Users |-> [at |-> "idle", todo |-> <<>>]]
  /\ sock = [FreshSock EXCEPT !.exists = FALSE, !.open = FALSE]
  /\ net = [link |-> "none", in |-> 0, sent |-> 0, eof |-> FALSE, reset |-> FALSE,
            room |-> TRUE, knock |-> FALSE, deaf |-> FALSE]
  /\ posted = {} /\ writes = {}

Handle == HandleConnected \/ Accept \/ Read
UserStep(u) == RegisterJob(u) \/ LockJobListLock(u) \/ LockJobList(u)
Service == ServiceLockLock \/ Collect \/ Poll \/ RunListening \/ RunData \/ Sweep

\* What happens once the service thread waits for itself is not followed.
Next ==
  /\ service.at # "stuck"
  /\ \/ Connect \/ Handle \/ Flush \/ Flushed \/ Close \/ Cleanup
     \/ \E u \in Users : Write(u) \/ UserStep(u)
     \/ Service \/ ListenError
     \/ Knock \/ Answer \/ Send \/ HangUp \/ Reset \/ MakeRoom

(***************************************************************************)
(* The threads go on; a thread that waits for a lock gets it if it becomes *)
(* free again and again (the service thread holds the lock on the lock for *)
(* an instant of every round, and polls in the rest); the main loop        *)
(* handles what is posted; the peer reads what it is sent.                 *)
(***************************************************************************)
Spec ==
  /\ Init /\ [][Next]_vars
  /\ WF_vars(Service) /\ WF_vars(Handle \/ Flushed \/ Cleanup) /\ WF_vars(MakeRoom)
  /\ \A u \in Users : WF_vars(UserStep(u)) /\ SF_vars(LockJobListLock(u))

----------------------------------------------------------------------------
(* Properties *)

Stuck == service.at = "stuck"

(***************************************************************************)
(* The order of the poll entries is that of the jobs: the service thread   *)
(* counts live jobs to find the entry of the one it runs, so a list that   *)
(* changed without m_update would hand one socket's readiness to another.  *)
(***************************************************************************)
EntriesAligned ==
  service.at = "run" => /\ Len(service.found) = Len(service.left)
                        /\ service.found[service.i].s = service.left[service.i]

(***************************************************************************)
(* Once close() has removed the job no job of the socket is registered or  *)
(* running, whatever another thread that was in the middle of a write does *)
(* afterwards: this is what job_registration_ is for, and what the         *)
(* destructor relies on.                                                   *)
(***************************************************************************)
NoJobAfterClose ==
  sock.exists /\ ~sock.open =>
    job["data"] = NoJob /\ ~(service.at = "run" /\ service.left[service.i] = "data")

(***************************************************************************)
(* Output that waits in a connected socket is either polled for or about   *)
(* to be: the job is replaced by the service thread and by writers, each   *)
(* with what it saw under tcp_mutex_, in either order.  TLS apart: a fatal *)
(* error there leaves the output without a job.                            *)
(***************************************************************************)
OutputPolled ==
  sock.out > 0 /\ ~closed_ /\ ~sock.fatal /\ sock.connected =>
    \/ job["data"].w
    \/ \E u \in Users : \E i \in DOMAIN user[u].todo :
         user[u].todo[i].s = "data" /\ user[u].todo[i].j.w

(***************************************************************************)
(* The end of a connection is reported, whichever of the two threads finds *)
(* it out: by an error, by the end of the input, of the output, or with    *)
(* the last data that is read when both directions are shut.               *)
(***************************************************************************)
EndReported ==
  sock.exists /\ ~sock.connected /\ ~sock.writable =>
    posted \cap {"DISCONNECTED", "CONNECTION_FAILED"} # {} \/ ~sock.open

(***************************************************************************)
(* Registering and removing a job ends: the service thread is interrupted  *)
(* and leaves the list to the thread that waits, also while a handshake is *)
(* retried without end.  The exception is an error of the listening        *)
(* socket, in which the service thread waits for itself.                   *)
(***************************************************************************)
ChangesEnd == []<>(Stuck \/ \A u \in Users : user[u].at \in {"idle", "flush"})

(***************************************************************************)
(* flush() returns: what is buffered is written, or given up with the      *)
(* connection, if the peer reads.  Not so after a fatal TLS error, which   *)
(* ends the service of the socket and keeps its output.                    *)
(***************************************************************************)
FlushReturns == []<>(user["main"].at # "flush" \/ (sock.fatal /\ ~closed_) \/ Stuck)

(***************************************************************************)
(* The listening socket is polled, or its peer was announced and is about  *)
(* to be accepted, after which it is polled again; unless accept() failed  *)
(* once, which nothing makes up for.                                       *)
(***************************************************************************)
ListenerArmed ==
  server =>
    \/ job["listen"] # NoJob
    \/ "CONNECTING" \in posted
    \/ \E i \in DOMAIN user["main"].todo : user["main"].todo[i].s = "listen"
    \/ net.deaf

(* The job list, the poll entries and the sockets agree: see the parts.
   About SocketMultiplexer and the sockets that register jobs with it. *)
JobsInv == TypeOK /\ EntriesAligned /\ NoJobAfterClose /\ OutputPolled /\ ListenerArmed

(***************************************************************************)
(* Data in the input buffer was announced: STREAM_INPUT_READY is posted    *)
(* for the first data in an empty buffer and not again until the program,  *)
(* which reads under the same lock as the service thread, has emptied it.  *)
(* Two paths of doRead buffer data and leave before they announce it: a    *)
(* TLS connection that ends with the data, of which the reader is told the *)
(* end, and a plain read that fails after the data, of which it is told    *)
(* nothing, then or later (sock.missed).                                   *)
(***************************************************************************)
InputAnnounced ==
  sock.in > 0 /\ ~sock.missed =>
    "INPUT_READY" \in posted \/ (sock.fatal /\ ("DISCONNECTED" \in posted \/ closed_))

(* Whoever reads a socket has been told what there is to read and that nothing
   more will come (see the parts).  About TCPSocket::read and doRead. *)
ReaderTold == EndReported /\ InputAnnounced
=============================================================================
