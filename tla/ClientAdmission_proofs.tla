------------------------ MODULE ClientAdmission_proofs ------------------------
(***************************************************************************)
(* Who holds a connection, and that nobody who waits is forgotten, for any *)
(* number of connections, answers and messages.                            *)
(***************************************************************************)
EXTENDS ClientAdmission, Filtering_proofs, SequenceTheorems, TLAPS

In(e, q) == \E i \in 1 .. Len(q) : q[i] = e

(***************************************************************************)
(* The objects r of one connection, when the listener exists or not (l),   *)
(* the proxy waits or not (w), is served or not (s), is being closed or    *)
(* not (x): a living proxy has one holder, whose handlers it has; only the *)
(* one who holds the stream reads it; the 30 s timer is that of a new      *)
(* client that is not ready; and what is the listener's goes with it.      *)
(***************************************************************************)
Held(r, l, w, s, x) ==
  /\ r.proxy = "none" => ~r.ready
  /\ r.proxy \notin Live => r.watch = "nobody" /\ ~w /\ ~s /\ ~x
  /\ r.proxy \in Live => /\ r.watch # "nobody"
                         /\ r.fresh <=> r.watch = "unknown"
                         /\ w <=> r.watch = "listener"
                         /\ s \/ x <=> r.watch = "server"
  /\ ~(s /\ x)
  /\ r.fresh /\ r.ready => r.proxy \in Live
  /\ r.reads = "unknown" => r.proxy = "none" /\ r.fresh
  /\ r.reads = "proxy" => r.proxy \in {"handshake", "open"}
  /\ r.beat => r.proxy \in {"handshake", "open"}
  /\ r.timer => r.fresh /\ ~r.ready
  /\ r.socket = "listener" => r.proxy = "none" /\ ~r.fresh
  /\ r.fresh \/ r.socket = "listener" \/ w => l

\* r may be what the server has of connection c.
Sits(r, c) == Held(r, listening, In(c, waiting), c \in served, c \in closing)

\* The same after the step.
SitsThen(r, c) == Held(r, listening', In(c, waiting'), c \in served', c \in closing')

\* e is in q at one place at most.
Once(e, q) == \A i, j \in 1 .. Len(q) : q[i] = e /\ q[j] = e => i = j

(***************************************************************************)
(* What holds of connection c: besides its objects, that it asked once and *)
(* the server has nothing of it before that is handled; that a new client  *)
(* is timed or decided; and that the end of its proxy is announced.        *)
(***************************************************************************)
Decided(c) == In(<<"SUCCESS", c>>, queue) \/ In(<<"FAILURE", c>>, queue)

Good(c) ==
  /\ Sits(conn[c], c)
  /\ peer[c] \in {"away", "knocking"} => conn[c] = Untouched
  /\ In(<<"CONNECTING", c>>, queue) => peer[c] = "knocking"
  /\ Once(<<"CONNECTING", c>>, queue)
  /\ conn[c].fresh /\ ~aborted => conn[c].timer \/ Decided(c)
  /\ conn[c].proxy = "closed" => In(<<"DISCONNECTED", c>>, queue)

\* A client waits once.
WaitsOnce == \A c \in Conns : Once(c, waiting)

HoldInv == TypeOK /\ WaitsOnce /\ \A c \in Conns : Good(c)

-----------------------------------------------------------------------------
(* Queues *)

\* What is in a queue whose first event was handled and that got new ones.
LEMMA QueueAdd ==
    ASSUME NEW A, NEW q \in Seq(A), NEW s \in Seq(A), q # <<>>, NEW e
    PROVE  /\ In(e, q) /\ e # Head(q) => In(e, Tail(q) \o s)
           /\ In(e, s) => In(e, Tail(q) \o s)
           /\ In(e, Tail(q) \o s) => In(e, q) \/ In(e, s)
           /\ Once(e, q) /\ ~In(e, s) => Once(e, Tail(q) \o s)
           /\ Once(e, q) /\ ~In(e, s) /\ e = Head(q) => ~In(e, Tail(q) \o s)
  <1> DEFINE t == Tail(q) \o s
             n == Len(q) - 1
  <1>1. /\ Len(q) \in Nat /\ Len(s) \in Nat /\ n \in Nat /\ Len(t) = n + Len(s)
        /\ Head(q) = q[1] /\ 1 \in 1 .. Len(q)
        /\ \A i \in 1 .. n : t[i] = q[i + 1]
        /\ \A i \in 1 .. Len(s) : t[n + i] = s[i]
    <2>1. Len(q) \in Nat /\ Len(s) \in Nat /\ Len(q) # 0
      BY EmptySeq, LenProperties
    <2>2. Tail(q) \in Seq(A) /\ Len(Tail(q)) = n /\ \A i \in 1 .. n : Tail(q)[i] = q[i + 1]
      BY HeadTailProperties
    <2>3. Len(t) = n + Len(s) /\ \A i \in 1 .. Len(t) : t[i] = IF i <= n THEN Tail(q)[i] ELSE s[i - n]
      BY <2>2, ConcatProperties
    <2> HIDE DEF t
    <2>4. n \in Nat
      BY <2>1
    <2> HIDE DEF n
    <2>5. \A i \in 1 .. n : t[i] = q[i + 1]
      <3> SUFFICES ASSUME NEW i \in 1 .. n PROVE t[i] = q[i + 1]
        OBVIOUS
      <3>1. i \in 1 .. Len(t) /\ i <= n
        BY <2>1, <2>3, <2>4
      <3>2. QED
        BY <2>2, <2>3, <3>1
    <2>6. \A i \in 1 .. Len(s) : t[n + i] = s[i]
      <3> SUFFICES ASSUME NEW i \in 1 .. Len(s) PROVE t[n + i] = s[i]
        OBVIOUS
      <3>1. n + i \in 1 .. Len(t) /\ ~(n + i <= n) /\ n + i - n = i
        BY <2>1, <2>3, <2>4
      <3>2. \A k \in 1 .. Len(t) : k > n => t[k] = s[k - n]
        BY <2>3, <2>4, <2>1
      <3>3. n + i > n
        BY <2>1, <2>4
      <3>4. QED
        BY <2>1, <2>4, <3>1, <3>2, <3>3
    <2>7. QED
      BY <2>1, <2>3, <2>4, <2>5, <2>6 DEF n
  <1> HIDE DEF t
  <1>2. ASSUME In(e, q), e # Head(q) PROVE In(e, t)
    <2>1. PICK i \in 1 .. Len(q) : q[i] = e
      BY <1>2 DEF In
    <2>2. i - 1 \in 1 .. n /\ i - 1 \in 1 .. Len(t) /\ (i - 1) + 1 = i
      BY <1>1, <1>2, <2>1
    <2>3. t[i - 1] = e
      BY <1>1, <2>1, <2>2
    <2>4. QED
      BY <2>2, <2>3 DEF In
  <1>3. ASSUME In(e, s) PROVE In(e, t)
    <2>1. PICK i \in 1 .. Len(s) : s[i] = e
      BY <1>3 DEF In
    <2>2. n + i \in 1 .. Len(t)
      BY <1>1
    <2>3. QED
      BY <1>1, <2>1, <2>2 DEF In
  \* Where a place of the new queue comes from.
  <1>4. \A i \in 1 .. Len(t) : \/ i \in 1 .. n /\ i + 1 \in 1 .. Len(q) /\ i + 1 # 1 /\ t[i] = q[i + 1]
                               \/ i - n \in 1 .. Len(s) /\ t[i] = s[i - n]
    <2> SUFFICES ASSUME NEW i \in 1 .. Len(t)
                 PROVE  \/ i \in 1 .. n /\ i + 1 \in 1 .. Len(q) /\ i + 1 # 1 /\ t[i] = q[i + 1]
                        \/ i - n \in 1 .. Len(s) /\ t[i] = s[i - n]
      OBVIOUS
    <2>1. CASE i <= n
      <3>1. i \in 1 .. n /\ i + 1 \in 1 .. Len(q) /\ i + 1 # 1
        BY <1>1, <2>1
      <3>2. QED
        BY <1>1, <3>1
    <2>2. CASE i > n
      <3>1. i - n \in 1 .. Len(s) /\ n + (i - n) = i
        BY <1>1, <2>2
      <3>2. QED
        BY <1>1, <3>1
    <2>3. QED
      BY <1>1, <2>1, <2>2
  <1> HIDE DEF n
  <1>5. In(e, t) => In(e, q) \/ In(e, s)
    BY <1>4 DEF In
  <1>6. ASSUME Once(e, q), ~In(e, s) PROVE Once(e, t)
    <2> SUFFICES ASSUME NEW i \in 1 .. Len(t), NEW j \in 1 .. Len(t), t[i] = e, t[j] = e PROVE i = j
      BY DEF Once
    <2>1. i + 1 \in 1 .. Len(q) /\ j + 1 \in 1 .. Len(q) /\ q[i + 1] = e /\ q[j + 1] = e
      BY <1>4, <1>6 DEF In
    <2>2. i + 1 = j + 1
      BY <1>6, <2>1 DEF Once
    <2>3. QED
      BY <2>2
  <1>7. ASSUME Once(e, q), ~In(e, s), e = Head(q) PROVE ~In(e, t)
    <2> SUFFICES ASSUME NEW i \in 1 .. Len(t), t[i] = e PROVE FALSE
      BY DEF In
    <2>1. i + 1 \in 1 .. Len(q) /\ i + 1 # 1 /\ q[i + 1] = e
      BY <1>4, <1>7 DEF In
    <2>2. QED
      BY <1>1, <1>7, <2>1 DEF Once
  <1>8. QED
    BY <1>2, <1>3, <1>5, <1>6, <1>7 DEF t

\* What is in a queue that got one more.
LEMMA QueueAppend ==
    ASSUME NEW A, NEW q \in Seq(A), NEW a \in A, NEW e
    PROVE  /\ In(e, Append(q, a)) <=> In(e, q) \/ e = a
           /\ Once(e, q) /\ e # a => Once(e, Append(q, a))
           /\ ~In(e, q) => Once(e, Append(q, a))
  <1> DEFINE t == Append(q, a)
             n == Len(q)
  <1>1. n \in Nat /\ Len(t) = n + 1 /\ t[n + 1] = a /\ \A i \in 1 .. n : t[i] = q[i]
    BY AppendProperties, LenProperties
  <1> HIDE DEF t
  <1>2. \A i \in 1 .. Len(t) : (i \in 1 .. n /\ t[i] = q[i]) \/ (i = n + 1 /\ t[i] = a)
    BY <1>1
  <1>3. n + 1 \in 1 .. Len(t) /\ \A i \in 1 .. n : i \in 1 .. Len(t)
    BY <1>1
  <1>4. QED
    BY <1>1, <1>2, <1>3 DEF In, Once, t

\* Whoever leaves the middle of the waiting clients leaves the others there.
LEMMA WaitingKept ==
    ASSUME NEW q \in Seq(Conns), NEW c \in Conns, NEW d \in Conns
    PROVE  /\ Kept(q, Conns \ {c}) \in Seq(Conns)
           /\ In(d, Kept(q, Conns \ {c})) <=> In(d, q) /\ d # c
           /\ Once(d, q) => Once(d, Kept(q, Conns \ {c}))
           /\ Len(Kept(q, Conns \ {c})) <= Len(q)
  <1> DEFINE S == Conns \ {c}
             k == Kept(q, S)
  <1>1. /\ k \in Seq(Conns) /\ Len(k) <= Len(q)
        /\ \A i \in 1 .. Len(k) : \E j \in 1 .. Len(q) : k[i] = q[j] /\ q[j] \in S
    BY KeptType
  <1>2. \A i \in 1 .. Len(q) : q[i] \in S => \E j \in 1 .. Len(k) : k[j] = q[i]
    BY KeptFinds
  <1>3. ASSUME Once(d, q), NEW i \in 1 .. Len(k), NEW j \in 1 .. Len(k), k[i] = d, k[j] = d PROVE i = j
    <2>1. PICK f \in Places(q, S) : Rank(q, S, f) = i
      BY KeptLen
    <2>2. PICK g \in Places(q, S) : Rank(q, S, g) = j
      BY KeptLen
    <2>3. k[i] = q[f] /\ k[j] = q[g]
      BY <2>1, <2>2, KeptAt
    <2>4. f \in 1 .. Len(q) /\ g \in 1 .. Len(q)
      BY DEF Places
    <2>5. f = g
      BY <1>3, <2>3, <2>4 DEF Once
    <2>6. QED
      BY <2>1, <2>2, <2>5
  <1> HIDE DEF k
  <1>4. In(d, k) <=> In(d, q) /\ d # c
    BY <1>1, <1>2 DEF In
  <1>5. Once(d, q) => Once(d, k)
    BY <1>3 DEF Once
  <1>6. QED
    BY <1>1, <1>4, <1>5 DEF k

\* The first client that waits.
LEMMA WaitingHead ==
    ASSUME NEW q \in Seq(Conns), q # <<>>, \A c \in Conns : Once(c, q), NEW d \in Conns
    PROVE  /\ Head(q) \in Conns /\ In(Head(q), q)
           /\ Tail(q) \in Seq(Conns)
           /\ In(d, Tail(q)) <=> In(d, q) /\ d # Head(q)
           /\ Once(d, Tail(q))
           /\ Len(Tail(q)) + 1 = Len(q) /\ Len(q) \in Nat
  <1>1. Head(q) \in Conns /\ Tail(q) \in Seq(Conns) /\ Len(q) \in Nat /\ Len(q) # 0
        /\ Len(Tail(q)) = Len(q) - 1 /\ Head(q) = q[1]
    BY EmptySeq, LenProperties, HeadTailProperties
  <1>2. <<>> \in Seq(Conns) /\ ~In(d, <<>>) /\ Tail(q) \o <<>> = Tail(q)
    <2>1. <<>> \in Seq(Conns) /\ Len(<<>>) = 0
      BY EmptySeq
    <2>2. ~In(d, <<>>)
      BY <2>1 DEF In
    <2>3. QED
      BY <1>1, <2>1, <2>2, ConcatEmptySeq
  <1>3. 1 \in 1 .. Len(q)
    BY <1>1
  <1>4. In(Head(q), q)
    BY <1>1, <1>3 DEF In
  <1>5. /\ In(d, q) /\ d # Head(q) => In(d, Tail(q))
        /\ In(d, Tail(q)) => In(d, q)
        /\ Once(d, q) => Once(d, Tail(q))
        /\ Once(d, q) /\ d = Head(q) => ~In(d, Tail(q))
    BY <1>2, QueueAdd
  <1>6. Once(d, q)
    OBVIOUS
  <1>7. QED
    BY <1>1, <1>4, <1>5, <1>6

-----------------------------------------------------------------------------
(* What the step of one connection leaves to the others *)

Peers == {"away", "knocking", "connected", "greeted", "replied", "queried", "informed", "quiet", "cut"}

\* No event that matters to d is lost, and none that asks for a connection is new.
QueueSpares(d) ==
  /\ In(<<"CONNECTING", d>>, queue') => In(<<"CONNECTING", d>>, queue)
  /\ Once(<<"CONNECTING", d>>, queue) => Once(<<"CONNECTING", d>>, queue')
  /\ In(<<"SUCCESS", d>>, queue) => In(<<"SUCCESS", d>>, queue')
  /\ In(<<"FAILURE", d>>, queue) => In(<<"FAILURE", d>>, queue')
  /\ In(<<"DISCONNECTED", d>>, queue) => In(<<"DISCONNECTED", d>>, queue')

\* The step is about c.
About(c) ==
  /\ conn' \in [Conns -> ConnType] /\ peer' \in [Conns -> Peers]
  /\ listening' = listening /\ ~aborted
  /\ \A d \in Conns \ {c} :
       /\ conn'[d] = conn[d] /\ peer'[d] = peer[d]
       /\ In(d, waiting') <=> In(d, waiting)
       /\ d \in served' <=> d \in served
       /\ d \in closing' <=> d \in closing
       /\ QueueSpares(d)

LEMMA OthersGood ==
    ASSUME NEW c \in Conns, About(c), \A d \in Conns : Good(d), Good(c)'
    PROVE  \A d \in Conns : Good(d)'
  <1> SUFFICES ASSUME NEW d \in Conns, d # c PROVE Good(d)'
    OBVIOUS
  <1>1. Good(d) /\ d \in Conns \ {c}
    OBVIOUS
  <1>2. SitsThen(conn'[d], d)
    BY <1>1 DEF Good, About, Sits, SitsThen, Held
  <1>3. QED
    BY <1>1, <1>2 DEF Good, About, QueueSpares, Decided, Sits, SitsThen

-----------------------------------------------------------------------------
(* The objects of one connection, operation by operation *)

\* A new ClientProxyUnknown takes the stream.
LEMMA AcceptedHeld ==
    ASSUME NEW c, NEW r \in ConnType, Sits(r, c), r.socket = "listener",
           NEW q, q = [r EXCEPT !.socket = "unknown", !.fresh = TRUE, !.timer = TRUE, !.reads = "unknown"]
    PROVE  q \in ConnType /\ Sits(q, c) /\ q.proxy # "closed" /\ q.timer
  BY DEF Sits, Held, ConnType, Live

\* The socket is closed before anyone else had it.
LEMMA RefusedHeld ==
    ASSUME NEW c, NEW r \in ConnType, Sits(r, c), r.socket = "listener",
           NEW q, q = [r EXCEPT !.socket = "closed"]
    PROVE  /\ q \in ConnType /\ Sits(q, c)
           /\ q.proxy # "closed" /\ ~q.fresh
  BY DEF Sits, Held, ConnType, Live

\* The proxy takes the stream; its handlers are the new client's.
LEMMA ProxyHeld ==
    ASSUME NEW c, NEW r \in ConnType, Sits(r, c), r.reads = "unknown", NEW q, q = createProxy(r)
    PROVE  /\ q \in ConnType /\ Sits(q, c)
           /\ q.proxy # "closed" /\ q.timer = r.timer /\ q.fresh = r.fresh
  BY DEF Sits, Held, ConnType, Live, createProxy

\* The handshake fails, and with it the proxy.
LEMMA FailedHeld ==
    ASSUME NEW c, NEW r \in ConnType, Sits(r, c), r.fresh, NEW q, q = sendFailure(r)
    PROVE  q \in ConnType /\ Sits(q, c) /\ q.proxy # "closed"
  BY DEF Sits, Held, ConnType, Live, sendFailure, deleteProxy

\* A proxy that hangs up keeps its holder.
LEMMA HungUpHeld ==
    ASSUME NEW c, NEW r \in ConnType, Sits(r, c), r.reads = "proxy" \/ r.beat, NEW q, q = disconnect(r)
    PROVE  /\ q \in ConnType /\ Sits(q, c)
           /\ q.fresh = r.fresh /\ q.timer = r.timer
  BY DEF Sits, Held, ConnType, Live, disconnect

\* The proxy is open.
LEMMA InformedHeld ==
    ASSUME NEW c, NEW r \in ConnType, Sits(r, c), r.reads = "proxy", NEW q, q = recvInfo(r)
    PROVE  /\ q \in ConnType /\ Sits(q, c)
           /\ q.proxy # "closed" /\ q.timer = r.timer /\ q.fresh = r.fresh
  BY DEF Sits, Held, ConnType, Live, recvInfo

\* The alarm is put off.
LEMMA HeardHeld ==
    ASSUME NEW c, NEW r \in ConnType, Sits(r, c), r.reads = "proxy", NEW q, q = [r EXCEPT !.beat = TRUE]
    PROVE  /\ q \in ConnType /\ Sits(q, c)
           /\ q.proxy = r.proxy /\ q.timer = r.timer /\ q.fresh = r.fresh
  BY DEF Sits, Held, ConnType, Live

\* The handshake succeeds.
LEMMA SucceededHeld ==
    ASSUME NEW c, NEW r \in ConnType, Sits(r, c), r.watch = "unknown", NEW q, q = sendSuccess(r)
    PROVE  /\ q \in ConnType /\ Sits(q, c)
           /\ q.proxy = r.proxy /\ q.fresh = r.fresh
  BY DEF Sits, Held, ConnType, Live, sendSuccess

\* The proxy of the listener or the server is deleted.
LEMMA DeletedHeld ==
    ASSUME NEW c, NEW r \in ConnType, Sits(r, c), r.proxy \in Live, ~r.fresh, NEW q, q = deleteProxy(r)
    PROVE  /\ q \in ConnType /\ Held(q, listening, FALSE, FALSE, FALSE)
           /\ q.proxy = "deleted" /\ ~q.fresh
  BY DEF Sits, Held, ConnType, Live, deleteProxy

\* A ready client goes from ClientProxyUnknown to those that wait.
LEMMA OrphanHeld ==
    ASSUME NEW c, NEW r \in ConnType, Sits(r, c), r.fresh, r.ready, NEW q, q = orphanClientProxy(r)
    PROVE  /\ q \in ConnType /\ Held(q, listening, TRUE, c \in served, c \in closing)
           /\ q.proxy = r.proxy /\ ~q.fresh /\ ~In(c, waiting)
  BY DEF Sits, Held, ConnType, Live, orphanClientProxy

\* A ClientProxyUnknown that is not ready, or whose listener ends, is deleted.
LEMMA DroppedHeld ==
    ASSUME NEW c, NEW r \in ConnType, Sits(r, c), r.fresh, NEW k \in BOOLEAN, NEW q, q = deleteUnknown(r)
    PROVE  /\ q \in ConnType /\ Held(q, k, FALSE, c \in served, c \in closing)
           /\ q.proxy # "closed" /\ ~q.fresh /\ ~In(c, waiting)
  BY DEF Sits, Held, ConnType, Live, deleteUnknown, deleteProxy

\* The server adopts a client that waited.
LEMMA AdoptedHeld ==
    ASSUME NEW c, NEW r \in ConnType, Sits(r, c), In(c, waiting), NEW q, q = adopt(r)
    PROVE  /\ q \in ConnType /\ Held(q, listening, FALSE, TRUE, c \in closing)
           /\ q.proxy = r.proxy /\ q.fresh = r.fresh /\ q.timer = r.timer
  BY DEF Sits, Held, ConnType, Live, adopt

\* The server closes a client that waited.
LEMMA TurnedAwayHeld ==
    ASSUME NEW c, NEW r \in ConnType, Sits(r, c), In(c, waiting), NEW q, q = [r EXCEPT !.watch = "server"]
    PROVE  /\ q \in ConnType /\ Held(q, listening, FALSE, c \in served, TRUE)
           /\ q.proxy = r.proxy /\ q.fresh = r.fresh /\ q.timer = r.timer
  BY DEF Sits, Held, ConnType, Live

\* The server closes a client it served.
LEMMA ClosingHeld ==
    ASSUME NEW c, NEW r \in ConnType, Sits(r, c), c \in served
    PROVE  Held(r, listening, In(c, waiting), FALSE, TRUE)
  BY DEF Sits, Held, ConnType, Live

\* What a connection nothing is known of may be.
LEMMA UntouchedHeld ==
    ASSUME NEW l \in BOOLEAN
    PROVE  /\ Untouched \in ConnType /\ Held(Untouched, l, FALSE, FALSE, FALSE)
           /\ l => Held([Untouched EXCEPT !.socket = "listener"], l, FALSE, FALSE, FALSE)
           /\ [Untouched EXCEPT !.socket = "listener"] \in ConnType
  BY DEF Held, ConnType, Live, Untouched

-----------------------------------------------------------------------------
(* What a step does to the event queue *)

EventsOf == EventTypes \X Conns

LEMMA Listed ==
    ASSUME NEW a \in EventsOf, NEW b \in EventsOf, NEW e
    PROVE  /\ <<>> \in Seq(EventsOf) /\ ~In(e, <<>>)
           /\ <<a>> \in Seq(EventsOf) /\ (In(e, <<a>>) <=> e = a)
           /\ <<a, b>> \in Seq(EventsOf) /\ (In(e, <<a, b>>) <=> e = a \/ e = b)
  BY DEF In

\* The first event, which is about c, is done, and events about c are added.
LEMMA QueueDone ==
    ASSUME NEW c \in Conns, NEW type, queue \in Seq(EventsOf), Next1(type, c), NEW s \in Seq(EventsOf), Add(s),
           \A d \in Conns : d # c => \A t : ~In(<<t, d>>, s),
           ~In(<<"CONNECTING", c>>, s)
    PROVE  /\ queue' \in Seq(EventsOf)
           /\ \A d \in Conns \ {c} : QueueSpares(d)
           /\ In(<<"CONNECTING", c>>, queue') => In(<<"CONNECTING", c>>, queue)
           /\ Once(<<"CONNECTING", c>>, queue) => Once(<<"CONNECTING", c>>, queue')
           /\ type = "CONNECTING" /\ Once(<<"CONNECTING", c>>, queue) => ~In(<<"CONNECTING", c>>, queue')
           /\ \A t : In(<<t, c>>, queue) /\ t # type => In(<<t, c>>, queue')
           /\ \A t : In(<<t, c>>, s) => In(<<t, c>>, queue')
           /\ In(<<type, c>>, queue)
  <1>1. queue # <<>> /\ Head(queue) = <<type, c>> /\ queue' = Tail(queue) \o s
    BY DEF Next1, Add
  <1>2. queue' \in Seq(EventsOf)
    BY <1>1, HeadTailProperties, ConcatProperties
  <1>3. \A e : /\ In(e, queue) /\ e # <<type, c>> => In(e, queue')
               /\ In(e, s) => In(e, queue')
               /\ In(e, queue') => In(e, queue) \/ In(e, s)
               /\ Once(e, queue) /\ ~In(e, s) => Once(e, queue')
               /\ Once(e, queue) /\ ~In(e, s) /\ e = <<type, c>> => ~In(e, queue')
    BY <1>1, QueueAdd
  <1>4. ASSUME NEW d \in Conns \ {c} PROVE QueueSpares(d)
    <2>1. \A t : <<t, d>> # <<type, c>> /\ ~In(<<t, d>>, s)
      OBVIOUS
    <2>2. QED
      BY <1>3, <2>1 DEF QueueSpares
  <1>5. In(<<type, c>>, queue)
    <2>1. 1 \in 1 .. Len(queue) /\ queue[1] = <<type, c>>
      BY <1>1, EmptySeq, LenProperties, HeadTailProperties
    <2>2. QED
      BY <2>1 DEF In
  <1>6. \A t : t # type => <<t, c>> # <<type, c>>
    OBVIOUS
  <1>7. QED
    BY <1>2, <1>3, <1>4, <1>5, <1>6

\* An event about c arrives that does not ask for a connection.
LEMMA QueueGrows ==
    ASSUME NEW c \in Conns, NEW type \in EventTypes, queue \in Seq(EventsOf), queue' = Append(queue, <<type, c>>)
    PROVE  /\ queue' \in Seq(EventsOf)
           /\ \A d \in Conns \ {c} : QueueSpares(d)
           /\ type # "CONNECTING" => QueueSpares(c)
           /\ In(<<type, c>>, queue')
           /\ ~In(<<"CONNECTING", c>>, queue) => Once(<<"CONNECTING", c>>, queue')
           /\ \A t : In(<<t, c>>, queue) => In(<<t, c>>, queue')
  <1>1. <<type, c>> \in EventsOf
    BY DEF EventsOf
  <1>2. queue' \in Seq(EventsOf)
    BY <1>1, AppendProperties
  <1>3. \A e : /\ In(e, queue') <=> In(e, queue) \/ e = <<type, c>>
               /\ Once(e, queue) /\ e # <<type, c>> => Once(e, queue')
               /\ ~In(e, queue) => Once(e, queue')
    BY <1>1, QueueAppend
  <1>4. ASSUME NEW d \in Conns \ {c} PROVE QueueSpares(d)
    <2>1. \A t : <<t, d>> # <<type, c>>
      OBVIOUS
    <2>2. QED
      BY <1>3, <2>1 DEF QueueSpares
  <1>5. ASSUME type # "CONNECTING" PROVE QueueSpares(c)
    <2>1. <<"CONNECTING", c>> # <<type, c>>
      BY <1>5
    <2>2. QED
      BY <1>3, <2>1 DEF QueueSpares
  <1>6. QED
    BY <1>2, <1>3, <1>4, <1>5

\* A queue that stays as it is spares everyone.
LEMMA QueueStays ==
    ASSUME queue' = queue
    PROVE  \A d : QueueSpares(d)
  BY DEF QueueSpares

-----------------------------------------------------------------------------
(* The steps *)

\* What is left to show of a step that is about one connection.
LEMMA StepHolds ==
    ASSUME HoldInv, NEW c \in Conns, About(c), Good(c)',
           queue' \in Seq(EventsOf), waiting' \in Seq(Conns), WaitsOnce',
           served' \subseteq Conns, closing' \subseteq Conns, told' \subseteq Conns,
           secure' = secure, aborted' \in BOOLEAN, chats' \in 0 .. MaxChats
    PROVE  HoldInv'
  <1>1. \A d \in Conns : Good(d)'
    BY OthersGood DEF HoldInv
  <1>2. TypeOK'
    BY DEF HoldInv, TypeOK, About, EventsOf, Peers
  <1>3. QED
    BY <1>1, <1>2 DEF HoldInv

\* What the invariant says of connection c.
LEMMA Known ==
    ASSUME HoldInv, NEW c \in Conns
    PROVE  /\ conn \in [Conns -> ConnType] /\ conn[c] \in ConnType /\ peer \in [Conns -> Peers]
           /\ listening \in BOOLEAN /\ Sits(conn[c], c) /\ Good(c)
           /\ queue \in Seq(EventsOf) /\ waiting \in Seq(Conns) /\ WaitsOnce
           /\ served \subseteq Conns /\ closing \subseteq Conns /\ told \subseteq Conns
           /\ aborted \in BOOLEAN /\ chats \in 0 .. MaxChats
  <1>1. TypeOK /\ WaitsOnce /\ Good(c)
    BY DEF HoldInv
  <1>2. Sits(conn[c], c)
    BY <1>1 DEF Good
  <1>3. /\ conn \in [Conns -> ConnType] /\ peer \in [Conns -> Peers] /\ listening \in BOOLEAN
        /\ queue \in Seq(EventsOf) /\ waiting \in Seq(Conns)
        /\ served \subseteq Conns /\ closing \subseteq Conns /\ told \subseteq Conns
        /\ aborted \in BOOLEAN /\ chats \in 0 .. MaxChats
    BY <1>1 DEF TypeOK, EventsOf, Peers
  <1>4. QED
    BY <1>1, <1>2, <1>3

\* The peer acts: only its own state and the queue change.
LEMMA PeerHolds ==
    ASSUME HoldInv, ~aborted, NEW c \in Conns, PeerOnly, chats' \in 0 .. MaxChats,
           NEW p \in Peers, peer' = [peer EXCEPT ![c] = p],
           queue' \in Seq(EventsOf), \A d \in Conns : QueueSpares(d),
           p \notin {"away", "knocking"}, ~In(<<"CONNECTING", c>>, queue)
    PROVE  HoldInv'
  <1>1. About(c)
    BY Known DEF About, PeerOnly
  <1>2. Good(c)'
    <2>1. peer'[c] = p
      BY Known
    <2>2. Good(c) /\ QueueSpares(c)
      BY Known
    <2>3. QED
      BY <2>1, <2>2 DEF Good, QueueSpares, PeerOnly, Decided, Sits
  <1>3. QED
    BY <1>1, <1>2, StepHolds, Known DEF PeerOnly, WaitsOnce

LEMMA PeerSteps ==
    ASSUME HoldInv, ~aborted, NEW c \in Conns, Peer(c)
    PROVE  HoldInv'
  <1>1. CASE Knock(c)
    <2>1. peer[c] = "away" /\ peer' = [peer EXCEPT ![c] = "knocking"]
          /\ queue' = Append(queue, <<"CONNECTING", c>>) /\ PeerOnly /\ chats' = chats
      BY <1>1 DEF Knock, Arrives
    <2>2. "CONNECTING" \in EventTypes /\ peer'[c] = "knocking"
      BY <2>1, Known DEF EventTypes
    <2>3. /\ queue' \in Seq(EventsOf) /\ \A d \in Conns \ {c} : QueueSpares(d)
          /\ ~In(<<"CONNECTING", c>>, queue) => Once(<<"CONNECTING", c>>, queue')
          /\ \A t : In(<<t, c>>, queue) => In(<<t, c>>, queue')
      BY <2>1, <2>2, Known, QueueGrows
    <2>4. About(c)
      BY <2>1, <2>3, Known DEF About, PeerOnly, Peers
    <2>5. Good(c)'
      <3>1. ~In(<<"CONNECTING", c>>, queue) /\ conn[c] = Untouched
        BY <2>1, Known DEF Good
      <3>2. QED
        BY <2>1, <2>2, <2>3, <3>1, Known DEF Good, PeerOnly, Decided, Sits
    <2>6. QED
      BY <2>1, <2>3, <2>4, <2>5, StepHolds, Known DEF PeerOnly, WaitsOnce
  <1>2. ASSUME NEW type \in EventTypes \ {"CONNECTING"}, Arrives(c, type), PeerOnly, chats' \in 0 .. MaxChats,
               NEW p \in Peers \ {"away", "knocking"}, peer' = [peer EXCEPT ![c] = p], peer[c] # "knocking"
        PROVE  HoldInv'
    <2>1. queue' = Append(queue, <<type, c>>)
      BY <1>2 DEF Arrives
    <2>2. queue' \in Seq(EventsOf) /\ \A d \in Conns : QueueSpares(d)
      BY <2>1, Known, QueueGrows
    <2>3. ~In(<<"CONNECTING", c>>, queue)
      BY <1>2, Known DEF Good
    <2>4. QED
      BY <1>2, <2>2, <2>3, PeerHolds
  <1>3. chats \in 0 .. MaxChats
    BY Known
  <1>4. CASE SecureAccept(c)
    <2>1. peer[c] # "knocking" /\ PeerOnly /\ chats' = chats
      BY <1>4 DEF SecureAccept
    <2>2. \/ Arrives(c, "ACCEPTED") /\ peer' = [peer EXCEPT ![c] = "replied"]
          \/ Arrives(c, "ACCEPT_FAILED") /\ peer' = [peer EXCEPT ![c] = "cut"]
      BY <1>4 DEF SecureAccept
    <2>3. {"ACCEPTED", "ACCEPT_FAILED"} \subseteq EventTypes \ {"CONNECTING"}
          /\ {"replied", "cut"} \subseteq Peers \ {"away", "knocking"}
      BY DEF EventTypes, Peers
    <2>4. QED
      BY <1>2, <1>3, <2>1, <2>2, <2>3
  <1>5. CASE Inform(c)
    <2>1. peer[c] # "knocking" /\ PeerOnly /\ chats' = chats
          /\ Arrives(c, "INFO") /\ peer' = [peer EXCEPT ![c] = "informed"]
      BY <1>5 DEF Inform
    <2>2. "INFO" \in EventTypes \ {"CONNECTING"} /\ "informed" \in Peers \ {"away", "knocking"}
      BY DEF EventTypes, Peers
    <2>3. QED
      BY <1>2, <1>3, <2>1, <2>2
  <1>6. CASE Chat(c)
    <2>1. /\ peer[c] \in {"queried", "informed"} /\ PeerOnly /\ peer' = peer
          /\ chats < MaxChats /\ chats' = chats + 1
          /\ \E type \in {"NOOP", "GARBAGE"} : Arrives(c, type)
      BY <1>6 DEF Chat
    <2>2. chats' \in 0 .. MaxChats
      BY <1>3, <2>1, AdmissionAssumption
    <2>3. peer' = [peer EXCEPT ![c] = peer[c]] /\ peer[c] \in Peers \ {"away", "knocking"} /\ peer[c] # "knocking"
      BY <2>1, Known DEF Peers
    <2>4. {"NOOP", "GARBAGE"} \subseteq EventTypes \ {"CONNECTING"}
      BY DEF EventTypes
    <2>5. QED
      BY <1>2, <2>1, <2>2, <2>3, <2>4
  <1>7. CASE Cut(c)
    <2>1. peer[c] # "knocking" /\ PeerOnly /\ chats' = chats
          /\ Arrives(c, "SHUTDOWN") /\ peer' = [peer EXCEPT ![c] = "cut"]
      BY <1>7 DEF Cut, Up
    <2>2. "SHUTDOWN" \in EventTypes \ {"CONNECTING"} /\ "cut" \in Peers \ {"away", "knocking"}
      BY DEF EventTypes, Peers
    <2>3. QED
      BY <1>2, <1>3, <2>1, <2>2
  <1>8. CASE Vanish(c)
    <2>1. peer[c] # "knocking" /\ PeerOnly /\ chats' = chats /\ queue' = queue
          /\ peer' = [peer EXCEPT ![c] = "quiet"]
      BY <1>8 DEF Vanish, Up
    <2>2. "quiet" \in Peers \ {"away", "knocking"} /\ \A d \in Conns : QueueSpares(d)
      BY <2>1, QueueStays DEF Peers
    <2>3. ~In(<<"CONNECTING", c>>, queue)
      BY <2>1, Known DEF Good
    <2>4. QED
      BY <1>3, <2>1, <2>2, <2>3, PeerHolds, Known
  <1>9. CASE \E type \in Replies : Reply(c, type)
    <2>1. PICK type \in Replies : Reply(c, type)
      BY <1>9
    <2>2. peer[c] # "knocking" /\ PeerOnly /\ chats' = chats
          /\ Arrives(c, type) /\ peer' = [peer EXCEPT ![c] = "replied"]
      BY <2>1 DEF Reply
    <2>3. type \in EventTypes \ {"CONNECTING"} /\ "replied" \in Peers \ {"away", "knocking"}
      BY AdmissionAssumption DEF EventTypes, Peers, Supported, Unsupported, Invalid, Malformed
    <2>4. QED
      BY <1>2, <1>3, <2>2, <2>3
  <1>10. QED
    BY <1>1, <1>4, <1>5, <1>6, <1>7, <1>8, <1>9 DEF Peer

\* What is left to show of a handler that is run for an event about c.
LEMMA HandlerHolds ==
    ASSUME HoldInv, ~aborted, NEW c \in Conns, NEW type, Next1(type, c), type # "CONNECTING",
           NEW s \in Seq(EventsOf), Add(s), \A d \in Conns : d # c => \A t : ~In(<<t, d>>, s),
           ~In(<<"CONNECTING", c>>, s),
           Steady, told' \subseteq Conns, aborted' \in BOOLEAN,
           waiting' \in Seq(Conns), WaitsOnce', served' \subseteq Conns, closing' \subseteq Conns,
           \A d \in Conns \ {c} : /\ In(d, waiting') <=> In(d, waiting)
                                  /\ d \in served' <=> d \in served
                                  /\ d \in closing' <=> d \in closing,
           peer' = peer \/ peer' = Asked(c, "greeted") \/ peer' = Asked(c, "queried"),
           conn[c] # Untouched, NEW q \in ConnType, conn' = [conn EXCEPT ![c] = q],
           SitsThen(q, c),
           q.fresh /\ ~aborted' => \/ q.timer \/ In(<<"SUCCESS", c>>, s) \/ In(<<"FAILURE", c>>, s)
                                   \/ conn[c].fresh /\ ~conn[c].timer /\ type \notin {"SUCCESS", "FAILURE"},
           q.proxy = "closed" => \/ In(<<"DISCONNECTED", c>>, s)
                                 \/ conn[c].proxy = "closed" /\ type # "DISCONNECTED"
    PROVE  HoldInv'
  <1>1. /\ queue' \in Seq(EventsOf)
        /\ \A d \in Conns \ {c} : QueueSpares(d)
        /\ In(<<"CONNECTING", c>>, queue') => In(<<"CONNECTING", c>>, queue)
        /\ Once(<<"CONNECTING", c>>, queue) => Once(<<"CONNECTING", c>>, queue')
        /\ \A t : In(<<t, c>>, queue) /\ t # type => In(<<t, c>>, queue')
        /\ \A t : In(<<t, c>>, s) => In(<<t, c>>, queue')
    BY Known, QueueDone
  <1>2. peer[c] \notin {"away", "knocking"}
    BY Known DEF Good
  <1>3. /\ peer' \in [Conns -> Peers] /\ \A d \in Conns \ {c} : peer'[d] = peer[d]
        /\ peer'[c] \notin {"away", "knocking"}
    BY <1>2, Known DEF Asked, Peers
  <1>4. conn' \in [Conns -> ConnType] /\ conn'[c] = q /\ \A d \in Conns \ {c} : conn'[d] = conn[d]
    BY Known
  <1>5. listening' = listening /\ secure' = secure /\ chats' \in 0 .. MaxChats
    BY Known DEF Steady
  <1>6. About(c)
    BY <1>1, <1>3, <1>4, <1>5 DEF About
  <1>7. ~In(<<"CONNECTING", c>>, queue') /\ Once(<<"CONNECTING", c>>, queue')
    BY <1>1, <1>2, Known DEF Good
  <1>8. ASSUME q.fresh, ~aborted' PROVE q.timer \/ Decided(c)'
    <2>1. conn[c].fresh /\ ~conn[c].timer => In(<<"SUCCESS", c>>, queue) \/ In(<<"FAILURE", c>>, queue)
      BY Known DEF Good, Decided
    <2>2. QED
      BY <1>1, <1>8, <2>1 DEF Decided
  <1>9. ASSUME q.proxy = "closed" PROVE In(<<"DISCONNECTED", c>>, queue')
    <2>1. conn[c].proxy = "closed" => In(<<"DISCONNECTED", c>>, queue)
      BY Known DEF Good
    <2>2. QED
      BY <1>1, <1>9, <2>1
  <1>10. Good(c)'
    BY <1>3, <1>4, <1>5, <1>7, <1>8, <1>9 DEF Good, Sits, SitsThen
  <1>11. QED
    BY <1>1, <1>5, <1>6, <1>10, StepHolds

\* The same when the lists stay as they are and one event or none is added.
LEMMA QuietHandlerHolds ==
    ASSUME HoldInv, ~aborted, NEW c \in Conns, NEW type, Next1(type, c), type # "CONNECTING",
           NEW add \in EventTypes \ {"CONNECTING"},
           NEW s, s = <<>> \/ s = << <<add, c>> >>, Add(s),
           Steady, UNCHANGED Lists, told' \subseteq Conns, aborted' \in BOOLEAN,
           peer' = peer \/ peer' = Asked(c, "greeted") \/ peer' = Asked(c, "queried"),
           conn[c] # Untouched, NEW q \in ConnType, conn' = [conn EXCEPT ![c] = q],
           Sits(q, c),
           q.fresh /\ ~aborted' => \/ q.timer \/ s = << <<"SUCCESS", c>> >> \/ s = << <<"FAILURE", c>> >>
                                   \/ conn[c].fresh /\ ~conn[c].timer /\ type \notin {"SUCCESS", "FAILURE"},
           q.proxy = "closed" => \/ s = << <<"DISCONNECTED", c>> >>
                                 \/ conn[c].proxy = "closed" /\ type # "DISCONNECTED"
    PROVE  HoldInv'
  <1>1. \A k \in EventTypes : <<k, c>> \in EventsOf
    BY DEF EventsOf
  <1>2. s \in Seq(EventsOf) /\ \A e : In(e, s) => e = <<add, c>>
    <2>1. <<add, c>> \in EventsOf
      BY <1>1
    <2>2. << >> \in Seq(EventsOf) /\ << <<add, c>> >> \in Seq(EventsOf)
      BY <2>1
    <2>3. \A e : ~In(e, << >>) /\ (In(e, << <<add, c>> >>) => e = <<add, c>>)
      BY <2>1, Listed
    <2>4. QED
      BY <2>2, <2>3
  <1>3. {"SUCCESS", "FAILURE", "DISCONNECTED"} \subseteq EventTypes
    BY DEF EventTypes
  <1>4. \A k \in {"SUCCESS", "FAILURE", "DISCONNECTED"} : In(<<k, c>>, << <<k, c>> >>)
    BY <1>1, <1>3, Listed
  <1>5. /\ s = << <<"SUCCESS", c>> >> => In(<<"SUCCESS", c>>, s)
        /\ s = << <<"FAILURE", c>> >> => In(<<"FAILURE", c>>, s)
        /\ s = << <<"DISCONNECTED", c>> >> => In(<<"DISCONNECTED", c>>, s)
    BY <1>4
  <1>6. /\ \A d \in Conns : d # c => \A t : ~In(<<t, d>>, s)
        /\ ~In(<<"CONNECTING", c>>, s)
    BY <1>2
  <1>7. waiting' = waiting /\ served' = served /\ closing' = closing
    BY DEF Lists
  <1>8. waiting' \in Seq(Conns) /\ WaitsOnce' /\ served' \subseteq Conns /\ closing' \subseteq Conns
    BY <1>7, Known DEF WaitsOnce
  <1>9. SitsThen(q, c)
    BY <1>7 DEF Sits, SitsThen, Steady
  <1>10. QED
    BY <1>2, <1>5, <1>6, <1>7, <1>8, <1>9, HandlerHolds

LEMMA ConnectingHolds ==
    ASSUME HoldInv, ~aborted, NEW c \in Conns, HandleClientConnecting(c)
    PROVE  HoldInv'
  <1>1. Next1("CONNECTING", c) /\ Steady /\ UNCHANGED <<Lists, told, aborted>>
    BY DEF HandleClientConnecting
  <1>2. {<<"ACCEPTED", c>>, <<"SHUTDOWN", c>>} \subseteq EventsOf
    BY DEF EventsOf, EventTypes
  <1>3. PICK s \in {<<>>, << <<"ACCEPTED", c>> >>, << <<"SHUTDOWN", c>>, <<"ACCEPTED", c>> >>} : Add(s)
    BY DEF HandleClientConnecting
  <1>4. s \in Seq(EventsOf) /\ \A e : In(e, s) => e \in {<<"ACCEPTED", c>>, <<"SHUTDOWN", c>>}
    <2>0. <<"ACCEPTED", c>> \in EventsOf /\ <<"SHUTDOWN", c>> \in EventsOf
      BY <1>2
    <2>1. s \in Seq(EventsOf)
      <3>1. << >> \in Seq(EventsOf) /\ << <<"ACCEPTED", c>> >> \in Seq(EventsOf)
        BY <2>0
      <3>2. << <<"SHUTDOWN", c>>, <<"ACCEPTED", c>> >> \in Seq(EventsOf)
        BY <2>0
      <3>3. QED
        BY <1>3, <3>1, <3>2
    <2>2. \A e : /\ ~In(e, <<>>)
                 /\ In(e, << <<"ACCEPTED", c>> >>) => e = <<"ACCEPTED", c>>
                 /\ In(e, << <<"SHUTDOWN", c>>, <<"ACCEPTED", c>> >>) => e \in {<<"ACCEPTED", c>>, <<"SHUTDOWN", c>>}
      BY <1>2, Listed
    <2>3. QED
      BY <1>3, <2>1, <2>2
  <1>5. /\ queue' \in Seq(EventsOf)
        /\ \A d \in Conns \ {c} : QueueSpares(d)
        /\ Once(<<"CONNECTING", c>>, queue) => Once(<<"CONNECTING", c>>, queue')
        /\ Once(<<"CONNECTING", c>>, queue) => ~In(<<"CONNECTING", c>>, queue')
        /\ In(<<"CONNECTING", c>>, queue)
    <2>1. ~In(<<"CONNECTING", c>>, s) /\ \A d \in Conns : d # c => \A t : ~In(<<t, d>>, s)
      BY <1>4
    <2>2. QED
      BY <1>1, <1>3, <1>4, <2>1, Known, QueueDone
  <1>6. conn[c] = Untouched
    BY <1>5, Known DEF Good
  <1>7. PICK p \in {"connected", "replied", "cut"} : peer' = [peer EXCEPT ![c] = p]
    BY DEF HandleClientConnecting
  <1>8. /\ peer' \in [Conns -> Peers] /\ peer'[c] \notin {"away", "knocking"}
        /\ \A d \in Conns \ {c} : peer'[d] = peer[d]
    BY <1>7, Known DEF Peers
  <1>9. (listening /\ conn' = [conn EXCEPT ![c].socket = "listener"]) \/ conn' = conn
    BY DEF HandleClientConnecting
  <1>10. PICK q \in {Untouched, [Untouched EXCEPT !.socket = "listener"]} :
           /\ conn' = [conn EXCEPT ![c] = q]
           /\ q = Untouched \/ listening
    BY <1>6, <1>9, Known
  <1>11. ~In(c, waiting) /\ c \notin served /\ c \notin closing
    BY <1>6, Known DEF Sits, Held, Untouched, Live
  <1>12. q \in ConnType /\ Sits(q, c)
    <2>1. q \in ConnType /\ Held(q, listening, FALSE, FALSE, FALSE)
      BY <1>10, UntouchedHeld, Known
    <2>2. QED
      BY <1>11, <2>1 DEF Sits, Held
  <1>13. ~q.fresh /\ q.proxy = "none"
    BY <1>10 DEF Untouched
  <1>14. conn' \in [Conns -> ConnType] /\ conn'[c] = q /\ \A d \in Conns \ {c} : conn'[d] = conn[d]
    BY <1>10, <1>12, Known
  <1>15. /\ listening' = listening /\ secure' = secure /\ chats' \in 0 .. MaxChats /\ told' \subseteq Conns
         /\ waiting' = waiting /\ served' = served /\ closing' = closing /\ aborted' = aborted
    BY <1>1, Known DEF Steady, Lists
  <1>16. About(c)
    BY <1>5, <1>8, <1>14, <1>15 DEF About
  <1>17. Good(c)'
    <2>1. Once(<<"CONNECTING", c>>, queue)
      BY Known DEF Good
    <2>2. QED
      BY <1>5, <1>8, <1>12, <1>13, <1>14, <1>15, <2>1 DEF Good, Sits
  <1>18. QED
    BY <1>5, <1>15, <1>16, <1>17, StepHolds, Known DEF WaitsOnce

LEMMA AcceptedHolds ==
    ASSUME HoldInv, ~aborted, NEW c \in Conns, HandleClientAccepted(c) \/ HandleClientAcceptFailed(c)
    PROVE  HoldInv'
  <1> DEFINE r == conn[c]
  <1>0. r \in ConnType /\ Sits(r, c)
    BY Known
  <1>1. r \in ConnType /\ r.socket = "listener" /\ r # Untouched /\ "READY" \in EventTypes \ {"CONNECTING"}
    BY Known DEF HandleClientAccepted, HandleClientAcceptFailed, Untouched, EventTypes
  <1>2. Steady /\ UNCHANGED Lists /\ told' \subseteq Conns /\ aborted' \in BOOLEAN /\ Add(<<>>)
    BY Known DEF HandleClientAccepted, HandleClientAcceptFailed
  <1>3. CASE HandleClientAccepted(c)
    <2> DEFINE q == [r EXCEPT !.socket = "unknown", !.fresh = TRUE, !.timer = TRUE, !.reads = "unknown"]
    <2>1. Next1("ACCEPTED", c) /\ peer' = Asked(c, "greeted")
      BY <1>3 DEF HandleClientAccepted
    <2>2. conn' = [conn EXCEPT ![c] = q]
      BY <1>3, Known DEF HandleClientAccepted
    <2>3. /\ q \in ConnType /\ q.proxy # "closed" /\ q.timer
          /\ Sits(q, c)
      BY <1>0, <1>1, AcceptedHeld
    <2> HIDE DEF q
    <2>4. QED
      BY <1>1, <1>2, <2>1, <2>2, <2>3, QuietHandlerHolds
  <1>4. CASE HandleClientAcceptFailed(c)
    <2> DEFINE q == [r EXCEPT !.socket = "closed"]
    <2>1. Next1("ACCEPT_FAILED", c) /\ peer' = peer
      BY <1>4 DEF HandleClientAcceptFailed
    <2>2. conn' = [conn EXCEPT ![c] = q]
      BY <1>4, Known DEF HandleClientAcceptFailed
    <2>3. /\ q \in ConnType /\ q.proxy # "closed" /\ ~q.fresh
          /\ Sits(q, c)
      BY <1>0, <1>1, RefusedHeld
    <2> HIDE DEF q
    <2>4. QED
      BY <1>1, <1>2, <2>1, <2>2, <2>3, QuietHandlerHolds
  <1>5. QED
    BY <1>3, <1>4

\* Replies are none of the other events.
LEMMA ReplyTypes == Replies \cap {"CONNECTING", "SUCCESS", "FAILURE", "DISCONNECTED"} = {}
  BY AdmissionAssumption DEF Supported, Unsupported, Invalid, Malformed

LEMMA HelloHolds ==
    ASSUME HoldInv, ~aborted, NEW c \in Conns, HandleHello(c)
    PROVE  HoldInv'
  <1> DEFINE r == conn[c]
  <1>0. r \in ConnType /\ Sits(r, c)
    BY Known
  <1>1. PICK type \in Replies : Next1(type, c)
    BY DEF HandleHello
  <1>2. type \notin {"CONNECTING", "SUCCESS", "FAILURE", "DISCONNECTED"}
    BY <1>1, ReplyTypes
  <1>3. Head(queue)[1] = type
    BY <1>1 DEF Next1
  <1>4. r \in ConnType /\ r.reads = "unknown" /\ r # Untouched /\ r.fresh /\ r.proxy = "none"
    BY Known DEF HandleHello, Untouched, Sits, Held
  <1>5. Steady /\ UNCHANGED Lists /\ told' \subseteq Conns /\ aborted' \in BOOLEAN
    BY Known DEF HandleHello
  <1>6. {"FAILURE", "READY"} \subseteq EventTypes \ {"CONNECTING"}
    BY DEF EventTypes
  <1>7. CASE type = Supported
    <2> DEFINE q == createProxy(r)
    <2>1. Add(<<>>) /\ peer' = Asked(c, "queried") /\ aborted' = aborted /\ conn' = [conn EXCEPT ![c] = q]
      BY <1>3, <1>7, Known DEF HandleHello, Supported, Unsupported, Invalid, Malformed
    <2>2. /\ q \in ConnType /\ q.proxy # "closed" /\ q.timer = r.timer /\ q.fresh = r.fresh
          /\ Sits(q, c)
      BY <1>0, <1>4, ProxyHeld
    <2> HIDE DEF q
    <2>3. q.fresh /\ ~aborted' => q.timer \/ (r.fresh /\ ~r.timer /\ type \notin {"SUCCESS", "FAILURE"})
      BY <1>2, <1>4, <2>2 DEF ConnType
    <2>4. QED
      BY <1>1, <1>2, <1>4, <1>5, <1>6, <2>1, <2>2, <2>3, QuietHandlerHolds
  <1>8. CASE type \in {Invalid, Malformed}
    <2> DEFINE q == sendFailure(r)
    <2>1. Add(<< <<"FAILURE", c>> >>) /\ peer' = peer /\ conn' = [conn EXCEPT ![c] = q]
      BY <1>3, <1>8, Known DEF HandleHello, Supported, Unsupported, Invalid, Malformed
    <2>2. /\ q \in ConnType /\ q.proxy # "closed"
          /\ Sits(q, c)
      BY <1>0, <1>4, FailedHeld
    <2> HIDE DEF q
    <2>3. QED
      BY <1>1, <1>2, <1>4, <1>5, <1>6, <2>1, <2>2, QuietHandlerHolds
  <1>9. CASE type = Unsupported
    <2> DEFINE q == [r EXCEPT !.reads = "nobody", !.socket = "closed"]
    <2>1. Add(<<>>) /\ peer' = peer /\ aborted' = TRUE /\ conn' = [conn EXCEPT ![c] = q]
      BY <1>3, <1>9, Known DEF HandleHello, Supported, Unsupported, Invalid, Malformed
    <2>2. /\ q \in ConnType /\ q.proxy # "closed"
          /\ Sits(q, c)
      BY <1>0, <1>4 DEF Sits, Held, ConnType, Live
    <2> HIDE DEF q
    <2>3. QED
      BY <1>1, <1>2, <1>4, <1>5, <1>6, <2>1, <2>2, QuietHandlerHolds
  <1>10. QED
    BY <1>1, <1>7, <1>8, <1>9, AdmissionAssumption

LEMMA DataHolds ==
    ASSUME HoldInv, ~aborted, NEW c \in Conns, HandleData(c)
    PROVE  HoldInv'
  <1> DEFINE r == conn[c]
  <1>0. r \in ConnType /\ Sits(r, c)
    BY Known
  <1>1. PICK type \in {"INFO", "NOOP", "GARBAGE"} : Next1(type, c)
    BY DEF HandleData
  <1>2. Head(queue)[1] = type
    BY <1>1 DEF Next1
  <1>3. r \in ConnType /\ r.reads = "proxy" /\ r # Untouched
    BY Known DEF HandleData, Untouched
  <1>4. Steady /\ UNCHANGED Lists /\ told' \subseteq Conns /\ aborted' \in BOOLEAN /\ peer' = peer
    BY Known DEF HandleData
  <1>5. {"DISCONNECTED", "READY"} \subseteq EventTypes \ {"CONNECTING"}
    BY DEF EventTypes
  <1>6. ASSUME NEW q \in ConnType, q.fresh = r.fresh, q.timer = r.timer
        PROVE  q.fresh /\ ~aborted' => q.timer \/ (r.fresh /\ ~r.timer /\ type \notin {"SUCCESS", "FAILURE"})
    BY <1>1, <1>3, <1>6 DEF ConnType
  <1>7. CASE type = "INFO"
    <2> DEFINE q == recvInfo(r)
    <2>1. Add(<< <<"READY", c>> >>) /\ conn' = [conn EXCEPT ![c] = q]
      BY <1>2, <1>7, Known DEF HandleData
    <2>2. /\ q \in ConnType /\ q.proxy # "closed" /\ q.timer = r.timer /\ q.fresh = r.fresh
          /\ Sits(q, c)
      BY <1>0, <1>3, InformedHeld
    <2> HIDE DEF q
    <2>3. QED
      BY <1>1, <1>3, <1>4, <1>5, <1>6, <2>1, <2>2, QuietHandlerHolds
  <1>8. CASE type = "NOOP"
    <2> DEFINE q == [r EXCEPT !.beat = TRUE]
    <2>1. Add(<<>>) /\ conn' = [conn EXCEPT ![c] = q]
      BY <1>2, <1>8, Known DEF HandleData
    <2>2. /\ q \in ConnType /\ q.proxy = r.proxy /\ q.timer = r.timer /\ q.fresh = r.fresh
          /\ Sits(q, c)
      BY <1>0, <1>3, HeardHeld
    <2> HIDE DEF q
    <2>3. q.proxy = "closed" => r.proxy = "closed" /\ type # "DISCONNECTED"
      BY <1>8, <2>2
    <2>4. QED
      BY <1>1, <1>3, <1>4, <1>5, <1>6, <2>1, <2>2, <2>3, QuietHandlerHolds
  <1>9. CASE type = "GARBAGE"
    <2> DEFINE q == disconnect(r)
    <2>1. Add(<< <<"DISCONNECTED", c>> >>) /\ conn' = [conn EXCEPT ![c] = q]
      BY <1>2, <1>9, Known DEF HandleData
    <2>2. /\ q \in ConnType /\ q.timer = r.timer /\ q.fresh = r.fresh
          /\ Sits(q, c)
      BY <1>0, <1>3, HungUpHeld
    <2> HIDE DEF q
    <2>3. QED
      BY <1>1, <1>3, <1>4, <1>5, <1>6, <2>1, <2>2, QuietHandlerHolds
  <1>10. QED
    BY <1>1, <1>7, <1>8, <1>9

LEMMA ShutdownHolds ==
    ASSUME HoldInv, ~aborted, NEW c \in Conns, HandleShutdown(c)
    PROVE  HoldInv'
  <1> DEFINE r == conn[c]
  <1>0. r \in ConnType /\ Sits(r, c)
    BY Known
  <1>1. Next1("SHUTDOWN", c) /\ r # Untouched
    BY DEF HandleShutdown, Untouched
  <1>2. Steady /\ UNCHANGED Lists /\ told' \subseteq Conns /\ aborted' \in BOOLEAN /\ peer' = peer
    BY Known DEF HandleShutdown
  <1>3. {"DISCONNECTED", "FAILURE"} \subseteq EventTypes \ {"CONNECTING"}
    BY DEF EventTypes
  <1>4. CASE r.reads = "unknown"
    <2> DEFINE q == sendFailure(r)
    <2>1. Add(<< <<"FAILURE", c>> >>) /\ conn' = [conn EXCEPT ![c] = q]
      BY <1>4, Known DEF HandleShutdown
    <2>2. r.fresh
      BY <1>0, <1>4 DEF Sits, Held
    <2>3. q \in ConnType /\ q.proxy # "closed" /\ Sits(q, c)
      BY <1>0, <2>2, FailedHeld
    <2> HIDE DEF q
    <2>4. QED
      BY <1>1, <1>2, <1>3, <2>1, <2>3, QuietHandlerHolds
  <1>5. CASE r.reads = "proxy"
    <2> DEFINE q == disconnect(r)
    <2>1. Add(<< <<"DISCONNECTED", c>> >>) /\ conn' = [conn EXCEPT ![c] = q]
      BY <1>5, Known DEF HandleShutdown
    <2>2. q \in ConnType /\ q.timer = r.timer /\ q.fresh = r.fresh /\ Sits(q, c)
      BY <1>0, <1>5, HungUpHeld
    <2> HIDE DEF q
    <2>3. q.fresh /\ ~aborted' => q.timer \/ (r.fresh /\ ~r.timer /\ "SHUTDOWN" \notin {"SUCCESS", "FAILURE"})
      BY <1>0, <2>2 DEF ConnType
    <2>4. QED
      BY <1>1, <1>2, <1>3, <2>1, <2>2, <2>3, QuietHandlerHolds
  <1>6. QED
    BY <1>4, <1>5 DEF HandleShutdown

LEMMA ReadyHolds ==
    ASSUME HoldInv, ~aborted, NEW c \in Conns, HandleReady(c)
    PROVE  HoldInv'
  <1> DEFINE r == conn[c]
             q == sendSuccess(r)
  <1>0. r \in ConnType /\ Sits(r, c)
    BY Known
  <1>1. Next1("READY", c) /\ r.watch = "unknown" /\ r # Untouched
    BY DEF HandleReady, Untouched
  <1>2. Steady /\ UNCHANGED Lists /\ told' \subseteq Conns /\ aborted' \in BOOLEAN /\ peer' = peer
    BY Known DEF HandleReady
  <1>3. "SUCCESS" \in EventTypes \ {"CONNECTING"}
    BY DEF EventTypes
  <1>4. Add(<< <<"SUCCESS", c>> >>) /\ conn' = [conn EXCEPT ![c] = q]
    BY Known DEF HandleReady
  <1>5. q \in ConnType /\ q.proxy = r.proxy /\ Sits(q, c)
    BY <1>0, <1>1, SucceededHeld
  <1> HIDE DEF q
  <1>6. q.proxy = "closed" => r.proxy = "closed" /\ "READY" # "DISCONNECTED"
    BY <1>5
  <1>7. QED
    BY <1>1, <1>2, <1>3, <1>4, <1>5, <1>6, QuietHandlerHolds

LEMMA DisconnectedHolds ==
    ASSUME HoldInv, ~aborted, NEW c \in Conns, HandleDisconnected(c)
    PROVE  HoldInv'
  <1> DEFINE r == conn[c]
  <1>0. r \in ConnType /\ Sits(r, c)
    BY Known
  <1>1. Next1("DISCONNECTED", c) /\ r.watch # "nobody" /\ r # Untouched
    BY DEF HandleDisconnected, Untouched
  <1>2. Steady /\ told' \subseteq Conns /\ aborted' \in BOOLEAN /\ peer' = peer
    BY Known DEF HandleDisconnected
  <1>3. r.proxy \in Live /\ (r.fresh <=> r.watch = "unknown")
    BY <1>0, <1>1 DEF Sits, Held
  <1>4. waiting \in Seq(Conns) /\ WaitsOnce /\ served \subseteq Conns /\ closing \subseteq Conns
    BY Known
  <1>5. CASE r.watch = "unknown"
    <2> DEFINE q == sendFailure(r)
    <2>1. Add(<< <<"FAILURE", c>> >>) /\ conn' = [conn EXCEPT ![c] = q] /\ UNCHANGED Lists
      BY <1>5, Known DEF HandleDisconnected
    <2>2. q \in ConnType /\ q.proxy # "closed" /\ Sits(q, c)
      BY <1>0, <1>3, <1>5, FailedHeld
    <2>3. "FAILURE" \in EventTypes \ {"CONNECTING"}
      BY DEF EventTypes
    <2> HIDE DEF q
    <2>4. QED
      BY <1>1, <1>2, <2>1, <2>2, <2>3, QuietHandlerHolds
  <1>6. ASSUME r.watch # "unknown", Add(<<>>), conn' = [conn EXCEPT ![c] = deleteProxy(r)],
               waiting' \in Seq(Conns), WaitsOnce', served' \subseteq Conns, closing' \subseteq Conns,
               ~In(c, waiting'), c \notin served', c \notin closing',
               \A d \in Conns \ {c} : /\ In(d, waiting') <=> In(d, waiting)
                                      /\ d \in served' <=> d \in served
                                      /\ d \in closing' <=> d \in closing
        PROVE  HoldInv'
    <2> DEFINE q == deleteProxy(r)
    <2>1. q \in ConnType /\ Held(q, listening, FALSE, FALSE, FALSE) /\ q.proxy = "deleted" /\ ~q.fresh
      BY <1>0, <1>3, <1>6, DeletedHeld
    <2>2. conn' = [conn EXCEPT ![c] = q]
      BY <1>6
    <2> HIDE DEF q
    <2>3. SitsThen(q, c)
      BY <1>2, <1>6, <2>1 DEF SitsThen, Held, Steady
    <2>4. <<>> \in Seq(EventsOf) /\ \A e : ~In(e, <<>>)
      BY DEF In
    <2>5. QED
      BY <1>1, <1>2, <1>6, <2>1, <2>2, <2>3, <2>4, HandlerHolds
  <1>7. CASE r.watch = "listener"
    <2>1. /\ Add(<<>>) /\ conn' = [conn EXCEPT ![c] = deleteProxy(r)]
          /\ waiting' = Kept(waiting, Conns \ {c}) /\ served' = served /\ closing' = closing
      BY <1>7, Known DEF HandleDisconnected
    <2>2. /\ waiting' \in Seq(Conns)
          /\ \A d \in Conns : /\ In(d, waiting') <=> In(d, waiting) /\ d # c
                              /\ Once(d, waiting) => Once(d, waiting')
      BY <1>4, <2>1, WaitingKept
    <2>3. WaitsOnce'
      BY <1>4, <2>2 DEF WaitsOnce
    <2>4. c \notin served /\ c \notin closing
      BY <1>0, <1>3, <1>7 DEF Sits, Held
    <2>5. QED
      BY <1>4, <1>6, <1>7, <2>1, <2>2, <2>3, <2>4
  <1>8. CASE r.watch = "server"
    <2>1. /\ Add(<<>>) /\ conn' = [conn EXCEPT ![c] = deleteProxy(r)]
          /\ waiting' = waiting /\ served' = served \ {c} /\ closing' = closing \ {c}
      BY <1>8, Known DEF HandleDisconnected
    <2>2. ~In(c, waiting)
      BY <1>0, <1>3, <1>8 DEF Sits, Held
    <2>3. WaitsOnce'
      BY <1>4, <2>1 DEF WaitsOnce
    <2>4. QED
      BY <1>4, <1>6, <1>8, <2>1, <2>2, <2>3
  <1>9. QED
    BY <1>0, <1>1, <1>5, <1>7, <1>8 DEF ConnType

LEMMA UnknownHolds ==
    ASSUME HoldInv, ~aborted, NEW c \in Conns, HandleUnknownClient(c)
    PROVE  HoldInv'
  <1> DEFINE r == conn[c]
  <1>0. r \in ConnType /\ Sits(r, c)
    BY Known
  <1>1. PICK type \in {"SUCCESS", "FAILURE"} : Next1(type, c)
    BY DEF HandleUnknownClient
  <1>2. r.fresh /\ listening /\ r # Untouched
    BY DEF HandleUnknownClient, Untouched
  <1>3. /\ Steady /\ told' \subseteq Conns /\ aborted' \in BOOLEAN /\ peer' = peer
        /\ served' = served /\ closing' = closing
    BY Known DEF HandleUnknownClient
  <1>4. waiting \in Seq(Conns) /\ WaitsOnce /\ served \subseteq Conns /\ closing \subseteq Conns
    BY Known
  <1>5. <<"CONNECTED", c>> \in EventsOf
    BY DEF EventsOf, EventTypes
  <1>6. CASE r.ready
    <2> DEFINE q == orphanClientProxy(r)
               s == << <<"CONNECTED", c>> >>
    <2>1. waiting' = Append(waiting, c) /\ Add(s) /\ conn' = [conn EXCEPT ![c] = q]
      BY <1>6, Known DEF HandleUnknownClient, announce
    <2>2. /\ q \in ConnType /\ q.proxy = r.proxy /\ ~q.fresh /\ ~In(c, waiting)
          /\ Held(q, listening, TRUE, c \in served, c \in closing)
      BY <1>0, <1>2, <1>6, OrphanHeld
    <2>3. s \in Seq(EventsOf) /\ \A e : In(e, s) => e = <<"CONNECTED", c>>
      BY <1>5, Listed
    <2> HIDE DEF q, s
    <2>4. waiting' \in Seq(Conns)
      BY <1>4, <2>1, AppendProperties
    <2>5. \A d \in Conns : /\ In(d, waiting') <=> In(d, waiting) \/ d = c
                           /\ Once(d, waiting) /\ d # c => Once(d, waiting')
                           /\ ~In(d, waiting) => Once(d, waiting')
      BY <1>4, <2>1, QueueAppend
    <2>6. WaitsOnce'
      BY <1>4, <2>2, <2>5 DEF WaitsOnce
    <2>7. SitsThen(q, c)
      BY <1>3, <2>2, <2>5 DEF SitsThen, Held, Steady
    <2>8. q.proxy = "closed" => r.proxy = "closed" /\ type # "DISCONNECTED"
      BY <1>1, <2>2
    <2>9. /\ \A d \in Conns : d # c => \A t : ~In(<<t, d>>, s)
          /\ ~In(<<"CONNECTING", c>>, s)
      BY <2>3
    <2>10. /\ served' \subseteq Conns /\ closing' \subseteq Conns
           /\ \A d \in Conns \ {c} : /\ In(d, waiting') <=> In(d, waiting)
                                     /\ d \in served' <=> d \in served
                                     /\ d \in closing' <=> d \in closing
      BY <1>3, <1>4, <2>5
    <2>11. QED
      BY <1>1, <1>2, <1>3, <2>1, <2>2, <2>3, <2>4, <2>6, <2>7, <2>8, <2>9, <2>10, HandlerHolds
  <1>7. CASE ~r.ready
    <2> DEFINE q == deleteUnknown(r)
    <2>1. UNCHANGED Lists /\ Add(<<>>) /\ conn' = [conn EXCEPT ![c] = q]
      BY <1>3, <1>7, Known DEF HandleUnknownClient, Lists
    <2>2. /\ q \in ConnType /\ q.proxy # "closed" /\ ~q.fresh /\ ~In(c, waiting)
          /\ Held(q, listening, FALSE, c \in served, c \in closing)
      BY <1>0, <1>2, Known, DroppedHeld
    <2>3. "READY" \in EventTypes \ {"CONNECTING"}
      BY DEF EventTypes
    <2> HIDE DEF q
    <2>4. Sits(q, c)
      BY <2>2 DEF Sits, Held
    <2>5. QED
      BY <1>1, <1>2, <1>3, <2>1, <2>2, <2>3, <2>4, QuietHandlerHolds
  <1>8. QED
    BY <1>6, <1>7

\* The client that is taken from those that wait is w, whoever the event was for.
LEMMA ConnectedHolds ==
    ASSUME HoldInv, ~aborted, NEW c \in Conns, HandleClientConnected(c)
    PROVE  HoldInv'
  <1>1. Next1("CONNECTED", c) /\ waiting # <<>> /\ waiting' = Tail(waiting) /\ Add(<<>>)
    BY DEF HandleClientConnected
  <1>2. Steady /\ peer' = peer /\ aborted' = aborted
    BY DEF HandleClientConnected
  <1>3. /\ conn \in [Conns -> ConnType] /\ waiting \in Seq(Conns) /\ \A d \in Conns : Once(d, waiting)
        /\ served \subseteq Conns /\ closing \subseteq Conns /\ told \subseteq Conns
        /\ queue \in Seq(EventsOf)
    BY Known DEF WaitsOnce
  <1>w. PICK w \in Conns : w = Head(waiting)
    BY <1>1, <1>3, HeadTailProperties
  <1> DEFINE r == conn[w]
  <1>4. /\ In(w, waiting) /\ waiting' \in Seq(Conns)
        /\ \A d \in Conns : In(d, waiting') <=> In(d, waiting) /\ d # w
        /\ WaitsOnce'
    BY <1>1, <1>3, <1>w, WaitingHead DEF WaitsOnce
  <1>5. r \in ConnType /\ Sits(r, w)
    BY Known
  <1>6. PICK q \in {adopt(r), [r EXCEPT !.watch = "server"]} :
          /\ conn' = [conn EXCEPT ![w] = q]
          /\ \/ q = adopt(r) /\ served' = served \cup {w} /\ closing' = closing /\ told' = told
             \/ q = [r EXCEPT !.watch = "server"] /\ served' = served /\ closing' = closing \cup {w} /\ told' = told
    BY <1>3, <1>w DEF HandleClientConnected, closeMessage
  <1>7. /\ q \in ConnType /\ q.proxy = r.proxy /\ q.fresh = r.fresh /\ q.timer = r.timer
        /\ SitsThen(q, w)
    <2>1. CASE q = adopt(r) /\ served' = served \cup {w} /\ closing' = closing
      <3>1. /\ q \in ConnType /\ q.proxy = r.proxy /\ q.fresh = r.fresh /\ q.timer = r.timer
            /\ Held(q, listening, FALSE, TRUE, w \in closing)
        BY <1>4, <1>5, <2>1, AdoptedHeld, ZenonT(40)
      <3>2. QED
        BY <1>2, <1>4, <2>1, <3>1 DEF SitsThen, Held, Steady
    <2>2. CASE q = [r EXCEPT !.watch = "server"] /\ served' = served /\ closing' = closing \cup {w}
      <3>1. /\ q \in ConnType /\ q.proxy = r.proxy /\ q.fresh = r.fresh /\ q.timer = r.timer
            /\ Held(q, listening, FALSE, w \in served, TRUE)
        BY <1>4, <1>5, <2>2, TurnedAwayHeld, ZenonT(40)
      <3>2. QED
        BY <1>2, <1>4, <2>2, <3>1 DEF SitsThen, Held, Steady
    <2>3. QED
      BY <1>6, <2>1, <2>2
  <1>8. /\ queue' \in Seq(EventsOf) /\ \A d \in Conns : QueueSpares(d)
    <2>1. <<>> \in Seq(EventsOf) /\ \A e : ~In(e, <<>>)
      BY DEF In
    <2>2. /\ queue' \in Seq(EventsOf)
          /\ \A d \in Conns \ {c} : QueueSpares(d)
          /\ In(<<"CONNECTING", c>>, queue') => In(<<"CONNECTING", c>>, queue)
          /\ Once(<<"CONNECTING", c>>, queue) => Once(<<"CONNECTING", c>>, queue')
          /\ \A t : In(<<t, c>>, queue) /\ t # "CONNECTED" => In(<<t, c>>, queue')
      BY <1>1, <1>3, <2>1, QueueDone
    <2>3. QueueSpares(c)
      BY <2>2 DEF QueueSpares
    <2>4. QED
      BY <2>2, <2>3
  <1>9. /\ conn' \in [Conns -> ConnType] /\ conn'[w] = q /\ \A d \in Conns \ {w} : conn'[d] = conn[d]
    BY <1>3, <1>4, <1>6, <1>7
  <1>10. /\ listening' = listening /\ secure' = secure /\ chats' \in 0 .. MaxChats
         /\ peer' \in [Conns -> Peers] /\ aborted' \in BOOLEAN
    BY <1>2, Known DEF Steady
  <1>11. /\ \A d \in Conns \ {w} : (d \in served' <=> d \in served) /\ (d \in closing' <=> d \in closing)
         /\ served' \subseteq Conns /\ closing' \subseteq Conns /\ told' \subseteq Conns
    BY <1>3, <1>4, <1>6
  <1>12. About(w)
    BY <1>2, <1>4, <1>8, <1>9, <1>10, <1>11 DEF About
  <1>13. r # Untouched
    BY <1>4, <1>5 DEF Sits, Held, Untouched, Live
  <1>14. Good(w)'
    BY <1>2, <1>4, <1>7, <1>8, <1>9, <1>13, Known DEF Good, SitsThen, Sits, QueueSpares, Decided
  <1>15. QED
    BY <1>2, <1>4, <1>8, <1>10, <1>11, <1>12, <1>14, StepHolds

\* A dropped event is one that nobody needs: what a new client waits for has a
\* handler as long as the listener exists, and the end of a proxy has one too.
LEMMA DropHolds ==
    ASSUME HoldInv, ~aborted, Drop
    PROVE  HoldInv'
  <1>0. queue \in Seq(EventsOf) /\ queue # <<>>
    BY DEF HoldInv, TypeOK, EventsOf, Drop
  <1>1. PICK type \in EventTypes, c \in Conns : Head(queue) = <<type, c>>
    <2>1. Head(queue) \in EventsOf
      BY <1>0, HeadTailProperties
    <2>2. QED
      BY <2>1 DEF EventsOf
  <1> DEFINE r == conn[c]
  <1>2. Next1(type, c) /\ Add(<<>>) /\ Steady /\ UNCHANGED <<conn, Lists, peer, told, aborted>> /\ ~Handled
    BY <1>0, <1>1 DEF Next1, Drop
  <1>3. Head(queue)[1] = type /\ Head(queue)[2] = c
    BY <1>1
  <1>4. type # "CONNECTING"
    BY <1>2, <1>3, ReplyTypes DEF Handled
  <1>5. type \in {"SUCCESS", "FAILURE"} => ~(listening /\ r.fresh)
    BY <1>2, <1>3, ReplyTypes DEF Handled
  <1>6. type = "DISCONNECTED" => r.watch = "nobody"
    BY <1>2, <1>3, ReplyTypes DEF Handled
  <1>7. /\ queue' \in Seq(EventsOf)
        /\ \A d \in Conns \ {c} : QueueSpares(d)
        /\ In(<<"CONNECTING", c>>, queue') => In(<<"CONNECTING", c>>, queue)
        /\ Once(<<"CONNECTING", c>>, queue) => Once(<<"CONNECTING", c>>, queue')
        /\ \A t : In(<<t, c>>, queue) /\ t # type => In(<<t, c>>, queue')
    <2>1. <<>> \in Seq(EventsOf) /\ \A e : ~In(e, <<>>)
      BY DEF In
    <2>2. QED
      BY <1>0, <1>2, <2>1, QueueDone
  <1>8. About(c)
    BY <1>2, <1>7, Known DEF About, Steady, Lists
  <1>9. r \in ConnType /\ Sits(r, c) /\ Good(c)
    BY Known
  <1>10. ASSUME r.fresh, ~aborted PROVE r.timer \/ Decided(c)'
    <2>1. listening
      BY <1>9, <1>10 DEF Sits, Held
    <2>2. type \notin {"SUCCESS", "FAILURE"}
      BY <1>5, <1>10, <2>1
    <2>3. QED
      BY <1>7, <1>9, <1>10, <2>2 DEF Good, Decided
  <1>11. ASSUME r.proxy = "closed" PROVE In(<<"DISCONNECTED", c>>, queue')
    <2>1. type # "DISCONNECTED"
      BY <1>6, <1>9, <1>11 DEF Sits, Held, Live
    <2>2. QED
      BY <1>7, <1>9, <1>11, <2>1 DEF Good
  <1>12. Good(c)'
    BY <1>2, <1>7, <1>9, <1>10, <1>11 DEF Good, Sits, Steady, Lists
  <1>13. QED
    BY <1>2, <1>7, <1>8, <1>12, StepHolds, Known DEF Steady, Lists, WaitsOnce

\* A timer of connection c, with nothing queued.
LEMMA TimersHold ==
    ASSUME HoldInv, ~aborted, NEW c \in Conns, Timers(c)
    PROVE  HoldInv'
  <1> DEFINE r == conn[c]
  <1>0. r \in ConnType /\ Sits(r, c) /\ conn \in [Conns -> ConnType] /\ queue \in Seq(EventsOf)
    BY Known
  <1>1. Steady /\ peer' = peer /\ told' = told /\ aborted' = aborted /\ queue = <<>>
    BY DEF Timers, HandleTimeout, HandleFlatline, HandleClientCloseTimeout
  <1>2. /\ listening' = listening /\ secure' = secure /\ chats' \in 0 .. MaxChats
        /\ peer' \in [Conns -> Peers] /\ aborted' \in BOOLEAN /\ told' \subseteq Conns
    BY <1>1, Known DEF Steady
  <1>3. waiting \in Seq(Conns) /\ WaitsOnce /\ served \subseteq Conns /\ closing \subseteq Conns
    BY Known
  \* One event is queued and the lists stay.
  <1>4. ASSUME NEW type \in EventTypes \ {"CONNECTING"}, queue' = << <<type, c>> >>, UNCHANGED Lists,
               r # Untouched, NEW q \in ConnType, conn' = [conn EXCEPT ![c] = q], Sits(q, c),
               q.fresh => q.timer \/ type = "FAILURE" \/ (r.fresh /\ ~r.timer),
               q.proxy = "closed" => type = "DISCONNECTED"
        PROVE  HoldInv'
    <2>1. queue' = Append(queue, <<type, c>>)
      BY <1>1, <1>4
    <2>2. queue' \in Seq(EventsOf) /\ In(<<type, c>>, queue') /\ \A d \in Conns : QueueSpares(d)
      BY <1>0, <1>4, <2>1, QueueGrows
    <2>3. waiting' = waiting /\ served' = served /\ closing' = closing
      BY <1>4 DEF Lists
    <2>4. conn' \in [Conns -> ConnType] /\ conn'[c] = q /\ \A d \in Conns \ {c} : conn'[d] = conn[d]
      BY <1>0, <1>4
    <2>5. About(c)
      BY <1>1, <1>2, <2>2, <2>3, <2>4 DEF About
    <2>6. Good(c)'
      <3>1. Good(c) /\ QueueSpares(c)
        BY <2>2, Known
      <3>2. q.fresh => q.timer \/ Decided(c)'
        BY <1>4, <2>2, <3>1 DEF Good, QueueSpares, Decided
      <3>3. q.proxy = "closed" => In(<<"DISCONNECTED", c>>, queue')
        BY <1>4, <2>2
      <3>4. QED
        BY <1>1, <1>2, <1>4, <2>3, <2>4, <3>1, <3>2, <3>3 DEF Good, Sits, QueueSpares
    <2>7. QED
      BY <1>2, <1>3, <2>2, <2>3, <2>5, <2>6, StepHolds DEF WaitsOnce
  <1>5. {"FAILURE", "DISCONNECTED"} \subseteq EventTypes \ {"CONNECTING"}
    BY DEF EventTypes
  <1>6. CASE HandleTimeout(c)
    <2> DEFINE q == sendFailure(r)
    <2>1. /\ r.timer /\ conn' = [conn EXCEPT ![c] = q] /\ queue' = << <<"FAILURE", c>> >> /\ UNCHANGED Lists
      BY <1>0, <1>6 DEF HandleTimeout
    <2>2. r.fresh /\ r # Untouched
      BY <1>0, <2>1 DEF Sits, Held, Untouched
    <2>3. q \in ConnType /\ q.proxy # "closed" /\ Sits(q, c)
      BY <1>0, <2>2, FailedHeld
    <2> HIDE DEF q
    <2>4. QED
      BY <1>4, <1>5, <2>1, <2>2, <2>3
  <1>7. CASE HandleFlatline(c)
    <2> DEFINE q == disconnect(r)
    <2>1. /\ r.beat /\ conn' = [conn EXCEPT ![c] = q] /\ queue' = << <<"DISCONNECTED", c>> >> /\ UNCHANGED Lists
      BY <1>0, <1>7 DEF HandleFlatline
    <2>2. r # Untouched
      BY <2>1 DEF Untouched
    <2>3. q \in ConnType /\ q.fresh = r.fresh /\ q.timer = r.timer /\ Sits(q, c)
      BY <1>0, <2>1, HungUpHeld
    <2> HIDE DEF q
    <2>4. q.fresh => q.timer \/ (r.fresh /\ ~r.timer)
      BY <1>0, <2>3 DEF ConnType
    <2>5. QED
      BY <1>4, <1>5, <2>1, <2>2, <2>3, <2>4
  <1>8. CASE HandleClientCloseTimeout(c)
    <2> DEFINE q == deleteProxy(r)
    <2>1. /\ c \in closing /\ closing' = closing \ {c} /\ conn' = [conn EXCEPT ![c] = q]
          /\ waiting' = waiting /\ served' = served /\ queue' = queue
      BY <1>0, <1>8 DEF HandleClientCloseTimeout
    <2>2. r.proxy \in Live /\ ~r.fresh /\ r # Untouched /\ ~In(c, waiting) /\ c \notin served
      BY <1>0, <2>1 DEF Sits, Held, Untouched, Live
    <2>3. q \in ConnType /\ Held(q, listening, FALSE, FALSE, FALSE) /\ q.proxy = "deleted" /\ ~q.fresh
      BY <1>0, <2>2, DeletedHeld
    <2> HIDE DEF q
    <2>4. SitsThen(q, c)
      BY <1>2, <2>1, <2>2, <2>3 DEF SitsThen, Held
    <2>5. conn' \in [Conns -> ConnType] /\ conn'[c] = q /\ \A d \in Conns \ {c} : conn'[d] = conn[d]
      BY <1>0, <2>1, <2>3
    <2>6. About(c)
      BY <1>1, <1>2, <2>1, <2>5, QueueStays DEF About
    <2>7. Good(c)'
      BY <1>1, <2>1, <2>2, <2>3, <2>4, <2>5, Known DEF Good, Sits, SitsThen
    <2>8. QED
      BY <1>0, <1>2, <1>3, <2>1, <2>6, <2>7, StepHolds DEF WaitsOnce
  <1>9. QED
    BY <1>6, <1>7, <1>8 DEF Timers

LEMMA CloseHolds ==
    ASSUME HoldInv, ~aborted, NEW c \in Conns, CloseClient(c)
    PROVE  HoldInv'
  <1>1. /\ c \in served /\ served' = served \ {c} /\ closing' = closing \cup {c} /\ told' = told
        /\ Steady /\ conn' = conn /\ waiting' = waiting /\ queue' = queue /\ peer' = peer /\ aborted' = aborted
    BY DEF CloseClient, closeMessage
  <1>2. Held(conn[c], listening, In(c, waiting), FALSE, TRUE)
    BY <1>1, Known, ClosingHeld
  <1>3. SitsThen(conn[c], c)
    BY <1>1, <1>2 DEF SitsThen, Held, Steady
  <1>4. About(c)
    BY <1>1, QueueStays, Known DEF About, Steady
  <1>5. Good(c)'
    BY <1>1, <1>3, Known DEF Good, Sits, SitsThen, Decided
  <1>6. QED
    BY <1>1, <1>4, <1>5, StepHolds, Known DEF WaitsOnce, Steady

\* The listener takes with it all that is its own.
LEMMA CloseListenerHolds ==
    ASSUME HoldInv, ~aborted, CloseListener
    PROVE  HoldInv'
  <1> DEFINE New(c) == IF conn[c].fresh THEN deleteUnknown(conn[c])
                       ELSE IF c \in Waiting THEN deleteProxy(conn[c])
                       ELSE IF conn[c].socket = "listener" THEN [conn[c] EXCEPT !.socket = "closed"]
                       ELSE conn[c]
  <1>1. /\ listening' = FALSE /\ waiting' = <<>> /\ secure' = secure /\ served' = served /\ closing' = closing
        /\ queue' = queue /\ peer' = peer /\ chats' = chats /\ told' = told /\ aborted' = aborted
        /\ conn' = [c \in Conns |-> New(c)]
    BY DEF CloseListener
  <1>2. waiting' \in Seq(Conns) /\ \A c : ~In(c, waiting') /\ Once(c, waiting')
    BY <1>1 DEF In, Once
  <1>3. ASSUME NEW c \in Conns
        PROVE  /\ New(c) \in ConnType /\ Held(New(c), FALSE, FALSE, c \in served, c \in closing)
               /\ New(c).fresh => FALSE
               /\ New(c).proxy = "closed" => conn[c].proxy = "closed"
               /\ conn[c] = Untouched => New(c) = Untouched
    <2>1. conn[c] \in ConnType /\ Sits(conn[c], c)
      BY Known
    <2>2. c \in Waiting <=> In(c, waiting)
      BY Known DEF Waiting, In
    <2>3. CASE conn[c].fresh
      <3>1. /\ deleteUnknown(conn[c]) \in ConnType
            /\ Held(deleteUnknown(conn[c]), FALSE, FALSE, c \in served, c \in closing)
            /\ deleteUnknown(conn[c]).proxy # "closed" /\ ~deleteUnknown(conn[c]).fresh
        BY <2>1, <2>3, DroppedHeld
      <3>2. New(c) = deleteUnknown(conn[c]) /\ conn[c] # Untouched
        BY <2>3 DEF Untouched
      <3>3. QED
        BY <3>1, <3>2
    <2>4. CASE ~conn[c].fresh /\ c \in Waiting
      <3>1. conn[c].proxy \in Live /\ c \notin served /\ c \notin closing
        BY <2>1, <2>2, <2>4 DEF Sits, Held
      <3>2. /\ deleteProxy(conn[c]) \in ConnType /\ Held(deleteProxy(conn[c]), listening, FALSE, FALSE, FALSE)
            /\ deleteProxy(conn[c]).proxy = "deleted" /\ ~deleteProxy(conn[c]).fresh
            /\ deleteProxy(conn[c]).socket = "closed"
        BY <2>1, <2>4, <3>1, DeletedHeld DEF deleteProxy, ConnType
      <3>3. New(c) = deleteProxy(conn[c]) /\ conn[c] # Untouched
        BY <2>4, <3>1 DEF Untouched, Live
      <3> HIDE DEF New
      <3>4. QED
        BY <3>1, <3>2, <3>3 DEF Held
    <2>5. CASE ~conn[c].fresh /\ c \notin Waiting /\ conn[c].socket = "listener"
      <3> DEFINE q == [conn[c] EXCEPT !.socket = "closed"]
      <3>1. q \in ConnType /\ Sits(q, c) /\ q.proxy # "closed" /\ ~q.fresh /\ q.socket = "closed"
        BY <2>1, <2>5, RefusedHeld DEF ConnType
      <3>2. New(c) = q /\ conn[c] # Untouched
        BY <2>5 DEF Untouched
      <3> HIDE DEF New, q
      <3>3. QED
        BY <2>2, <2>5, <3>1, <3>2 DEF Sits, Held
    <2>6. CASE ~conn[c].fresh /\ c \notin Waiting /\ conn[c].socket # "listener"
      <3>1. New(c) = conn[c]
        BY <2>6
      <3> HIDE DEF New
      <3>2. QED
        BY <2>1, <2>2, <2>6, <3>1 DEF Sits, Held
    <2>7. QED
      BY <2>3, <2>4, <2>5, <2>6
  <1> HIDE DEF New
  <1>4. conn' \in [Conns -> ConnType] /\ \A c \in Conns : conn'[c] = New(c)
    BY <1>1, <1>3
  <1>5. ASSUME NEW c \in Conns PROVE Good(c)'
    <2>1. SitsThen(conn'[c], c)
      BY <1>1, <1>2, <1>3, <1>4 DEF SitsThen, Held
    <2>2. QED
      BY <1>1, <1>3, <1>4, <2>1, Known DEF Good, Sits, SitsThen
  <1>6. TypeOK'
    BY <1>1, <1>2, <1>4 DEF HoldInv, TypeOK
  <1>7. QED
    BY <1>2, <1>5, <1>6 DEF HoldInv, WaitsOnce

LEMMA HoldInitially == Init => HoldInv
  <1> SUFFICES ASSUME Init PROVE HoldInv
    OBVIOUS
  <1>1. queue = <<>> /\ waiting = <<>> /\ conn = [c \in Conns |-> Untouched] /\ served = {} /\ closing = {}
        /\ listening = TRUE
    BY DEF Init
  <1>2. \A e : ~In(e, <<>>) /\ Once(e, <<>>)
    BY DEF In, Once
  <1>3. Untouched \in ConnType /\ Held(Untouched, TRUE, FALSE, FALSE, FALSE)
    BY UntouchedHeld
  <1>4. TypeOK
    <2>1. conn \in [Conns -> ConnType] /\ peer \in [Conns -> Peers]
      BY <1>1, <1>3 DEF Init, Peers
    <2>2. secure \in BOOLEAN /\ listening \in BOOLEAN /\ aborted \in BOOLEAN
      BY DEF Init
    <2>3. chats \in 0 .. MaxChats
      BY AdmissionAssumption DEF Init
    <2>4. waiting \in Seq(Conns) /\ queue \in Seq(EventTypes \X Conns)
      BY <1>1
    <2>5. QED
      BY <2>1, <2>2, <2>3, <2>4 DEF Init, TypeOK, Peers
  <1>5. ASSUME NEW c \in Conns PROVE Good(c)
    <2>1. conn[c] = Untouched
      BY <1>1
    <2>2. Sits(conn[c], c)
      BY <1>1, <1>2, <1>3, <2>1 DEF Sits, Held
    <2>3. QED
      BY <1>1, <1>2, <2>1, <2>2 DEF Good, Untouched
  <1>6. QED
    BY <1>1, <1>2, <1>4, <1>5 DEF HoldInv, WaitsOnce

LEMMA HoldNext == HoldInv /\ [Next]_vars => HoldInv'
  <1> SUFFICES ASSUME HoldInv, [Next]_vars PROVE HoldInv'
    OBVIOUS
  <1>1. CASE UNCHANGED vars
    BY <1>1 DEF vars, ours, HoldInv, TypeOK, WaitsOnce, Good, Sits, Decided
  <1>2. CASE Next
    <2>1. ~aborted
      BY <1>2 DEF Next
    <2>2. ASSUME NEW c \in Conns, Dispatch(c) PROVE HoldInv'
      BY <2>1, <2>2, ConnectingHolds, AcceptedHolds, HelloHolds, DataHolds, ShutdownHolds, ReadyHolds,
         DisconnectedHolds, UnknownHolds, ConnectedHolds DEF Dispatch
    <2>3. QED
      BY <1>2, <2>1, <2>2, PeerSteps, TimersHold, CloseHolds, DropHolds, CloseListenerHolds DEF Next
  <1>3. QED
    BY <1>1, <1>2

\* What the invariant means: one holder, who hears of the end.
LEMMA HoldMeans == HoldInv => AdmissionInv
  <1> SUFFICES ASSUME HoldInv PROVE AdmissionInv
    OBVIOUS
  <1>1. TypeOK
    BY DEF HoldInv
  <1>2. \A type, c : Queued(type, c) <=> In(<<type, c>>, queue)
    BY <1>1 DEF TypeOK, Queued, In
  <1>3. ASSUME NEW c \in Conns
        PROVE  /\ conn[c].proxy \in Live => Holders(c) = {conn[c].watch}
               /\ conn[c].proxy = "deleted" => Holders(c) \subseteq {"unknown"}
    <2>1. conn[c] \in ConnType /\ Sits(conn[c], c)
      BY Known
    <2>2. c \in Waiting <=> In(c, waiting)
      BY Known DEF Waiting, In
    <2>3. QED
      BY <2>1, <2>2 DEF Sits, Held, Holders, Live, ConnType
  <1>4. HolderHears
    BY <1>3 DEF HolderHears
  <1>5. NewClientDecided /\ HangUpQueued
    BY <1>2 DEF HoldInv, Good, Decided, NewClientDecided, HangUpQueued
  <1>6. QED
    BY <1>1, <1>4, <1>5 DEF AdmissionInv

(***************************************************************************)
(* Every connection has one holder, who hears of its end, and every        *)
(* handshake is decided or timed, whatever clients, timers, reloads and    *)
(* the end of the listener come between (ClientListener,                   *)
(* ClientProxyUnknown, ClientProxy1_6, Server::adoptClient).               *)
(***************************************************************************)
THEOREM HoldersAlwaysHear == Spec => []AdmissionInv
  <1>1. HoldInv => AdmissionInv
    BY HoldMeans
  <1>2. QED
    BY <1>1, HoldInitially, HoldNext, PTL DEF Spec

-----------------------------------------------------------------------------
(* As many announcements as clients that wait *)

Announcements == {"CONNECTED"} \X Conns

Count(q) == Len(Kept(q, Announcements))

LEMMA CountIs ==
    ASSUME NEW q \in Seq(EventsOf)
    PROVE  Count(q) = Cardinality({i \in DOMAIN q : q[i][1] = "CONNECTED"}) /\ Count(q) \in Nat
  <1>1. Count(q) = Cardinality(Places(q, Announcements)) /\ Count(q) \in Nat
    BY KeptType, KeptLen DEF Count
  <1>2. \A i \in 1 .. Len(q) : q[i] \in Announcements <=> q[i][1] = "CONNECTED"
    <2> SUFFICES ASSUME NEW i \in 1 .. Len(q) PROVE q[i] \in Announcements <=> q[i][1] = "CONNECTED"
      OBVIOUS
    <2>1. q[i] \in EventsOf
      BY ElementOfSeq
    <2>2. QED
      BY <2>1 DEF EventsOf, Announcements
  <1>3. DOMAIN q = 1 .. Len(q)
    BY LenProperties
  <1>4. Places(q, Announcements) = {i \in DOMAIN q : q[i][1] = "CONNECTED"}
    BY <1>2, <1>3 DEF Places
  <1>5. QED
    BY <1>1, <1>4

LEMMA CountAppend ==
    ASSUME NEW q \in Seq(EventsOf), NEW e \in EventsOf
    PROVE  Count(Append(q, e)) >= Count(q)
  <1>1. Kept(q, Announcements) \in Seq(EventsOf) /\ Len(Kept(q, Announcements)) \in Nat
    BY KeptType, KeptLen
  <1>2. Len(Append(Kept(q, Announcements), e)) = Len(Kept(q, Announcements)) + 1
    BY <1>1, AppendProperties
  <1>3. Kept(Append(q, e), Announcements) =
          IF e \in Announcements THEN Append(Kept(q, Announcements), e) ELSE Kept(q, Announcements)
    BY KeptAppend
  <1>4. QED
    BY <1>1, <1>2, <1>3 DEF Count

LEMMA CountAdd ==
    ASSUME NEW q \in Seq(EventsOf), NEW s \in Seq(EventsOf), q # <<>>
    PROVE  /\ Head(q)[1] # "CONNECTED" => Count(Tail(q) \o s) = Count(q) + Count(s)
           /\ Head(q)[1] = "CONNECTED" => Count(Tail(q) \o s) + 1 = Count(q) + Count(s)
           /\ Count(q) \in Nat /\ Count(s) \in Nat /\ Count(Tail(q) \o s) \in Nat
  <1> DEFINE S == Announcements
             k == Kept(q, S)
             t == Kept(Tail(q), S)
             m == Kept(s, S)
  <1>1. Tail(q) \in Seq(EventsOf) /\ Head(q) \in EventsOf
    BY HeadTailProperties
  <1>2. k \in Seq(EventsOf) /\ t \in Seq(EventsOf) /\ m \in Seq(EventsOf)
    BY <1>1, KeptType
  <1>3. Kept(Tail(q) \o s, S) = t \o m
    <2>1. \A A, S0 : \A u, v \in Seq(A) : Kept(u \o v, S0) = Kept(u, S0) \o Kept(v, S0)
      BY KeptConcat
    <2>2. QED
      BY <1>1, <2>1, Zenon
  <1>4. IF Head(q) \in S THEN k # <<>> /\ t = Tail(k) ELSE t = k
    BY KeptTail
  <1> HIDE DEF k, t, m
  <1>5. Len(k) \in Nat /\ Len(t) \in Nat /\ Len(m) \in Nat /\ Len(t \o m) = Len(t) + Len(m)
    BY <1>2, LenProperties, ConcatProperties
  <1>6. Head(q) \in S <=> Head(q)[1] = "CONNECTED"
    BY <1>1 DEF EventsOf, Announcements
  <1>7. k # <<>> => Len(Tail(k)) = Len(k) - 1
    BY <1>2, HeadTailProperties
  <1>8. Count(q) = Len(k) /\ Count(s) = Len(m) /\ Count(Tail(q) \o s) = Len(t \o m)
    BY <1>3 DEF Count, k, m
  <1>9. Head(q)[1] # "CONNECTED" => Len(t) = Len(k)
    BY <1>4, <1>6
  <1>10. Head(q)[1] = "CONNECTED" => Len(t) = Len(k) - 1
    BY <1>4, <1>6, <1>7
  <1>11. QED
    BY <1>5, <1>8, <1>9, <1>10

LEMMA AnnouncedNext == HoldInv /\ WaitingAnnounced /\ [Next]_vars => WaitingAnnounced'
  <1> SUFFICES ASSUME HoldInv, WaitingAnnounced, [Next]_vars PROVE WaitingAnnounced'
    OBVIOUS
  <1>0. HoldInv'
    BY HoldNext
  <1>1. queue \in Seq(EventsOf) /\ queue' \in Seq(EventsOf) /\ waiting \in Seq(Conns) /\ waiting' \in Seq(Conns)
    BY <1>0 DEF HoldInv, TypeOK, EventsOf
  <1>2. Len(waiting) \in Nat /\ Len(waiting') \in Nat /\ Count(queue) \in Nat /\ Count(queue') \in Nat
    BY <1>1, LenProperties, CountIs
  <1>3. Len(waiting) <= Count(queue)
    BY <1>1, CountIs DEF WaitingAnnounced
  <1>4. (Len(waiting') <= Count(queue')) => WaitingAnnounced'
    <2>1. Count(queue') = Cardinality({i \in DOMAIN queue' : queue'[i][1] = "CONNECTED"})
      BY <1>1, CountIs
    <2>2. QED
      BY <2>1 DEF WaitingAnnounced
  <1>5. ASSUME waiting' = waiting, queue' = queue PROVE WaitingAnnounced'
    BY <1>2, <1>3, <1>4, <1>5
  <1>6. ASSUME waiting' = waiting, NEW type \in EventTypes, NEW c \in Conns, queue' = Append(queue, <<type, c>>)
        PROVE  WaitingAnnounced'
    <2>1. <<type, c>> \in EventsOf
      BY DEF EventsOf
    <2>2. Count(queue') >= Count(queue)
      BY <1>1, <1>6, <2>1, CountAppend
    <2>3. QED
      BY <1>2, <1>3, <1>4, <1>6, <2>2
  \* A handler of another event than an announcement.
  <1>7. ASSUME Len(waiting') <= Len(waiting), NEW type, NEW c, Next1(type, c), type # "CONNECTED",
               NEW s \in Seq(EventsOf), Add(s)
        PROVE  WaitingAnnounced'
    <2>1. queue # <<>> /\ Head(queue)[1] # "CONNECTED" /\ queue' = Tail(queue) \o s
      BY <1>7 DEF Next1, Add
    <2>2. Count(queue') = Count(queue) + Count(s) /\ Count(s) \in Nat
      BY <1>1, <2>1, CountAdd
    <2>3. QED
      BY <1>2, <1>3, <1>4, <1>7, <2>2
  <1>8. CASE UNCHANGED vars
    BY <1>5, <1>8 DEF vars, ours
  <1>9. ASSUME NEW c \in Conns, Peer(c) PROVE WaitingAnnounced'
    <2>1. waiting' = waiting
      BY <1>9 DEF Peer, Knock, SecureAccept, Inform, Chat, Cut, Vanish, Reply, PeerOnly
    <2>2. \/ queue' = queue
          \/ \E type \in EventTypes : queue' = Append(queue, <<type, c>>)
      BY <1>9, AdmissionAssumption
      DEF Peer, Knock, SecureAccept, Inform, Chat, Cut, Vanish, Reply, Arrives, EventTypes
    <2>3. QED
      BY <1>5, <1>6, <2>1, <2>2
  <1>10. <<>> \in Seq(EventsOf) /\ \A c \in Conns, t \in EventTypes : << <<t, c>> >> \in Seq(EventsOf)
    BY DEF EventsOf
  <1>11. ASSUME NEW c \in Conns,
                \/ HandleClientConnecting(c) \/ HandleClientAccepted(c) \/ HandleClientAcceptFailed(c)
                \/ HandleHello(c) \/ HandleData(c) \/ HandleShutdown(c) \/ HandleReady(c)
         PROVE  WaitingAnnounced'
    <2>1. waiting' = waiting /\ Len(waiting') <= Len(waiting)
      <3>1. waiting' = waiting
        BY <1>11 DEF HandleClientConnecting, HandleClientAccepted, HandleClientAcceptFailed, HandleHello,
                     HandleData, HandleShutdown, HandleReady, Lists
      <3>2. QED
        BY <1>2, <3>1
    <2>2. PICK type : Next1(type, c) /\ type # "CONNECTED"
      BY <1>11, AdmissionAssumption
      DEF HandleClientConnecting, HandleClientAccepted, HandleClientAcceptFailed, HandleHello,
          HandleData, HandleShutdown, HandleReady, Supported, Unsupported, Invalid, Malformed
    <2>3. << <<"SHUTDOWN", c>>, <<"ACCEPTED", c>> >> \in Seq(EventsOf)
      BY DEF EventsOf, EventTypes
    <2>4. \/ Add(<<>>)
          \/ Add(<< <<"SHUTDOWN", c>>, <<"ACCEPTED", c>> >>)
          \/ \E t \in EventTypes : Add(<< <<t, c>> >>)
      BY <1>11 DEF HandleClientConnecting, HandleClientAccepted, HandleClientAcceptFailed, HandleHello,
                   HandleData, HandleShutdown, HandleReady, EventTypes
    <2>5. QED
      BY <1>7, <1>10, <2>1, <2>2, <2>3, <2>4
  <1>12. ASSUME NEW c \in Conns, HandleDisconnected(c) PROVE WaitingAnnounced'
    <2>1. Next1("DISCONNECTED", c)
      BY <1>12 DEF HandleDisconnected
    <2>2. \/ Add(<<>>)
          \/ \E t \in EventTypes : Add(<< <<t, c>> >>)
      <3>1. Add(<<>>) \/ Add(<< <<"FAILURE", c>> >>)
        BY <1>12 DEF HandleDisconnected
      <3>2. "FAILURE" \in EventTypes
        BY DEF EventTypes
      <3>3. QED
        BY <3>1, <3>2
    <2>3. waiting' = waiting \/ waiting' = Kept(waiting, Conns \ {c})
      BY <1>12 DEF HandleDisconnected, Lists
    <2>4. Len(waiting') <= Len(waiting)
      BY <1>1, <1>2, <2>3, WaitingKept, SMTT(30)
    <2>5. QED
      BY <1>7, <1>10, <2>1, <2>2, <2>4
  <1>13. ASSUME NEW c \in Conns, HandleUnknownClient(c) PROVE WaitingAnnounced'
    <2>1. PICK type \in {"SUCCESS", "FAILURE"} : Next1(type, c)
      BY <1>13 DEF HandleUnknownClient
    <2>2. CASE conn[c].ready
      <3> DEFINE s == << <<"CONNECTED", c>> >>
      <3>1. waiting' = Append(waiting, c) /\ Add(s)
        BY <1>13, <2>2 DEF HandleUnknownClient, announce
      <3>2. s \in Seq(EventsOf) /\ Len(s) = 1
        BY DEF EventsOf, EventTypes
      <3>3. \A i \in 1 .. Len(s) : s[i] \in Announcements
        BY DEF Announcements
      <3> HIDE DEF s
      <3>4. Count(s) = 1
        BY <3>2, <3>3, KeptKept DEF Count
      <3>5. queue # <<>> /\ Head(queue)[1] # "CONNECTED" /\ queue' = Tail(queue) \o s
        BY <2>1, <3>1 DEF Next1, Add
      <3>6. Count(queue') = Count(queue) + 1
        BY <1>1, <3>2, <3>4, <3>5, CountAdd
      <3>7. Len(waiting') = Len(waiting) + 1
        BY <1>1, <3>1, AppendProperties
      <3>8. QED
        BY <1>2, <1>3, <1>4, <3>6, <3>7
    <2>3. CASE ~conn[c].ready
      <3>1. waiting' = waiting /\ Add(<<>>)
        BY <1>13, <2>3 DEF HandleUnknownClient
      <3>2. Len(waiting') <= Len(waiting)
        BY <1>2, <3>1
      <3>3. QED
        BY <1>7, <1>10, <2>1, <3>1, <3>2
    <2>4. QED
      BY <2>2, <2>3
  \* An announcement is used up by a client, or no client waits.
  <1>14. ASSUME queue # <<>>, Head(queue)[1] = "CONNECTED", Add(<<>>),
                \/ waiting' = waiting /\ waiting = <<>>
                \/ waiting # <<>> /\ waiting' = Tail(waiting)
         PROVE  WaitingAnnounced'
    <2>1. queue' = Tail(queue) \o <<>>
      BY <1>14 DEF Add
    <2>2. Count(queue') + 1 = Count(queue) + Count(<<>>) /\ Count(<<>>) \in Nat
      BY <1>1, <1>10, <1>14, <2>1, CountAdd
    <2>3. CASE waiting' = waiting /\ waiting = <<>>
      <3>1. Len(waiting') = 0
        BY <2>3
      <3>2. QED
        BY <1>2, <1>4, <3>1
    <2>4. CASE waiting # <<>> /\ waiting' = Tail(waiting)
      <3>1. Len(waiting') = Len(waiting) - 1
        BY <1>1, <2>4, HeadTailProperties
      <3>2. QED
        BY <1>2, <1>3, <1>4, <2>2, <3>1
    <2>5. QED
      BY <1>14, <2>3, <2>4
  <1>15. ASSUME NEW c \in Conns, HandleClientConnected(c) PROVE WaitingAnnounced'
    <2>1. Next1("CONNECTED", c) /\ waiting # <<>> /\ waiting' = Tail(waiting) /\ Add(<<>>)
      BY <1>15 DEF HandleClientConnected
    <2>2. queue # <<>> /\ Head(queue)[1] = "CONNECTED"
      BY <2>1 DEF Next1
    <2>3. QED
      BY <1>14, <2>1, <2>2
  <1>16. ASSUME Drop PROVE WaitingAnnounced'
    <2>1. queue # <<>> /\ Add(<<>>) /\ waiting' = waiting /\ ~Handled
      BY <1>16 DEF Drop, Lists
    <2>2. PICK type \in EventTypes, c \in Conns : Head(queue) = <<type, c>>
      <3>1. Head(queue) \in EventsOf
        BY <1>1, <2>1, HeadTailProperties
      <3>2. QED
        BY <3>1 DEF EventsOf
    <2>3. CASE type # "CONNECTED"
      <3>1. Next1(type, c) /\ Len(waiting') <= Len(waiting)
        BY <1>2, <2>1, <2>2 DEF Next1
      <3>2. QED
        BY <1>7, <1>10, <2>1, <2>3, <3>1
    <2>4. CASE type = "CONNECTED"
      <3>1. Head(queue)[1] = "CONNECTED"
        BY <2>2, <2>4
      <3>2. ~listening \/ waiting = <<>>
        BY <2>1, <3>1, AdmissionAssumption DEF Handled, Supported, Unsupported, Invalid, Malformed
      <3>3. waiting = <<>>
        <4> SUFFICES ASSUME waiting # <<>> PROVE FALSE
          OBVIOUS
        <4>1. \A d \in Conns : Once(d, waiting)
          BY DEF HoldInv, WaitsOnce
        <4>2. Head(waiting) \in Conns /\ In(Head(waiting), waiting)
          BY <1>1, <4>1, WaitingHead
        <4>3. Sits(conn[Head(waiting)], Head(waiting))
          BY <4>2, Known
        <4>4. listening
          BY <4>2, <4>3 DEF Sits, Held
        <4>5. QED
          BY <3>2, <4>4
      <3>4. QED
        BY <1>14, <2>1, <3>1, <3>3
    <2>5. QED
      BY <2>3, <2>4
  <1>17. ASSUME NEW c \in Conns, Timers(c) \/ CloseClient(c) PROVE WaitingAnnounced'
    <2>1. waiting' = waiting
      BY <1>17 DEF Timers, HandleTimeout, HandleFlatline, HandleClientCloseTimeout, CloseClient, Lists
    <2>2. \/ queue' = queue
          \/ queue = <<>> /\ \E type \in EventTypes : queue' = << <<type, c>> >>
      BY <1>17 DEF Timers, HandleTimeout, HandleFlatline, HandleClientCloseTimeout, CloseClient, EventTypes
    <2>3. queue = <<>> => \A type : Append(queue, <<type, c>>) = << <<type, c>> >>
      OBVIOUS
    <2>4. QED
      BY <1>5, <1>6, <2>1, <2>2, <2>3
  <1>18. ASSUME CloseListener PROVE WaitingAnnounced'
    <2>1. Len(waiting') = 0
      BY <1>18 DEF CloseListener
    <2>2. QED
      BY <1>2, <1>4, <2>1
  <1>19. QED
    BY <1>8, <1>9, <1>11, <1>12, <1>13, <1>15, <1>16, <1>17, <1>18 DEF Next, Dispatch

(***************************************************************************)
(* No waiting client is forgotten: there are as many CONNECTED events as   *)
(* clients that wait, although an event takes the first client, whoever it *)
(* was for, and clients leave those that wait in any order                 *)
(* (ClientListener::handle_unknown_client, ServerApp::                     *)
(* handle_client_connected).                                               *)
(***************************************************************************)
THEOREM NobodyWaitsUnannounced == Spec => []WaitingAnnounced
  <1>1. Init => WaitingAnnounced
    <2> SUFFICES ASSUME Init PROVE WaitingAnnounced
      OBVIOUS
    <2>1. queue = <<>> /\ waiting = <<>> /\ queue \in Seq(EventsOf)
      BY DEF Init
    <2>2. Count(queue) \in Nat /\ Count(queue) = Cardinality({i \in DOMAIN queue : queue[i][1] = "CONNECTED"})
      BY <2>1, CountIs
    <2>3. Len(waiting) = 0
      BY <2>1
    <2>4. QED
      BY <2>2, <2>3 DEF WaitingAnnounced
  <1>2. QED
    BY <1>1, HoldInitially, HoldNext, AnnouncedNext, PTL DEF Spec
=============================================================================
