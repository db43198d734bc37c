------------------------ MODULE ClientSession_proofs ------------------------
(***************************************************************************)
(* NothingUnread holds for any server, any faults and any bounds, and so   *)
(* does SessionInv if the screen does not fail for good in a retry, which  *)
(* goes unnoticed and costs KeepsTrying (README, known limits).            *)
(***************************************************************************)
EXTENDS ClientSession, Filtering_proofs

Events == Ends \cup {"input"}

Has(q, e) == \E i \in DOMAIN q : q[i] = e

\* How often ClientApp is still to be told that a connection ended.
Count(q) == Len(Kept(q, Ends))

\* Attempts to connect that are under way or still to come.
Owed(p) ==
    p.restarts + Count(p.queue) + (IF p.stream # "none" \/ p.onResume THEN 1 ELSE 0)

\* Only the server can turn the alarm of a session off.
Timed(p) ==
    /\ p.timer <=> p.stream \in {"connecting", "hello"}
    /\ p.alarm => p.stream = "session"
    /\ FALSE \notin Heartbeats /\ p.stream = "session" => p.alarm

ScreenFits(p) ==
    /\ p.screen \in {"on", "entered"} <=> p.ready
    /\ p.ready <=> ~p.handshake
    /\ p.ready => p.stream = "session"

Trying(p) ==
    ~Unnoticed /\ p.phase = "loop" /\ Restartable /\ p.stream = "none" =>
        \/ p.restarts > 0
        \/ Has(p.queue, "failed") \/ Has(p.queue, "disconnected")
        \/ p.suspended /\ p.onResume

Announced(p) == p.phase = "loop" /\ ~p.reading /\ p.inbox # <<>> => Has(p.queue, "input")

(***************************************************************************)
(* The inductive invariant: what the program is like between two handlers, *)
(* and the shape of the network.                                           *)
(***************************************************************************)
Sound(p) ==
    /\ p \in Progs
    /\ Owed(p) <= MaxRestarts + 1
    /\ Timed(p)
    /\ ScreenFits(p)
    /\ Trying(p)
    /\ Announced(p)
    /\ p.reading => p.stream = "session"
    /\ Has(p.queue, "input") => p.stream = "session"
    /\ p.stream # "session" => p.inbox = <<>>
    /\ p.suspended => p.stream = "none"
    /\ p.onResume => p.suspended
    /\ p.phase = "start" => p = NewProg

StrongInv == Sound(prog) /\ net \in [peer: Peers, faults: 0 .. MaxFaults]

-----------------------------------------------------------------------------
(***************************************************************************)
(* The queue.                                                              *)
(***************************************************************************)
LEMMA QueueEmpty == Count(<<>>) = 0 /\ \A f : ~Has(<<>>, f)
  <1>1. <<>> \in Seq(Events) /\ Len(<<>>) = 0
    BY EmptySeq
  <1>2. \A i \in 1 .. Len(<<>>) : <<>>[i] \in Ends
    BY <1>1
  <1>3. Kept(<<>>, Ends) = <<>>
    <2> HIDE DEF Events
    <2>1. QED
      BY <1>1, <1>2, KeptKept
  <1>4. \A f : ~Has(<<>>, f)
    BY DEF Has
  <1>5. QED
    BY <1>1, <1>3, <1>4 DEF Count

\* What is in a queue after an event was posted, ...
LEMMA QueueAppend ==
    ASSUME NEW q \in Seq(Events), NEW e \in Events
    PROVE  /\ Append(q, e) \in Seq(Events)
           /\ \A f : Has(Append(q, e), f) <=> Has(q, f) \/ e = f
           /\ Count(q) \in Nat
           /\ Count(Append(q, e)) = Count(q) + (IF e \in Ends THEN 1 ELSE 0)
  <1> HIDE DEF Events
  <1>1. /\ Append(q, e) \in Seq(Events) /\ Len(q) \in Nat
        /\ DOMAIN q = 1 .. Len(q) /\ DOMAIN Append(q, e) = 1 .. Len(q) + 1
        /\ \A i \in 1 .. Len(q) : Append(q, e)[i] = q[i]
        /\ Append(q, e)[Len(q) + 1] = e
    BY AppendProperties, LenProperties
  <1>2. ASSUME NEW f PROVE Has(Append(q, e), f) <=> Has(q, f) \/ e = f
    BY <1>1 DEF Has
  <1>3. Kept(q, Ends) \in Seq(Events) /\ Count(q) \in Nat
    BY KeptLen DEF Count
  <1>4. Kept(Append(q, e), Ends) = IF e \in Ends THEN Append(Kept(q, Ends), e) ELSE Kept(q, Ends)
    BY KeptAppend
  <1>5. Len(Append(Kept(q, Ends), e)) = Len(Kept(q, Ends)) + 1
    BY <1>3, AppendProperties
  <1>6. QED
    BY <1>1, <1>2, <1>3, <1>4, <1>5 DEF Count

\* ... after its first event was taken, ...
LEMMA QueueTail ==
    ASSUME NEW q \in Seq(Events), q # <<>>
    PROVE  /\ Tail(q) \in Seq(Events) /\ Head(q) \in Events
           /\ \A f : Has(q, f) <=> Head(q) = f \/ Has(Tail(q), f)
           /\ Count(Tail(q)) \in Nat
           /\ Count(q) = Count(Tail(q)) + (IF Head(q) \in Ends THEN 1 ELSE 0)
  <1> HIDE DEF Events
  <1>1. /\ Tail(q) \in Seq(Events) /\ Head(q) \in Events /\ Len(q) \in Nat /\ Len(q) > 0
        /\ DOMAIN q = 1 .. Len(q) /\ DOMAIN Tail(q) = 1 .. Len(q) - 1
        /\ \A i \in 1 .. Len(q) - 1 : Tail(q)[i] = q[i + 1]
        /\ Head(q) = q[1]
    BY HeadTailProperties, LenProperties, EmptySeq
  <1>2. ASSUME NEW f PROVE Has(q, f) <=> Head(q) = f \/ Has(Tail(q), f)
    <2>1. ASSUME NEW i \in DOMAIN q, q[i] = f, Head(q) # f PROVE Has(Tail(q), f)
      <3>1. i - 1 \in 1 .. Len(q) - 1 /\ (i - 1) + 1 = i
        BY <1>1, <2>1
      <3>2. Tail(q)[i - 1] = f
        BY <1>1, <2>1, <3>1
      <3>3. QED
        BY <1>1, <3>1, <3>2 DEF Has
    <2>2. ASSUME NEW i \in DOMAIN Tail(q), Tail(q)[i] = f PROVE Has(q, f)
      <3>1. i + 1 \in DOMAIN q /\ q[i + 1] = f
        BY <1>1, <2>2
      <3>2. QED
        BY <3>1 DEF Has
    <2>3. Head(q) = f => Has(q, f)
      BY <1>1 DEF Has
    <2>4. QED
      BY <2>1, <2>2, <2>3 DEF Has
  <1>3. Kept(q, Ends) \in Seq(Events) /\ Count(Tail(q)) \in Nat
    BY <1>1, KeptLen DEF Count
  <1>4. Count(q) = Count(Tail(q)) + (IF Head(q) \in Ends THEN 1 ELSE 0)
    <2>1. CASE Head(q) \in Ends
      <3>1. Kept(q, Ends) # <<>> /\ Kept(Tail(q), Ends) = Tail(Kept(q, Ends))
        BY <2>1, KeptTail
      <3>2. Len(Tail(Kept(q, Ends))) = Len(Kept(q, Ends)) - 1 /\ Len(Kept(q, Ends)) \in Nat
        BY <1>3, <3>1, HeadTailProperties, LenProperties
      <3>3. Len(Kept(Tail(q), Ends)) = Len(Kept(q, Ends)) - 1
        BY <3>1, <3>2, Zenon
      <3>4. QED
        BY <2>1, <3>2, <3>3 DEF Count
    <2>2. CASE Head(q) \notin Ends
      <3>1. Kept(Tail(q), Ends) = Kept(q, Ends)
        BY <2>2, KeptTail
      <3>2. Count(q) = Count(Tail(q))
        BY <3>1 DEF Count
      <3>3. QED
        BY <1>3, <2>2, <3>2
    <2>3. QED
      BY <2>1, <2>2
  <1>5. QED
    BY <1>1, <1>2, <1>3, <1>4

\* ... and after the events of the stream were dropped.
LEMMA QueueKept ==
    ASSUME NEW q \in Seq(Events)
    PROVE  /\ Kept(q, Ends) \in Seq(Events)
           /\ \A f : Has(Kept(q, Ends), f) <=> Has(q, f) /\ f \in Ends
           /\ Count(q) \in Nat
           /\ Count(Kept(q, Ends)) = Count(q)
  <1> HIDE DEF Events
  <1> DEFINE k == Kept(q, Ends)
  <1>1. /\ k \in Seq(Events) /\ DOMAIN k = 1 .. Len(k) /\ DOMAIN q = 1 .. Len(q)
        /\ Len(k) \in Nat
        /\ \A j \in 1 .. Len(k) : \E i \in 1 .. Len(q) : k[j] = q[i] /\ q[i] \in Ends
    BY KeptType, LenProperties
  <1>2. ASSUME NEW i \in 1 .. Len(q), q[i] \in Ends PROVE \E j \in 1 .. Len(k) : k[j] = q[i]
    BY <1>2, KeptFinds
  <1>3. Kept(k, Ends) = k
    BY <1>1, KeptKept
  <1> HIDE DEF k
  <1>4. ASSUME NEW f PROVE Has(k, f) <=> Has(q, f) /\ f \in Ends
    BY <1>1, <1>2 DEF Has
  <1>5. QED
    BY <1>1, <1>3, <1>4 DEF Count, k

-----------------------------------------------------------------------------
(***************************************************************************)
(* The ends of a connection.                                               *)
(***************************************************************************)
\* The program that ClientApp is told of by `e' in `q'.
Over1(p, q, e) ==
    /\ q \in Progs
    /\ q.phase = p.phase /\ q.restarts = p.restarts
    /\ q.queue = Append(Kept(p.queue, Ends), e)
    /\ q.stream = "none" /\ ~q.timer /\ ~q.reading /\ q.inbox = <<>>
    /\ q.suspended = p.suspended
    /\ ~q.alarm
    /\ q.screen \notin {"on", "entered"} /\ ~q.ready /\ q.handshake

\* What a connection may look like when it ends.
Open(p) ==
    /\ p \in Progs
    /\ Timed(p)
    /\ ScreenFits(p)
    /\ p.reading => p.stream = "session"

LEMMA CleanedUp ==
    ASSUME NEW p, Open(p), NEW e \in Ends
    PROVE  LET q == post(cleanupStream(cleanupScreen(cleanupTimer(p))), e)
           IN  Over1(p, q, e) /\ q.onResume = p.onResume
  <1> DEFINE k == Append(Kept(p.queue, Ends), e)
             q == post(cleanupStream(cleanupScreen(cleanupTimer(p))), e)
             scr == IF p.ready THEN "off" ELSE p.screen
  <1>1. k \in Seq(Events) /\ <<>> \in Seq(Messages)
    BY QueueKept, QueueAppend, EmptySeq DEF Open, Progs, Events
  <1>2. CASE p.stream = "session"
    <2>1. /\ q = [p EXCEPT !.timer = FALSE, !.alarm = FALSE, !.ready = FALSE,
                           !.screen = scr, !.handshake = TRUE,
                           !.informed = FALSE, !.reading = FALSE, !.stream = "none",
                           !.inbox = <<>>, !.partial = FALSE, !.shut = FALSE, !.queue = k]
          /\ scr \in {"absent", "off", "on", "entered"}
      BY <1>2 DEF post, cleanupStream, cleanupScreen, cleanupTimer, Open, Progs
    <2> HIDE DEF k, q, scr
    <2>2. q \in Progs
      <3> DEFINE r == [p EXCEPT !.timer = FALSE, !.alarm = FALSE, !.ready = FALSE, !.screen = scr,
                                !.handshake = TRUE, !.informed = FALSE]
      <3>1. r \in Progs
        BY <2>1 DEF Open, Progs
      <3>2. q = [r EXCEPT !.reading = FALSE, !.stream = "none", !.inbox = <<>>,
                          !.partial = FALSE, !.shut = FALSE, !.queue = k]
        BY <2>1
      <3> HIDE DEF r
      <3>3. QED
        BY <1>1, <3>1, <3>2 DEF Progs, Events
    <2>3. /\ q.phase = p.phase /\ q.restarts = p.restarts /\ q.queue = k /\ q.stream = "none"
          /\ ~q.timer /\ ~q.reading /\ q.inbox = <<>> /\ q.suspended = p.suspended
          /\ q.onResume = p.onResume /\ ~q.alarm /\ ~q.ready /\ q.handshake
          /\ q.screen = scr
      BY <2>1 DEF Open, Progs
    <2>4. q.screen \notin {"on", "entered"}
      BY <2>3 DEF Open, ScreenFits, scr
    <2>5. QED
      BY <2>2, <2>3, <2>4 DEF Over1, k, q
  <1>3. CASE p.stream # "session"
    <2>1. q = [p EXCEPT !.timer = FALSE, !.stream = "none",
                        !.inbox = <<>>, !.partial = FALSE, !.shut = FALSE, !.queue = k]
      BY <1>3 DEF post, cleanupStream, cleanupScreen, cleanupTimer, Open, Progs
    <2> HIDE DEF k, q
    <2>2. q \in Progs
      BY <1>1, <2>1 DEF Open, Progs, Events
    <2>3. /\ q.phase = p.phase /\ q.restarts = p.restarts /\ q.queue = k /\ q.stream = "none"
          /\ ~q.timer /\ q.reading = p.reading /\ q.inbox = <<>> /\ q.suspended = p.suspended
          /\ q.onResume = p.onResume /\ q.alarm = p.alarm /\ q.ready = p.ready
          /\ q.handshake = p.handshake /\ q.screen = p.screen
      BY <2>1 DEF Open, Progs
    <2>4. /\ q.screen \notin {"on", "entered"} /\ ~q.ready /\ q.handshake /\ ~q.reading
          /\ ~q.alarm
      BY <1>3, <2>3 DEF Open, ScreenFits, Timed
    <2>5. QED
      BY <2>2, <2>3, <2>4 DEF Over1, k, q
  <1>4. QED
    BY <1>2, <1>3

\* However it ended, the program is sound if there is room for another attempt.
LEMMA EndedSound ==
    ASSUME NEW p, p \in Progs, p.phase = "loop", NEW q, NEW e \in Ends, Over1(p, q, e),
           q.onResume => q.suspended,
           p.restarts + Count(p.queue) + 1 + (IF q.onResume THEN 1 ELSE 0) <= MaxRestarts + 1
    PROVE  Sound(q)
  <1>1. p.queue \in Seq(Events) /\ e \in Events /\ p.restarts \in Nat
    BY SessionConstants DEF Progs, Events
  <1>2. /\ \A f : Has(q.queue, f) <=> (Has(p.queue, f) /\ f \in Ends) \/ e = f
        /\ Count(q.queue) = Count(p.queue) + 1 /\ Count(p.queue) \in Nat
    <2>1. Kept(p.queue, Ends) \in Seq(Events) /\ Count(Kept(p.queue, Ends)) = Count(p.queue)
      BY <1>1, QueueKept
    <2>2. QED
      BY <1>1, <2>1, QueueKept, QueueAppend DEF Over1
  <1>3. Owed(q) <= MaxRestarts + 1
    BY <1>1, <1>2, SessionConstants DEF Owed, Over1
  <1>4. ~Has(q.queue, "input") /\ (Has(q.queue, "failed") \/ Has(q.queue, "disconnected"))
    BY <1>2 DEF Ends
  <1>5. Timed(q) /\ ScreenFits(q) /\ Trying(q) /\ Announced(q)
    BY <1>4 DEF Over1, Timed, ScreenFits, Trying, Announced
  <1>6. QED
    BY <1>3, <1>4, <1>5 DEF Sound, Over1

\* disconnect and disconnected, of a connection that is not suspended.
LEMMA DisconnectSound ==
    ASSUME NEW p, Open(p), p.phase = "loop", ~p.onResume, NEW e \in Ends,
           p.restarts + Count(p.queue) + 1 <= MaxRestarts + 1
    PROVE  /\ Sound(disconnect(p, e))
           /\ disconnect(p, e).stream = "none"
           /\ Sound(disconnected(p))
           /\ disconnected(p).stream = "none"
  <1>1. Over1(p, disconnected(p), "disconnected") /\ disconnected(p).onResume = p.onResume
    BY CleanedUp DEF disconnected, Ends
  <1>2. disconnect(p, e) = post(cleanupStream(cleanupScreen(cleanupTimer(p))), e)
    <2>1. [p EXCEPT !.onResume = FALSE] = p
      BY DEF Open, Progs
    <2>2. QED
      BY <2>1 DEF disconnect
  <1>3. Over1(p, disconnect(p, e), e) /\ disconnect(p, e).onResume = p.onResume
    BY <1>2, CleanedUp
  <1>4. p \in Progs /\ p.restarts + Count(p.queue) + 1 + 0 <= MaxRestarts + 1
    <2>1. p \in Progs /\ p.queue \in Seq(Events) /\ p.restarts \in Nat
      BY SessionConstants DEF Open, Progs, Events
    <2>2. Count(p.queue) \in Nat
      BY <2>1, QueueKept
    <2>3. QED
      BY <2>1, <2>2, SessionConstants
  <1>5. Sound(disconnect(p, e))
    BY <1>3, <1>4, EndedSound
  <1>6. Sound(disconnected(p))
    BY <1>1, <1>4, EndedSound DEF Ends
  <1>7. QED
    BY <1>1, <1>3, <1>5, <1>6 DEF Over1

\* failed, where there was no session.
LEMMA FailedSound ==
    ASSUME NEW p, Open(p), p.phase = "loop", ~p.onResume, p.stream # "session",
           p.restarts + Count(p.queue) + 1 <= MaxRestarts + 1
    PROVE  Sound(failed(p)) /\ failed(p).stream = "none"
  <1>1. cleanupScreen(cleanupTimer(p)) = cleanupTimer(p)
    BY DEF cleanupScreen, cleanupTimer, Open, Progs
  <1>2. failed(p) = post(cleanupStream(cleanupScreen(cleanupTimer(p))), "failed")
    BY <1>1 DEF failed
  <1>3. [p EXCEPT !.onResume = FALSE] = p
    BY DEF Open, Progs
  <1>4. failed(p) = disconnect(p, "failed")
    BY <1>2, <1>3 DEF disconnect
  <1>5. QED
    BY <1>4, DisconnectSound DEF Ends

-----------------------------------------------------------------------------
(***************************************************************************)
(* Connecting.                                                             *)
(***************************************************************************)
LEMMA SoundNumbers ==
    ASSUME NEW p, p \in Progs
    PROVE  /\ p.queue \in Seq(Events) /\ p.restarts \in Nat /\ Count(p.queue) \in Nat
           /\ MaxRestarts \in Nat
           /\ Owed(p) = p.restarts + Count(p.queue)
                        + (IF p.stream # "none" \/ p.onResume THEN 1 ELSE 0)
  <1>1. p.queue \in Seq(Events) /\ p.restarts \in Nat /\ MaxRestarts \in Nat
    BY SessionConstants DEF Progs, Events
  <1>2. Count(p.queue) \in Nat
    BY <1>1, QueueKept
  <1>3. QED
    BY <1>1, <1>2 DEF Owed

\* A program that has used up a restart and is about to use it.
Nearly(p) ==
    /\ p \in Progs
    /\ p.phase = "loop"
    /\ Owed(p) <= MaxRestarts
    /\ Timed(p)
    /\ ScreenFits(p)
    /\ Announced(p)
    /\ p.reading => p.stream = "session"
    /\ Has(p.queue, "input") => p.stream = "session"
    /\ p.stream # "session" => p.inbox = <<>>
    /\ p.suspended => p.stream = "none"
    /\ p.onResume => p.suspended

\* connect makes a connection, or leaves it to the resumption; or it fails at once.
LEMMA ConnectSound ==
    ASSUME NEW p, Nearly(p)
    PROVE  /\ Sound(connect(p))
           /\ connect(p).stream # p.stream => Sound(post(p, "failed"))
           /\ connect(p).stream = "none" => p.stream = "none"
  <1>1. /\ p.queue \in Seq(Events) /\ p.restarts \in Nat /\ Count(p.queue) \in Nat
        /\ MaxRestarts \in Nat
        /\ Owed(p) = p.restarts + Count(p.queue) + (IF p.stream # "none" \/ p.onResume THEN 1 ELSE 0)
    BY SoundNumbers DEF Nearly
  <1>2. CASE p.stream # "none"
    <2>1. connect(p) = p
      BY <1>2 DEF connect
    <2>2. Owed(p) <= MaxRestarts + 1
      BY <1>1 DEF Nearly
    <2>3. Trying(p)
      BY <1>2 DEF Trying
    <2>4. Sound(p)
      BY <2>2, <2>3 DEF Sound, Nearly
    <2>5. QED
      BY <1>2, <2>1, <2>4
  <1>3. CASE p.stream = "none" /\ p.suspended
    <2> DEFINE q == [p EXCEPT !.onResume = TRUE]
    <2>1. connect(p) = q
      BY <1>3 DEF connect
    <2>2. /\ q \in Progs /\ q.phase = p.phase /\ q.restarts = p.restarts /\ q.queue = p.queue
          /\ q.stream = p.stream /\ q.timer = p.timer /\ q.alarm = p.alarm /\ q.screen = p.screen
          /\ q.ready = p.ready /\ q.handshake = p.handshake /\ q.reading = p.reading
          /\ q.inbox = p.inbox /\ q.suspended = p.suspended /\ q.onResume
      BY DEF Nearly, Progs
    <2> HIDE DEF q
    <2>3. Owed(q) <= MaxRestarts + 1
      BY <1>1, <1>3, <2>2 DEF Owed, Nearly
    <2>4. Timed(q) /\ ScreenFits(q) /\ Announced(q) /\ Trying(q)
      BY <1>3, <2>2 DEF Nearly, Timed, ScreenFits, Announced, Trying
    <2>5. Sound(q)
      BY <2>2, <2>3, <2>4, <1>3 DEF Sound, Nearly
    <2>6. QED
      BY <1>3, <2>1, <2>2, <2>5
  <1>4. CASE p.stream = "none" /\ ~p.suspended
    <2> DEFINE q == [p EXCEPT !.stream = "connecting", !.timer = TRUE]
               f == post(p, "failed")
    <2>1. connect(p) = q
      BY <1>4 DEF connect
    <2>2. /\ q \in Progs /\ q.phase = p.phase /\ q.restarts = p.restarts /\ q.queue = p.queue
          /\ q.stream = "connecting" /\ q.timer /\ q.alarm = p.alarm /\ q.screen = p.screen
          /\ q.ready = p.ready /\ q.handshake = p.handshake /\ q.reading = p.reading
          /\ q.inbox = p.inbox /\ q.suspended = p.suspended /\ q.onResume = p.onResume
      BY DEF Nearly, Progs
    <2> HIDE DEF q
    <2>3. Owed(q) <= MaxRestarts + 1
      BY <1>1, <1>4, <2>2 DEF Owed, Nearly
    <2>4. Timed(q) /\ ScreenFits(q) /\ Announced(q) /\ Trying(q)
      BY <1>4, <2>2 DEF Nearly, Timed, ScreenFits, Announced, Trying
    <2>5. Sound(q)
      BY <2>2, <2>3, <2>4, <1>4 DEF Sound, Nearly
    <2>6. /\ Append(p.queue, "failed") \in Seq(Events)
          /\ \A g : Has(Append(p.queue, "failed"), g) <=> Has(p.queue, g) \/ "failed" = g
          /\ Count(Append(p.queue, "failed")) = Count(p.queue) + 1
      BY <1>1, QueueAppend DEF Events, Ends
    <2>7. /\ f \in Progs /\ f.phase = p.phase /\ f.restarts = p.restarts
          /\ f.queue = Append(p.queue, "failed")
          /\ f.stream = p.stream /\ f.timer = p.timer /\ f.alarm = p.alarm /\ f.screen = p.screen
          /\ f.ready = p.ready /\ f.handshake = p.handshake /\ f.reading = p.reading
          /\ f.inbox = p.inbox /\ f.suspended = p.suspended /\ f.onResume = p.onResume
      BY <2>6 DEF Nearly, Progs, post, Events
    <2> HIDE DEF f
    <2>8. Owed(f) <= MaxRestarts + 1
      BY <1>1, <1>4, <2>6, <2>7 DEF Owed, Nearly
    <2>9. Timed(f) /\ ScreenFits(f) /\ Announced(f) /\ Trying(f)
      BY <1>4, <2>6, <2>7 DEF Nearly, Timed, ScreenFits, Announced, Trying
    <2>10. Sound(f)
      BY <2>6, <2>7, <2>8, <2>9, <1>4 DEF Sound, Nearly
    <2>11. QED
      BY <1>4, <2>1, <2>2, <2>5, <2>10 DEF f
  <1>5. QED
    BY <1>2, <1>3, <1>4

-----------------------------------------------------------------------------
(***************************************************************************)
(* Steps of the program and what they do to the network.                   *)
(***************************************************************************)
Nets == [peer: Peers, faults: 0 .. MaxFaults]

LEMMA StepSound ==
    ASSUME StrongInv, NEW p, Sound(p), NEW wire \in Seq(Messages), NEW n \in {0, 1},
           n = 1 => MayFail, Step(p, wire, n)
    PROVE  StrongInv'
  <1>1. prog' = p
    BY DEF Step
  <1>2. Sound(prog')
    BY <1>1
  <1>3. net.faults + n \in 0 .. MaxFaults /\ net.peer \in Peers
    BY SessionConstants DEF StrongInv, MayFail
  <1>4. NoPeer \in Peers /\ [NoPeer EXCEPT !.stage = "connect"] \in Peers
    BY EmptySeq DEF NoPeer, Peers
  <1>5. [net.peer EXCEPT !.wire = wire] \in Peers
    BY <1>3 DEF Peers
  <1>6. net' \in Nets
    BY <1>3, <1>4, <1>5 DEF Step, Nets
  <1>7. QED
    BY <1>2, <1>6 DEF StrongInv, Nets

\* Connect, of a program that has the attempt to make.
LEMMA ConnectStep ==
    ASSUME StrongInv, NEW p, Nearly(p), Connect(p)
    PROVE  StrongInv'
  <1>1. net.peer.wire \in Seq(Messages) /\ <<>> \in Seq(Messages)
    BY EmptySeq DEF StrongInv, Peers
  <1>2. CASE Do(connect(p))
    BY <1>1, <1>2, ConnectSound, StepSound DEF Do
  <1>3. CASE connect(p).stream # p.stream /\ MayFail /\ Step(post(p, "failed"), <<>>, 1)
    BY <1>1, <1>3, ConnectSound, StepSound
  <1>4. QED
    BY <1>2, <1>3 DEF Connect

\* startClient: of a program that uses up a restart, or of one that starts.
LEMMA StartClientStep ==
    ASSUME StrongInv, NEW p, p \in Progs, StartClient(p),
           \/ p.phase = "start" /\ p = NewProg
           \/ Nearly(p)
    PROVE  StrongInv'
  <1> DEFINE q == [p EXCEPT !.phase = "loop", !.screen = IF @ = "absent" THEN "off" ELSE @]
             r == [p EXCEPT !.phase = "loop", !.restarts = @ + 1]
             z == [p EXCEPT !.phase = IF @ = "start" THEN "over" ELSE @]
  <1>0. net.peer.wire \in Seq(Messages) /\ <<>> \in Seq(Messages) /\ <<>> \in Seq(Events)
    BY EmptySeq DEF StrongInv, Peers
  <1>a. Count(<<>>) = 0 /\ \A f : ~Has(<<>>, f)
    BY QueueEmpty
  <1>b. p.phase = "start" => Nearly([p EXCEPT !.phase = "loop"]) /\ Owed([p EXCEPT !.phase = "loop"]) = 0
    <2> SUFFICES ASSUME p.phase = "start" PROVE Nearly([p EXCEPT !.phase = "loop"])
                                                /\ Owed([p EXCEPT !.phase = "loop"]) = 0
      OBVIOUS
    <2> DEFINE s == [p EXCEPT !.phase = "loop"]
    <2>1. p = NewProg
      BY DEF Nearly
    <2>2. s \in Progs
      BY DEF Progs
    <2>3. /\ s.phase = "loop" /\ s.restarts = 0 /\ s.queue = <<>> /\ s.stream = "none" /\ ~s.timer
          /\ ~s.alarm /\ s.screen = "absent" /\ ~s.ready /\ s.handshake /\ ~s.reading
          /\ s.inbox = <<>> /\ ~s.suspended /\ ~s.onResume
      BY <2>1 DEF NewProg
    <2> HIDE DEF s
    <2>4. Owed(s) = 0
      BY <1>a, <2>3 DEF Owed
    <2>5. Timed(s) /\ ScreenFits(s) /\ Announced(s) /\ ~Has(s.queue, "input")
      BY <1>a, <2>3 DEF Timed, ScreenFits, Announced
    <2>6. Nearly(s)
      BY <2>2, <2>3, <2>4, <2>5, SessionConstants DEF Nearly
    <2>7. QED
      BY <2>4, <2>6 DEF s
  <1>1. PICK t : /\ Nearly(t) /\ t = [p EXCEPT !.phase = "loop"]
    <2>1. CASE p.phase = "start"
      BY <1>b, <2>1
    <2>2. CASE Nearly(p)
      BY <2>2 DEF Nearly, Progs
    <2>3. QED
      BY <2>1, <2>2
  <1>2. /\ t.queue \in Seq(Events) /\ t.restarts \in Nat /\ Count(t.queue) \in Nat
        /\ MaxRestarts \in Nat
        /\ Owed(t) = t.restarts + Count(t.queue) + (IF t.stream # "none" \/ t.onResume THEN 1 ELSE 0)
    BY <1>1, SoundNumbers DEF Nearly
  <1>3. CASE Connect(q)
    <2> DEFINE scr == IF t.screen = "absent" THEN "off" ELSE t.screen
    <2>1. q = [t EXCEPT !.screen = scr]
      BY <1>1 DEF Progs
    <2>2. scr \in {"absent", "off", "on", "entered"} /\ (scr \in {"on", "entered"} <=> t.screen \in {"on", "entered"})
      BY <1>1 DEF Nearly, Progs
    <2> HIDE DEF q, scr
    <2>3. /\ q \in Progs /\ q.phase = t.phase /\ q.restarts = t.restarts /\ q.queue = t.queue
          /\ q.stream = t.stream /\ q.timer = t.timer /\ q.alarm = t.alarm /\ q.screen = scr
          /\ q.ready = t.ready /\ q.handshake = t.handshake /\ q.reading = t.reading
          /\ q.inbox = t.inbox /\ q.suspended = t.suspended /\ q.onResume = t.onResume
      BY <1>1, <2>1, <2>2 DEF Nearly, Progs
    <2>4. Owed(q) = Owed(t)
      BY <2>3 DEF Owed
    <2>5. Timed(q) /\ ScreenFits(q) /\ Announced(q)
      BY <1>1, <2>2, <2>3 DEF Nearly, Timed, ScreenFits, Announced
    <2>6. Nearly(q)
      BY <1>1, <2>3, <2>4, <2>5 DEF Nearly
    <2>7. QED
      BY <1>3, <2>6, ConnectStep DEF q
  <1>4. CASE MayFail /\ Step(r, <<>>, 1)
    <2>1. t.restarts + 1 \in 0 .. MaxRestarts + 1
      BY <1>1, <1>2 DEF Nearly
    <2>2. r = [t EXCEPT !.restarts = t.restarts + 1]
      BY <1>1 DEF Progs
    <2> HIDE DEF r
    <2>3. /\ r \in Progs /\ r.phase = t.phase /\ r.restarts = t.restarts + 1 /\ r.queue = t.queue
          /\ r.stream = t.stream /\ r.timer = t.timer /\ r.alarm = t.alarm /\ r.screen = t.screen
          /\ r.ready = t.ready /\ r.handshake = t.handshake /\ r.reading = t.reading
          /\ r.inbox = t.inbox /\ r.suspended = t.suspended /\ r.onResume = t.onResume
      BY <1>1, <2>1, <2>2 DEF Nearly, Progs
    <2>4. Owed(r) <= MaxRestarts + 1
      BY <1>1, <1>2, <2>3 DEF Owed, Nearly
    <2>5. Timed(r) /\ ScreenFits(r) /\ Announced(r)
      BY <1>1, <2>3 DEF Nearly, Timed, ScreenFits, Announced
    <2>6. Trying(r)
      BY <1>2, <2>3 DEF Trying
    <2>7. Sound(r)
      BY <1>1, <2>3, <2>4, <2>5, <2>6 DEF Sound, Nearly
    <2>8. QED
      BY <1>0, <1>4, <2>7, StepSound
  <1>5. CASE MayFail /\ (p.phase = "start" \/ Unnoticed) /\ Step(z, <<>>, 1)
    <2> DEFINE ph == IF p.phase = "start" THEN "over" ELSE "loop"
    <2>1. z = [t EXCEPT !.phase = ph]
      BY <1>1 DEF Nearly, Progs
    <2> HIDE DEF z
    <2>2. /\ z \in Progs /\ z.phase = ph /\ z.restarts = t.restarts /\ z.queue = t.queue
          /\ z.stream = t.stream /\ z.timer = t.timer /\ z.alarm = t.alarm /\ z.screen = t.screen
          /\ z.ready = t.ready /\ z.handshake = t.handshake /\ z.reading = t.reading
          /\ z.inbox = t.inbox /\ z.suspended = t.suspended /\ z.onResume = t.onResume
      BY <1>1, <2>1 DEF Nearly, Progs
    <2>3. Owed(z) <= MaxRestarts + 1
      BY <1>1, <1>2, <2>2 DEF Owed, Nearly
    <2>4. Timed(z) /\ ScreenFits(z) /\ Announced(z) /\ Trying(z)
      BY <1>1, <1>5, <2>2 DEF Nearly, Timed, ScreenFits, Announced, Trying
    <2>5. Sound(z)
      BY <1>1, <2>2, <2>3, <2>4 DEF Sound, Nearly
    <2>6. QED
      BY <1>0, <1>5, <2>5, StepSound
  <1>6. QED
    BY <1>3, <1>4, <1>5 DEF StartClient

-----------------------------------------------------------------------------
(***************************************************************************)
(* Input.                                                                  *)
(***************************************************************************)
\* A connected program whose filter holds a message nobody was told of yet.
Filled(p) ==
    /\ p \in Progs
    /\ p.phase = "loop"
    /\ p.inbox # <<>>
    /\ p.stream \in {"hello", "session"}
    /\ Owed(p) <= MaxRestarts + 1
    /\ Timed(p)
    /\ ScreenFits(p)
    /\ ~p.reading
    /\ Has(p.queue, "input") => p.stream = "session"
    /\ ~p.suspended
    /\ ~p.onResume

\* The handler of STREAM_INPUT_READY reads, or says that there is more to read.
LEMMA InputSound ==
    ASSUME NEW p, Filled(p)
    PROVE  Sound(onInput(p))
  <1>1. /\ p.queue \in Seq(Events) /\ p.restarts \in Nat /\ Count(p.queue) \in Nat
        /\ MaxRestarts \in Nat
        /\ Owed(p) = p.restarts + Count(p.queue) + 1
    BY SoundNumbers DEF Filled
  <1>2. Tail(p.inbox) \in Seq(Messages)
    <2>1. p.inbox \in Seq(Messages) /\ p.inbox # <<>>
      BY DEF Filled, Progs
    <2> HIDE DEF Messages
    <2>2. QED
      BY <2>1, HeadTailProperties
  <1>3. CASE p.stream = "hello" /\ Head(p.inbox) # "hello"
    <2>1. onInput(p) = failed(p)
      BY <1>3 DEF onInput, hello
    <2>2. Open(p) /\ p.restarts + Count(p.queue) + 1 <= MaxRestarts + 1
      BY <1>1 DEF Open, Filled
    <2>3. QED
      BY <1>3, <2>1, <2>2, FailedSound DEF Filled
  <1>4. CASE p.stream = "hello" /\ Head(p.inbox) = "hello"
    <2> DEFINE rest == Tail(p.inbox)
               q == [p EXCEPT !.inbox = rest, !.stream = "session", !.timer = FALSE, !.alarm = TRUE]
    <2>1. onInput(p) = IF rest # <<>> THEN post(q, "input") ELSE q
      <3>1. [taken(p) EXCEPT !.stream = "session", !.timer = FALSE, !.alarm = TRUE] = q
        BY DEF taken
      <3>2. q.inbox = rest
        BY DEF Filled, Progs
      <3>3. QED
        BY <1>4, <3>1, <3>2 DEF onInput, hello, Ready
    <2> HIDE DEF rest
    <2>2. /\ q \in Progs /\ q.phase = p.phase /\ q.restarts = p.restarts /\ q.queue = p.queue
          /\ q.stream = "session" /\ ~q.timer /\ q.alarm /\ q.screen = p.screen
          /\ q.ready = p.ready /\ q.handshake = p.handshake /\ q.reading = p.reading
          /\ q.inbox = rest /\ q.suspended = p.suspended /\ q.onResume = p.onResume
      BY <1>2 DEF Filled, Progs, rest
    <2> HIDE DEF q
    <2>3. Owed(q) <= MaxRestarts + 1
      BY <1>1, <2>2 DEF Owed, Filled
    <2>4. Timed(q) /\ ScreenFits(q) /\ Trying(q)
      BY <1>4, <2>2 DEF Filled, Timed, ScreenFits, Trying
    <2>5. CASE rest = <<>>
      <3>1. Announced(q)
        BY <2>2, <2>5 DEF Announced
      <3>2. QED
        BY <2>1, <2>2, <2>3, <2>4, <2>5, <3>1 DEF Sound, Filled
    <2>6. CASE rest # <<>>
      <3> DEFINE n == Append(p.queue, "input")
                 r == [q EXCEPT !.queue = n]
      <3>1. /\ n \in Seq(Events)
            /\ \A g : Has(n, g) <=> Has(p.queue, g) \/ "input" = g
            /\ Count(n) = Count(p.queue)
        <4>1. "input" \in Events /\ "input" \notin Ends
          BY DEF Events, Ends
        <4>2. QED
          BY <1>1, <4>1, QueueAppend
      <3>2. onInput(p) = r
        BY <2>1, <2>2, <2>6 DEF post
      <3> HIDE DEF n
      <3>3. /\ r \in Progs /\ r.phase = q.phase /\ r.restarts = q.restarts /\ r.queue = n
            /\ r.stream = q.stream /\ r.timer = q.timer /\ r.alarm = q.alarm /\ r.screen = q.screen
            /\ r.ready = q.ready /\ r.handshake = q.handshake /\ r.reading = q.reading
            /\ r.inbox = q.inbox /\ r.suspended = q.suspended /\ r.onResume = q.onResume
        BY <2>2, <3>1 DEF Progs, Events
      <3> HIDE DEF r
      <3>4. Owed(r) <= MaxRestarts + 1
        BY <1>1, <2>2, <2>3, <3>1, <3>3 DEF Owed
      <3>5. Timed(r) /\ ScreenFits(r) /\ Trying(r) /\ Announced(r)
        BY <2>2, <2>4, <3>1, <3>3 DEF Timed, ScreenFits, Trying, Announced
      <3>6. QED
        BY <2>2, <3>1, <3>2, <3>3, <3>4, <3>5 DEF Sound, Filled
    <2>7. QED
      BY <2>5, <2>6
  <1>5. CASE p.stream = "session"
    <2> DEFINE q == [p EXCEPT !.reading = TRUE]
    <2>1. onInput(p) = q
      BY <1>5 DEF onInput
    <2>2. /\ q \in Progs /\ q.phase = p.phase /\ q.restarts = p.restarts /\ q.queue = p.queue
          /\ q.stream = "session" /\ q.timer = p.timer /\ q.alarm = p.alarm /\ q.screen = p.screen
          /\ q.ready = p.ready /\ q.handshake = p.handshake /\ q.reading
          /\ q.inbox = p.inbox /\ q.suspended = p.suspended /\ q.onResume = p.onResume
      BY <1>5 DEF Filled, Progs
    <2> HIDE DEF q
    <2>3. Owed(q) <= MaxRestarts + 1
      BY <1>1, <1>5, <2>2 DEF Owed, Filled
    <2>4. Timed(q) /\ ScreenFits(q) /\ Trying(q) /\ Announced(q)
      BY <1>5, <2>2 DEF Filled, Timed, ScreenFits, Trying, Announced
    <2>5. QED
      BY <2>1, <2>2, <2>3, <2>4 DEF Sound, Filled
  <1>6. QED
    BY <1>3, <1>4, <1>5 DEF Filled

\* readMore fills the inbox and touches nothing else that matters.
LEMMA ReadMoreFields ==
    ASSUME NEW p, p \in Progs, net.peer \in Peers, NEW n \in 1 .. Len(net.peer.wire)
    PROVE  LET q == readMore(p, n)
           IN  /\ q \in Progs /\ q.phase = p.phase /\ q.restarts = p.restarts /\ q.queue = p.queue
               /\ q.stream = p.stream /\ q.timer = p.timer /\ q.alarm = p.alarm
               /\ q.screen = p.screen /\ q.ready = p.ready /\ q.handshake = p.handshake
               /\ q.reading = p.reading /\ q.suspended = p.suspended /\ q.onResume = p.onResume
               /\ q.inbox = <<>> => p.inbox = <<>>
               /\ SubSeq(net.peer.wire, n + 1, Len(net.peer.wire)) \in Seq(Messages)
  <1> DEFINE w == net.peer.wire
             new == SubSeq(w, 1, n)
             more == p.inbox \o Kept(new, Messages \ {"part"})
             part == p.partial \/ \E i \in 1 .. n : new[i] = "part"
             q == readMore(p, n)
  <1>1. w \in Seq(Messages) /\ p.inbox \in Seq(Messages) /\ n \in Nat /\ Len(w) \in Nat
    BY LenProperties DEF Peers, Progs
  <1>2. new \in Seq(Messages) /\ SubSeq(w, n + 1, Len(w)) \in Seq(Messages)
    <2>1. \A i \in 1 .. Len(w) : w[i] \in Messages
      <3> HIDE DEF Messages, w
      <3>1. QED
        BY <1>1, ElementOfSeq
    <2> HIDE DEF Messages, w
    <2>2. \A i \in 1 .. n : w[i] \in Messages
      BY <1>1, <2>1 DEF w
    <2>3. \A i \in n + 1 .. Len(w) : w[i] \in Messages
      BY <1>1, <2>1
    <2>4. n + 1 \in Int /\ Len(w) \in Int /\ n \in Int /\ 1 \in Int
      BY <1>1
    <2>5. new \in Seq(Messages)
      BY <2>2, <2>4, SubSeqProperties
    <2>6. SubSeq(w, n + 1, Len(w)) \in Seq(Messages)
      BY <2>3, <2>4, SubSeqProperties
    <2>7. QED
      BY <2>5, <2>6
  <1>3. more \in Seq(Messages) /\ (more = <<>> => p.inbox = <<>>)
    <2> HIDE DEF Messages, new
    <2>1. Kept(new, Messages \ {"part"}) \in Seq(Messages)
      BY <1>2, KeptType
    <2>2. QED
      BY <1>1, <2>1, ConcatProperties, ConcatEqualIffEmpty
  <1>4. q = [p EXCEPT !.inbox = more, !.partial = part] /\ part \in BOOLEAN
    BY DEF readMore
  <1> HIDE DEF q, more, part, new
  <1>5. /\ q \in Progs /\ q.phase = p.phase /\ q.restarts = p.restarts /\ q.queue = p.queue
        /\ q.stream = p.stream /\ q.timer = p.timer /\ q.alarm = p.alarm
        /\ q.screen = p.screen /\ q.ready = p.ready /\ q.handshake = p.handshake
        /\ q.reading = p.reading /\ q.suspended = p.suspended /\ q.onResume = p.onResume
        /\ q.inbox = more
    BY <1>3, <1>4 DEF Progs
  <1>6. QED
    BY <1>2, <1>3, <1>5 DEF q

LEMMA FilterInputStep ==
    ASSUME StrongInv, FilterInput
    PROVE  StrongInv'
  <1>1. /\ Sound(prog) /\ prog.phase = "loop" /\ ~prog.reading
        /\ prog.stream \in {"hello", "session"} /\ net.peer \in Peers /\ prog \in Progs
    BY DEF StrongInv, FilterInput, Idle, Sound
  <1>2. PICK n \in 1 .. Len(net.peer.wire) :
           LET p == readMore(prog, n)
           IN  Step(IF Ready(p) # Ready(prog) THEN onInput(p) ELSE p,
                    SubSeq(net.peer.wire, n + 1, Len(net.peer.wire)), 0)
    BY DEF FilterInput
  <1> DEFINE p == readMore(prog, n)
             w == SubSeq(net.peer.wire, n + 1, Len(net.peer.wire))
  <1>3. /\ p \in Progs /\ p.phase = prog.phase /\ p.restarts = prog.restarts /\ p.queue = prog.queue
        /\ p.stream = prog.stream /\ p.timer = prog.timer /\ p.alarm = prog.alarm
        /\ p.screen = prog.screen /\ p.ready = prog.ready /\ p.handshake = prog.handshake
        /\ p.reading = prog.reading /\ p.suspended = prog.suspended /\ p.onResume = prog.onResume
        /\ p.inbox = <<>> => prog.inbox = <<>>
        /\ w \in Seq(Messages)
    BY <1>1, ReadMoreFields
  <1>4. Step(IF Ready(p) # Ready(prog) THEN onInput(p) ELSE p, w, 0)
    BY <1>2
  <1> HIDE DEF p, w
  <1>5. Owed(p) = Owed(prog) /\ Timed(p) /\ ScreenFits(p) /\ Trying(p) /\ ~p.suspended /\ ~p.onResume
    BY <1>1, <1>3 DEF Owed, Sound, Timed, ScreenFits, Trying
  <1>6. CASE Ready(p) # Ready(prog)
    <2>1. Filled(p)
      BY <1>1, <1>3, <1>5, <1>6 DEF Filled, Sound, Ready
    <2>2. QED
      BY <1>3, <1>4, <1>6, <2>1, InputSound, StepSound
  <1>7. CASE Ready(p) = Ready(prog)
    <2>1. Announced(p) /\ (p.stream # "session" => p.inbox = <<>>)
      BY <1>1, <1>3, <1>7 DEF Sound, Ready, Announced
    <2>2. Sound(p)
      BY <1>1, <1>3, <1>5, <2>1 DEF Sound
    <2>3. QED
      BY <1>3, <1>4, <1>7, <2>2, StepSound
  <1>8. QED
    BY <1>6, <1>7

\* A session whose messages are being read.
Busy(p) ==
    /\ Sound(p)
    /\ p.phase = "loop"
    /\ p.reading

\* A change of what only the messages concern leaves a session that is being read sound.
LEMMA BusyChange ==
    ASSUME NEW p, Busy(p), NEW q, q \in Progs,
           q.phase = p.phase, q.restarts = p.restarts, q.queue = p.queue, q.stream = p.stream,
           q.timer = p.timer, q.reading = p.reading, q.suspended = p.suspended,
           q.onResume = p.onResume, (FALSE \notin Heartbeats) => q.alarm,
           q.screen \in {"on", "entered"} <=> q.ready, q.ready <=> ~q.handshake
    PROVE  Busy(q)
  <1>1. Owed(q) = Owed(p)
    BY DEF Owed
  <1>2. q.stream = "session"
    BY DEF Busy, Sound
  <1>3. Timed(q) /\ ScreenFits(q) /\ Trying(q) /\ Announced(q)
    BY <1>2 DEF Busy, Sound, Timed, ScreenFits, Trying, Announced
  <1>4. QED
    BY <1>1, <1>2, <1>3 DEF Busy, Sound

\* Whatever message it is.
LEMMA ReceivedSound ==
    ASSUME NEW p, Busy(p), NEW m, NEW on \in Heartbeats
    PROVE  Sound(received(p, m, on))
  <1>0. /\ p \in Progs /\ p.stream = "session" /\ p.phase = "loop" /\ p.reading /\ on \in BOOLEAN
        /\ (FALSE \notin Heartbeats) => on /\ p.alarm
        /\ p.screen \in {"on", "entered"} <=> p.ready
        /\ p.ready <=> ~p.handshake
        /\ ~p.suspended /\ ~p.onResume
    BY SessionConstants DEF Busy, Sound, Timed, ScreenFits
  <1>1. CASE m = "query"
    <2>1. received(p, m, on) = [p EXCEPT !.informed = TRUE]
      BY <1>1 DEF received
    <2>2. Busy([p EXCEPT !.informed = TRUE])
      BY <1>0, BusyChange DEF Progs
    <2>3. QED
      BY <2>1, <2>2 DEF Busy
  <1>2. CASE m = "options"
    <2>1. received(p, m, on) = setOptions(p, on)
      BY <1>2 DEF received
    <2>2. CASE p.handshake
      <3> DEFINE q == [p EXCEPT !.alarm = on, !.handshake = FALSE, !.ready = TRUE, !.screen = "on"]
      <3>1. received(p, m, on) = q
        BY <2>1, <2>2 DEF setOptions
      <3>2. /\ q \in Progs /\ q.phase = p.phase /\ q.restarts = p.restarts /\ q.queue = p.queue
            /\ q.stream = p.stream /\ q.timer = p.timer /\ q.reading = p.reading
            /\ q.suspended = p.suspended /\ q.onResume = p.onResume /\ q.alarm = on
            /\ q.screen = "on" /\ q.ready /\ ~q.handshake
        BY <1>0 DEF Progs
      <3> HIDE DEF q
      <3>3. Busy(q)
        BY <1>0, <3>2, BusyChange
      <3>4. QED
        BY <3>1, <3>3 DEF Busy
    <2>3. CASE ~p.handshake
      <3> DEFINE q == [p EXCEPT !.alarm = on]
      <3>1. received(p, m, on) = q
        BY <2>1, <2>3 DEF setOptions
      <3>2. Busy(q)
        BY <1>0, BusyChange DEF Progs
      <3>3. QED
        BY <3>1, <3>2 DEF Busy
    <2>4. QED
      BY <2>2, <2>3
  <1>3. CASE m \in {"ack", "alive"}
    BY <1>3 DEF received, Busy
  <1>4. CASE m \in {"enter", "leave"} /\ ~p.handshake
    <2> DEFINE q(a, scr) == [p EXCEPT !.active = a, !.screen = scr]
    <2>1. \E a \in BOOLEAN, scr \in {"on", "entered"} : received(p, m, on) = q(a, scr)
      BY <1>4 DEF received
    <2>2. ASSUME NEW a \in BOOLEAN, NEW scr \in {"on", "entered"}
          PROVE  Sound(q(a, scr))
      <3> DEFINE r == q(a, scr)
      <3>1. /\ r \in Progs /\ r.phase = p.phase /\ r.restarts = p.restarts /\ r.queue = p.queue
            /\ r.stream = p.stream /\ r.timer = p.timer /\ r.reading = p.reading
            /\ r.suspended = p.suspended /\ r.onResume = p.onResume /\ r.alarm = p.alarm
            /\ r.screen = scr /\ r.ready = p.ready /\ r.handshake = p.handshake
        BY <1>0 DEF Progs
      <3> HIDE DEF r
      <3>2. Busy(r)
        BY <1>0, <1>4, <3>1, BusyChange
      <3>3. QED
        BY <3>2 DEF Busy, r
    <2>3. QED
      BY <2>1, <2>2
  <1>5. ASSUME NEW e \in Ends
        PROVE  Sound(disconnect(p, e))
    <2>1. /\ Owed(p) = p.restarts + Count(p.queue) + 1
          /\ p.restarts + Count(p.queue) + 1 <= MaxRestarts + 1
      BY <1>0, SoundNumbers DEF Busy, Sound
    <2>2. Open(p)
      BY DEF Open, Busy, Sound
    <2>3. QED
      BY <1>0, <2>1, <2>2, DisconnectSound
  <1>6. CASE m \notin {"query", "options", "ack", "alive"} /\ ~(m \in {"enter", "leave"} /\ ~p.handshake)
    <2>1. \E e \in Ends : received(p, m, on) = disconnect(p, e)
      BY <1>6 DEF received, Ends
    <2>2. QED
      BY <1>5, <2>1
  <1>7. QED
    BY <1>1, <1>2, <1>3, <1>4, <1>6

LEMMA ReadMessageStep ==
    ASSUME StrongInv, ReadMessage
    PROVE  StrongInv'
  <1>1. Busy(prog) /\ prog \in Progs /\ prog.inbox # <<>> /\ net.peer.wire \in Seq(Messages)
    BY DEF StrongInv, ReadMessage, Reading, Ready, Busy, Sound, Peers
  <1>2. PICK on \in Heartbeats : Do(received(taken(prog), Head(prog.inbox), on))
    BY DEF ReadMessage
  <1> DEFINE rest == Tail(prog.inbox)
             p == [prog EXCEPT !.inbox = rest]
  <1>3. rest \in Seq(Messages)
    <2>1. prog.inbox \in Seq(Messages)
      BY <1>1 DEF Progs
    <2> HIDE DEF Messages
    <2>2. QED
      BY <1>1, <2>1, HeadTailProperties
  <1>4. taken(prog) = p
    BY DEF taken
  <1> HIDE DEF rest
  <1>5. /\ p \in Progs /\ p.phase = prog.phase /\ p.restarts = prog.restarts /\ p.queue = prog.queue
        /\ p.stream = prog.stream /\ p.timer = prog.timer /\ p.alarm = prog.alarm
        /\ p.screen = prog.screen /\ p.ready = prog.ready /\ p.handshake = prog.handshake
        /\ p.reading = prog.reading /\ p.suspended = prog.suspended /\ p.onResume = prog.onResume
    BY <1>1, <1>3 DEF Progs
  <1> HIDE DEF p
  <1>6. Busy(p)
    <2>1. (FALSE \notin Heartbeats) => p.alarm
      BY <1>1, <1>5 DEF Busy, Sound, Timed
    <2>2. (p.screen \in {"on", "entered"} <=> p.ready) /\ (p.ready <=> ~p.handshake)
      BY <1>1, <1>5 DEF Busy, Sound, ScreenFits
    <2>3. QED
      BY <1>1, <1>5, <2>1, <2>2, BusyChange
  <1>7. Sound(received(p, Head(prog.inbox), on))
    BY <1>6, ReceivedSound
  <1>8. QED
    BY <1>1, <1>2, <1>4, <1>7, StepSound DEF Do

-----------------------------------------------------------------------------
(***************************************************************************)
(* The other handlers.                                                     *)
(***************************************************************************)
\* A connection that is there when it ends.
LEMMA EndStep ==
    ASSUME StrongInv, prog.phase = "loop", NEW p,
           p = prog \/ (\E b \in BOOLEAN : p = [prog EXCEPT !.noRetry = b] \/ p = [prog EXCEPT !.shut = b]),
           prog.stream # "none"
    PROVE  /\ Open(p) /\ p.phase = "loop" /\ ~p.onResume
           /\ p.stream = prog.stream /\ p.restarts + Count(p.queue) + 1 <= MaxRestarts + 1
           /\ Sound(p)
           /\ net.peer.wire \in Seq(Messages) /\ <<>> \in Seq(Messages)
  <1>1. Sound(prog) /\ prog \in Progs /\ net.peer.wire \in Seq(Messages) /\ <<>> \in Seq(Messages)
    BY EmptySeq DEF StrongInv, Sound, Peers
  <1>2. /\ p \in Progs /\ p.phase = prog.phase /\ p.restarts = prog.restarts /\ p.queue = prog.queue
        /\ p.stream = prog.stream /\ p.timer = prog.timer /\ p.alarm = prog.alarm
        /\ p.screen = prog.screen /\ p.ready = prog.ready /\ p.handshake = prog.handshake
        /\ p.reading = prog.reading /\ p.suspended = prog.suspended /\ p.onResume = prog.onResume
        /\ p.inbox = prog.inbox
    BY <1>1 DEF Progs
  <1>3. Owed(p) = Owed(prog) /\ Timed(p) /\ ScreenFits(p) /\ Trying(p) /\ Announced(p)
    BY <1>1, <1>2 DEF Sound, Owed, Timed, ScreenFits, Trying, Announced
  <1>4. Sound(p)
    BY <1>1, <1>2, <1>3 DEF Sound
  <1>5. p.restarts + Count(p.queue) + 1 <= MaxRestarts + 1 /\ ~p.onResume
    BY <1>2, <1>4, SoundNumbers DEF Sound
  <1>6. QED
    BY <1>1, <1>2, <1>4, <1>5 DEF Open, Sound

\* Handlers that end a connection.
LEMMA EndingSteps ==
    ASSUME StrongInv,
           \/ HandleConnectionFailed \/ HandleConnectTimeout \/ HandleKeepAliveAlarm
           \/ FilterShutdown \/ HandleDisconnected \/ HandleStopRetry
    PROVE  StrongInv'
  <1>1. prog.phase = "loop" /\ Sound(prog)
    BY DEF StrongInv, HandleConnectionFailed, HandleConnectTimeout, HandleKeepAliveAlarm,
           FilterShutdown, HandleDisconnected, HandleStopRetry, Idle
  <1>2. CASE HandleConnectionFailed
    <2>1. prog.stream = "connecting" /\ Do(failed(prog))
      BY <1>2 DEF HandleConnectionFailed
    <2>2. QED
      BY <1>1, <2>1, EndStep, FailedSound, StepSound DEF Do
  <1>3. CASE HandleConnectTimeout
    <2>1. prog.stream \in {"connecting", "hello"} /\ Do(failed(prog))
      BY <1>1, <1>3 DEF HandleConnectTimeout, Sound, Timed
    <2>2. QED
      BY <1>1, <2>1, EndStep, FailedSound, StepSound DEF Do
  <1>4. CASE HandleKeepAliveAlarm
    <2>1. prog.stream = "session" /\ Do(disconnect(prog, "failed")) /\ "failed" \in Ends
      BY <1>1, <1>4 DEF HandleKeepAliveAlarm, Sound, Timed, Ends
    <2>2. QED
      BY <1>1, <2>1, EndStep, DisconnectSound, StepSound DEF Do
  <1>5. CASE FilterShutdown
    <2> DEFINE p == [prog EXCEPT !.shut = TRUE]
    <2>1. prog.stream \in {"hello", "session"} /\ Do(IF Ready(p) \/ p.partial THEN p ELSE disconnected(p))
      BY <1>5 DEF FilterShutdown
    <2>2. Open(p) /\ p.phase = "loop" /\ ~p.onResume
          /\ p.restarts + Count(p.queue) + 1 <= MaxRestarts + 1 /\ Sound(p)
          /\ net.peer.wire \in Seq(Messages)
      BY <1>1, <2>1, EndStep
    <2> HIDE DEF p
    <2>3. Sound(disconnected(p))
      BY <2>2, DisconnectSound DEF Ends
    <2>4. QED
      BY <2>1, <2>2, <2>3, StepSound DEF Do
  <1>6. CASE HandleDisconnected
    <2>1. prog.stream \in {"hello", "session"} /\ Do(disconnected(prog)) /\ "failed" \in Ends
      BY <1>6 DEF HandleDisconnected, Ends
    <2>2. QED
      BY <1>1, <2>1, EndStep, DisconnectSound, StepSound DEF Do
  <1>7. CASE HandleStopRetry
    <2> DEFINE p == [prog EXCEPT !.noRetry = TRUE]
    <2>1. prog.stream \in {"hello", "session"} /\ MayFail /\ Step(disconnected(p), <<>>, 1)
      BY <1>7 DEF HandleStopRetry
    <2>2. Open(p) /\ p.phase = "loop" /\ ~p.onResume
          /\ p.restarts + Count(p.queue) + 1 <= MaxRestarts + 1 /\ <<>> \in Seq(Messages)
      BY <1>1, <2>1, EndStep
    <2> HIDE DEF p
    <2>3. Sound(disconnected(p))
      BY <2>2, DisconnectSound DEF Ends
    <2>4. QED
      BY <2>1, <2>2, <2>3, StepSound
  <1>8. QED
    BY <1>2, <1>3, <1>4, <1>5, <1>6, <1>7

LEMMA StartingSteps ==
    ASSUME StrongInv, StartNode \/ HandleClientRestart
    PROVE  StrongInv'
  <1>0. Sound(prog) /\ prog \in Progs
    BY DEF StrongInv, Sound
  <1>1. CASE StartNode
    BY <1>0, <1>1, StartClientStep DEF StartNode, Sound
  <1>2. CASE HandleClientRestart
    <2> DEFINE p == [prog EXCEPT !.restarts = prog.restarts - 1]
    <2>1. StartClient(p) /\ prog.phase = "loop" /\ prog.restarts > 0
      BY <1>2 DEF HandleClientRestart, Idle
    <2>2. prog.restarts - 1 \in 0 .. MaxRestarts + 1
      BY <1>0, <2>1, SessionConstants DEF Progs
    <2>3. /\ p \in Progs /\ p.phase = prog.phase /\ p.restarts = prog.restarts - 1
          /\ p.queue = prog.queue
          /\ p.stream = prog.stream /\ p.timer = prog.timer /\ p.alarm = prog.alarm
          /\ p.screen = prog.screen /\ p.ready = prog.ready /\ p.handshake = prog.handshake
          /\ p.reading = prog.reading /\ p.suspended = prog.suspended /\ p.onResume = prog.onResume
          /\ p.inbox = prog.inbox
      BY <1>0, <2>2 DEF Progs
    <2> HIDE DEF p
    <2>4. Owed(p) <= MaxRestarts
      <3>1. /\ Owed(prog) <= MaxRestarts + 1 /\ prog.restarts \in Nat /\ Count(prog.queue) \in Nat
            /\ MaxRestarts \in Nat
        BY <1>0, SoundNumbers DEF Sound
      <3>2. QED
        BY <2>3, <3>1 DEF Owed
    <2>5. Timed(p) /\ ScreenFits(p) /\ Announced(p)
      BY <1>0, <2>3 DEF Sound, Timed, ScreenFits, Announced
    <2>6. Nearly(p)
      BY <1>0, <2>1, <2>3, <2>4, <2>5 DEF Nearly, Sound
    <2>7. QED
      BY <2>1, <2>3, <2>6, StartClientStep
  <1>3. QED
    BY <1>1, <1>2

LEMMA ConnectedStep ==
    ASSUME StrongInv, HandleConnected \/ EndOfData
    PROVE  StrongInv'
  <1>0. /\ Sound(prog) /\ prog \in Progs /\ prog.phase = "loop" /\ net.peer.wire \in Seq(Messages)
        /\ Owed(prog) <= MaxRestarts + 1
    BY DEF StrongInv, Sound, Peers, HandleConnected, EndOfData, Idle, Reading
  <1>1. CASE HandleConnected
    <2> DEFINE p == [prog EXCEPT !.stream = "hello"]
    <2>1. prog.stream = "connecting" /\ Do(p)
      BY <1>1 DEF HandleConnected
    <2>2. /\ p \in Progs /\ p.phase = prog.phase /\ p.restarts = prog.restarts /\ p.queue = prog.queue
          /\ p.stream = "hello" /\ p.timer = prog.timer /\ p.alarm = prog.alarm
          /\ p.screen = prog.screen /\ p.ready = prog.ready /\ p.handshake = prog.handshake
          /\ p.reading = prog.reading /\ p.suspended = prog.suspended /\ p.onResume = prog.onResume
          /\ p.inbox = prog.inbox
      BY <1>0 DEF Progs
    <2> HIDE DEF p
    <2>3. Owed(p) = Owed(prog) /\ Timed(p) /\ ScreenFits(p) /\ Trying(p) /\ Announced(p)
      BY <1>0, <2>1, <2>2 DEF Sound, Owed, Timed, ScreenFits, Trying, Announced
    <2>4. Sound(p)
      BY <1>0, <2>1, <2>2, <2>3 DEF Sound
    <2>5. QED
      BY <1>0, <2>1, <2>4, StepSound DEF Do
  <1>2. CASE EndOfData
    <2> DEFINE p == [prog EXCEPT !.reading = FALSE]
    <2>1. prog.inbox = <<>> /\ Do(p)
      BY <1>2 DEF EndOfData, Ready
    <2>2. /\ p \in Progs /\ p.phase = prog.phase /\ p.restarts = prog.restarts /\ p.queue = prog.queue
          /\ p.stream = prog.stream /\ p.timer = prog.timer /\ p.alarm = prog.alarm
          /\ p.screen = prog.screen /\ p.ready = prog.ready /\ p.handshake = prog.handshake
          /\ ~p.reading /\ p.suspended = prog.suspended /\ p.onResume = prog.onResume
          /\ p.inbox = prog.inbox
      BY <1>0 DEF Progs
    <2> HIDE DEF p
    <2>3. Owed(p) = Owed(prog) /\ Timed(p) /\ ScreenFits(p) /\ Trying(p) /\ Announced(p)
      BY <1>0, <2>1, <2>2 DEF Sound, Owed, Timed, ScreenFits, Trying, Announced
    <2>4. Sound(p)
      BY <1>0, <2>1, <2>2, <2>3 DEF Sound
    <2>5. QED
      BY <1>0, <2>1, <2>4, StepSound DEF Do
  <1>3. QED
    BY <1>1, <1>2

\* The queue: ClientApp schedules a restart or ends, and the messages behind the hello are
\* read.
LEMMA DispatchStep ==
    ASSUME StrongInv, DispatchFailed \/ DispatchDisconnected \/ DispatchInput
    PROVE  StrongInv'
  <1> DEFINE e == Head(prog.queue)
             rest == Tail(prog.queue)
             p == [prog EXCEPT !.queue = rest]
  <1>1. /\ Sound(prog) /\ prog \in Progs /\ prog.phase = "loop" /\ ~prog.reading
        /\ prog.queue # <<>> /\ net.peer.wire \in Seq(Messages) /\ Owed(prog) <= MaxRestarts + 1
    BY DEF StrongInv, Sound, Peers, DispatchFailed, DispatchDisconnected, DispatchInput, First, Idle
  <1>2. /\ prog.queue \in Seq(Events) /\ prog.restarts \in Nat /\ Count(prog.queue) \in Nat
        /\ MaxRestarts \in Nat
    BY <1>1, SoundNumbers
  <1>3. /\ rest \in Seq(Events) /\ e \in Events /\ Count(rest) \in Nat
        /\ \A f : Has(prog.queue, f) <=> e = f \/ Has(rest, f)
        /\ Count(prog.queue) = Count(rest) + (IF e \in Ends THEN 1 ELSE 0)
    BY <1>1, <1>2, QueueTail
  <1>4. popped(prog) = p
    BY DEF popped
  <1> HIDE DEF rest, e
  <1>5. /\ p \in Progs /\ p.phase = prog.phase /\ p.restarts = prog.restarts /\ p.queue = rest
        /\ p.stream = prog.stream /\ p.timer = prog.timer /\ p.alarm = prog.alarm
        /\ p.screen = prog.screen /\ p.ready = prog.ready /\ p.handshake = prog.handshake
        /\ p.reading = prog.reading /\ p.suspended = prog.suspended /\ p.onResume = prog.onResume
        /\ p.inbox = prog.inbox
    BY <1>1, <1>3 DEF Progs, Events
  <1> HIDE DEF p
  <1>6. CASE DispatchFailed \/ DispatchDisconnected
    <2> DEFINE q == IF Restartable THEN [p EXCEPT !.restarts = p.restarts + 1]
                    ELSE [p EXCEPT !.phase = "over"]
    <2>1. e \in Ends /\ e # "input" /\ Do(q)
      BY <1>4, <1>6 DEF DispatchFailed, DispatchDisconnected, First, restartOrQuit, Ends, e
    <2>2. /\ prog.restarts + 1 \in 0 .. MaxRestarts + 1
          /\ Owed(prog) = prog.restarts + (Count(rest) + 1)
                          + (IF prog.stream # "none" \/ prog.onResume THEN 1 ELSE 0)
      BY <1>1, <1>2, <1>3, <2>1 DEF Owed
    <2>3. /\ q \in Progs
          /\ q.phase = IF Restartable THEN "loop" ELSE "over"
          /\ q.restarts = IF Restartable THEN prog.restarts + 1 ELSE prog.restarts
          /\ q.queue = rest
          /\ q.stream = prog.stream /\ q.timer = prog.timer /\ q.alarm = prog.alarm
          /\ q.screen = prog.screen /\ q.ready = prog.ready /\ q.handshake = prog.handshake
          /\ q.reading = prog.reading /\ q.suspended = prog.suspended /\ q.onResume = prog.onResume
          /\ q.inbox = prog.inbox
      <3>1. CASE Restartable
        BY <1>1, <1>5, <2>2, <3>1 DEF Progs
      <3>2. CASE ~Restartable
        BY <1>1, <1>5, <3>2 DEF Progs
      <3>3. QED
        BY <3>1, <3>2
    <2> HIDE DEF q
    <2>4. Owed(q) <= MaxRestarts + 1
      BY <1>1, <1>2, <1>3, <2>2, <2>3 DEF Owed
    <2>5. Trying(q)
      BY <1>2, <2>3 DEF Trying
    <2>6. Timed(q) /\ ScreenFits(q) /\ Announced(q)
      BY <1>1, <1>3, <2>1, <2>3 DEF Sound, Timed, ScreenFits, Announced
    <2>7. Sound(q)
      BY <1>1, <1>3, <2>3, <2>4, <2>5, <2>6 DEF Sound
    <2>8. QED
      BY <1>1, <2>1, <2>7, StepSound DEF Do
  <1>7. CASE DispatchInput
    <2> DEFINE q == [p EXCEPT !.reading = TRUE]
    <2>1. e = "input" /\ e \notin Ends /\ Do(onInput(p))
      BY <1>4, <1>7 DEF DispatchInput, First, Ends, e
    <2>2. prog.stream = "session"
      BY <1>1, <1>3, <2>1 DEF Sound
    <2>3. onInput(p) = q
      BY <1>5, <2>2 DEF onInput
    <2>4. /\ q \in Progs /\ q.phase = prog.phase /\ q.restarts = prog.restarts /\ q.queue = rest
          /\ q.stream = prog.stream /\ q.timer = prog.timer /\ q.alarm = prog.alarm
          /\ q.screen = prog.screen /\ q.ready = prog.ready /\ q.handshake = prog.handshake
          /\ q.reading /\ q.suspended = prog.suspended /\ q.onResume = prog.onResume
          /\ q.inbox = prog.inbox
      BY <1>5 DEF Progs
    <2> HIDE DEF q
    <2>5. Owed(q) <= MaxRestarts + 1
      BY <1>1, <1>2, <1>3, <2>1, <2>4 DEF Owed
    <2>6. Timed(q) /\ ScreenFits(q) /\ Announced(q) /\ Trying(q)
      BY <1>1, <2>2, <2>4 DEF Sound, Timed, ScreenFits, Announced, Trying
    <2>7. Sound(q)
      BY <1>1, <2>2, <2>4, <2>5, <2>6 DEF Sound
    <2>8. QED
      BY <1>1, <2>1, <2>3, <2>7, StepSound DEF Do
  <1>8. QED
    BY <1>6, <1>7

LEMMA SleepStep ==
    ASSUME StrongInv, HandleSuspend \/ HandleResume
    PROVE  StrongInv'
  <1>1. /\ Sound(prog) /\ prog \in Progs /\ prog.phase = "loop" /\ ~prog.reading
        /\ net.peer.wire \in Seq(Messages)
    BY DEF StrongInv, Sound, Peers, HandleSuspend, HandleResume, Idle
  <1>2. /\ prog.queue \in Seq(Events) /\ prog.restarts \in Nat /\ Count(prog.queue) \in Nat
        /\ MaxRestarts \in Nat
        /\ Owed(prog) = prog.restarts + Count(prog.queue)
                        + (IF prog.stream # "none" \/ prog.onResume THEN 1 ELSE 0)
    BY <1>1, SoundNumbers
  <1>3. CASE HandleSuspend
    <2> DEFINE p == [prog EXCEPT !.suspended = TRUE, !.onResume = FALSE]
               d == post(cleanupStream(cleanupScreen(cleanupTimer(p))), "disconnected")
               q == [d EXCEPT !.onResume = (prog.stream = "session")]
    <2>1. prog.restarts + Len(prog.queue) < MaxRestarts
      BY <1>3 DEF HandleSuspend
    <2>2. Do(q)
      <3>1. [[prog EXCEPT !.suspended = TRUE] EXCEPT !.onResume = FALSE] = p
        BY <1>1 DEF Progs
      <3>2. QED
        BY <1>3, <3>1 DEF HandleSuspend, disconnect
    <2>3. Count(prog.queue) <= Len(prog.queue) /\ Len(prog.queue) \in Nat
      <3> HIDE DEF Events
      <3>1. QED
        BY <1>2, KeptType, LenProperties DEF Count
    <2>4. /\ p \in Progs /\ p.phase = "loop" /\ p.restarts = prog.restarts /\ p.queue = prog.queue
          /\ p.stream = prog.stream /\ p.timer = prog.timer /\ p.alarm = prog.alarm
          /\ p.screen = prog.screen /\ p.ready = prog.ready /\ p.handshake = prog.handshake
          /\ p.reading = prog.reading /\ p.suspended
      BY <1>1 DEF Progs
    <2> HIDE DEF p
    <2>5. Open(p)
      BY <1>1, <2>4 DEF Open, Sound, Timed, ScreenFits
    <2>6. Over1(p, d, "disconnected")
      BY <2>5, CleanedUp DEF Ends
    <2> HIDE DEF d
    <2>7. /\ q \in Progs /\ q.phase = d.phase /\ q.restarts = d.restarts /\ q.queue = d.queue
          /\ q.stream = d.stream /\ q.timer = d.timer /\ q.alarm = d.alarm
          /\ q.screen = d.screen /\ q.ready = d.ready /\ q.handshake = d.handshake
          /\ q.reading = d.reading /\ q.suspended = d.suspended /\ q.inbox = d.inbox
      BY <2>6 DEF Over1, Progs
    <2> HIDE DEF q
    <2>8. Over1(p, q, "disconnected") /\ q.suspended
      BY <2>4, <2>6, <2>7 DEF Over1
    <2>9. p.restarts + Count(p.queue) + 1 + (IF q.onResume THEN 1 ELSE 0) <= MaxRestarts + 1
      BY <1>2, <2>1, <2>3, <2>4
    <2>10. Sound(q)
      BY <2>4, <2>8, <2>9, EndedSound DEF Ends
    <2>11. QED
      BY <1>1, <2>2, <2>10, StepSound DEF Do
  <1>4. CASE HandleResume
    <2> DEFINE p == [prog EXCEPT !.suspended = FALSE]
               q == [p EXCEPT !.onResume = FALSE]
    <2>1. IF p.onResume THEN Connect(q) ELSE Do(p)
      BY <1>4 DEF HandleResume
    <2>2. /\ p \in Progs /\ p.phase = "loop" /\ p.restarts = prog.restarts /\ p.queue = prog.queue
          /\ p.stream = prog.stream /\ p.timer = prog.timer /\ p.alarm = prog.alarm
          /\ p.screen = prog.screen /\ p.ready = prog.ready /\ p.handshake = prog.handshake
          /\ p.reading = prog.reading /\ ~p.suspended /\ p.inbox = prog.inbox
          /\ p.onResume = prog.onResume
      BY <1>1 DEF Progs
    <2> HIDE DEF p
    <2>3. CASE p.onResume
      <3>1. /\ q \in Progs /\ q.phase = "loop" /\ q.restarts = prog.restarts /\ q.queue = prog.queue
            /\ q.stream = prog.stream /\ q.timer = prog.timer /\ q.alarm = prog.alarm
            /\ q.screen = prog.screen /\ q.ready = prog.ready /\ q.handshake = prog.handshake
            /\ q.reading = prog.reading /\ ~q.suspended /\ q.inbox = prog.inbox /\ ~q.onResume
        BY <2>2 DEF Progs
      <3> HIDE DEF q
      <3>2. prog.stream = "none"
        BY <1>1, <2>2, <2>3 DEF Sound
      <3>3. Owed(q) <= MaxRestarts
        BY <1>1, <1>2, <2>2, <2>3, <3>1, <3>2 DEF Owed, Sound
      <3>4. Timed(q) /\ ScreenFits(q) /\ Announced(q)
        BY <1>1, <3>1 DEF Sound, Timed, ScreenFits, Announced
      <3>5. Nearly(q)
        BY <1>1, <3>1, <3>3, <3>4 DEF Nearly, Sound
      <3>6. QED
        BY <2>1, <2>3, <3>5, ConnectStep
    <2>4. CASE ~p.onResume
      <3>1. Owed(p) = Owed(prog) /\ Timed(p) /\ ScreenFits(p) /\ Announced(p) /\ Trying(p)
        BY <1>1, <2>2, <2>4 DEF Sound, Owed, Timed, ScreenFits, Announced, Trying
      <3>2. Sound(p)
        BY <1>1, <2>2, <2>4, <3>1 DEF Sound
      <3>3. QED
        BY <1>1, <2>1, <2>4, <3>2, StepSound DEF Do
    <2>5. QED
      BY <2>3, <2>4
  <1>5. QED
    BY <1>3, <1>4

\* A program in which nothing is under way is sound.
LEMMA RestSound ==
    ASSUME NEW ph \in {"start", "over"}
    PROVE  Sound([NewProg EXCEPT !.phase = ph])
  <1> DEFINE p == [NewProg EXCEPT !.phase = ph]
  <1>1. <<>> \in Seq(Events) /\ <<>> \in Seq(Messages) /\ 0 \in 0 .. MaxRestarts + 1
    BY EmptySeq, SessionConstants
  <1>2. p \in Progs
    BY <1>1 DEF NewProg, Progs, Events
  <1>3. /\ p.phase = ph /\ p.restarts = 0 /\ p.queue = <<>> /\ p.stream = "none" /\ ~p.timer
        /\ ~p.alarm /\ p.screen = "absent" /\ ~p.ready /\ p.handshake /\ ~p.reading
        /\ p.inbox = <<>> /\ ~p.suspended /\ ~p.onResume
    BY DEF NewProg
  <1>4. ph = "start" => p = NewProg
    BY DEF NewProg
  <1> HIDE DEF p
  <1>5. Owed(p) <= MaxRestarts + 1
    BY <1>3, QueueEmpty, SessionConstants DEF Owed
  <1>6. ~Has(p.queue, "input") /\ Timed(p) /\ ScreenFits(p) /\ Announced(p) /\ Trying(p)
    BY <1>3, QueueEmpty DEF Timed, ScreenFits, Announced, Trying
  <1>7. QED
    BY <1>2, <1>3, <1>4, <1>5, <1>6 DEF Sound, p

LEMMA SessionInit == Init => StrongInv
  <1> SUFFICES ASSUME Init PROVE StrongInv
    OBVIOUS
  <1>1. prog = [NewProg EXCEPT !.phase = "start"]
    BY DEF Init, NewProg
  <1>2. Sound(prog)
    BY <1>1, RestSound
  <1>3. NoPeer \in Peers /\ 0 \in 0 .. MaxFaults
    BY EmptySeq, SessionConstants DEF NoPeer, Peers
  <1>4. QED
    BY <1>2, <1>3 DEF Init, StrongInv

\* The server and the network only send what is a message and fail as often as they may.
LEMMA PeerStep ==
    ASSUME StrongInv,
           \/ PeerAccepts \/ PeerGreets \/ PeerQueries \/ PeerAdmits \/ PeerTalks
           \/ PeerMovesCursor \/ PeerFails
    PROVE  StrongInv'
  <1>1. UNCHANGED prog
    BY DEF PeerAccepts, PeerGreets, PeerQueries, PeerAdmits, PeerTalks, PeerMovesCursor,
           PeerFails, Peer
  <1>2. Sound(prog')
    BY <1>1 DEF StrongInv
  <1>3. net \in Nets /\ net.peer \in Peers /\ net.peer.wire \in Seq(Messages)
    BY DEF StrongInv, Nets, Peers
  <1> DEFINE Stages == {"none", "connect", "refused", "accepted", "greeted", "asked", "up", "bye",
                        "closed", "silent"}
  <1>4. ASSUME NEW st \in Stages, NEW ms \in Seq(Messages)
        PROVE  [net EXCEPT !.peer.stage = st, !.peer.wire = @ \o ms] \in Nets
    <2>1. net.peer.wire \o ms \in Seq(Messages)
      <3> HIDE DEF Messages
      <3>1. QED
        BY <1>3, ConcatProperties
    <2>2. QED
      BY <1>3, <2>1 DEF Nets, Peers
  <1>5. ASSUME NEW st \in Stages, NEW ms \in Seq(Messages), Peer(st, ms)
        PROVE  net' \in Nets
    BY <1>4, <1>5 DEF Peer
  <1>6. \A m \in Messages : <<m>> \in Seq(Messages)
    OBVIOUS
  <1>7. ASSUME PeerAccepts PROVE net' \in Nets
    BY <1>3, <1>7 DEF PeerAccepts, Nets, Peers
  <1>8. ASSUME PeerGreets PROVE net' \in Nets
    BY <1>5, <1>6, <1>8 DEF PeerGreets, Messages
  <1>9. ASSUME PeerQueries PROVE net' \in Nets
    BY <1>5, <1>6, <1>9 DEF PeerQueries, Messages
  <1>10. ASSUME PeerAdmits PROVE net' \in Nets
    <2>1. <<"ack", "options">> \in Seq(Messages)
      BY DEF Messages
    <2>2. QED
      BY <1>5, <1>10, <2>1 DEF PeerAdmits
  <1>11. ASSUME PeerTalks PROVE net' \in Nets
    BY <1>5, <1>6, <1>11 DEF PeerTalks, Messages
  <1>12. ASSUME PeerMovesCursor PROVE net' \in Nets
    <2> DEFINE m == IF net.peer.entered THEN "leave" ELSE "enter"
               w == Append(net.peer.wire, m)
    <2>1. m \in Messages
      BY DEF Messages
    <2>2. w \in Seq(Messages)
      <3> HIDE DEF Messages, m
      <3>1. QED
        BY <1>3, <2>1, AppendProperties
    <2>3. net' = [net EXCEPT !.peer.entered = ~@, !.peer.wire = w]
      BY <1>12 DEF PeerMovesCursor
    <2> HIDE DEF w
    <2>4. QED
      BY <1>3, <2>2, <2>3 DEF Nets, Peers
  <1>13. ASSUME PeerFails PROVE net' \in Nets
    <2>1. net.faults + 1 \in 0 .. MaxFaults
      BY <1>3, <1>13, SessionConstants DEF PeerFails, MayFail, Nets
    <2>2. \E st \in Stages, w \in Seq(Messages) :
             net' = [peer |-> [net.peer EXCEPT !.stage = st, !.wire = w], faults |-> net.faults + 1]
      <3>1. CASE \E st \in {"refused", "silent"} :
                    net' = [peer |-> [net.peer EXCEPT !.stage = st], faults |-> net.faults + 1]
        <4>1. \A st \in Stages : [net.peer EXCEPT !.stage = st]
                                 = [net.peer EXCEPT !.stage = st, !.wire = net.peer.wire]
          BY <1>3 DEF Peers
        <4>2. PICK st \in {"refused", "silent"} :
                 net' = [peer |-> [net.peer EXCEPT !.stage = st], faults |-> net.faults + 1]
          BY <3>1
        <4>3. net' = [peer |-> [net.peer EXCEPT !.stage = st, !.wire = net.peer.wire],
                      faults |-> net.faults + 1]
          BY <4>1, <4>2
        <4>4. QED
          BY <1>3, <4>3
      <3>2. CASE \E st \in {"closed", "silent"}, last \in {<<>>, <<"part">>, <<"junk">>} :
                    net' = [peer |-> [net.peer EXCEPT !.stage = st, !.wire = @ \o last],
                            faults |-> net.faults + 1]
        <4>1. \A last \in {<<>>, <<"part">>, <<"junk">>} : last \in Seq(Messages)
          BY <1>6, EmptySeq DEF Messages
        <4>2. \A last \in {<<>>, <<"part">>, <<"junk">>} : net.peer.wire \o last \in Seq(Messages)
          <5> HIDE DEF Messages
          <5>1. QED
            BY <1>3, <4>1, ConcatProperties
        <4>3. PICK st \in {"closed", "silent"}, last \in {<<>>, <<"part">>, <<"junk">>} :
                 net' = [peer |-> [net.peer EXCEPT !.stage = st, !.wire = net.peer.wire \o last],
                         faults |-> net.faults + 1]
          BY <3>2
        <4>4. QED
          BY <4>2, <4>3
      <3>3. QED
        BY <1>13, <3>1, <3>2 DEF PeerFails
    <2>3. PICK st \in Stages, w \in Seq(Messages) :
             net' = [peer |-> [net.peer EXCEPT !.stage = st, !.wire = w], faults |-> net.faults + 1]
      BY <2>2
    <2>4. [net.peer EXCEPT !.stage = st, !.wire = w] \in Peers
      BY <1>3 DEF Peers
    <2>5. QED
      BY <2>1, <2>3, <2>4 DEF Nets
  <1>14. net' \in Nets
    BY <1>7, <1>8, <1>9, <1>10, <1>11, <1>12, <1>13
  <1>15. QED
    BY <1>2, <1>14 DEF StrongInv, Nets

(***************************************************************************)
(* Every step keeps the invariant.                                         *)
(***************************************************************************)
LEMMA SessionNext ==
    ASSUME StrongInv, [Next]_vars
    PROVE  StrongInv'
  <1>1. CASE StartNode \/ HandleClientRestart
    BY <1>1, StartingSteps
  <1>2. CASE HandleConnected \/ EndOfData
    BY <1>2, ConnectedStep
  <1>3. CASE \/ HandleConnectionFailed \/ HandleConnectTimeout \/ HandleKeepAliveAlarm
             \/ FilterShutdown \/ HandleDisconnected \/ HandleStopRetry
    BY <1>3, EndingSteps
  <1>4. CASE FilterInput
    BY <1>4, FilterInputStep
  <1>5. CASE ReadMessage
    BY <1>5, ReadMessageStep
  <1>6. CASE DispatchFailed \/ DispatchDisconnected \/ DispatchInput
    BY <1>6, DispatchStep
  <1>7. CASE HandleSuspend \/ HandleResume
    BY <1>7, SleepStep
  <1>8. CASE Exit
    <2>1. Sound([NewProg EXCEPT !.phase = "over"]) /\ net.peer.wire \in Seq(Messages)
      BY RestSound DEF StrongInv, Peers
    <2>2. QED
      BY <1>8, <2>1, StepSound DEF Exit, Do
  <1>9. CASE \/ PeerAccepts \/ PeerGreets \/ PeerQueries \/ PeerAdmits \/ PeerTalks
             \/ PeerMovesCursor \/ PeerFails
    BY <1>9, PeerStep
  <1>10. CASE UNCHANGED vars
    BY <1>10 DEF vars, StrongInv
  <1>11. QED
    BY <1>1, <1>2, <1>3, <1>4, <1>5, <1>6, <1>7, <1>8, <1>9, <1>10 DEF Next, Over

\* NothingUnread: whatever arrives however it is cut into packets, a whole message in the
\* filter is being read or has an event in the queue that will read it.
THEOREM NothingLeftUnread == Spec => []NothingUnread
  <1>1. StrongInv => NothingUnread
    BY DEF StrongInv, Sound, Announced, NothingUnread, Idle, Has
  <1>2. StrongInv /\ [Next]_vars => StrongInv'
    BY SessionNext
  <1>3. QED
    BY <1>1, <1>2, SessionInit, PTL DEF Spec

(***************************************************************************)
(* SessionInv: every wait for the server has a timer, the screen is        *)
(* enabled exactly while a session wants it, a suspended client is         *)
(* offline, and one that may restart always has an attempt to connect      *)
(* ahead, of which there are never more than suspensions account for.      *)
(***************************************************************************)
THEOREM SessionStaysSound ==
    ASSUME ~Unnoticed
    PROVE  Spec => []SessionInv
  <1>1. StrongInv => SessionInv
    <2> SUFFICES ASSUME StrongInv PROVE SessionInv
      OBVIOUS
    <2>1. TypeOK
      BY DEF StrongInv, Sound, TypeOK
    <2>2. WaitsTimed /\ ScreenFollows /\ AsleepOffline
      BY DEF StrongInv, Sound, Timed, ScreenFits, WaitsTimed, ScreenFollows, AsleepOffline
    <2>3. KeepsTrying
      BY DEF StrongInv, Sound, Trying, KeepsTrying, Has, Ends
    <2>4. QED
      BY <2>1, <2>2, <2>3 DEF SessionInv
  <1>2. StrongInv /\ [Next]_vars => StrongInv'
    BY SessionNext
  <1>3. QED
    BY <1>1, <1>2, SessionInit, PTL DEF Spec
=============================================================================
