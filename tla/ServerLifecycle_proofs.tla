----------------------- MODULE ServerLifecycle_proofs -----------------------
(***************************************************************************)
(* StateMatches holds for any faults, requests, numbers of clients and     *)
(* bounds, as long as neither a resume nor a reset is handled while the    *)
(* server closes: those two start a server in the middle of a stop, and    *)
(* the assertions of ServerApp fail then (README, known limits).  A        *)
(* suspension may arrive at any time.                                      *)
(***************************************************************************)
EXTENDS ServerLifecycle, Filtering_proofs

\* A handler that starts a server runs in the event loop of a close.
StartsWithin == stack # <<>> /\ (HandleReset \/ HandleResume)

(***************************************************************************)
(* What every operation of ServerApp expects and leaves: the timer, the    *)
(* parts and the state agree and no assertion has failed.                  *)
(***************************************************************************)
Fit(a) ==
    /\ a \in Apps
    /\ a.open + a.closing <= MaxClients
    /\ ~a.broken
    /\ a.timer <=> a.state \in {Initializing, InitializingToStart, Starting}
    /\ a.server <=> a.state = Started
    /\ a.screen <=> a.state \in {Initialized, Starting, Started}

\* The states in which there is neither a server nor the wait for one.
Stopped(a) == a.state \in {Uninitialized, Initializing, InitializingToStart, Initialized}

(***************************************************************************)
(* The inductive invariant.  A stop that is under way had a server to      *)
(* close, and only a suspension comes on top of another stop.              *)
(***************************************************************************)
LifecycleInv ==
    /\ TypeOK
    /\ Fit(app)
    /\ phase # "aborted"
    /\ phase = "start" => app.state = Uninitialized /\ stack = <<>>
    /\ phase = "exited" => app.state = Uninitialized /\ stack = <<>>
    /\ stack # <<>> => app.state \in {Initialized, Started}
    /\ \A i \in DOMAIN stack : stack[i].why # "suspend" => i = 1

USE DEF Uninitialized, Initializing, InitializingToStart, Initialized, Starting, Started, States

-----------------------------------------------------------------------------
\* The contents of the queue are of no concern to the rest.
LEMMA QueueFit ==
    ASSUME NEW a, Fit(a), NEW q \in Seq({"gone", "quit"})
    PROVE  /\ Fit([a EXCEPT !.queue = q])
           /\ [a EXCEPT !.queue = q].state = a.state
           /\ [a EXCEPT !.queue = q].queue = q
  BY DEF Fit, Apps

\* The queue takes another event.
LEMMA PostFit ==
    ASSUME NEW a, Fit(a), NEW e \in {"gone", "quit"}
    PROVE  Fit(post(a, e)) /\ post(a, e).state = a.state
  <1>1. Append(a.queue, e) \in Seq({"gone", "quit"})
    BY AppendProperties DEF Fit, Apps
  <1>2. QED
    BY <1>1, QueueFit DEF post

\* A retry is scheduled where none was and nothing is there to be lost.
LEMMA RetryLaterFit ==
    ASSUME NEW a, Fit(a), NEW s,
           \/ a.state = Uninitialized /\ s = Initializing
           \/ a.state = Initialized /\ s = Starting
    PROVE  /\ Fit(retryLater(a, s).app)
           /\ retryLater(a, s).app.state \in {a.state, s}
           /\ retryLater(a, s).ok => retryLater(a, s).app.state = s
  <1>1. CASE Restartable
    BY <1>1 DEF Fit, Apps, retryLater, Result, assert
  <1>2. CASE ~Restartable
    BY <1>2 DEF retryLater, Result
  <1>3. QED
    BY <1>1, <1>2

\* initServer opens the screen, waits for it or fails, and leaves a later state alone.
LEMMA InitServerFit ==
    ASSUME NEW a, Fit(a), NEW r \in initServer(a)
    PROVE  /\ Fit(r.app)
           /\ a.state # Uninitialized => r.app.state = a.state
           /\ a.state = Uninitialized => r.app.state \in {Uninitialized, Initializing, Initialized}
           /\ a.state = Uninitialized /\ r.ok => r.app.state \in {Initializing, Initialized}
  <1>1. CASE a.state # Uninitialized
    BY <1>1 DEF initServer, Result
  <1>2. CASE a.state = Uninitialized /\ r = Result(openScreen(a), TRUE)
    <2>1. <<>> \in Seq({"gone", "quit"}) /\ 0 \in 0 .. MaxMisses
      BY EmptySeq, LifecycleConstants
    <2>2. QED
      BY <1>2, <2>1 DEF Fit, Apps, Result, openScreen
  <1>3. CASE /\ a.state = Uninitialized
             /\ unavailable(a)
             /\ r = retryLater([a EXCEPT !.misses = @ + 1], Initializing)
    <2>1. Fit([a EXCEPT !.misses = @ + 1])
      BY <1>3, LifecycleConstants DEF Fit, Apps, unavailable
    <2>2. [a EXCEPT !.misses = @ + 1].state = Uninitialized
      BY <1>3 DEF Fit, Apps
    <2>3. QED
      BY <1>3, <2>1, <2>2, RetryLaterFit
  <1>4. CASE a.state = Uninitialized /\ r = Result(a, FALSE)
    BY <1>4 DEF Result
  <1>5. QED
    BY <1>1, <1>2, <1>3, <1>4 DEF initServer

LEMMA OpenServerFit ==
    ASSUME NEW a, Fit(a), a.state = Initialized, NEW r \in openServer(a)
    PROVE  Fit(r.app)
  <1>1. CASE r = Result([assert(a, a.screen) EXCEPT !.server = TRUE, !.onGone = "status",
                                                    !.state = Started], TRUE)
    BY <1>1 DEF Fit, Apps, Result, assert
  <1>2. CASE r = retryLater(a, Starting)
    BY <1>2, RetryLaterFit
  <1>3. CASE r = Result(a, FALSE)
    BY <1>3 DEF Result
  <1>4. QED
    BY <1>1, <1>2, <1>3 DEF openServer

\* startServer expects any state but one: the server that waits for its screen is there
\* already.
LEMMA StartServerFit ==
    ASSUME NEW a, Fit(a), a.state # InitializingToStart, NEW r \in startServer(a)
    PROVE  Fit(r.app)
  <1>1. CASE a.state \in {Starting, Started}
    BY <1>1 DEF startServer, Result
  <1>2. CASE a.state \notin {Starting, Started}
    <2>1. PICK q \in initServer(a) :
             r \in IF ~q.ok THEN {q}
                   ELSE IF q.app.state = Initializing
                       THEN {Result([q.app EXCEPT !.state = InitializingToStart], TRUE)}
                       ELSE openServer(assert(q.app, q.app.state = Initialized))
      BY <1>2 DEF startServer
    <2>2. /\ Fit(q.app)
          /\ q.ok => q.app.state \in {Initializing, Initialized}
      BY <1>2, InitServerFit DEF Fit, Apps
    <2>3. CASE ~q.ok
      BY <2>1, <2>2, <2>3
    <2>4. CASE q.ok /\ q.app.state = Initializing
      <3>1. r = Result([q.app EXCEPT !.state = InitializingToStart], TRUE)
        BY <2>1, <2>4
      <3>2. QED
        BY <2>2, <2>4, <3>1 DEF Fit, Apps, Result
    <2>5. CASE q.ok /\ q.app.state = Initialized
      <3>1. r \in openServer(assert(q.app, q.app.state = Initialized))
        BY <2>1, <2>5
      <3>2. assert(q.app, q.app.state = Initialized) = q.app
        BY <2>2, <2>5 DEF Fit, Apps, assert
      <3>3. QED
        BY <2>2, <2>5, <3>1, <3>2, OpenServerFit
    <2>6. QED
      BY <2>2, <2>3, <2>4, <2>5
  <1>3. QED
    BY <1>1, <1>2

LEMMA StartedFit ==
    ASSUME NEW a, Fit(a), a.state # InitializingToStart, NEW b \in started(a)
    PROVE  Fit(b)
  BY StartServerFit DEF started

-----------------------------------------------------------------------------
LEMMA DisconnectFit ==
    ASSUME NEW a, Fit(a), a.state = Started
    PROVE  Fit(disconnect(a)) /\ disconnect(a).state = Started
  <1>1. CASE a.open + a.closing > 0
    <2>1. a.closing + a.open \in 0 .. MaxClients /\ 0 \in 0 .. MaxClients
      BY LifecycleConstants DEF Fit, Apps
    <2>2. disconnect(a) = [a EXCEPT !.closing = a.closing + a.open, !.open = 0]
      BY <1>1 DEF disconnect
    <2>3. /\ disconnect(a) \in Apps
          /\ disconnect(a).open = 0 /\ disconnect(a).closing = a.closing + a.open
      BY <2>1, <2>2 DEF Fit, Apps
    <2>4. disconnect(a).open + disconnect(a).closing <= MaxClients
      BY <2>1, <2>3, LifecycleConstants
    <2>5. QED
      BY <2>2, <2>3, <2>4 DEF Fit, Apps
  <1>2. CASE ~(a.open + a.closing > 0)
    BY <1>2, PostFit DEF disconnect
  <1>3. QED
    BY <1>1, <1>2

LEMMA CloseServerFit ==
    ASSUME NEW a, Fit(a), a.state = Started
    PROVE  Fit(closeServer(a)) /\ closeServer(a).state = Started
  BY DisconnectFit DEF closeServer, Fit, Apps

\* The end of a stop, also of one whose server another stop has removed meanwhile.
LEMMA DropServerFit ==
    ASSUME NEW a, Fit(a), a.state \in {Initialized, Started}
    PROVE  Fit(dropServer(a)) /\ dropServer(a).state = Initialized
  <1> DEFINE q == Kept(a.queue, {"quit"})
  <1>1. a.queue \in Seq({"gone", "quit"}) /\ 0 \in 0 .. MaxClients
    BY LifecycleConstants DEF Fit, Apps
  <1>2. q \in Seq({"gone", "quit"})
    BY <1>1, KeptType
  <1>3. dropServer(a) = [a EXCEPT !.server = FALSE, !.onGone = "none", !.open = 0, !.closing = 0,
                                  !.queue = q, !.state = Initialized]
    BY DEF dropServer
  <1> HIDE DEF q
  <1>4. /\ dropServer(a) \in Apps
        /\ dropServer(a).open = 0 /\ dropServer(a).closing = 0
    BY <1>1, <1>2, <1>3 DEF Fit, Apps
  <1>5. dropServer(a).open + dropServer(a).closing <= MaxClients
    BY <1>4, LifecycleConstants
  <1>6. QED
    BY <1>3, <1>4, <1>5 DEF Fit, Apps

LEMMA StopIdleFit ==
    ASSUME NEW a, Fit(a), a.state # Started
    PROVE  Fit(stopIdle(a)) /\ Stopped(stopIdle(a))
  <1>1. CASE a.state = Starting
    BY <1>1 DEF stopIdle, stopRetryTimer, assert, Stopped, Fit, Apps
  <1>2. CASE a.state # Starting
    BY <1>2 DEF stopIdle, stopRetryTimer, assert, Stopped, Fit, Apps
  <1>3. QED
    BY <1>1, <1>2

\* stopIdle has nothing to do where nothing waits for a server.
LEMMA StopIdleKeeps ==
    ASSUME NEW a, Fit(a), Stopped(a)
    PROVE  stopIdle(a) = a
  BY DEF stopIdle, assert, Stopped, Fit, Apps

\* cleanupServer leaves nothing behind, whether there was a screen, the wait for one or
\* neither.
LEMMA CleanupServerFit ==
    ASSUME NEW a, Fit(a), Stopped(a)
    PROVE  Fit(cleanupServer(a)) /\ cleanupServer(a).state = Uninitialized
  <1>1. CASE a.state = Initialized
    <2>1. <<>> \in Seq({"gone", "quit"})
      BY EmptySeq
    <2>2. QED
      BY <1>1, <2>1 DEF cleanupServer, closeScreen, assert, Fit, Apps
  <1>2. CASE a.state \in {Initializing, InitializingToStart}
    BY <1>2 DEF cleanupServer, stopRetryTimer, assert, Fit, Apps
  <1>3. CASE a.state = Uninitialized
    BY <1>3 DEF cleanupServer, assert, Fit, Apps
  <1>4. QED
    BY <1>1, <1>2, <1>3 DEF Stopped

LEMMA AfterStopFit ==
    ASSUME NEW a, Fit(a), Stopped(a),
           NEW why \in {"suspend", "reset", "exit"}, NEW b \in afterStop(a, why)
    PROVE  /\ Fit(b)
           /\ why = "suspend" => b.state = a.state
           /\ why = "exit" => b.state = Uninitialized
  <1>1. CASE why = "suspend"
    BY <1>1 DEF afterStop, Fit, Apps
  <1>2. CASE why = "reset"
    <2>1. b \in started(cleanupServer(a))
      BY <1>2, StopIdleKeeps DEF afterStop
    <2>2. QED
      BY <1>2, <2>1, CleanupServerFit, StartedFit
  <1>3. CASE why = "exit"
    BY <1>3, CleanupServerFit DEF afterStop
  <1>4. QED
    BY <1>1, <1>2, <1>3

\* The retry finds one of the three states it expects.
LEMMA RetriedFit ==
    ASSUME NEW a, Fit(a), a.timer, NEW b \in retried(a)
    PROVE  Fit(b)
  <1> DEFINE c == stopRetryTimer(assert(a, a.timer))
             back(s) == [c EXCEPT !.state = s]
  <1>1. c = [a EXCEPT !.timer = FALSE]
    BY DEF stopRetryTimer, assert, Fit, Apps
  <1>2. /\ a.state \in {Initializing, InitializingToStart} => Fit(back(Uninitialized))
        /\ a.state = Starting => Fit(back(Initialized))
        /\ back(Uninitialized).state = Uninitialized
        /\ back(Initialized).state = Initialized
    BY <1>1 DEF Fit, Apps
  <1>3. a.state \in {Initializing, InitializingToStart, Starting}
    BY DEF Fit
  <1>4. \E r : /\ b = IF r.ok THEN r.app ELSE post(r.app, "quit")
               /\ Fit(r.app)
    <2>1. CASE a.state = Initializing
      <3>1. \E r \in initServer(back(Uninitialized)) : b = IF r.ok THEN r.app ELSE post(r.app, "quit")
        BY <2>1 DEF retried
      <3>2. QED
        BY <2>1, <3>1, <1>2, InitServerFit
    <2>2. CASE a.state = InitializingToStart
      <3>1. \E q \in initServer(back(Uninitialized)) :
               \E r \in IF q.ok /\ q.app.state = Initialized THEN startServer(q.app) ELSE {q} :
                  b = IF r.ok THEN r.app ELSE post(r.app, "quit")
        BY <2>2 DEF retried
      <3>2. PICK q \in initServer(back(Uninitialized)) :
               \E r \in IF q.ok /\ q.app.state = Initialized THEN startServer(q.app) ELSE {q} :
                  b = IF r.ok THEN r.app ELSE post(r.app, "quit")
        BY <3>1
      <3>3. Fit(q.app)
        BY <2>2, <1>2, InitServerFit
      <3>4. CASE q.ok /\ q.app.state = Initialized
        BY <3>2, <3>3, <3>4, StartServerFit
      <3>5. CASE ~(q.ok /\ q.app.state = Initialized)
        BY <3>2, <3>3, <3>5
      <3>6. QED
        BY <3>4, <3>5
    <2>3. CASE a.state = Starting
      <3>1. \E r \in startServer(back(Initialized)) : b = IF r.ok THEN r.app ELSE post(r.app, "quit")
        BY <2>3 DEF retried
      <3>2. QED
        BY <2>3, <3>1, <1>2, StartServerFit
    <2>4. QED
      BY <1>3, <2>1, <2>2, <2>3
  <1>5. QED
    BY <1>4, PostFit

-----------------------------------------------------------------------------
\* The initial state is fit.
LEMMA LifecycleInit == Init => LifecycleInv
  <1> SUFFICES ASSUME Init PROVE LifecycleInv
    OBVIOUS
  <1>1. /\ <<>> \in Seq({"gone", "quit"})
        /\ <<>> \in Seq([why: {"suspend", "reset", "exit"}, timer: BOOLEAN])
        /\ 0 \in 0 .. MaxClients /\ 0 \in 0 .. MaxMisses
    BY EmptySeq, LifecycleConstants
  <1>2. app \in Apps
    BY <1>1 DEF Init, NewApp, Apps
  <1>3. Fit(app)
    BY <1>2, LifecycleConstants DEF Init, NewApp, Fit
  <1>4. app.state = Uninitialized /\ stack = <<>> /\ phase = "start"
    BY DEF Init, NewApp
  <1>5. TypeOK
    BY <1>1, <1>2 DEF Init, TypeOK
  <1>6. \A i \in DOMAIN stack : FALSE
    BY <1>4
  <1>7. QED
    BY <1>3, <1>4, <1>5, <1>6 DEF LifecycleInv

\* A handler that finishes leaves a fit application, or ended the program cleanly.
LEMMA SettleFit ==
    ASSUME LifecycleInv, phase = "loop", NEW b, Fit(b), NEW why, Settle(b, why),
           why = "exit" => b.state = Uninitialized /\ stack' = <<>>,
           asked' \in BOOLEAN,
           stack' \in Seq([why: {"suspend", "reset", "exit"}, timer: BOOLEAN]),
           stack' # <<>> => b.state \in {Initialized, Started},
           \A i \in DOMAIN stack' : stack'[i].why # "suspend" => i = 1
    PROVE  LifecycleInv'
  <1>1. app' = b /\ phase' = IF why = "exit" THEN "exited" ELSE "loop"
    BY DEF Settle, Fit
  <1>2. Fit(app)'
    BY <1>1 DEF Fit, Apps
  <1>3. TypeOK'
    BY <1>1, <1>2 DEF TypeOK, Fit
  <1>4. QED
    BY <1>1, <1>2, <1>3 DEF LifecycleInv

\* A step that leaves the handlers and the phase alone.
LEMMA AppFit ==
    ASSUME LifecycleInv, phase = "loop", Fit(app'), app'.state = app.state,
           asked' \in BOOLEAN, UNCHANGED <<stack, phase>>
    PROVE  LifecycleInv'
  <1>1. Fit(app)'
    BY DEF Fit, Apps
  <1>2. TypeOK'
    BY <1>1 DEF TypeOK, LifecycleInv, Fit
  <1>3. QED
    BY <1>1, <1>2 DEF LifecycleInv

\* stopServer from a handler: a frame is added to no other, or to whatever there is if it
\* is a suspension.
LEMMA StopFit ==
    ASSUME LifecycleInv, phase = "loop", NEW a, Fit(a), a.state = app.state,
           NEW why \in {"suspend", "reset", "exit"},
           why = "suspend" \/ stack = <<>>, Stop(a, why), UNCHANGED asked
    PROVE  LifecycleInv'
  <1> DEFINE Frames == [why: {"suspend", "reset", "exit"}, timer: BOOLEAN]
             frame == [why |-> why, timer |-> TRUE]
  <1>0. stack \in Seq(Frames) /\ asked' \in BOOLEAN /\ frame \in Frames
    BY DEF LifecycleInv, TypeOK
  <1>1. CASE a.state = Started /\ app' = closeServer(a) /\ stack' = Append(stack, frame)
             /\ UNCHANGED phase
    <2>1. Fit(app') /\ app'.state = Started
      BY <1>1, CloseServerFit
    <2>2. Fit(app)'
      BY <2>1 DEF Fit, Apps
    <2> HIDE DEF frame
    <2>3. /\ stack' \in Seq(Frames) /\ stack' # <<>>
          /\ Len(stack') = Len(stack) + 1 /\ Len(stack) \in Nat
          /\ \A i \in 1 .. Len(stack) : stack'[i] = stack[i]
          /\ stack'[Len(stack) + 1] = frame
          /\ DOMAIN stack = 1 .. Len(stack) /\ DOMAIN stack' = 1 .. Len(stack')
      BY <1>0, <1>1, AppendProperties, LenProperties
    <2>4. ASSUME NEW i \in DOMAIN stack', stack'[i].why # "suspend"
          PROVE  i = 1
      <3>1. CASE i \in 1 .. Len(stack)
        BY <2>3, <2>4, <3>1 DEF LifecycleInv
      <3>2. CASE i = Len(stack) + 1
        <4>1. why # "suspend"
          BY <2>3, <2>4, <3>2 DEF frame
        <4>2. Len(stack) = 0
          BY <4>1, EmptySeq
        <4>3. QED
          BY <3>2, <4>2
      <3>3. QED
        BY <2>3, <3>1, <3>2
    <2>5. TypeOK'
      BY <1>0, <1>1, <2>2, <2>3 DEF TypeOK, Fit, LifecycleInv
    <2>6. QED
      BY <1>1, <2>1, <2>2, <2>3, <2>4, <2>5 DEF LifecycleInv
  <1>2. CASE a.state # Started /\ (\E b \in afterStop(stopIdle(a), why) : Settle(b, why))
             /\ UNCHANGED stack
    <2>1. PICK b \in afterStop(stopIdle(a), why) : Settle(b, why)
      BY <1>2
    <2>2. Fit(stopIdle(a)) /\ Stopped(stopIdle(a))
      BY <1>2, StopIdleFit
    <2>3. /\ Fit(b)
          /\ why = "suspend" => b.state = stopIdle(a).state
          /\ why = "exit" => b.state = Uninitialized
      BY <2>1, <2>2, AfterStopFit
    <2>4. ASSUME stack' # <<>> PROVE b.state \in {Initialized, Started}
      <3>1. stack # <<>> /\ why = "suspend" /\ a.state = Initialized
        BY <1>2, <2>4 DEF LifecycleInv
      <3>2. stopIdle(a) = a
        BY <3>1, StopIdleKeeps DEF Stopped
      <3>3. QED
        BY <2>3, <3>1, <3>2
    <2>5. /\ stack' \in Seq(Frames)
          /\ \A i \in DOMAIN stack' : stack'[i].why # "suspend" => i = 1
      BY <1>0, <1>2 DEF LifecycleInv
    <2>6. why = "exit" => stack' = <<>>
      BY <1>2
    <2>7. QED
      BY <1>0, <2>1, <2>3, <2>4, <2>5, <2>6, SettleFit
  <1>3. QED
    BY <1>1, <1>2 DEF Stop

\* QUIT ends the innermost stop.
LEMMA FinishStopFit ==
    ASSUME LifecycleInv, FinishStop
    PROVE  LifecycleInv'
  <1> DEFINE Frames == [why: {"suspend", "reset", "exit"}, timer: BOOLEAN]
             why == stack[Len(stack)].why
  <1>1. /\ phase = "loop" /\ stack # <<>> /\ app.queue # <<>> /\ UNCHANGED asked
        /\ stack' = SubSeq(stack, 1, Len(stack) - 1)
    BY DEF FinishStop, Next1, Running
  <1>2. PICK b \in afterStop(dropServer(Popped), why) : Settle(b, why)
    BY DEF FinishStop
  <1>3. stack \in Seq(Frames) /\ asked' \in BOOLEAN /\ Fit(app) /\ app.state \in {Initialized, Started}
    BY <1>1 DEF LifecycleInv, TypeOK
  <1>4. Len(stack) \in Nat \ {0} /\ DOMAIN stack = 1 .. Len(stack)
    BY <1>1, <1>3, EmptySeq, LenProperties
  <1>5. \A i \in 1 .. Len(stack) : stack[i] \in Frames
    <2> HIDE DEF Frames
    <2>1. QED
      BY <1>3, ElementOfSeq
  <1>6. why \in {"suspend", "reset", "exit"}
    BY <1>4, <1>5
  <1>7. Fit(Popped) /\ Popped.state = app.state
    <2>1. Tail(app.queue) \in Seq({"gone", "quit"})
      BY <1>1, <1>3, HeadTailProperties DEF Fit, Apps
    <2>2. QED
      BY <1>3, <2>1, QueueFit DEF Popped
  <1>8. Fit(dropServer(Popped)) /\ dropServer(Popped).state = Initialized
    BY <1>3, <1>7, DropServerFit
  <1>9. /\ Fit(b)
        /\ why = "suspend" => b.state = Initialized
        /\ why = "exit" => b.state = Uninitialized
    BY <1>2, <1>6, <1>8, AfterStopFit DEF Stopped
  <1>10. /\ stack' \in Seq(Frames) /\ Len(stack') = Len(stack) - 1
         /\ \A i \in 1 .. Len(stack) - 1 : stack'[i] = stack[i]
    <2>1. \A i \in 1 .. Len(stack) - 1 : stack[i] \in Frames
      BY <1>4, <1>5
    <2>2. Len(stack) - 1 \in Int /\ 1 \in Int
      BY <1>4
    <2> HIDE DEF Frames
    <2>3. /\ SubSeq(stack, 1, Len(stack) - 1) \in Seq(Frames)
          /\ Len(SubSeq(stack, 1, Len(stack) - 1)) =
                 IF 1 <= Len(stack) - 1 THEN Len(stack) - 1 - 1 + 1 ELSE 0
          /\ \A i \in 1 .. Len(stack) - 1 - 1 + 1 : SubSeq(stack, 1, Len(stack) - 1)[i] = stack[1 + i - 1]
      BY <2>1, <2>2, SubSeqProperties
    <2>4. QED
      BY <1>1, <1>4, <2>3
  <1>11. why # "suspend" => stack' = <<>>
    <2>1. why # "suspend" => Len(stack) = 1
      BY <1>4 DEF LifecycleInv
    <2>2. QED
      BY <2>1, <1>10, EmptySeq
  <1>12. \A i \in DOMAIN stack' : stack'[i].why # "suspend" => i = 1
    <2>1. DOMAIN stack' = 1 .. Len(stack')
      BY <1>10, LenProperties
    <2>2. QED
      BY <2>1, <1>4, <1>10 DEF LifecycleInv
  <1>13. stack' # <<>> => b.state \in {Initialized, Started}
    BY <1>9, <1>11
  <1> HIDE DEF why, Frames
  <1>14. why = "exit" => b.state = Uninitialized /\ stack' = <<>>
    BY <1>9, <1>11
  <1>15. QED
    BY <1>1, <1>2, <1>3, <1>9, <1>10, <1>12, <1>13, <1>14, SettleFit DEF Frames

(***************************************************************************)
(* Every step keeps the invariant.                                         *)
(***************************************************************************)
LEMMA LifecycleNext ==
    ASSUME [~StartsWithin]_vars, LifecycleInv, [Next]_vars
    PROVE  LifecycleInv'
  <1> DEFINE Frames == [why: {"suspend", "reset", "exit"}, timer: BOOLEAN]
  <1>0. /\ Fit(app) /\ app \in Apps /\ asked \in BOOLEAN /\ stack \in Seq(Frames)
        /\ app.queue \in Seq({"gone", "quit"})
    BY DEF LifecycleInv, TypeOK, Fit, Apps
  <1>1. CASE StartNode
    <2>1. PICK r \in startServer(app) :
             /\ app' = r.app
             /\ phase' = IF r.app.broken THEN "aborted" ELSE IF r.ok THEN "loop" ELSE "failed"
      BY <1>1 DEF StartNode
    <2>2. Fit(r.app)
      BY <1>0, <1>1, StartServerFit DEF StartNode, LifecycleInv
    <2>3. Fit(app)' /\ phase' \in {"loop", "failed"} /\ UNCHANGED <<stack, asked>> /\ stack' = <<>>
      BY <1>1, <2>1, <2>2 DEF StartNode, Fit, Apps, LifecycleInv
    <2>4. TypeOK'
      BY <1>0, <2>3 DEF TypeOK, Fit
    <2>5. \A i \in DOMAIN stack' : stack'[i].why # "suspend" => i = 1
      BY <2>3 DEF LifecycleInv
    <2>6. QED
      BY <2>3, <2>4, <2>5 DEF LifecycleInv
  <1>2. CASE HandleSuspend
    BY <1>0, <1>2, StopFit DEF HandleSuspend, MayAsk, Running
  <1>3. CASE HandleResume /\ ~StartsWithin
    <2>1. phase = "loop" /\ stack = <<>> /\ app.screen /\ UNCHANGED <<stack, asked>>
      BY <1>3 DEF HandleResume, MayAsk, Running, StartsWithin
    <2>2. PICK a \in started(app) : Settle([a EXCEPT !.suspended = FALSE], "resume")
      BY <1>3 DEF HandleResume
    <2>3. Fit(a)
      BY <1>0, <2>1, StartedFit DEF Fit
    <2>4. Fit([a EXCEPT !.suspended = FALSE])
      BY <2>3 DEF Fit, Apps
    <2>5. \A i \in DOMAIN stack' : stack'[i].why # "suspend" => i = 1
      BY <2>1 DEF LifecycleInv
    <2>6. QED
      BY <1>0, <2>1, <2>2, <2>4, <2>5, SettleFit
  <1>4. CASE HandleReset /\ ~StartsWithin
    <2>1. stack = <<>>
      BY <1>4 DEF StartsWithin
    <2>2. QED
      BY <1>0, <1>4, <2>1, StopFit DEF HandleReset, MayAsk, Running
  <1>5. CASE HandleRetry
    <2>1. phase = "loop" /\ app.timer /\ UNCHANGED stack
      BY <1>5 DEF HandleRetry, Running
    <2>2. PICK a \in retried(app) : Settle(a, "retry") /\ asked' = (asked \/ a.queue # <<>>)
      BY <1>5 DEF HandleRetry
    <2>3. Fit(a)
      BY <1>0, <2>1, RetriedFit
    <2>4. stack = <<>>
      BY <1>0, <2>1 DEF LifecycleInv, Fit
    <2>5. \A i \in DOMAIN stack' : stack'[i].why # "suspend" => i = 1
      BY <2>1 DEF LifecycleInv
    <2>6. asked' \in BOOLEAN
      BY <2>2
    <2>7. QED
      BY <1>0, <2>1, <2>2, <2>3, <2>4, <2>5, <2>6, SettleFit
  <1>6. CASE HandleCloseTimeout
    <2>1. phase = "loop" /\ app' = post(app, "quit") /\ UNCHANGED <<phase, asked>>
      BY <1>6 DEF HandleCloseTimeout, Running
    <2>2. PICK i \in DOMAIN stack : stack' = [stack EXCEPT ![i].timer = FALSE]
      BY <1>6 DEF HandleCloseTimeout
    <2>3. i \in 1 .. Len(stack) /\ stack[i] \in Frames
      <3> HIDE DEF Frames
      <3>1. QED
        BY <1>0, <2>2, LenProperties, ElementOfSeq
    <2>4. [stack[i] EXCEPT !.timer = FALSE] \in Frames
      BY <2>3
    <2>5. /\ stack' \in Seq(Frames)
          /\ \A j \in 1 .. Len(stack) :
                stack'[j] = IF j = i THEN [stack[i] EXCEPT !.timer = FALSE] ELSE stack[j]
          /\ DOMAIN stack = 1 .. Len(stack) /\ DOMAIN stack' = 1 .. Len(stack)
      <3> HIDE DEF Frames
      <3>1. stack' = [stack EXCEPT ![i] = [stack[i] EXCEPT !.timer = FALSE]]
        BY <2>2
      <3>2. QED
        BY <1>0, <2>3, <2>4, <3>1, ExceptSeq, LenProperties
    <2>6. \A j \in DOMAIN stack' : stack'[j].why # "suspend" => j = 1
      BY <2>3, <2>5 DEF LifecycleInv
    <2>7. Fit(app') /\ app'.state = app.state
      BY <1>0, <2>1, PostFit
    <2>8. Fit(app)'
      BY <2>7 DEF Fit, Apps
    <2>9. stack # <<>>
      BY <1>0, <2>2
    <2>10. TypeOK'
      BY <1>0, <2>1, <2>5, <2>8 DEF TypeOK, Fit, LifecycleInv
    <2>11. QED
      BY <2>1, <2>6, <2>7, <2>8, <2>9, <2>10 DEF LifecycleInv
  <1>7. CASE Dispatch
    <2>1. app.queue # <<>> /\ phase = "loop"
      BY <1>7 DEF Dispatch, DispatchGone, FinishStop, ExitMainLoop, Next1, Running
    <2>2. Tail(app.queue) \in Seq({"gone", "quit"})
      BY <1>0, <2>1, HeadTailProperties
    <2>3. Fit(Popped) /\ Popped.state = app.state
      BY <1>0, <2>2, QueueFit DEF Popped
    <2>4. CASE DispatchGone
      <3>1. Fit(app') /\ app'.state = app.state
        BY <2>3, <2>4, PostFit DEF DispatchGone
      <3>2. QED
        BY <1>0, <2>1, <2>4, <3>1, AppFit DEF DispatchGone
    <2>5. CASE FinishStop
      BY <2>5, FinishStopFit
    <2>6. CASE ExitMainLoop
      BY <2>1, <2>3, <2>6, StopFit DEF ExitMainLoop
    <2>7. QED
      BY <1>7, <2>4, <2>5, <2>6 DEF Dispatch
  <1>8. CASE RequestExit
    BY <1>0, <1>8, PostFit, AppFit DEF RequestExit, Running
  <1>9. CASE ScreenError
    <2>1. Fit([app EXCEPT !.queue = <<>>]) /\ [app EXCEPT !.queue = <<>>].state = app.state
      BY <1>0, EmptySeq, QueueFit
    <2>2. Fit(app') /\ app'.state = app.state
      BY <1>9, <2>1, PostFit DEF ScreenError
    <2>3. QED
      BY <1>9, <2>2, AppFit DEF ScreenError, Running
  <1>10. CASE HandleClientConnected
    <2>1. app.open + 1 \in 0 .. MaxClients /\ app.open + 1 + app.closing <= MaxClients
      BY <1>0, <1>10, LifecycleConstants DEF HandleClientConnected, Apps
    <2>2. Fit(app') /\ app'.state = app.state
      BY <1>0, <1>10, <2>1 DEF HandleClientConnected, Fit, Apps
    <2>3. QED
      BY <1>0, <1>10, <2>2, AppFit DEF HandleClientConnected, Running
  <1>11. CASE HandleClientGone
    <2>1. \E a : Fit(a) /\ a.state = app.state /\ app' = reportLast(a)
      <3>1. CASE app.open > 0 /\ app' = reportLast([app EXCEPT !.open = @ - 1])
        <4>1. app.open - 1 \in 0 .. MaxClients /\ app.open - 1 + app.closing <= MaxClients
          BY <1>0, <3>1, LifecycleConstants DEF Fit, Apps
        <4>2. Fit([app EXCEPT !.open = @ - 1]) /\ [app EXCEPT !.open = @ - 1].state = app.state
          BY <1>0, <4>1 DEF Fit, Apps
        <4>3. QED
          BY <3>1, <4>2
      <3>2. CASE app.closing > 0 /\ app' = reportLast([app EXCEPT !.closing = @ - 1])
        <4>1. app.closing - 1 \in 0 .. MaxClients /\ app.open + (app.closing - 1) <= MaxClients
          BY <1>0, <3>2, LifecycleConstants DEF Fit, Apps
        <4>2. Fit([app EXCEPT !.closing = @ - 1]) /\ [app EXCEPT !.closing = @ - 1].state = app.state
          BY <1>0, <4>1 DEF Fit, Apps
        <4>3. QED
          BY <3>2, <4>2
      <3>3. QED
        BY <1>11, <3>1, <3>2 DEF HandleClientGone
    <2>2. Fit(app') /\ app'.state = app.state
      BY <2>1, PostFit DEF reportLast
    <2>3. QED
      BY <1>0, <1>11, <2>2, AppFit DEF HandleClientGone, Running
  <1>12. CASE HandleForceReconnect
    <2>1. app.state = Started /\ Fit(disconnect(app)) /\ disconnect(app).state = Started
      BY <1>0, <1>12, DisconnectFit DEF HandleForceReconnect, Fit
    <2>2. QED
      BY <1>0, <1>12, <2>1, AppFit DEF HandleForceReconnect, Running
  <1>13. CASE HandleReloadConfig
    <2>1. PICK n \in 1 .. app.open : app' = [app EXCEPT !.open = @ - n, !.closing = @ + n]
      BY <1>13 DEF HandleReloadConfig
    <2>2. /\ app.open - n \in 0 .. MaxClients /\ app.closing + n \in 0 .. MaxClients
          /\ (app.open - n) + (app.closing + n) <= MaxClients
      BY <1>0, LifecycleConstants DEF Fit, Apps
    <2>3. app' \in Apps /\ app'.open = app.open - n /\ app'.closing = app.closing + n
      BY <1>0, <2>1, <2>2 DEF Apps
    <2>4. Fit(app') /\ app'.state = app.state
      BY <1>0, <2>1, <2>2, <2>3 DEF Fit, Apps
    <2>5. QED
      BY <1>0, <1>13, <2>4, AppFit DEF HandleReloadConfig, Running
  <1>14. CASE UNCHANGED vars
    BY <1>14 DEF vars, LifecycleInv, TypeOK, Fit, Apps
  <1>15. QED
    BY <1>1, <1>2, <1>3, <1>4, <1>5, <1>6, <1>7, <1>8, <1>9, <1>10, <1>11, <1>12, <1>13, <1>14
       DEF Next, Ended

(***************************************************************************)
(* StateMatches: in every run in which no reset and no resume is handled   *)
(* by the event loop of a closeServer, the retry timer, the server and the *)
(* screen are there exactly in the states of ServerApp that have them, no  *)
(* assertion fails, and an orderly exit leaves nothing behind, whatever    *)
(* fails, closes, suspends or exits, suspensions within a close included.  *)
(***************************************************************************)
THEOREM StateAlwaysMatches == Spec /\ [][~StartsWithin]_vars => []StateMatches
  <1>1. LifecycleInv => StateMatches
    BY DEF LifecycleInv, StateMatches, TimerMatchesState, PartsMatchState, AssertsHold, ExitClean, Fit
  <1>2. LifecycleInv /\ [Next]_vars /\ [~StartsWithin]_vars => LifecycleInv'
    BY LifecycleNext
  <1>3. QED
    BY <1>1, <1>2, LifecycleInit, PTL DEF Spec
=============================================================================
