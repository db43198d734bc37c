------------------------------ MODULE EventLoop ------------------------------
(***************************************************************************)
(* EventQueue and SimpleEventQueueBuffer: the queue every part of the      *)
(* program talks through.  Threads post events; the main thread takes them *)
(* one at a time, looks up the handler of their target and runs it, and    *)
(* fires timers when no event is waiting.  An event is stored in m_events  *)
(* under an id and the buffer carries the id.  Events posted before the    *)
(* loop runs are kept in m_pending.                                        *)
(*                                                                         *)
(* The critical sections of mutex_ and of the buffer's queue_mutex_ are    *)
(* the atomic steps; is_ready_ and m_pending are used without a lock, so   *)
(* the test and the push of add_event are two steps of a thread.  While a  *)
(* handler runs, or before the loop, the main thread may post, make and    *)
(* delete timers and targets, and replace the buffer (the screens do); an  *)
(* event it delivers immediately runs another handler within the first,    *)
(* which adds nothing to what one handler may do.                          *)
(***************************************************************************)
EXTENDS Integers, Sequences, SequencesExt, FiniteSets, Functions

CONSTANTS
  Threads,    \* the other threads that post events
  Early,      \* those of them that do so before the loop has begun
  Main,       \* the main thread, as a sender
  Targets,    \* addresses of event targets
  QUIT,       \* the target of the event that ends the loop
  Timers,     \* addresses of timers
  Duration,   \* the duration of each timer
  OneShot,    \* the timers that fire once
  MaxPosts,   \* how many events each sender posts
  MaxLives,   \* objects that live at one address in turn
  MaxClock,   \* how long the loop may go without looking at the timers
  NoEvent     \* no event is being handled

Senders == Threads \cup {Main}

ASSUME LoopAssumption ==
  /\ Early \subseteq Threads /\ Main \notin Threads /\ QUIT \notin Targets
  /\ MaxPosts \in [Senders -> Nat] /\ MaxLives \in Nat /\ MaxClock \in Nat
  /\ Duration \in [Timers -> 1..MaxClock] /\ OneShot \subseteq Timers

\* An event names its target by address, whoever lives there when it is handled.
Events == [from : Senders, no : UNION {1..MaxPosts[s] : s \in Senders},
           target : Targets \cup {QUIT}]
IsQuit(e) == e \in Events /\ e.target = QUIT
TimerEvents == [timer : Timers, count : Nat, age : Nat]

\* Not being in the middle of an event is not an event.
ASSUME EventAssumption == NoEvent \notin Events \cup TimerEvents

VARIABLES
  is_ready_,      \* loop() has begun
  m_pending,      \* events posted before that
  m_events,       \* the stored events by id
  m_oldEventIDs,  \* ids to use again, the last first
  m_queue,        \* the buffer: ids in the order they were added
  main,           \* what the main thread is doing
  dataID,         \* the id it took from the buffer, 0 when it has none in hand
  event,          \* the event it handles
  thread,         \* what each thread is about to do with which event
  posts,          \* how many events each sender posted
  m_timerQueue,   \* the running timers; age, the time since each was started, is for the properties
  m_timers,       \* the timers that exist
  m_time,         \* the clock since the timers were last counted down
  object,         \* which object lives at an address, 0 for none
  lives,          \* how many did so far
  m_handlers      \* whose handler is registered for an address

qvars == <<m_events, m_oldEventIDs, m_queue>>
tvars == <<m_timerQueue, m_timers, m_time>>
ovars == <<object, lives, m_handlers>>
vars == <<is_ready_, m_pending, qvars, main, dataID, event, thread, posts, tvars, ovars>>

TimerType == [time : Int, age : Nat]
ThreadType == [at : {"idle"}] \cup [at : {"pending", "buffer"}, event : Events]

Put(f, x, v) == [y \in DOMAIN f \cup {x} |-> IF y = x THEN v ELSE f[y]]
Drop(f, x) == [y \in DOMAIN f \ {x} |-> f[y]]

\* The queue, its timers and the threads have their shape (EventQueue.h).
TypeOK ==
  /\ is_ready_ \in BOOLEAN
  /\ m_pending \in Seq(Events)
  /\ DOMAIN m_events \subseteq Nat /\ Range(m_events) \subseteq Events
  /\ m_oldEventIDs \in Seq(Nat) /\ m_queue \in Seq(Nat)
  /\ main \in {"setup", "drain", "get", "wait", "take", "dispatch", "handler", "done"}
  /\ dataID \in Nat
  /\ event \in Events \cup TimerEvents \cup {NoEvent}
  /\ thread \in [Threads -> ThreadType]
  /\ posts \in [Senders -> Nat] /\ \A s \in Senders : posts[s] <= MaxPosts[s]
  /\ m_timers \subseteq Timers
  /\ DOMAIN m_timerQueue \subseteq m_timers /\ Range(m_timerQueue) \subseteq TimerType
  /\ m_time \in 0..MaxClock
  /\ object \in [Targets -> 0..MaxLives] /\ lives \in [Targets -> 0..MaxLives]
  /\ m_handlers \in [Targets -> 0..MaxLives]

----------------------------------------------------------------------------
(* The buffer and the stored events *)

nextID == IF m_oldEventIDs # <<>> THEN Last(m_oldEventIDs) ELSE Cardinality(DOMAIN m_events)

\* A mutant: an id that is used again stays on the list of free ones.
addEventToBufferKeepId(e) ==
  /\ m_events' = Put(m_events, nextID, e)
  /\ m_queue' = Append(m_queue, nextID)
  /\ UNCHANGED m_oldEventIDs

\* A mutant: the buffer is a stack.
addEventToBufferFront(e) ==
  /\ m_events' = Put(m_events, nextID, e)
  /\ m_oldEventIDs' = IF m_oldEventIDs # <<>> THEN Front(m_oldEventIDs) ELSE m_oldEventIDs
  /\ m_queue' = <<nextID>> \o m_queue

addEventToBuffer(e) ==
  /\ m_events' = Put(m_events, nextID, e)
  /\ m_oldEventIDs' = IF m_oldEventIDs # <<>> THEN Front(m_oldEventIDs) ELSE m_oldEventIDs
  /\ m_queue' = Append(m_queue, nextID)

----------------------------------------------------------------------------
(* The threads *)

NewEvent(s, x) == [from |-> s, no |-> posts[s] + 1, target |-> x]

\* What may be posted: an event for an object that exists, or the end.
Postable == {x \in Targets : object[x] # 0} \cup {QUIT}

\* add_event in another thread: is_ready_ is tested first.
AddEvent(t, x) ==
  /\ thread[t].at = "idle" /\ posts[t] < MaxPosts[t]
  /\ is_ready_ \/ t \in Early
  /\ thread' = [thread EXCEPT ![t] = [at |-> IF is_ready_ THEN "buffer" ELSE "pending",
                                      event |-> NewEvent(t, x)]]
  /\ posts' = [posts EXCEPT ![t] = @ + 1]
  /\ UNCHANGED <<is_ready_, m_pending, qvars, main, dataID, event, tvars, ovars>>

\* The push that the test chose.
Push(t) ==
  /\ thread[t].at # "idle"
  /\ thread' = [thread EXCEPT ![t] = [at |-> "idle"]]
  /\ \/ /\ thread[t].at = "pending"
        /\ m_pending' = Append(m_pending, thread[t].event)
        /\ UNCHANGED qvars
     \/ /\ thread[t].at = "buffer"
        /\ addEventToBuffer(thread[t].event)
        /\ UNCHANGED m_pending
  /\ UNCHANGED <<is_ready_, main, dataID, event, posts, tvars, ovars>>

----------------------------------------------------------------------------
(* What the program does in a handler, or before the loop *)

Free == main \in {"setup", "handler"}

Post(x) ==
  /\ Free /\ posts[Main] < MaxPosts[Main]
  /\ posts' = [posts EXCEPT ![Main] = @ + 1]
  /\ IF is_ready_
     THEN addEventToBuffer(NewEvent(Main, x)) /\ UNCHANGED m_pending
     ELSE m_pending' = Append(m_pending, NewEvent(Main, x)) /\ UNCHANGED qvars
  /\ UNCHANGED <<is_ready_, main, dataID, event, thread, tvars, ovars>>

\* A mutant: what is on the clock is not added.
newTimerBare(t) ==
  /\ Free /\ t \notin m_timers
  /\ m_timers' = m_timers \cup {t}
  /\ m_timerQueue' = Put(m_timerQueue, t, [time |-> Duration[t], age |-> 0])
  /\ UNCHANGED <<is_ready_, m_pending, qvars, main, dataID, event, thread, posts, m_time, ovars>>

\* newTimer and newOneShotTimer
newTimer(t) ==
  /\ Free /\ t \notin m_timers
  /\ m_timers' = m_timers \cup {t}
  /\ m_timerQueue' = Put(m_timerQueue, t, [time |-> Duration[t] + m_time, age |-> 0])
  /\ UNCHANGED <<is_ready_, m_pending, qvars, main, dataID, event, thread, posts, m_time, ovars>>

\* A mutant: a timer that was deleted stays in the queue.
deleteTimerQueued(t) ==
  /\ Free /\ t \in m_timers
  /\ m_timers' = m_timers \ {t}
  /\ UNCHANGED <<is_ready_, m_pending, qvars, main, dataID, event, thread, posts, m_timerQueue, m_time, ovars>>

deleteTimer(t) ==
  /\ Free /\ t \in m_timers
  /\ m_timers' = m_timers \ {t}
  /\ m_timerQueue' = Drop(m_timerQueue, t)
  /\ UNCHANGED <<is_ready_, m_pending, qvars, main, dataID, event, thread, posts, m_time, ovars>>

\* A target is made and its handler added; the address may have been used before.
addHandler(x) ==
  /\ Free /\ object[x] = 0 /\ lives[x] < MaxLives
  /\ lives' = [lives EXCEPT ![x] = @ + 1]
  /\ object' = [object EXCEPT ![x] = lives[x] + 1]
  /\ m_handlers' = [m_handlers EXCEPT ![x] = lives[x] + 1]
  /\ UNCHANGED <<is_ready_, m_pending, qvars, main, dataID, event, thread, posts, tvars>>

removeHandler(x) ==
  /\ Free /\ m_handlers[x] # 0
  /\ m_handlers' = [m_handlers EXCEPT ![x] = 0]
  /\ UNCHANGED <<is_ready_, m_pending, qvars, main, dataID, event, thread, posts, tvars, object, lives>>

\* A mutant: the handlers of a target outlive it.
destroyTargetOnly(x) ==
  /\ Free /\ object[x] # 0
  /\ object' = [object EXCEPT ![x] = 0]
  /\ UNCHANGED <<is_ready_, m_pending, qvars, main, dataID, event, thread, posts, tvars, lives, m_handlers>>

\* ~EventTarget removes the handlers of the object.
destroyTarget(x) ==
  /\ Free /\ object[x] # 0
  /\ object' = [object EXCEPT ![x] = 0]
  /\ m_handlers' = [m_handlers EXCEPT ![x] = 0]
  /\ UNCHANGED <<is_ready_, m_pending, qvars, main, dataID, event, thread, posts, tvars, lives>>

\* set_buffer: what is queued is discarded with the ids; m_pending is kept.
setBuffer ==
  /\ Free
  /\ m_events' = <<>> /\ m_oldEventIDs' = <<>> /\ m_queue' = <<>>
  /\ UNCHANGED <<is_ready_, m_pending, main, dataID, event, thread, posts, tvars, ovars>>

----------------------------------------------------------------------------
(* The loop *)

LoopReady ==
  /\ main = "setup"
  /\ is_ready_' = TRUE
  /\ main' = "drain"
  /\ UNCHANGED <<m_pending, qvars, dataID, event, thread, posts, tvars, ovars>>

\* One round of the loop that moves m_pending into the buffer, or its end.
DrainPending ==
  /\ main = "drain"
  /\ \/ /\ m_pending # <<>>
        /\ addEventToBuffer(Head(m_pending))
        /\ m_pending' = Tail(m_pending)
        /\ UNCHANGED main
     \/ /\ m_pending = <<>>
        /\ main' = "get"
        /\ UNCHANGED <<m_pending, qvars>>
  /\ UNCHANGED <<is_ready_, dataID, event, thread, posts, tvars, ovars>>

\* getEvent with an id in the buffer: the id is taken under the buffer's lock.
TakeId ==
  /\ main = "get" /\ m_queue # <<>>
  /\ dataID' = Head(m_queue)
  /\ m_queue' = Tail(m_queue)
  /\ main' = "take"
  /\ UNCHANGED <<is_ready_, m_pending, m_events, m_oldEventIDs, event, thread, posts, tvars, ovars>>

\* removeEvent, under mutex_
RemoveEvent ==
  /\ main = "take"
  /\ IF dataID \in DOMAIN m_events
     THEN /\ event' = m_events[dataID]
          /\ m_events' = Drop(m_events, dataID)
          /\ m_oldEventIDs' = Append(m_oldEventIDs, dataID)
     ELSE event' = NoEvent /\ UNCHANGED <<m_events, m_oldEventIDs>>
  /\ main' = "dispatch" /\ dataID' = 0
  /\ UNCHANGED <<is_ready_, m_pending, m_queue, thread, posts, tvars, ovars>>

\* The timers after the countdown of hasTimerExpired, and those of them that are next.
CountedDown == [t \in DOMAIN m_timerQueue |-> [m_timerQueue[t] EXCEPT !.time = @ - m_time]]
Tops(q) == {t \in DOMAIN q : \A u \in DOMAIN q : q[t].time <= q[u].time}

\* hasTimerExpired is true: the buffer is empty and the first timer is due.
TimerExpired(t) ==
  LET timer == CountedDown[t] IN
  /\ main = "get" /\ m_queue = <<>>
  /\ t \in Tops(CountedDown) /\ timer.time <= 0
  /\ event' = [timer |-> t, count |-> (Duration[t] - timer.time) \div Duration[t],
               age |-> timer.age]
  /\ m_timerQueue' = IF t \in OneShot
                     THEN Drop(CountedDown, t)
                     ELSE Put(CountedDown, t, [time |-> Duration[t], age |-> 0])
  /\ m_time' = 0
  /\ main' = "dispatch"
  /\ UNCHANGED <<is_ready_, m_pending, qvars, dataID, thread, posts, m_timers, ovars>>

\* It is false: with no timer the clock is left alone.  The thread waits.
NoTimerExpired ==
  /\ main = "get" /\ m_queue = <<>>
  /\ \A t \in DOMAIN m_timerQueue : CountedDown[t].time > 0
  /\ m_timerQueue' = CountedDown
  /\ m_time' = IF DOMAIN m_timerQueue = {} THEN m_time ELSE 0
  /\ main' = "wait"
  /\ UNCHANGED <<is_ready_, m_pending, qvars, dataID, event, thread, posts, m_timers, ovars>>

\* A mutant: only an event ends the wait.
WaitForEventOnly ==
  /\ main = "wait" /\ m_queue # <<>>
  /\ main' = "get"
  /\ UNCHANGED <<is_ready_, m_pending, qvars, dataID, event, thread, posts, tvars, ovars>>

\* waitForEvent returns for an event, or after the time until the next timer.
WaitForEvent ==
  /\ main = "wait"
  /\ m_queue # <<>> \/ \E t \in DOMAIN m_timerQueue : m_timerQueue[t].time <= m_time
  /\ main' = "get"
  /\ UNCHANGED <<is_ready_, m_pending, qvars, dataID, event, thread, posts, tvars, ovars>>

HasHandler == event \in TimerEvents \/ (event # NoEvent /\ m_handlers[event.target] # 0)

\* dispatchEvent, unless the event is the last.
DispatchEvent ==
  /\ main = "dispatch"
  /\ IF IsQuit(event)
     THEN main' = "done" /\ UNCHANGED event
     ELSE IF HasHandler
          THEN main' = "handler" /\ UNCHANGED event
          ELSE main' = "get" /\ event' = NoEvent
  /\ UNCHANGED <<is_ready_, m_pending, qvars, dataID, thread, posts, tvars, ovars>>

\* The handler returns.
Return ==
  /\ main = "handler"
  /\ main' = "get" /\ event' = NoEvent
  /\ UNCHANGED <<is_ready_, m_pending, qvars, dataID, thread, posts, tvars, ovars>>

Tick ==
  /\ m_time < MaxClock
  /\ m_time' = m_time + 1
  /\ m_timerQueue' = [t \in DOMAIN m_timerQueue |-> [m_timerQueue[t] EXCEPT !.age = @ + 1]]
  /\ UNCHANGED <<is_ready_, m_pending, qvars, main, dataID, event, thread, posts, m_timers, ovars>>

Init ==
  /\ is_ready_ = FALSE /\ m_pending = <<>>
  /\ m_events = <<>> /\ m_oldEventIDs = <<>> /\ m_queue = <<>>
  /\ main = "setup" /\ dataID = 0 /\ event = NoEvent
  /\ thread = [t \in Threads |-> [at |-> "idle"]]
  /\ posts = [s \in Senders |-> 0]
  /\ m_timerQueue = <<>> /\ m_timers = {} /\ m_time = 0
  /\ object = [x \in Targets |-> 0] /\ lives = [x \in Targets |-> 0]
  /\ m_handlers = [x \in Targets |-> 0]

Loop ==
  \/ LoopReady \/ DrainPending \/ TakeId \/ RemoveEvent
  \/ \E t \in DOMAIN m_timerQueue : TimerExpired(t)
  \/ NoTimerExpired \/ WaitForEvent \/ DispatchEvent \/ Return

Next ==
  \/ Loop \/ Tick \/ setBuffer
  \/ \E t \in Threads : Push(t) \/ \E x \in Postable : AddEvent(t, x)
  \/ \E x \in Postable : Post(x)
  \/ \E t \in Timers : newTimer(t) \/ deleteTimer(t)
  \/ \E x \in Targets : addHandler(x) \/ removeHandler(x) \/ destroyTarget(x)

(***************************************************************************)
(* The main thread and the threads in the middle of a post go on, and time *)
(* passes; nobody has to post.                                             *)
(***************************************************************************)
Spec ==
  /\ Init /\ [][Next]_vars
  /\ WF_vars(Loop) /\ WF_vars(Tick)
  /\ \A t \in Threads : WF_vars(Push(t))

----------------------------------------------------------------------------
(* Properties *)

InHand == IF main = "take" THEN <<dataID>> ELSE <<>>
Ids == InHand \o m_queue

(***************************************************************************)
(* An id stands for one event: the ids in the buffer, with the one the     *)
(* main thread has taken out, are the ids of the stored events, none       *)
(* twice, and none of them is on the list of ids to use again.  Ids are    *)
(* given out by save_event, in several threads, and freed by removeEvent,  *)
(* and a new one is the number of stored events.                           *)
(***************************************************************************)
IdsConsistent ==
  /\ IsInjective(Ids) /\ IsInjective(m_oldEventIDs)
  /\ Range(Ids) = DOMAIN m_events
  /\ Range(Ids) \cap Range(m_oldEventIDs) = {}
  /\ Range(Ids) \cup Range(m_oldEventIDs)
       = 0..(Len(Ids) + Len(m_oldEventIDs) - 1)

(***************************************************************************)
(* The queue keeps what EventChannel promises, in particular: an event is  *)
(* lost only with the buffer it was in, none is handed over twice, and the *)
(* events of a sender keep their order although ids are reused and the     *)
(* first ones went through m_pending.  It holds when no other thread posts *)
(* before the loop has begun (Early is empty).                             *)
(***************************************************************************)
Undelivered == [i \in DOMAIN Ids |-> m_events[Ids[i]]] \o m_pending
Channel == INSTANCE EventChannel WITH
  posted <- [s \in Senders |-> SelectSeq(Undelivered, LAMBDA e : e.from = s)],
  handling <- IF event \in Events THEN event ELSE NoEvent
KeepsOrder == Channel!Spec

(***************************************************************************)
(* No timer fires early, whatever was on the clock when it was started and *)
(* whoever was waited for in between, and the event of a timer counts the  *)
(* periods that passed since the last one (hasTimerExpired, fillEvent).    *)
(***************************************************************************)
TimerPunctual ==
  event \in TimerEvents =>
    event.age >= Duration[event.timer] /\ event.count = event.age \div Duration[event.timer]

(***************************************************************************)
(* A timer that is due fires or is deleted, once the senders fall silent,  *)
(* or the loop ends: the wait for an event ends in time for the first      *)
(* timer (getNextTimerTimeout).                                            *)
(***************************************************************************)
Due(t) == t \in DOMAIN m_timerQueue /\ m_timerQueue[t].age >= Duration[t]
DueFires ==
  \A t \in Timers : Due(t) ~> \/ event \in TimerEvents /\ event.timer = t
                              \/ t \notin m_timers \/ main = "done"

(***************************************************************************)
(* A handler in the table belongs to the object that lives at its address, *)
(* so none runs for an object that is gone, although events for it are     *)
(* still queued (~EventTarget).                                            *)
(***************************************************************************)
HandlersLive == \A x \in Targets : m_handlers[x] \in {0, object[x]}

(* Buffer, event table and free ids describe one queue, and handlers belong to
   objects that live (see the parts).  About EventQueue::saveEvent and removeEvent. *)
QueueInv == TypeOK /\ IdsConsistent /\ HandlersLive

(***************************************************************************)
(* No event is where the loop will not look: once m_pending has been moved *)
(* it stays empty.  Part of the invariant behind KeepsOrder when Early is  *)
(* empty; a thread whose test of is_ready_ was early breaks it.            *)
(***************************************************************************)
NothingStranded == main \notin {"setup", "drain"} => m_pending = <<>>
=============================================================================
