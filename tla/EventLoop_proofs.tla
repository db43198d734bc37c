-------------------------- MODULE EventLoop_proofs --------------------------
(***************************************************************************)
(* The ids of the event queue, its handlers and its timers, for any number *)
(* of threads, targets, timers and events.                                 *)
(***************************************************************************)
EXTENDS EventLoop, Filtering_proofs

(***************************************************************************)
(* The ids `q' in use, in the order of the buffer, the free ids `o' and    *)
(* the ids D with a stored event: what IdsConsistent says of the state,    *)
(* for any three.                                                          *)
(***************************************************************************)
Consistent(q, o, D) ==
    /\ q \in Seq(Nat) /\ o \in Seq(Nat)
    /\ IsInjective(q) /\ IsInjective(o)
    /\ Range(q) = D
    /\ Range(q) \cap Range(o) = {}
    /\ Range(q) \cup Range(o) = 0 .. (Len(q) + Len(o) - 1)

-----------------------------------------------------------------------------
(* Sequences without repetition *)

LEMMA AppendNew ==
    ASSUME NEW q \in Seq(Nat), IsInjective(q), NEW d \in Nat, d \notin Range(q)
    PROVE  /\ Append(q, d) \in Seq(Nat) /\ IsInjective(Append(q, d))
           /\ Range(Append(q, d)) = Range(q) \cup {d}
           /\ Len(Append(q, d)) = Len(q) + 1 /\ Len(q) \in Nat
  <1>1. /\ Append(q, d) \in Seq(Nat) /\ Len(Append(q, d)) = Len(q) + 1 /\ Len(q) \in Nat
        /\ \A i \in 1 .. Len(q) : Append(q, d)[i] = q[i]
        /\ Append(q, d)[Len(q) + 1] = d
        /\ DOMAIN q = 1 .. Len(q) /\ DOMAIN Append(q, d) = 1 .. (Len(q) + 1)
    BY AppendProperties, LenProperties
  <1>2. Range(Append(q, d)) = Range(q) \cup {d}
    BY <1>1 DEF Range
  <1>3. IsInjective(Append(q, d))
    BY <1>1 DEF IsInjective, Range
  <1>4. QED
    BY <1>1, <1>2, <1>3

\* (The provers do not compare a length and a number by themselves.)
LEMMA BelowLast ==
    ASSUME NEW n \in Nat
    PROVE  \A i \in 1 .. n : i # n <=> i \in 1 .. (n - 1)
  OBVIOUS

\* Without its last or without its first element.
LEMMA FrontOfInjective ==
    ASSUME NEW o \in Seq(Nat), IsInjective(o), o # <<>>
    PROVE  /\ Front(o) \in Seq(Nat) /\ IsInjective(Front(o))
           /\ Last(o) \in Range(o) /\ Last(o) \in Nat
           /\ Range(Front(o)) = Range(o) \ {Last(o)}
           /\ Len(Front(o)) = Len(o) - 1 /\ Len(o) \in Nat
  <1>1. Len(o) \in Nat /\ Len(o) # 0 /\ DOMAIN o = 1 .. Len(o)
    BY EmptySeq, LenProperties
  <1>0. \A i \in 1 .. Len(o) : o[i] \in Nat
    BY ElementOfSeq
  <1>2. /\ Front(o) \in Seq(Nat) /\ Len(Front(o)) = Len(o) - 1
        /\ \A i \in 1 .. (Len(o) - 1) : Front(o)[i] = o[i]
    <2> DEFINE n == Len(o) - 1
    <2>1. n \in Int /\ n \in Nat /\ \A i \in 1 .. n : o[i] \in Nat
      BY <1>0, <1>1
    <2>2. /\ SubSeq(o, 1, n) \in Seq(Nat)
          /\ Len(SubSeq(o, 1, n)) = IF 1 <= n THEN n - 1 + 1 ELSE 0
          /\ \A i \in 1 .. n - 1 + 1 : SubSeq(o, 1, n)[i] = o[1 + i - 1]
      <3> HIDE DEF n
      <3> QED BY <2>1, SubSeqProperties
    <2>3. QED
      BY <2>1, <2>2, <1>1 DEF Front
  <1>3. DOMAIN Front(o) = 1 .. (Len(o) - 1)
    BY <1>2, LenProperties
  <1>4. Last(o) \in Range(o) /\ Last(o) \in Nat
    BY <1>0, <1>1 DEF Last, Range
  <1>5. IsInjective(Front(o))
    <2> SUFFICES ASSUME NEW a \in 1 .. (Len(o) - 1), NEW b \in 1 .. (Len(o) - 1),
                        Front(o)[a] = Front(o)[b]
                 PROVE  a = b
      BY <1>3 DEF IsInjective
    <2>1. a \in DOMAIN o /\ b \in DOMAIN o /\ o[a] = o[b]
      BY <1>1, <1>2
    <2>2. QED
      BY <2>1 DEF IsInjective
  <1>6. Range(Front(o)) = Range(o) \ {Last(o)}
    <2>1. ASSUME NEW i \in 1 .. (Len(o) - 1)
          PROVE  Front(o)[i] \in Range(o) /\ Front(o)[i] # Last(o)
      <3>1. Front(o)[i] = o[i]
        BY <1>2
      <3>2. i \in DOMAIN o /\ Len(o) \in DOMAIN o /\ i # Len(o)
        <4>1. i \in 1 .. Len(o) /\ Len(o) \in 1 .. Len(o)
          BY <1>1
        <4>2. i # Len(o)
          BY <1>1, <4>1, BelowLast
        <4>3. QED
          BY <1>1, <4>1, <4>2
      <3>3. QED
        BY <3>1, <3>2 DEF IsInjective, Range, Last
    <2>2. ASSUME NEW i \in 1 .. Len(o), o[i] # Last(o) PROVE o[i] \in Range(Front(o))
      <3>1. i # Len(o)
        BY <2>2 DEF Last
      <3>2. i \in 1 .. (Len(o) - 1)
        BY <1>1, <3>1, BelowLast
      <3>3. i \in DOMAIN Front(o) /\ Front(o)[i] = o[i]
        BY <1>2, <1>3, <3>2
      <3>4. QED
        BY <3>3 DEF Range
    <2>3. QED
      BY <1>1, <1>3, <2>1, <2>2 DEF Range
  <1>7. QED
    BY <1>1, <1>2, <1>4, <1>5, <1>6

LEMMA TailOfInjective ==
    ASSUME NEW q \in Seq(Nat), IsInjective(q), q # <<>>
    PROVE  /\ Tail(q) \in Seq(Nat) /\ IsInjective(Tail(q))
           /\ Head(q) \in Range(q) /\ Head(q) \in Nat
           /\ Range(Tail(q)) = Range(q) \ {Head(q)}
           /\ Len(Tail(q)) = Len(q) - 1 /\ Len(q) \in Nat
  <1>1. Len(q) \in Nat /\ Len(q) # 0 /\ DOMAIN q = 1 .. Len(q) /\ Head(q) = q[1]
    BY EmptySeq, LenProperties
  <1>2. /\ Tail(q) \in Seq(Nat) /\ Len(Tail(q)) = Len(q) - 1 /\ Head(q) \in Nat
        /\ \A i \in 1 .. (Len(q) - 1) : Tail(q)[i] = q[i + 1]
    BY HeadTailProperties
  <1>3. DOMAIN Tail(q) = 1 .. (Len(q) - 1)
    BY <1>2, LenProperties
  <1>4. Head(q) \in Range(q)
    BY <1>1 DEF Range
  <1>5. IsInjective(Tail(q))
    <2> SUFFICES ASSUME NEW a \in 1 .. (Len(q) - 1), NEW b \in 1 .. (Len(q) - 1),
                        Tail(q)[a] = Tail(q)[b]
                 PROVE  a = b
      BY <1>3 DEF IsInjective
    <2>1. a + 1 \in DOMAIN q /\ b + 1 \in DOMAIN q /\ q[a + 1] = q[b + 1]
      BY <1>1, <1>2
    <2>2. QED
      BY <1>1, <2>1 DEF IsInjective
  <1>6. Range(Tail(q)) = Range(q) \ {Head(q)}
    <2>1. ASSUME NEW i \in 1 .. (Len(q) - 1)
          PROVE  Tail(q)[i] \in Range(q) /\ Tail(q)[i] # Head(q)
      <3>1. i + 1 \in DOMAIN q /\ 1 \in DOMAIN q /\ i + 1 # 1 /\ Tail(q)[i] = q[i + 1]
        BY <1>1, <1>2
      <3>2. QED
        BY <1>1, <3>1 DEF IsInjective, Range
    <2>2. ASSUME NEW i \in 1 .. Len(q), q[i] # Head(q) PROVE q[i] \in Range(Tail(q))
      <3>1. i # 1
        BY <1>1, <2>2
      <3>2. i - 1 \in DOMAIN Tail(q) /\ Tail(q)[i - 1] = q[i]
        BY <1>1, <1>2, <1>3, <3>1
      <3>3. QED
        BY <3>2 DEF Range
    <2>3. QED
      BY <1>1, <1>3, <2>1, <2>2 DEF Range
  <1>7. QED
    BY <1>1, <1>2, <1>4, <1>5, <1>6

-----------------------------------------------------------------------------
(* What saveEvent, removeEvent and a new buffer do to the ids *)

LEMMA NoIds == Consistent(<<>>, <<>>, {})
  <1>1. <<>> \in Seq(Nat) /\ Len(<<>>) = 0 /\ DOMAIN <<>> = {}
    BY EmptySeq
  <1>2. Range(<<>>) = {} /\ IsInjective(<<>>)
    BY <1>1 DEF Range, IsInjective
  <1>3. 0 .. (0 + 0 - 1) = {}
    OBVIOUS
  <1>4. QED
    BY <1>1, <1>2, <1>3 DEF Consistent

\* An id that is used again, or the number of stored events when none is free.
LEMMA IdAdded ==
    ASSUME NEW q, NEW o, NEW D, Consistent(q, o, D),
           NEW d, d = IF o # <<>> THEN Last(o) ELSE Cardinality(D)
    PROVE  /\ d \in Nat /\ d \notin D
           /\ Consistent(Append(q, d), IF o # <<>> THEN Front(o) ELSE o, D \cup {d})
  <1>0. /\ q \in Seq(Nat) /\ o \in Seq(Nat) /\ IsInjective(q) /\ IsInjective(o)
        /\ Range(q) = D /\ Range(q) \cap Range(o) = {}
        /\ Range(q) \cup Range(o) = 0 .. (Len(q) + Len(o) - 1)
        /\ Len(q) \in Nat /\ Len(o) \in Nat
    BY LenProperties DEF Consistent
  <1>1. CASE o # <<>>
    <2>1. /\ d = Last(o) /\ d \in Nat /\ d \in Range(o) /\ d \notin D
          /\ Front(o) \in Seq(Nat) /\ IsInjective(Front(o))
          /\ Range(Front(o)) = Range(o) \ {d} /\ Len(Front(o)) = Len(o) - 1
      BY <1>0, <1>1, FrontOfInjective
    <2>2. /\ Append(q, d) \in Seq(Nat) /\ IsInjective(Append(q, d))
          /\ Range(Append(q, d)) = Range(q) \cup {d} /\ Len(Append(q, d)) = Len(q) + 1
      BY <1>0, <2>1, AppendNew
    <2>3. Len(q) + 1 + (Len(o) - 1) - 1 = Len(q) + Len(o) - 1
      BY <1>0
    <2>4. Consistent(Append(q, d), Front(o), D \cup {d})
      BY <1>0, <2>1, <2>2, <2>3 DEF Consistent
    <2>5. QED
      BY <1>1, <2>1, <2>4
  <1>2. CASE o = <<>>
    <2>1. Range(o) = {} /\ Len(o) = 0
      BY <1>2, EmptySeq DEF Range
    <2>2. D = 0 .. (Len(q) - 1)
      BY <1>0, <2>1
    <2>3. Cardinality(D) = Len(q)
      <3> DEFINE n == Len(q) - 1
      <3>1. 0 \in Int /\ n \in Int
        BY <1>0
      <3>2. Cardinality(0 .. n) = IF 0 > n THEN 0 ELSE n - 0 + 1
        <4> HIDE DEF n
        <4> QED BY <3>1, FS_Interval
      <3>3. QED
        BY <1>0, <2>2, <3>2
    <2>4. d = Len(q) /\ d \in Nat
      BY <1>0, <1>2, <2>3
    <2>5. d \notin D
      BY <1>0, <2>2, <2>4
    <2>6. /\ Append(q, d) \in Seq(Nat) /\ IsInjective(Append(q, d))
          /\ Range(Append(q, d)) = Range(q) \cup {d} /\ Len(Append(q, d)) = Len(q) + 1
      BY <1>0, <2>4, <2>5, AppendNew
    <2>7. D \cup {d} = 0 .. (Len(q) + 1 + 0 - 1)
      BY <1>0, <2>2, <2>4
    <2>8. Consistent(Append(q, d), o, D \cup {d})
      BY <1>0, <2>1, <2>6, <2>7 DEF Consistent
    <2>9. QED
      BY <1>2, <2>4, <2>5, <2>8
  <1>3. QED
    BY <1>1, <1>2

\* The id at the head goes to the free ones with its event.
LEMMA IdTaken ==
    ASSUME NEW q, NEW o, NEW D, Consistent(q, o, D), q # <<>>
    PROVE  Head(q) \in D /\ Consistent(Tail(q), Append(o, Head(q)), D \ {Head(q)})
  <1> DEFINE d == Head(q)
  <1>0. /\ q \in Seq(Nat) /\ o \in Seq(Nat) /\ IsInjective(q) /\ IsInjective(o)
        /\ Range(q) = D /\ Range(q) \cap Range(o) = {}
        /\ Range(q) \cup Range(o) = 0 .. (Len(q) + Len(o) - 1)
        /\ Len(q) \in Nat /\ Len(o) \in Nat
    BY LenProperties DEF Consistent
  <1>1. /\ Tail(q) \in Seq(Nat) /\ IsInjective(Tail(q)) /\ d \in Range(q) /\ d \in Nat
        /\ Range(Tail(q)) = Range(q) \ {d} /\ Len(Tail(q)) = Len(q) - 1
    BY <1>0, TailOfInjective
  <1> HIDE DEF d
  <1>2. d \notin Range(o)
    BY <1>0, <1>1
  <1>3. /\ Append(o, d) \in Seq(Nat) /\ IsInjective(Append(o, d))
        /\ Range(Append(o, d)) = Range(o) \cup {d} /\ Len(Append(o, d)) = Len(o) + 1
    BY <1>0, <1>1, <1>2, AppendNew
  <1>4. (Len(q) - 1) + (Len(o) + 1) - 1 = Len(q) + Len(o) - 1
    BY <1>0
  <1>5. Consistent(Tail(q), Append(o, d), D \ {d})
    BY <1>0, <1>1, <1>2, <1>3, <1>4 DEF Consistent
  <1>6. QED
    BY <1>0, <1>1, <1>5 DEF d

-----------------------------------------------------------------------------
(* The buffer *)

LEMMA ConsistentIds ==
    ASSUME TypeOK
    PROVE  /\ Ids \in Seq(Nat)
           /\ IdsConsistent <=> Consistent(Ids, m_oldEventIDs, DOMAIN m_events)
           /\ main # "take" => Ids = m_queue
           /\ main = "take" => Ids # <<>> /\ Head(Ids) = dataID /\ Tail(Ids) = m_queue
  <1>1. m_queue \in Seq(Nat) /\ m_oldEventIDs \in Seq(Nat) /\ dataID \in Nat
    BY DEF TypeOK
  <1>2. main # "take" => Ids = m_queue
    BY <1>1, ConcatEmptySeq DEF Ids, InHand
  <1>3. main = "take" => Ids # <<>> /\ Head(Ids) = dataID /\ Tail(Ids) = m_queue
    BY <1>1 DEF Ids, InHand
  <1>4. InHand \in Seq(Nat)
    BY <1>1 DEF InHand
  <1>5. Ids \in Seq(Nat)
    BY <1>1, <1>4, ConcatProperties DEF Ids
  <1>6. IdsConsistent <=> Consistent(Ids, m_oldEventIDs, DOMAIN m_events)
    BY <1>1, <1>5 DEF IdsConsistent, Consistent
  <1>7. QED
    BY <1>2, <1>3, <1>5, <1>6

LEMMA ConcatAppend ==
    ASSUME NEW A, NEW s \in Seq(A), NEW t \in Seq(A), NEW e \in A
    PROVE  s \o Append(t, e) = Append(s \o t, e)
  <1>1. <<e>> \in Seq(A) /\ s \o t \in Seq(A)
    BY ConcatProperties
  <1>2. Append(t, e) = t \o <<e>> /\ Append(s \o t, e) = (s \o t) \o <<e>>
    BY <1>1, AppendIsConcat
  <1>3. QED
    BY <1>1, <1>2, ConcatAssociative

\* What save_event changes, wherever an event comes from.
LEMMA EventAdded ==
    ASSUME TypeOK, IdsConsistent, NEW e \in Events, addEventToBuffer(e),
           UNCHANGED <<main, dataID>>
    PROVE  /\ DOMAIN m_events' \subseteq Nat /\ Range(m_events') \subseteq Events
           /\ m_oldEventIDs' \in Seq(Nat) /\ m_queue' \in Seq(Nat)
           /\ Ids' = Append(Ids, nextID) /\ nextID \in Nat /\ nextID \notin DOMAIN m_events
           /\ Consistent(Ids', m_oldEventIDs', DOMAIN m_events')
  <1> DEFINE o == m_oldEventIDs
             D == DOMAIN m_events
             d == nextID
  <1>1. Consistent(Ids, o, D) /\ d = IF o # <<>> THEN Last(o) ELSE Cardinality(D)
    BY ConsistentIds DEF nextID
  <1>2. /\ d \in Nat /\ d \notin D
        /\ Consistent(Append(Ids, d), IF o # <<>> THEN Front(o) ELSE o, D \cup {d})
    <2> HIDE DEF o, D, d
    <2> QED BY <1>1, IdAdded
  <1>3. /\ m_events' = Put(m_events, d, e)
        /\ m_oldEventIDs' = IF o # <<>> THEN Front(o) ELSE o
        /\ m_queue' = Append(m_queue, d)
    BY DEF addEventToBuffer
  <1>4. DOMAIN m_events' = D \cup {d} /\ Range(m_events') \subseteq Range(m_events) \cup {e}
    BY <1>3 DEF Put, Range
  <1>5. InHand \in Seq(Nat) /\ m_queue \in Seq(Nat) /\ InHand' = InHand
    BY DEF TypeOK, InHand
  <1>6. Ids' = Append(Ids, d)
    BY <1>2, <1>3, <1>5, ConcatAppend DEF Ids
  <1>7. Consistent(Ids', m_oldEventIDs', DOMAIN m_events')
    BY <1>2, <1>3, <1>4, <1>6
  <1>8. m_queue' \in Seq(Nat) /\ m_oldEventIDs' \in Seq(Nat)
    BY <1>2, <1>3, <1>5, AppendProperties DEF Consistent
  <1>9. QED
    BY <1>2, <1>4, <1>6, <1>7, <1>8 DEF TypeOK

\* Posted events have their number within the sender's bound.
LEMMA NewEventType ==
    ASSUME TypeOK, NEW s \in Senders, posts[s] < MaxPosts[s], NEW x \in Targets \cup {QUIT}
    PROVE  /\ NewEvent(s, x) \in Events /\ NewEvent(s, x).from = s
           /\ posts' = [posts EXCEPT ![s] = @ + 1] =>
                 posts' \in [Senders -> Nat] /\ \A u \in Senders : posts'[u] <= MaxPosts[u]
  <1>1. /\ posts \in [Senders -> Nat] /\ \A u \in Senders : posts[u] <= MaxPosts[u]
        /\ MaxPosts \in [Senders -> Nat]
    BY LoopAssumption DEF TypeOK
  <1>2. posts[s] + 1 \in 1 .. MaxPosts[s] /\ posts[s] + 1 \in Nat /\ posts[s] + 1 <= MaxPosts[s]
    BY <1>1
  <1>3. NewEvent(s, x) \in Events /\ NewEvent(s, x).from = s
    BY <1>2 DEF NewEvent, Events
  <1>4. ASSUME posts' = [posts EXCEPT ![s] = @ + 1]
        PROVE  posts' \in [Senders -> Nat] /\ \A u \in Senders : posts'[u] <= MaxPosts[u]
    <2>1. posts' \in [Senders -> Nat]
      BY <1>1, <1>2, <1>4
    <2>2. ASSUME NEW u \in Senders PROVE posts'[u] = IF u = s THEN posts[s] + 1 ELSE posts[u]
      BY <1>1, <1>4
    <2>3. QED
      BY <1>1, <1>2, <2>1, <2>2
  <1>5. QED
    BY <1>3, <1>4

LEMMA CountedDownType ==
    ASSUME TypeOK
    PROVE  /\ DOMAIN CountedDown = DOMAIN m_timerQueue
           /\ Range(CountedDown) \subseteq TimerType
           /\ \A t \in DOMAIN m_timerQueue :
                 /\ m_timerQueue[t] \in TimerType
                 /\ CountedDown[t].time = m_timerQueue[t].time - m_time
                 /\ CountedDown[t].age = m_timerQueue[t].age
  <1>1. DOMAIN CountedDown = DOMAIN m_timerQueue
    BY DEF CountedDown
  <1>2. ASSUME NEW t \in DOMAIN m_timerQueue
        PROVE  /\ m_timerQueue[t] \in TimerType /\ CountedDown[t] \in TimerType
               /\ CountedDown[t].time = m_timerQueue[t].time - m_time
               /\ CountedDown[t].age = m_timerQueue[t].age
    <2>1. m_timerQueue[t] \in TimerType /\ m_time \in Int
      BY LoopAssumption DEF TypeOK, Range
    <2>2. QED
      BY <2>1 DEF CountedDown, TimerType
  <1>3. QED
    BY <1>1, <1>2 DEF Range

(***************************************************************************)
(* Time on the clock, time left and time since the start of a timer add up *)
(* to its duration.  This makes hasTimerExpired right.                     *)
(***************************************************************************)
TimersCounted ==
    \A t \in DOMAIN m_timerQueue :
        m_timerQueue[t].time - m_time + m_timerQueue[t].age = Duration[t]

LEMMA PeriodsType ==
    ASSUME NEW a \in Nat, NEW d \in Nat, d > 0
    PROVE  a \div d \in Nat
  OBVIOUS

LEMMA ExpiryType ==
    ASSUME TypeOK, NEW t \in DOMAIN m_timerQueue, TimerExpired(t)
    PROVE  /\ event' \in TimerEvents
           /\ DOMAIN m_timerQueue' \subseteq m_timers
           /\ Range(m_timerQueue') \subseteq TimerType
           /\ m_time' \in 0 .. MaxClock
  <1> DEFINE timer == CountedDown[t]
  <1>1. /\ t \in Timers /\ Duration[t] \in Nat /\ Duration[t] > 0
        /\ timer.time \in Int /\ timer.age \in Nat /\ timer.time <= 0
    BY CountedDownType, LoopAssumption DEF TypeOK, TimerType, TimerExpired
  <1>2. event' = [timer |-> t, count |-> (Duration[t] - timer.time) \div Duration[t],
                  age |-> timer.age]
    BY DEF TimerExpired
  <1> HIDE DEF timer
  <1>3. (Duration[t] - timer.time) \div Duration[t] \in Nat
    <2>1. Duration[t] - timer.time \in Nat
      BY <1>1
    <2>2. QED
      BY <1>1, <2>1, PeriodsType
  <1>4. event' \in TimerEvents
    BY <1>1, <1>2, <1>3 DEF TimerEvents
  <1>5. [time |-> Duration[t], age |-> 0] \in TimerType
    BY <1>1 DEF TimerType
  <1>6. DOMAIN m_timerQueue' \subseteq m_timers /\ Range(m_timerQueue') \subseteq TimerType
    <2>1. DOMAIN CountedDown \subseteq m_timers /\ Range(CountedDown) \subseteq TimerType
          /\ t \in DOMAIN CountedDown
      BY CountedDownType DEF TypeOK
    <2>2. CASE t \in OneShot
      <3>1. m_timerQueue' = Drop(CountedDown, t)
        BY <2>2 DEF TimerExpired
      <3>2. QED
        BY <2>1, <3>1 DEF Drop, Range
    <2>3. CASE t \notin OneShot
      <3>1. m_timerQueue' = Put(CountedDown, t, [time |-> Duration[t], age |-> 0])
        BY <2>3 DEF TimerExpired
      <3>2. QED
        BY <1>5, <2>1, <3>1 DEF Put, Range
    <2>4. QED
      BY <2>2, <2>3
  <1>7. QED
    BY <1>4, <1>6, LoopAssumption DEF TimerExpired

-----------------------------------------------------------------------------
LEMMA Initially == Init => QueueInv
  <1> SUFFICES ASSUME Init PROVE QueueInv
    OBVIOUS
  <1>1. TypeOK
    <2>1. <<>> \in Seq(Events) /\ <<>> \in Seq(Nat) /\ DOMAIN <<>> = {}
      BY EmptySeq
    <2>2. Range(<<>>) = {}
      BY <2>1 DEF Range
    <2>3. posts \in [Senders -> Nat] /\ \A s \in Senders : posts[s] <= MaxPosts[s]
      BY LoopAssumption DEF Init
    <2>4. thread \in [Threads -> ThreadType]
      BY DEF Init, ThreadType
    <2>5. /\ object \in [Targets -> 0 .. MaxLives] /\ lives \in [Targets -> 0 .. MaxLives]
          /\ m_handlers \in [Targets -> 0 .. MaxLives] /\ m_time \in 0 .. MaxClock
      BY LoopAssumption DEF Init
    <2>6. QED
      BY <2>1, <2>2, <2>3, <2>4, <2>5 DEF Init, TypeOK
  <1>2. IdsConsistent
    <2>1. Ids = <<>> /\ m_oldEventIDs = <<>> /\ DOMAIN m_events = {}
      BY <1>1, ConsistentIds, EmptySeq DEF Init
    <2>2. QED
      BY <1>1, <2>1, NoIds, ConsistentIds
  <1>3. HandlersLive
    BY DEF Init, HandlersLive
  <1>4. QED
    BY <1>1, <1>2, <1>3 DEF QueueInv

LEMMA Step == QueueInv /\ [Next]_vars => QueueInv'
  <1> SUFFICES ASSUME QueueInv, [Next]_vars PROVE QueueInv'
    OBVIOUS
  <1>0. /\ TypeOK /\ IdsConsistent /\ HandlersLive
        /\ Consistent(Ids, m_oldEventIDs, DOMAIN m_events)
    BY ConsistentIds DEF QueueInv
  <1>a. ASSUME TypeOK', Consistent(Ids', m_oldEventIDs', DOMAIN m_events'), HandlersLive'
        PROVE  QueueInv'
    <2>1. IdsConsistent'
      BY <1>a DEF IdsConsistent, Consistent
    <2>2. QED
      BY <1>a, <2>1 DEF QueueInv
  <1>b. ASSUME UNCHANGED <<m_events, m_oldEventIDs, Ids>>
        PROVE  Consistent(Ids', m_oldEventIDs', DOMAIN m_events')
    BY <1>0, <1>b
  <1>c. ASSUME UNCHANGED ovars PROVE HandlersLive'
    BY <1>0, <1>c DEF HandlersLive, ovars
  <1>1. CASE UNCHANGED vars
    <2>1. TypeOK'
      BY <1>0, <1>1 DEF TypeOK, vars, qvars, tvars, ovars
    <2>2. UNCHANGED <<m_events, m_oldEventIDs, Ids>> /\ UNCHANGED ovars
      BY <1>1 DEF vars, qvars, ovars, Ids, InHand
    <2>3. QED
      BY <2>1, <2>2, <1>a, <1>b, <1>c
  <1>2. CASE LoopReady
    <2>1. TypeOK'
      BY <1>0, <1>2 DEF LoopReady, TypeOK, qvars, tvars, ovars
    <2>2. UNCHANGED <<m_events, m_oldEventIDs, Ids>> /\ UNCHANGED ovars
      BY <1>2 DEF LoopReady, qvars, ovars, Ids, InHand
    <2>3. QED
      BY <2>1, <2>2, <1>a, <1>b, <1>c
  <1>3. CASE DrainPending
    <2>1. CASE m_pending # <<>> /\ addEventToBuffer(Head(m_pending)) /\ m_pending' = Tail(m_pending)
               /\ UNCHANGED main
      <3>1. /\ m_pending' \in Seq(Events) /\ Head(m_pending) \in Events
            /\ UNCHANGED <<main, dataID>>
        BY <1>0, <1>3, <2>1, HeadTailProperties DEF TypeOK, DrainPending
      <3>2. /\ DOMAIN m_events' \subseteq Nat /\ Range(m_events') \subseteq Events
            /\ m_oldEventIDs' \in Seq(Nat) /\ m_queue' \in Seq(Nat)
            /\ Consistent(Ids', m_oldEventIDs', DOMAIN m_events')
        BY <1>0, <2>1, <3>1, EventAdded
      <3>3. TypeOK'
        BY <1>0, <1>3, <3>1, <3>2 DEF DrainPending, TypeOK, tvars, ovars
      <3>4. QED
        BY <1>3, <3>2, <3>3, <1>a, <1>c DEF DrainPending
    <2>2. CASE main' = "get" /\ UNCHANGED <<m_pending, qvars>>
      <3>1. TypeOK'
        BY <1>0, <1>3, <2>2 DEF DrainPending, TypeOK, qvars, tvars, ovars
      <3>2. UNCHANGED <<m_events, m_oldEventIDs, Ids>> /\ UNCHANGED ovars
        BY <1>3, <2>2 DEF DrainPending, qvars, ovars, Ids, InHand
      <3>3. QED
        BY <3>1, <3>2, <1>a, <1>b, <1>c
    <2>3. QED
      BY <1>3, <2>1, <2>2 DEF DrainPending
  <1>4. CASE TakeId
    <2>1. TypeOK'
      BY <1>0, <1>4, HeadTailProperties DEF TakeId, TypeOK, tvars, ovars
    <2>2. m_queue # <<>> /\ m_queue \in Seq(Nat) /\ Ids = m_queue
      BY <1>0, <1>4, ConsistentIds DEF TakeId, TypeOK
    <2>3. <<Head(m_queue)>> \o Tail(m_queue) = m_queue
      BY <2>2
    <2>4. Ids' = m_queue
      BY <1>4, <2>3 DEF TakeId, Ids, InHand
    <2>5. QED
      BY <1>4, <2>1, <2>2, <2>4, <1>a, <1>b, <1>c DEF TakeId
  <1>5. CASE RemoveEvent
    <2>1. Ids # <<>> /\ Head(Ids) = dataID /\ Tail(Ids) = m_queue
      BY <1>0, <1>5, ConsistentIds DEF RemoveEvent
    <2>2. dataID \in DOMAIN m_events
          /\ Consistent(m_queue, Append(m_oldEventIDs, dataID), DOMAIN m_events \ {dataID})
      BY <1>0, <2>1, IdTaken
    <2>3. /\ event' = m_events[dataID] /\ m_events' = Drop(m_events, dataID)
          /\ m_oldEventIDs' = Append(m_oldEventIDs, dataID)
      BY <1>5, <2>2 DEF RemoveEvent
    <2>4. /\ event' \in Events /\ DOMAIN m_events' = DOMAIN m_events \ {dataID}
          /\ Range(m_events') \subseteq Range(m_events)
      BY <1>0, <2>2, <2>3 DEF Range, Drop, TypeOK
    <2>5. m_oldEventIDs' \in Seq(Nat)
      BY <2>2, <2>3 DEF Consistent
    <2>6. TypeOK'
      BY <1>0, <1>5, <2>4, <2>5 DEF RemoveEvent, TypeOK, tvars, ovars
    <2>7. Ids' = m_queue
      BY <1>5, <1>0, ConcatEmptySeq DEF RemoveEvent, Ids, InHand, TypeOK
    <2>8. QED
      BY <1>5, <2>2, <2>3, <2>4, <2>6, <2>7, <1>a, <1>c DEF RemoveEvent
  <1>6. CASE \E t \in DOMAIN m_timerQueue : TimerExpired(t)
    <2>1. PICK t \in DOMAIN m_timerQueue : TimerExpired(t)
      BY <1>6
    <2>2. TypeOK'
      BY <1>0, <2>1, CountedDownType, ExpiryType DEF TimerExpired, TypeOK, qvars, ovars
    <2>3. UNCHANGED <<m_events, m_oldEventIDs, Ids>> /\ UNCHANGED ovars
      BY <2>1 DEF TimerExpired, qvars, ovars, Ids, InHand
    <2>4. QED
      BY <2>2, <2>3, <1>a, <1>b, <1>c
  <1>7. CASE NoTimerExpired
    <2>1. DOMAIN m_timerQueue' = DOMAIN m_timerQueue /\ Range(m_timerQueue') \subseteq TimerType
      BY <1>0, <1>7, CountedDownType DEF NoTimerExpired
    <2>2. m_time' \in 0 .. MaxClock
      BY <1>0, <1>7, LoopAssumption DEF NoTimerExpired, TypeOK
    <2>3. TypeOK'
      BY <1>0, <1>7, <2>1, <2>2 DEF NoTimerExpired, TypeOK, qvars, ovars
    <2>4. UNCHANGED <<m_events, m_oldEventIDs, Ids>> /\ UNCHANGED ovars
      BY <1>7 DEF NoTimerExpired, qvars, ovars, Ids, InHand
    <2>5. QED
      BY <2>3, <2>4, <1>a, <1>b, <1>c
  <1>8. CASE WaitForEvent \/ DispatchEvent \/ Return
    <2>1. TypeOK'
      BY <1>0, <1>8 DEF WaitForEvent, DispatchEvent, Return, TypeOK, qvars, tvars, ovars
    <2>2. UNCHANGED <<m_events, m_oldEventIDs, Ids>> /\ UNCHANGED ovars
      BY <1>8 DEF WaitForEvent, DispatchEvent, Return, qvars, ovars, Ids, InHand
    <2>3. QED
      BY <2>1, <2>2, <1>a, <1>b, <1>c
  <1>9. CASE Tick
    <2>1. DOMAIN m_timerQueue' = DOMAIN m_timerQueue /\ Range(m_timerQueue') \subseteq TimerType
      <3>1. ASSUME NEW t \in DOMAIN m_timerQueue
            PROVE  [m_timerQueue[t] EXCEPT !.age = @ + 1] \in TimerType
        <4>1. m_timerQueue[t] \in TimerType
          BY <1>0, CountedDownType
        <4>2. QED
          BY <4>1 DEF TimerType
      <3>2. QED
        BY <1>9, <3>1 DEF Tick, Range
    <2>2. m_time' \in 0 .. MaxClock
      BY <1>0, <1>9, LoopAssumption DEF Tick, TypeOK
    <2>3. TypeOK'
      BY <1>0, <1>9, <2>1, <2>2 DEF Tick, TypeOK, qvars, ovars
    <2>4. UNCHANGED <<m_events, m_oldEventIDs, Ids>> /\ UNCHANGED ovars
      BY <1>9 DEF Tick, qvars, ovars, Ids, InHand
    <2>5. QED
      BY <2>3, <2>4, <1>a, <1>b, <1>c
  <1>10. CASE setBuffer
    <2>1. <<>> \in Seq(Nat) /\ DOMAIN <<>> = {}
      BY EmptySeq
    <2>2. Range(<<>>) = {}
      BY <2>1 DEF Range
    <2>3. TypeOK'
      BY <1>0, <1>10, <2>1, <2>2 DEF setBuffer, TypeOK, tvars, ovars
    <2>4. Ids' = <<>> /\ m_oldEventIDs' = <<>> /\ DOMAIN m_events' = {}
      BY <1>10, <2>1, ConcatEmptySeq DEF setBuffer, Ids, InHand, Free
    <2>5. QED
      BY <1>10, <2>3, <2>4, <1>a, <1>c, NoIds DEF setBuffer
  <1>11. ASSUME NEW t \in Threads, Push(t) PROVE QueueInv'
    <2>1. /\ thread[t].at \in {"pending", "buffer"} /\ thread[t].event \in Events
          /\ thread' \in [Threads -> ThreadType]
      BY <1>0, <1>11 DEF Push, TypeOK, ThreadType
    <2>2. CASE m_pending' = Append(m_pending, thread[t].event) /\ UNCHANGED qvars
      <3>1. m_pending' \in Seq(Events)
        BY <1>0, <2>1, <2>2, AppendProperties DEF TypeOK
      <3>2. TypeOK'
        BY <1>0, <1>11, <2>1, <2>2, <3>1 DEF Push, TypeOK, qvars, tvars, ovars
      <3>3. UNCHANGED <<m_events, m_oldEventIDs, Ids>> /\ UNCHANGED ovars
        BY <1>11, <2>2 DEF Push, qvars, ovars, Ids, InHand
      <3>4. QED
        BY <3>2, <3>3, <1>a, <1>b, <1>c
    <2>3. CASE addEventToBuffer(thread[t].event) /\ UNCHANGED m_pending
      <3>0. UNCHANGED <<main, dataID>>
        BY <1>11 DEF Push
      <3>1. /\ DOMAIN m_events' \subseteq Nat /\ Range(m_events') \subseteq Events
            /\ m_oldEventIDs' \in Seq(Nat) /\ m_queue' \in Seq(Nat)
            /\ Consistent(Ids', m_oldEventIDs', DOMAIN m_events')
        BY <1>0, <2>1, <2>3, <3>0, EventAdded
      <3>2. TypeOK'
        BY <1>0, <1>11, <2>1, <2>3, <3>1 DEF Push, TypeOK, tvars, ovars
      <3>3. QED
        BY <1>11, <3>1, <3>2, <1>a, <1>c DEF Push
    <2>4. QED
      BY <1>11, <2>2, <2>3 DEF Push
  <1>12. ASSUME NEW t \in Threads, NEW x \in Postable, AddEvent(t, x) PROVE QueueInv'
    <2>1. NewEvent(t, x) \in Events
      BY <1>0, <1>12, NewEventType DEF Senders, Postable, AddEvent
    <2>2. thread' \in [Threads -> ThreadType]
      BY <1>0, <1>12, <2>1 DEF AddEvent, TypeOK, ThreadType
    <2>3. posts' \in [Senders -> Nat] /\ \A s \in Senders : posts'[s] <= MaxPosts[s]
      BY <1>0, <1>12, NewEventType DEF Senders, Postable, AddEvent
    <2>4. TypeOK'
      BY <1>0, <1>12, <2>2, <2>3 DEF AddEvent, TypeOK, qvars, tvars, ovars
    <2>5. UNCHANGED <<m_events, m_oldEventIDs, Ids>> /\ UNCHANGED ovars
      BY <1>12 DEF AddEvent, qvars, ovars, Ids, InHand
    <2>6. QED
      BY <2>4, <2>5, <1>a, <1>b, <1>c
  <1>13. ASSUME NEW x \in Postable, Post(x) PROVE QueueInv'
    <2>1. NewEvent(Main, x) \in Events
      BY <1>0, <1>13, NewEventType DEF Senders, Postable, Post
    <2>2. posts' \in [Senders -> Nat] /\ \A s \in Senders : posts'[s] <= MaxPosts[s]
      BY <1>0, <1>13, NewEventType DEF Senders, Postable, Post
    <2>3. CASE addEventToBuffer(NewEvent(Main, x)) /\ UNCHANGED m_pending
      <3>0. UNCHANGED <<main, dataID>>
        BY <1>13 DEF Post
      <3>1. /\ DOMAIN m_events' \subseteq Nat /\ Range(m_events') \subseteq Events
            /\ m_oldEventIDs' \in Seq(Nat) /\ m_queue' \in Seq(Nat)
            /\ Consistent(Ids', m_oldEventIDs', DOMAIN m_events')
        BY <1>0, <2>1, <2>3, <3>0, EventAdded
      <3>2. TypeOK'
        BY <1>0, <1>13, <2>2, <2>3, <3>1 DEF Post, TypeOK, tvars, ovars
      <3>3. QED
        BY <1>13, <3>1, <3>2, <1>a, <1>c DEF Post
    <2>4. CASE m_pending' = Append(m_pending, NewEvent(Main, x)) /\ UNCHANGED qvars
      <3>1. m_pending' \in Seq(Events)
        BY <1>0, <2>1, <2>4, AppendProperties DEF TypeOK
      <3>2. TypeOK'
        BY <1>0, <1>13, <2>2, <2>4, <3>1 DEF Post, TypeOK, qvars, tvars, ovars
      <3>3. UNCHANGED <<m_events, m_oldEventIDs, Ids>> /\ UNCHANGED ovars
        BY <1>13, <2>4 DEF Post, qvars, ovars, Ids, InHand
      <3>4. QED
        BY <3>2, <3>3, <1>a, <1>b, <1>c
    <2>5. QED
      BY <1>13, <2>3, <2>4 DEF Post
  <1>14. ASSUME NEW t \in Timers, newTimer(t) \/ deleteTimer(t) PROVE QueueInv'
    <2>1. TypeOK'
      <3>1. CASE newTimer(t)
        <4>1. [time |-> Duration[t] + m_time, age |-> 0] \in TimerType
          BY <1>0, LoopAssumption DEF TypeOK, TimerType
        <4>2. DOMAIN m_timerQueue' \subseteq m_timers' /\ Range(m_timerQueue') \subseteq TimerType
          BY <1>0, <3>1, <4>1 DEF newTimer, TypeOK, Put, Range
        <4>3. QED
          BY <1>0, <3>1, <4>2 DEF newTimer, TypeOK, qvars, ovars
      <3>2. CASE deleteTimer(t)
        <4>1. DOMAIN m_timerQueue' \subseteq m_timers' /\ Range(m_timerQueue') \subseteq TimerType
          BY <1>0, <3>2 DEF deleteTimer, TypeOK, Drop, Range
        <4>2. QED
          BY <1>0, <3>2, <4>1 DEF deleteTimer, TypeOK, qvars, ovars
      <3>3. QED
        BY <1>14, <3>1, <3>2
    <2>2. UNCHANGED <<m_events, m_oldEventIDs, Ids>> /\ UNCHANGED ovars
      BY <1>14 DEF newTimer, deleteTimer, qvars, ovars, Ids, InHand
    <2>3. QED
      BY <2>1, <2>2, <1>a, <1>b, <1>c
  <1>15. ASSUME NEW x \in Targets, addHandler(x) \/ removeHandler(x) \/ destroyTarget(x)
         PROVE  QueueInv'
    <2>1. /\ object' \in [Targets -> 0 .. MaxLives] /\ lives' \in [Targets -> 0 .. MaxLives]
          /\ m_handlers' \in [Targets -> 0 .. MaxLives]
      <3>1. lives[x] < MaxLives => lives[x] + 1 \in 0 .. MaxLives
        BY <1>0, LoopAssumption DEF TypeOK
      <3>2. 0 \in 0 .. MaxLives
        BY LoopAssumption
      <3>3. QED
        BY <1>0, <1>15, <3>1, <3>2 DEF addHandler, removeHandler, destroyTarget, TypeOK, ovars
    <2>2. TypeOK'
      BY <1>0, <1>15, <2>1 DEF addHandler, removeHandler, destroyTarget, TypeOK, qvars, tvars
    <2>3. HandlersLive'
      BY <1>0, <1>15 DEF addHandler, removeHandler, destroyTarget, HandlersLive, TypeOK
    <2>4. UNCHANGED <<m_events, m_oldEventIDs, Ids>>
      BY <1>15 DEF addHandler, removeHandler, destroyTarget, qvars, Ids, InHand
    <2>5. QED
      BY <2>2, <2>3, <2>4, <1>a, <1>b
  <1>16. QED
    BY <1>1, <1>2, <1>3, <1>4, <1>5, <1>6, <1>7, <1>8, <1>9, <1>10, <1>11, <1>12, <1>13, <1>14,
       <1>15 DEF Next, Loop

(***************************************************************************)
(* The buffer, the table of stored events and the free ids always describe *)
(* one queue: every id in the buffer stands for a stored event of its own, *)
(* whichever threads post and whenever the buffer is replaced, so that     *)
(* removeEvent finds the event of the id it was given and saveEvent never  *)
(* writes over one; and a registered handler belongs to a living object.   *)
(***************************************************************************)
THEOREM QueueStaysConsistent == Spec => []QueueInv
  <1>1. QED
    BY Initially, Step, PTL DEF Spec

-----------------------------------------------------------------------------
(* The timers *)

LEMMA KindsApart == Events \cap TimerEvents = {} /\ NoEvent \notin TimerEvents
  <1>1. \A e \in Events : DOMAIN e = {"from", "no", "target"}
    BY DEF Events
  <1>2. \A e \in TimerEvents : DOMAIN e = {"timer", "count", "age"}
    BY DEF TimerEvents
  <1>3. {"from", "no", "target"} # {"timer", "count", "age"}
    OBVIOUS
  <1>4. QED
    BY <1>1, <1>2, <1>3, EventAssumption

LEMMA TimersStep ==
    QueueInv /\ TimersCounted /\ TimerPunctual /\ [Next]_vars => (TimersCounted /\ TimerPunctual)'
  <1> SUFFICES ASSUME QueueInv, TimersCounted, TimerPunctual, [Next]_vars
               PROVE  TimersCounted' /\ TimerPunctual'
    OBVIOUS
  <1>0. /\ TypeOK /\ m_time \in Int
        /\ \A t \in DOMAIN m_timerQueue :
              /\ t \in Timers /\ Duration[t] \in Nat /\ Duration[t] > 0
              /\ m_timerQueue[t] \in TimerType
              /\ m_timerQueue[t].time \in Int /\ m_timerQueue[t].age \in Nat
    BY CountedDownType, LoopAssumption DEF QueueInv, TypeOK, TimerType
  <1>a. ASSUME UNCHANGED tvars PROVE TimersCounted'
    BY <1>a DEF TimersCounted, tvars
  <1>b. ASSUME event' \notin TimerEvents \/ event' = event PROVE TimerPunctual'
    BY <1>b DEF TimerPunctual
  <1>1. CASE \E t \in DOMAIN m_timerQueue : TimerExpired(t)
    <2>1. PICK t \in DOMAIN m_timerQueue : TimerExpired(t)
      BY <1>1
    <2> DEFINE timer == CountedDown[t]
               d == Duration[t]
    <2>2. /\ timer.time \in Int /\ timer.age \in Nat /\ timer.time <= 0 /\ d \in Nat /\ d > 0
          /\ timer.time + timer.age = d
      <3>1. timer.time <= 0
        BY <2>1 DEF TimerExpired
      <3>2. /\ timer.time = m_timerQueue[t].time - m_time /\ timer.age = m_timerQueue[t].age
            /\ m_timerQueue[t].time - m_time + m_timerQueue[t].age = d
        BY <1>0, CountedDownType DEF TimersCounted
      <3>3. d \in Nat /\ d > 0 /\ m_timerQueue[t].time \in Int /\ m_timerQueue[t].age \in Nat
        BY <1>0
      <3> HIDE DEF timer, d
      <3>4. QED
        BY <1>0, <3>1, <3>2, <3>3
    <2>3. event' = [timer |-> t, count |-> (d - timer.time) \div d, age |-> timer.age]
      BY <2>1 DEF TimerExpired
    <2>4. TimerPunctual'
      <3> HIDE DEF timer, d
      <3>1. d - timer.time = timer.age /\ timer.age >= d
        BY <2>2
      <3>2. event'.age = timer.age /\ event'.timer = t /\ event'.count = timer.age \div d
        BY <2>3, <3>1
      <3>3. event'.age >= d /\ event'.count = event'.age \div d
        BY <3>1, <3>2
      <3>4. QED
        BY <3>2, <3>3 DEF TimerPunctual, d
    <2>5. TimersCounted'
      <3>1. ASSUME NEW u \in DOMAIN m_timerQueue'
            PROVE  m_timerQueue'[u].time - m_time' + m_timerQueue'[u].age = Duration[u]
        <4>1. m_time' = 0 /\ DOMAIN CountedDown = DOMAIN m_timerQueue
          BY <2>1, CountedDownType, <1>0 DEF TimerExpired
        <4>2. ASSUME NEW w \in DOMAIN m_timerQueue
              PROVE  CountedDown[w].time - 0 + CountedDown[w].age = Duration[w]
          BY <1>0, CountedDownType DEF TimersCounted
        <4>3. CASE t \in OneShot
          <5>1. u \in DOMAIN m_timerQueue /\ m_timerQueue'[u] = CountedDown[u]
            BY <2>1, <3>1, <4>1, <4>3 DEF TimerExpired, Drop
          <5>2. QED
            BY <4>1, <4>2, <5>1
        <4>4. CASE t \notin OneShot
          <5>1. m_timerQueue' = Put(CountedDown, t, [time |-> d, age |-> 0])
            BY <2>1, <4>4 DEF TimerExpired
          <5>2. CASE u = t
            <6>1. m_timerQueue'[u] = [time |-> d, age |-> 0]
              BY <5>1, <5>2, <3>1 DEF Put
            <6>2. QED
              BY <4>1, <5>2, <6>1, <2>2
          <5>3. CASE u # t
            <6>1. u \in DOMAIN m_timerQueue /\ m_timerQueue'[u] = CountedDown[u]
              BY <5>1, <5>3, <4>1, <3>1 DEF Put
            <6>2. QED
              BY <4>1, <4>2, <6>1
          <5>4. QED
            BY <5>2, <5>3
        <4>5. QED
          BY <4>3, <4>4
      <3>2. QED
        BY <3>1 DEF TimersCounted
    <2>6. QED
      BY <2>4, <2>5
  <1>2. CASE NoTimerExpired
    <2>1. TimersCounted'
      <3>1. ASSUME NEW u \in DOMAIN m_timerQueue'
            PROVE  m_timerQueue'[u].time - m_time' + m_timerQueue'[u].age = Duration[u]
        <4>1. u \in DOMAIN m_timerQueue /\ m_timerQueue' = CountedDown /\ m_time' = 0
          BY <1>0, <1>2, CountedDownType DEF NoTimerExpired
        <4>2. QED
          BY <1>0, <4>1, CountedDownType DEF TimersCounted
      <3>2. QED
        BY <3>1 DEF TimersCounted
    <2>2. QED
      BY <1>2, <2>1, <1>b DEF NoTimerExpired
  <1>3. CASE Tick
    <2>1. TimersCounted'
      <3>1. ASSUME NEW u \in DOMAIN m_timerQueue'
            PROVE  m_timerQueue'[u].time - m_time' + m_timerQueue'[u].age = Duration[u]
        <4>1. u \in DOMAIN m_timerQueue /\ m_time' = m_time + 1
              /\ m_timerQueue'[u] = [m_timerQueue[u] EXCEPT !.age = @ + 1]
          BY <1>3 DEF Tick
        <4>2. m_timerQueue'[u].time = m_timerQueue[u].time /\ m_timerQueue'[u].age = m_timerQueue[u].age + 1
          BY <1>0, <4>1 DEF TimerType
        <4>3. QED
          BY <1>0, <4>1, <4>2 DEF TimersCounted
      <3>2. QED
        BY <3>1 DEF TimersCounted
    <2>2. QED
      BY <1>3, <2>1, <1>b DEF Tick
  <1>4. ASSUME NEW t \in Timers, newTimer(t) \/ deleteTimer(t) PROVE TimersCounted' /\ TimerPunctual'
    <2>1. ASSUME NEW u \in DOMAIN m_timerQueue'
          PROVE  m_timerQueue'[u].time - m_time' + m_timerQueue'[u].age = Duration[u]
      <3>1. m_time' = m_time
        BY <1>4 DEF newTimer, deleteTimer
      <3>2. CASE u \in DOMAIN m_timerQueue /\ m_timerQueue'[u] = m_timerQueue[u]
        BY <3>1, <3>2 DEF TimersCounted
      <3>3. CASE u = t /\ m_timerQueue'[u] = [time |-> Duration[t] + m_time, age |-> 0]
        <4>1. Duration[t] \in Nat
          BY LoopAssumption
        <4>2. m_timerQueue'[u].time = Duration[t] + m_time /\ m_timerQueue'[u].age = 0
          BY <3>3
        <4>3. QED
          BY <1>0, <3>1, <3>3, <4>1, <4>2
      <3>4. QED
        BY <1>4, <2>1, <3>2, <3>3 DEF newTimer, deleteTimer, Put, Drop
    <2>2. TimersCounted'
      BY <2>1 DEF TimersCounted
    <2>3. QED
      BY <1>4, <2>2, <1>b DEF newTimer, deleteTimer
  <1>5. CASE RemoveEvent
    <2>1. UNCHANGED tvars
      BY <1>5 DEF RemoveEvent
    <2>2. event' \in Events \/ event' = NoEvent
      BY <1>0, <1>5 DEF RemoveEvent, TypeOK, Range
    <2>3. QED
      BY <2>1, <2>2, <1>a, <1>b, KindsApart
  <1>6. CASE DispatchEvent \/ Return
    <2>1. UNCHANGED tvars /\ event' \in {event, NoEvent}
      BY <1>6 DEF DispatchEvent, Return
    <2>2. QED
      BY <2>1, <1>a, <1>b, KindsApart
  <1>7. CASE \/ LoopReady \/ DrainPending \/ TakeId \/ WaitForEvent \/ setBuffer \/ UNCHANGED vars
             \/ \E t \in Threads : Push(t) \/ \E x \in Postable : AddEvent(t, x)
             \/ \E x \in Postable : Post(x)
             \/ \E x \in Targets : addHandler(x) \/ removeHandler(x) \/ destroyTarget(x)
    <2>1. UNCHANGED tvars /\ event' = event
      BY <1>7 DEF LoopReady, DrainPending, TakeId, WaitForEvent, setBuffer, vars, Push, AddEvent,
                  Post, addHandler, removeHandler, destroyTarget
    <2>2. QED
      BY <2>1, <1>a, <1>b
  <1>8. QED
    BY <1>1, <1>2, <1>3, <1>4, <1>5, <1>6, <1>7 DEF Next, Loop

(***************************************************************************)
(* No timer fires early and the event of a timer counts the periods since  *)
(* the last one, for any durations, and however long handlers, events and  *)
(* waits keep hasTimerExpired from counting the clock down.                *)
(***************************************************************************)
THEOREM TimersStayPunctual == Spec => []TimerPunctual
  <1>1. Init => TimersCounted /\ TimerPunctual
    <2> SUFFICES ASSUME Init PROVE TimersCounted /\ TimerPunctual
      OBVIOUS
    <2>1. DOMAIN m_timerQueue = {}
      BY EmptySeq DEF Init
    <2>2. event \notin TimerEvents
      BY KindsApart DEF Init
    <2>3. QED
      BY <2>1, <2>2 DEF TimersCounted, TimerPunctual
  <1>2. QED
    BY <1>1, TimersStep, QueueStaysConsistent, PTL DEF Spec

-----------------------------------------------------------------------------
(***************************************************************************)
(* The queue as a channel.  What each sender posted and has not been given *)
(* to the program yet is what the buffer and m_pending hold of it.  The    *)
(* mapping is the one of KeepsOrder, with Kept for SelectSeq.              *)
(***************************************************************************)
From(s) == {e \in Events : e.from = s}
Posted == [s \in Senders |-> Kept(Undelivered, From(s))]
Handling == IF event \in Events THEN event ELSE NoEvent
Order == INSTANCE EventChannel WITH posted <- Posted, handling <- Handling

(***************************************************************************)
(* Where the loop is and what the rest holds then: before it begins only   *)
(* the main thread has posted anything, and all of that is in m_pending;   *)
(* m_pending is empty once it was moved; and while an event is looked for  *)
(* there is none in hand.                                                  *)
(***************************************************************************)
LoopInv ==
    /\ is_ready_ <=> main # "setup"
    /\ \A t \in Threads : /\ thread[t].at # "pending"
                          /\ thread[t].at = "buffer" => thread[t].event.from = t
    /\ ~is_ready_ => m_queue = <<>> /\ \A t \in Threads : thread[t].at = "idle"
    /\ \A i \in 1 .. Len(m_pending) : m_pending[i].from = Main
    /\ NothingStranded
    /\ main \in {"setup", "drain", "get", "wait", "take"} => event = NoEvent
    /\ main = "handler" => ~(event \in Events /\ event.target = QUIT)

LEMMA LoopInitially == Init => LoopInv
  <1> SUFFICES ASSUME Init PROVE LoopInv
    OBVIOUS
  <1>1. \A i \in 1 .. Len(m_pending) : m_pending[i].from = Main
    BY EmptySeq DEF Init
  <1>2. QED
    BY <1>1 DEF Init, LoopInv, NothingStranded

LEMMA PendingFromMain ==
    ASSUME NEW p \in Seq(Events), \A i \in 1 .. Len(p) : p[i].from = Main
    PROVE  /\ \A e \in Events : e.from = Main =>
                 \A i \in 1 .. Len(Append(p, e)) : Append(p, e)[i].from = Main
           /\ p # <<>> => \A i \in 1 .. Len(Tail(p)) : Tail(p)[i].from = Main
  <1>1. Len(p) \in Nat
    BY LenProperties
  <1>2. ASSUME NEW e \in Events, e.from = Main, NEW i \in 1 .. Len(Append(p, e))
        PROVE  Append(p, e)[i].from = Main
    <2>1. /\ Len(Append(p, e)) = Len(p) + 1 /\ Append(p, e)[Len(p) + 1] = e
          /\ \A j \in 1 .. Len(p) : Append(p, e)[j] = p[j]
      BY AppendProperties
    <2>2. CASE i \in 1 .. Len(p)
      BY <2>1, <2>2
    <2>3. CASE i = Len(p) + 1
      BY <1>2, <2>1, <2>3
    <2>4. QED
      BY <1>1, <2>1, <2>2, <2>3
  <1>3. ASSUME p # <<>>, NEW i \in 1 .. Len(Tail(p)) PROVE Tail(p)[i].from = Main
    <2>1. Len(Tail(p)) = Len(p) - 1 /\ Tail(p)[i] = p[i + 1]
      BY <1>3, HeadTailProperties
    <2>2. QED
      BY <1>1, <2>1
  <1>4. QED
    BY <1>2, <1>3

LEMMA LoopStep ==
    ASSUME Early = {}, QueueInv, LoopInv, [Next]_vars
    PROVE  LoopInv'
  <1> USE DEF LoopInv, NothingStranded
  <1>0. TypeOK
    BY DEF QueueInv
  <1>a. ASSUME UNCHANGED <<is_ready_, m_pending, m_queue, main, event, thread>> PROVE LoopInv'
    BY <1>a
  <1>1. CASE UNCHANGED vars
    BY <1>1, <1>a DEF vars, qvars
  <1>2. CASE LoopReady
    BY <1>2 DEF LoopReady, qvars
  <1>3. CASE DrainPending
    <2>1. \A i \in 1 .. Len(m_pending') : m_pending'[i].from = Main
      <3>1. m_pending \in Seq(Events) /\ \A i \in 1 .. Len(m_pending) : m_pending[i].from = Main
        BY <1>0 DEF TypeOK
      <3>2. CASE m_pending # <<>> /\ m_pending' = Tail(m_pending)
        BY <3>1, <3>2, PendingFromMain
      <3>3. CASE m_pending' = m_pending
        BY <3>1, <3>3
      <3>4. QED
        BY <1>3, <3>2, <3>3 DEF DrainPending
    <2>2. QED
      BY <1>3, <2>1 DEF DrainPending, qvars
  <1>4. CASE TakeId \/ NoTimerExpired \/ WaitForEvent
    BY <1>4 DEF TakeId, NoTimerExpired, WaitForEvent, qvars, tvars
  <1>5. CASE RemoveEvent \/ DispatchEvent \/ Return \/ \E t \in DOMAIN m_timerQueue : TimerExpired(t)
    BY <1>5 DEF RemoveEvent, DispatchEvent, Return, TimerExpired, IsQuit, qvars, tvars
  <1>6. CASE Tick \/ setBuffer
    BY <1>6 DEF Tick, setBuffer, qvars, IsQuit
  <1>7. ASSUME NEW t \in Threads, Push(t) PROVE LoopInv'
    <2>1. thread[t].at # "idle" /\ thread[t].at # "pending" /\ is_ready_
      BY <1>7 DEF Push
    <2>2. thread' = [thread EXCEPT ![t] = [at |-> "idle"]] /\ thread \in [Threads -> ThreadType]
      BY <1>0, <1>7 DEF Push, TypeOK
    <2>3. \A u \in Threads : thread'[u] = IF u = t THEN [at |-> "idle"] ELSE thread[u]
      BY <2>2
    <2>4. QED
      BY <1>7, <2>1, <2>3 DEF Push, IsQuit
  <1>8. ASSUME NEW t \in Threads, NEW x \in Postable, AddEvent(t, x) PROVE LoopInv'
    <2>1. is_ready_ /\ thread' = [thread EXCEPT ![t] = [at |-> "buffer", event |-> NewEvent(t, x)]]
      BY <1>8 DEF AddEvent
    <2>2. \A u \in Threads :
             thread'[u] = IF u = t THEN [at |-> "buffer", event |-> NewEvent(t, x)] ELSE thread[u]
      BY <1>0, <2>1 DEF TypeOK
    <2>3. NewEvent(t, x).from = t
      BY DEF NewEvent
    <2>4. \A u \in Threads : /\ thread'[u].at # "pending"
                             /\ thread'[u].at = "buffer" => thread'[u].event.from = u
      BY <2>2, <2>3
    <2>5. QED
      BY <1>8, <2>1, <2>4 DEF AddEvent, IsQuit
  <1>9. ASSUME NEW x \in Postable, Post(x) PROVE LoopInv'
    <2>1. NewEvent(Main, x) \in Events /\ NewEvent(Main, x).from = Main
      BY <1>0, <1>9, NewEventType DEF Post, Senders, Postable
    <2>2. \A i \in 1 .. Len(m_pending') : m_pending'[i].from = Main
      BY <1>0, <1>9, <2>1, PendingFromMain DEF Post, TypeOK
    <2>3. CASE is_ready_
      BY <1>9, <2>2, <2>3 DEF Post, Free, IsQuit
    <2>4. CASE ~is_ready_
      <3>1. main = "setup" /\ UNCHANGED <<is_ready_, main, event, thread, m_queue>>
        BY <1>9, <2>4 DEF Post, qvars
      <3>2. main' = "setup" /\ is_ready_' = FALSE /\ m_queue' = <<>> /\ event' = NoEvent
        BY <1>0, <2>4, <3>1 DEF TypeOK
      <3>3. \A t \in Threads : /\ thread'[t].at = "idle" /\ thread'[t].at # "pending"
                               /\ thread'[t].at = "buffer" => thread'[t].event.from = t
        BY <2>4, <3>1
      <3>4. QED
        BY <2>2, <3>2, <3>3
    <2>5. QED
      BY <2>3, <2>4
  <1>10. CASE \/ \E t \in Timers : newTimer(t) \/ deleteTimer(t)
              \/ \E x \in Targets : addHandler(x) \/ removeHandler(x) \/ destroyTarget(x)
    <2>1. UNCHANGED <<is_ready_, m_pending, m_queue, main, event, thread>>
      BY <1>10 DEF newTimer, deleteTimer, addHandler, removeHandler, destroyTarget, qvars
    <2>2. QED
      BY <2>1, <1>a
  <1>11. QED
    BY <1>1, <1>2, <1>3, <1>4, <1>5, <1>6, <1>7, <1>8, <1>9, <1>10 DEF Next, Loop

-----------------------------------------------------------------------------
(* What the buffer holds, in the order of its ids *)

Stored == [i \in DOMAIN Ids |-> m_events[Ids[i]]]

LEMMA StoredType ==
    ASSUME QueueInv
    PROVE  /\ Ids \in Seq(Nat) /\ Len(Ids) \in Nat /\ DOMAIN Ids = 1 .. Len(Ids)
           /\ Stored \in Seq(Events) /\ Len(Stored) = Len(Ids)
           /\ \A i \in 1 .. Len(Ids) : Ids[i] \in DOMAIN m_events /\ Stored[i] = m_events[Ids[i]]
           /\ m_pending \in Seq(Events)
           /\ Undelivered = Stored \o m_pending /\ Undelivered \in Seq(Events)
  <1>1. /\ TypeOK /\ Range(Ids) = DOMAIN m_events /\ Range(m_events) \subseteq Events
        /\ Ids \in Seq(Nat) /\ m_pending \in Seq(Events)
    BY ConsistentIds DEF QueueInv, IdsConsistent, TypeOK
  <1>2. Len(Ids) \in Nat /\ DOMAIN Ids = 1 .. Len(Ids)
    BY <1>1, LenProperties
  <1>3. \A i \in 1 .. Len(Ids) : Ids[i] \in DOMAIN m_events /\ m_events[Ids[i]] \in Events
    BY <1>1, <1>2 DEF Range
  <1>4. Stored \in [1 .. Len(Ids) -> Events]
    BY <1>2, <1>3 DEF Stored
  <1>5. Stored \in Seq(Events) /\ Len(Stored) = Len(Ids)
    BY <1>2, <1>4
  <1>6. \A i \in 1 .. Len(Ids) : Stored[i] = m_events[Ids[i]]
    BY <1>2 DEF Stored
  <1>7. Undelivered = Stored \o m_pending
    BY DEF Undelivered, Stored
  <1>8. Undelivered \in Seq(Events)
    BY <1>1, <1>5, <1>7, ConcatProperties
  <1>9. QED
    BY <1>1, <1>2, <1>3, <1>5, <1>6, <1>7, <1>8

LEMMA StoredAdded ==
    ASSUME QueueInv, QueueInv', NEW e \in Events, addEventToBuffer(e), UNCHANGED <<main, dataID>>
    PROVE  Stored' = Append(Stored, e)
  <1> DEFINE d == nextID
             s == Stored
             q == Ids
  <1>1. /\ q \in Seq(Nat) /\ Len(q) \in Nat /\ s \in Seq(Events) /\ Len(s) = Len(q)
        /\ \A i \in 1 .. Len(q) : q[i] \in DOMAIN m_events /\ s[i] = m_events[q[i]]
    BY StoredType
  <1>2. /\ Ids' \in Seq(Nat) /\ Stored' \in Seq(Events) /\ Len(Stored') = Len(Ids')
        /\ \A i \in 1 .. Len(Ids') : Stored'[i] = m_events'[Ids'[i]]
    <2>1. (/\ Ids \in Seq(Nat) /\ Stored \in Seq(Events) /\ Len(Stored) = Len(Ids)
           /\ \A i \in 1 .. Len(Ids) : Ids[i] \in DOMAIN m_events /\ Stored[i] = m_events[Ids[i]])'
      BY StoredType, PTL
    <2>2. QED
      BY <2>1
  <1>3. Ids' = Append(q, d) /\ d \in Nat /\ d \notin DOMAIN m_events
    BY EventAdded DEF QueueInv
  <1>4. m_events' = Put(m_events, d, e)
    BY DEF addEventToBuffer
  <1>5. /\ m_events'[d] = e
        /\ \A c \in DOMAIN m_events : m_events'[c] = m_events[c]
    BY <1>3, <1>4 DEF Put
  <1> HIDE DEF d, s, q
  <1>6. /\ Len(Ids') = Len(q) + 1 /\ Ids'[Len(q) + 1] = d
        /\ \A i \in 1 .. Len(q) : Ids'[i] = q[i]
    BY <1>1, <1>3, AppendProperties
  <1>7. /\ Append(s, e) \in Seq(Events) /\ Len(Append(s, e)) = Len(s) + 1
        /\ Append(s, e)[Len(s) + 1] = e /\ \A i \in 1 .. Len(s) : Append(s, e)[i] = s[i]
    BY <1>1, AppendProperties
  <1>8. \A i \in 1 .. Len(q) : Stored'[i] = s[i]
    <2> SUFFICES ASSUME NEW i \in 1 .. Len(q) PROVE Stored'[i] = s[i]
      OBVIOUS
    <2>1. i \in 1 .. Len(Ids')
      BY <1>1, <1>6
    <2>2. Stored'[i] = m_events'[Ids'[i]] /\ Ids'[i] = q[i]
      BY <1>2, <1>6, <2>1
    <2>3. q[i] \in DOMAIN m_events /\ s[i] = m_events[q[i]]
      BY <1>1
    <2>4. QED
      BY <1>5, <2>2, <2>3
  <1>9. Stored'[Len(q) + 1] = e
    BY <1>1, <1>2, <1>5, <1>6
  <1>10. \A i \in 1 .. Len(Stored') : Stored'[i] = Append(s, e)[i]
    <2> SUFFICES ASSUME NEW i \in 1 .. Len(Stored') PROVE Stored'[i] = Append(s, e)[i]
      OBVIOUS
    <2>1. i \in 1 .. (Len(q) + 1)
      BY <1>2, <1>6
    <2>2. CASE i \in 1 .. Len(q)
      BY <1>1, <1>7, <1>8, <2>2
    <2>3. CASE i = Len(q) + 1
      BY <1>1, <1>7, <1>9, <2>3
    <2>4. QED
      BY <1>1, <2>1, <2>2, <2>3
  <1>11. Stored' = Append(s, e)
    BY <1>1, <1>2, <1>6, <1>7, <1>10, SeqEqual
  <1>12. QED
    BY <1>11 DEF s

LEMMA StoredTaken ==
    ASSUME QueueInv, QueueInv', RemoveEvent
    PROVE  Stored # <<>> /\ event' = Head(Stored) /\ Stored' = Tail(Stored)
  <1> DEFINE s == Stored
             q == Ids
  <1>0. TypeOK /\ Consistent(q, m_oldEventIDs, DOMAIN m_events) /\ IsInjective(q)
    BY ConsistentIds DEF QueueInv, Consistent
  <1>1. /\ q \in Seq(Nat) /\ Len(q) \in Nat /\ s \in Seq(Events) /\ Len(s) = Len(q)
        /\ DOMAIN q = 1 .. Len(q)
        /\ \A i \in 1 .. Len(q) : q[i] \in DOMAIN m_events /\ s[i] = m_events[q[i]]
    BY StoredType
  <1>2. q # <<>> /\ Head(q) = dataID /\ Tail(q) = m_queue
    BY <1>0, ConsistentIds DEF RemoveEvent
  <1>3. dataID \in DOMAIN m_events
    <2> HIDE DEF q
    <2> QED BY <1>0, <1>2, IdTaken
  <1>4. event' = m_events[dataID] /\ m_events' = Drop(m_events, dataID)
    BY <1>3 DEF RemoveEvent
  <1>5. Ids' = Tail(q)
    <2>1. m_queue' = m_queue /\ main' = "dispatch" /\ m_queue \in Seq(Nat)
      BY <1>0 DEF RemoveEvent, TypeOK
    <2>2. Ids' = m_queue
      BY <2>1, ConcatEmptySeq DEF Ids, InHand
    <2>3. QED
      BY <1>2, <2>2
  <1>6. /\ Stored' \in Seq(Events) /\ Len(Stored') = Len(Ids')
        /\ \A i \in 1 .. Len(Ids') : Ids'[i] \in DOMAIN m_events' /\ Stored'[i] = m_events'[Ids'[i]]
    <2>1. (/\ Stored \in Seq(Events) /\ Len(Stored) = Len(Ids)
           /\ \A i \in 1 .. Len(Ids) : Ids[i] \in DOMAIN m_events /\ Stored[i] = m_events[Ids[i]])'
      BY StoredType, PTL
    <2>2. QED
      BY <2>1
  <1> HIDE DEF s, q
  <1>7. Len(q) > 0 /\ Head(q) = q[1]
    BY <1>1, <1>2, EmptySeq
  <1>8. /\ Len(Tail(q)) = Len(q) - 1 /\ \A i \in 1 .. Len(Tail(q)) : Tail(q)[i] = q[i + 1]
    BY <1>1, <1>2, HeadTailProperties
  <1>9. s # <<>> /\ Head(s) = s[1]
    BY <1>1, <1>7, EmptySeq
  <1>10. Tail(s) \in Seq(Events) /\ Len(Tail(s)) = Len(s) - 1
         /\ \A i \in 1 .. Len(Tail(s)) : Tail(s)[i] = s[i + 1]
    BY <1>1, <1>9, HeadTailProperties
  <1>11. event' = Head(s)
    BY <1>1, <1>2, <1>4, <1>7, <1>9
  <1>12. \A i \in 1 .. Len(Stored') : Stored'[i] = Tail(s)[i]
    <2> SUFFICES ASSUME NEW i \in 1 .. Len(Stored') PROVE Stored'[i] = Tail(s)[i]
      OBVIOUS
    <2>1. i \in 1 .. Len(Tail(q)) /\ i \in 1 .. Len(Tail(s)) /\ i + 1 \in 1 .. Len(q)
      BY <1>1, <1>5, <1>6, <1>8, <1>10
    <2>2. Stored'[i] = m_events'[q[i + 1]] /\ q[i + 1] \in DOMAIN m_events'
      BY <1>5, <1>6, <1>8, <2>1
    <2>3. m_events'[q[i + 1]] = m_events[q[i + 1]]
      BY <1>4, <2>2 DEF Drop
    <2>4. m_events[q[i + 1]] = s[i + 1] /\ Tail(s)[i] = s[i + 1]
      BY <1>1, <1>10, <2>1
    <2>5. QED
      BY <2>2, <2>3, <2>4
  <1>13. Len(Stored') = Len(Tail(s))
    BY <1>1, <1>5, <1>6, <1>8, <1>10
  <1>14. Stored' = Tail(s)
    BY <1>6, <1>10, <1>12, <1>13, SeqEqual
  <1>15. QED
    BY <1>9, <1>11, <1>14 DEF s

-----------------------------------------------------------------------------
(* The senders' shares of a sequence of events *)

Shares(u) == [s \in Senders |-> Kept(u, From(s))]

LEMMA SenderOf ==
    ASSUME NEW e \in Events
    PROVE  e.from \in Senders /\ \A s : e \in From(s) <=> s = e.from
  BY DEF Events, From

LEMMA SharesInsert ==
    ASSUME NEW a \in Seq(Events), NEW p \in Seq(Events), NEW e \in Events,
           \A i \in 1 .. Len(p) : p[i].from # e.from
    PROVE  Shares(Append(a, e) \o p) = [Shares(a \o p) EXCEPT ![e.from] = Append(@, e)]
  <1> DEFINE f == e.from
  <1>1. f \in Senders /\ \A s : e \in From(s) <=> s = f
    BY SenderOf
  <1>2. Kept(p, From(f)) = <<>>
    <2>1. \A i \in 1 .. Len(p) : p[i] \notin From(f)
      BY DEF From
    <2>2. QED
      <3> HIDE DEF f
      <3> QED BY <2>1, KeptNone
  <1> HIDE DEF f
  <1>3. ASSUME NEW s \in Senders
        PROVE  Kept(Append(a, e) \o p, From(s))
                 = IF s = f THEN Append(Kept(a \o p, From(s)), e) ELSE Kept(a \o p, From(s))
    <2>1. Append(a, e) \in Seq(Events)
      BY AppendProperties
    <2>2. Kept(Append(a, e) \o p, From(s)) = Kept(Append(a, e), From(s)) \o Kept(p, From(s))
      <3> DEFINE b == Append(a, e)
                 S == From(s)
      <3>1. b \in Seq(Events)
        BY <2>1
      <3> HIDE DEF b, S
      <3>2. Kept(b \o p, S) = Kept(b, S) \o Kept(p, S)
        BY <3>1, KeptConcat
      <3>3. QED
        BY <3>2 DEF b, S
    <2>3. Kept(a \o p, From(s)) = Kept(a, From(s)) \o Kept(p, From(s))
      BY KeptConcat
    <2>4. Kept(Append(a, e), From(s))
            = IF e \in From(s) THEN Append(Kept(a, From(s)), e) ELSE Kept(a, From(s))
      BY KeptAppend
    <2>5. CASE s = f
      <3> DEFINE k == Kept(a, From(s))
      <3>1. k \in Seq(Events) /\ Append(k, e) \in Seq(Events)
        BY KeptType, AppendProperties
      <3>2. k \o <<>> = k /\ Append(k, e) \o <<>> = Append(k, e)
        <4> HIDE DEF k
        <4> QED BY <3>1, ConcatEmptySeq
      <3>3. QED
        BY <1>1, <1>2, <2>2, <2>3, <2>4, <2>5, <3>2
    <2>6. CASE s # f
      BY <1>1, <2>2, <2>3, <2>4, <2>6
    <2>7. QED
      BY <2>5, <2>6
  <1> DEFINE x == Append(a, e) \o p
             y == a \o p
  <1>4. ASSUME NEW s \in Senders
        PROVE  Kept(x, From(s)) = IF s = f THEN Append(Kept(y, From(s)), e) ELSE Kept(y, From(s))
    BY <1>3
  <1> HIDE DEF x, y
  <1>5. Shares(x) = [Shares(y) EXCEPT ![f] = Append(@, e)]
    BY <1>1, <1>4 DEF Shares
  <1>6. QED
    BY <1>5 DEF x, y, f

LEMMA SharesAppend ==
    ASSUME NEW u \in Seq(Events), NEW e \in Events
    PROVE  Shares(Append(u, e)) = [Shares(u) EXCEPT ![e.from] = Append(@, e)]
  <1> DEFINE p == <<>>
  <1>1. p \in Seq(Events) /\ \A i \in 1 .. Len(p) : p[i].from # e.from
    BY EmptySeq
  <1>2. u \o p = u /\ Append(u, e) \o p = Append(u, e)
    BY AppendProperties, ConcatEmptySeq
  <1> HIDE DEF p
  <1>3. Shares(Append(u, e) \o p) = [Shares(u \o p) EXCEPT ![e.from] = Append(@, e)]
    BY <1>1, SharesInsert
  <1>4. QED
    BY <1>2, <1>3

LEMMA SharesTail ==
    ASSUME NEW u \in Seq(Events), u # <<>>
    PROVE  LET s == Head(u).from
           IN  /\ Head(u) \in Events /\ s \in Senders
               /\ Shares(u)[s] # <<>> /\ Head(Shares(u)[s]) = Head(u)
               /\ Shares(Tail(u)) = [Shares(u) EXCEPT ![s] = Tail(@)]
  <1> DEFINE h == Head(u)
             f == h.from
  <1>1. h \in Events
    BY HeadTailProperties
  <1>2. f \in Senders /\ \A s : h \in From(s) <=> s = f
    BY <1>1, SenderOf
  <1>3. ASSUME NEW s
        PROVE  IF h \in From(s) THEN /\ Kept(u, From(s)) # <<>>
                                     /\ Head(Kept(u, From(s))) = h
                                     /\ Kept(Tail(u), From(s)) = Tail(Kept(u, From(s)))
                                ELSE Kept(Tail(u), From(s)) = Kept(u, From(s))
    BY KeptTail
  <1> HIDE DEF h, f
  <1>4. Kept(u, From(f)) # <<>> /\ Head(Kept(u, From(f))) = h
    BY <1>2, <1>3
  <1>5. ASSUME NEW s \in Senders
        PROVE  Kept(Tail(u), From(s)) = IF s = f THEN Tail(Kept(u, From(s))) ELSE Kept(u, From(s))
    BY <1>2, <1>3
  <1> DEFINE v == Tail(u)
  <1>6. ASSUME NEW s \in Senders
        PROVE  Kept(v, From(s)) = IF s = f THEN Tail(Kept(u, From(s))) ELSE Kept(u, From(s))
    BY <1>5
  <1> HIDE DEF v
  <1>7. Shares(v) = [Shares(u) EXCEPT ![f] = Tail(@)]
    BY <1>2, <1>6 DEF Shares
  <1>8. Shares(u)[f] # <<>> /\ Head(Shares(u)[f]) = h
    BY <1>2, <1>4 DEF Shares
  <1>9. QED
    BY <1>1, <1>2, <1>7, <1>8 DEF v, h, f

LEMMA SharesNone == Shares(<<>>) = [s \in Senders |-> <<>>]
  <1> DEFINE z == <<>>
  <1>1. z \in Seq(Events) /\ Len(z) = 0
    BY EmptySeq
  <1> HIDE DEF z
  <1>2. ASSUME NEW s \in Senders PROVE Kept(z, From(s)) = <<>>
    <2>1. \A i \in 1 .. Len(z) : z[i] \notin From(s)
      BY <1>1
    <2>2. QED
      BY <1>1, <2>1, KeptNone
  <1>3. Shares(z) = [s \in Senders |-> <<>>]
    BY <1>2 DEF Shares
  <1>4. QED
    BY <1>3 DEF z

-----------------------------------------------------------------------------
LEMMA PostedIsShares == Posted = Shares(Undelivered) /\ Posted' = Shares(Undelivered')
  BY DEF Posted, Shares

LEMMA NoQuitInHand == ~IsQuit(NoEvent)
  BY EventAssumption DEF IsQuit

\* Neither the sequence nor the event in hand changes.
LEMMA NothingHandedOver ==
    ASSUME UNCHANGED <<m_events, Ids, m_pending>>
    PROVE  Undelivered' = Undelivered
  BY DEF Undelivered

\* An event is stored, by the main thread or another, or waits in m_pending.
LEMMA Posts ==
    ASSUME NEW e \in Events, Posted' = [Posted EXCEPT ![e.from] = Append(@, e)], event' = event
    PROVE  Order!Next
  BY DEF Order!Next, Order!Post, Handling

LEMMA OrderStep ==
    ASSUME Early = {}, QueueInv, QueueInv', LoopInv, LoopInv', [Next]_vars
    PROVE  [Order!Next]_(Order!cvars)
  <1>0. /\ TypeOK /\ Stored \in Seq(Events) /\ m_pending \in Seq(Events)
        /\ Undelivered = Stored \o m_pending /\ Undelivered' = Stored' \o m_pending'
        /\ Undelivered \in Seq(Events)
        /\ Posted = Shares(Undelivered) /\ Posted' = Shares(Undelivered')
    BY StoredType, PostedIsShares DEF QueueInv, Undelivered, Stored
  <1>a. ASSUME Undelivered' = Undelivered, Handling' = Handling PROVE [Order!Next]_(Order!cvars)
    BY <1>0, <1>a DEF Order!cvars
  <1>b. ASSUME UNCHANGED <<m_events, Ids, m_pending, event>> PROVE [Order!Next]_(Order!cvars)
    BY <1>b, <1>a, NothingHandedOver DEF Handling
  <1>1. CASE \/ UNCHANGED vars \/ LoopReady \/ NoTimerExpired \/ WaitForEvent \/ Tick
             \/ \E t \in Timers : newTimer(t) \/ deleteTimer(t)
             \/ \E x \in Targets : addHandler(x) \/ removeHandler(x) \/ destroyTarget(x)
             \/ \E t \in Threads : \E x \in Postable : AddEvent(t, x)
    <2>1. UNCHANGED <<m_events, Ids, m_pending, event>>
      BY <1>1 DEF vars, LoopReady, NoTimerExpired, WaitForEvent, Tick, newTimer, deleteTimer,
                  addHandler, removeHandler, destroyTarget, AddEvent, qvars, Ids, InHand
    <2>2. QED
      BY <2>1, <1>b
  <1>2. CASE DrainPending
    <2>1. CASE m_pending # <<>> /\ addEventToBuffer(Head(m_pending)) /\ m_pending' = Tail(m_pending)
               /\ UNCHANGED main
      <3> DEFINE h == Head(m_pending)
      <3>1. h \in Events /\ UNCHANGED <<main, dataID, event>> /\ Tail(m_pending) \in Seq(Events)
        BY <1>0, <1>2, <2>1, HeadTailProperties DEF DrainPending
      <3>2. Stored' = Append(Stored, h)
        BY <2>1, <3>1, StoredAdded
      <3>3. m_pending = <<h>> \o Tail(m_pending)
        BY <1>0, <2>1
      <3>4. Undelivered' = (Stored \o <<h>>) \o Tail(m_pending)
        BY <1>0, <2>1, <3>1, <3>2, AppendIsConcat
      <3>5. Undelivered' = Undelivered
        <4> DEFINE st == Stored
                   tl == Tail(m_pending)
                   hd == <<h>>
        <4>1. st \in Seq(Events) /\ tl \in Seq(Events) /\ hd \in Seq(Events)
          BY <1>0, <3>1
        <4> HIDE DEF st, tl, hd
        <4>2. (st \o hd) \o tl = st \o (hd \o tl)
          BY <4>1, ConcatAssociative
        <4>3. QED
          BY <1>0, <3>3, <3>4, <4>2 DEF st, tl, hd
      <3>6. QED
        BY <3>1, <3>5, <1>a DEF Handling
    <2>2. CASE main' = "get" /\ UNCHANGED <<m_pending, qvars>>
      <3>1. UNCHANGED <<m_events, Ids, m_pending, event>>
        BY <1>2, <2>2 DEF DrainPending, qvars, Ids, InHand
      <3>2. QED
        BY <3>1, <1>b
    <2>3. QED
      BY <1>2, <2>1, <2>2 DEF DrainPending
  <1>3. CASE TakeId
    <2>1. m_queue # <<>> /\ m_queue \in Seq(Nat) /\ Ids = m_queue
      BY <1>0, <1>3, ConsistentIds DEF TakeId, TypeOK
    <2>2. <<Head(m_queue)>> \o Tail(m_queue) = m_queue
      BY <2>1
    <2>3. Ids' = m_queue
      BY <1>3, <2>2 DEF TakeId, Ids, InHand
    <2>4. QED
      BY <1>3, <2>1, <2>3, <1>b DEF TakeId
  <1>4. CASE RemoveEvent
    <2>1. Stored # <<>> /\ event' = Head(Stored) /\ Stored' = Tail(Stored)
      BY <1>4, StoredTaken
    <2>2. m_pending = <<>> /\ m_pending' = <<>> /\ event = NoEvent
      BY <1>4 DEF RemoveEvent, LoopInv, NothingStranded
    <2>3. Undelivered = Stored /\ Undelivered' = Tail(Stored)
      BY <1>0, <2>1, <2>2, HeadTailProperties, ConcatEmptySeq
    <2> DEFINE s == Head(Undelivered).from
    <2>4. /\ Head(Undelivered) \in Events /\ s \in Senders
          /\ Posted[s] # <<>> /\ Head(Posted[s]) = Head(Undelivered)
          /\ Posted' = [Posted EXCEPT ![s] = Tail(@)]
      BY <1>0, <2>1, <2>3, SharesTail
    <2>5. Handling' = Head(Undelivered) /\ Handling = NoEvent
      BY <2>1, <2>2, <2>3, <2>4, EventAssumption DEF Handling
    <2> HIDE DEF s
    <2>6. Order!Hand(s)
      BY <2>4, <2>5, NoQuitInHand DEF Order!Hand
    <2>7. QED
      BY <2>4, <2>6 DEF Order!Next
  <1>5. CASE \E t \in DOMAIN m_timerQueue : TimerExpired(t)
    <2>1. PICK t \in DOMAIN m_timerQueue : TimerExpired(t)
      BY <1>5
    <2>2. event = NoEvent /\ UNCHANGED <<m_events, Ids, m_pending>>
      BY <2>1 DEF TimerExpired, LoopInv, qvars, Ids, InHand
    <2>3. event' \in TimerEvents
      BY <1>0, <2>1, ExpiryType
    <2>4. Handling = NoEvent /\ Handling' = NoEvent
      BY <2>2, <2>3, KindsApart, EventAssumption DEF Handling
    <2>5. QED
      BY <2>2, <2>4, <1>a, NothingHandedOver
  <1>6. CASE DispatchEvent \/ Return
    <2>1. UNCHANGED <<m_events, Ids, m_pending>>
      BY <1>6 DEF DispatchEvent, Return, qvars, Ids, InHand
    <2>2. CASE event' = event
      BY <2>1, <2>2, <1>b
    <2>3. CASE event' = NoEvent /\ ~IsQuit(event)
      <3>1. Handling' = NoEvent /\ ~IsQuit(Handling)
        BY <2>3, NoQuitInHand DEF Handling
      <3>2. Posted' = Posted
        BY <1>0, <2>1, NothingHandedOver
      <3>3. QED
        BY <3>1, <3>2 DEF Order!Next, Order!Finish
    <2>4. QED
      BY <1>6, <2>2, <2>3 DEF DispatchEvent, Return, LoopInv, IsQuit
  <1>7. CASE setBuffer
    <2>1. Ids' = <<>> /\ event' = event /\ m_pending' = m_pending
      BY <1>7, EmptySeq, ConcatEmptySeq DEF setBuffer, Ids, InHand, Free
    <2>2. Stored' = <<>>
      BY <2>1, EmptySeq DEF Stored
    <2>3. CASE main = "setup"
      <3>1. Ids = <<>>
        BY <1>0, <2>3, ConsistentIds DEF LoopInv
      <3>2. Stored = <<>>
        BY <3>1, EmptySeq DEF Stored
      <3>3. Undelivered' = Undelivered
        BY <1>0, <2>1, <2>2, <3>2
      <3>4. QED
        BY <2>1, <3>3, <1>a DEF Handling
    <2>4. CASE main = "handler"
      <3>1. m_pending' = <<>>
        BY <2>1, <2>4 DEF LoopInv, NothingStranded
      <3>2. Undelivered' = <<>>
        BY <1>0, <2>2, <3>1, EmptySeq, ConcatEmptySeq
      <3>3. Posted' = [s \in Senders |-> <<>>] /\ Handling' = Handling
        BY <1>0, <2>1, <3>2, SharesNone DEF Handling
      <3>4. QED
        BY <3>3 DEF Order!Next, Order!Discard
    <2>5. QED
      BY <1>7, <2>3, <2>4 DEF setBuffer, Free
  <1>8. ASSUME NEW t \in Threads, Push(t) PROVE [Order!Next]_(Order!cvars)
    <2> DEFINE e == thread[t].event
    <2>1. thread[t].at = "buffer" /\ e.from = t /\ e \in Events
      BY <1>0, <1>8 DEF Push, LoopInv, TypeOK, ThreadType
    <2>2. addEventToBuffer(e) /\ UNCHANGED <<main, dataID, event, m_pending>>
      BY <1>8, <2>1 DEF Push
    <2>3. Stored' = Append(Stored, e)
      BY <2>1, <2>2, StoredAdded
    <2>4. \A i \in 1 .. Len(m_pending) : m_pending[i].from # e.from
      BY <2>1, LoopAssumption DEF LoopInv
    <2>5. Shares(Append(Stored, e) \o m_pending) = [Shares(Stored \o m_pending) EXCEPT ![e.from] = Append(@, e)]
      <3> DEFINE st == Stored
      <3>1. st \in Seq(Events) /\ m_pending \in Seq(Events) /\ e \in Events
        BY <1>0, <2>1
      <3> HIDE DEF st, e
      <3>2. Shares(Append(st, e) \o m_pending) = [Shares(st \o m_pending) EXCEPT ![e.from] = Append(@, e)]
        BY <2>4, <3>1, SharesInsert
      <3>3. QED
        BY <3>2 DEF st
    <2>6. Posted' = [Posted EXCEPT ![e.from] = Append(@, e)]
      BY <1>0, <2>2, <2>3, <2>5
    <2>7. QED
      BY <2>1, <2>2, <2>6, Posts
  <1>9. ASSUME NEW x \in Postable, Post(x) PROVE [Order!Next]_(Order!cvars)
    <2> DEFINE e == NewEvent(Main, x)
    <2>1. e \in Events
      BY <1>0, <1>9, NewEventType DEF Post, Senders, Postable
    <2>2. UNCHANGED <<main, dataID, event>>
      BY <1>9 DEF Post
    <2>3. Undelivered' = Append(Undelivered, e)
      <3>1. CASE is_ready_
        <4>1. addEventToBuffer(e) /\ UNCHANGED m_pending /\ m_pending = <<>>
          BY <1>9, <3>1 DEF Post, Free, LoopInv, NothingStranded
        <4>2. Stored' = Append(Stored, e)
          BY <2>1, <2>2, <4>1, StoredAdded
        <4>3. Undelivered = Stored
          BY <1>0, <4>1, ConcatEmptySeq
        <4>4. Undelivered' = Append(Stored, e)
          BY <1>0, <2>1, <4>1, <4>2, AppendProperties, ConcatEmptySeq
        <4>5. QED
          BY <4>3, <4>4
      <3>2. CASE ~is_ready_
        <4>1. m_pending' = Append(m_pending, e) /\ UNCHANGED <<m_events, Ids>>
          BY <1>9, <3>2 DEF Post, qvars, Ids, InHand
        <4>2. Stored' = Stored
          BY <4>1 DEF Stored
        <4>3. QED
          BY <1>0, <2>1, <4>1, <4>2, ConcatAppend
      <3>3. QED
        BY <3>1, <3>2
    <2>4. Shares(Append(Undelivered, e)) = [Shares(Undelivered) EXCEPT ![e.from] = Append(@, e)]
      BY <1>0, <2>1, SharesAppend
    <2>5. Posted' = [Posted EXCEPT ![e.from] = Append(@, e)]
      BY <1>0, <2>3, <2>4
    <2>6. QED
      BY <2>1, <2>2, <2>5, Posts
  <1>10. QED
    BY <1>1, <1>2, <1>3, <1>4, <1>5, <1>6, <1>7, <1>8, <1>9 DEF Next, Loop

(***************************************************************************)
(* The queue implements the channel of EventChannel: whatever the threads  *)
(* do, and although ids are reused and the first events go through         *)
(* m_pending, an event is handed to the program once, after the earlier    *)
(* ones of its sender, and is lost only with the buffer it was in or       *)
(* behind the event that ends the loop.  No other thread posts before the  *)
(* loop has begun: the push of such a thread may come after m_pending was  *)
(* moved.                                                                  *)
(***************************************************************************)
THEOREM QueueKeepsOrder ==
    ASSUME Early = {}
    PROVE  Spec => Order!Init /\ [][Order!Next]_(Order!cvars)
  <1>1. Init => Order!Init
    <2> SUFFICES ASSUME Init PROVE Order!Init
      OBVIOUS
    <2>1. Undelivered = <<>>
      <3>1. QueueInv /\ m_pending = <<>> /\ main # "take" /\ m_queue = <<>>
        BY Initially DEF Init
      <3>2. Ids = <<>>
        BY <3>1, ConsistentIds DEF QueueInv
      <3>3. Stored = <<>>
        BY <3>2, EmptySeq DEF Stored
      <3>4. QED
        BY <3>1, <3>3, StoredType, EmptySeq, ConcatEmptySeq
    <2>2. Posted = [s \in Senders |-> <<>>]
      BY <2>1, SharesNone, PostedIsShares
    <2>3. Handling = NoEvent
      BY EventAssumption DEF Init, Handling
    <2>4. QED
      BY <2>2, <2>3 DEF Order!Init
  <1>2. QED
    BY <1>1, LoopInitially, LoopStep, OrderStep, QueueStaysConsistent, PTL DEF Spec
=============================================================================
