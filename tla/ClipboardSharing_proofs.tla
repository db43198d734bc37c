----------------------- MODULE ClipboardSharing_proofs -----------------------
(***************************************************************************)
(* Who owns the clipboard, what may be on its way to a client, and what    *)
(* the screens and the server hold once everything is delivered, for any   *)
(* number of clients, switches, copies and lost connections.               *)
(***************************************************************************)
EXTENDS ClipboardSharing, Filtering_proofs, Integers, SequenceTheorems, TLAPS

Clips == [owner : Screens, seq : Seqs, raw : Contents, data : Contents]

In(x, s) == \E i \in 1 .. Len(s) : s[i] = x

(***************************************************************************)
(* An update of client c with sequence number q, at place i of the queue,  *)
(* is covered: when its turn comes c owns the clipboard, or the clipboard  *)
(* was grabbed with a later number.  `o' and `s' are owner and number now. *)
(* A grab by the server's own screen is accepted whatever its number.      *)
(***************************************************************************)
IsGrab(e, c, q) == e.kind = "grabbed" /\ e.from = c /\ e.seq = q

Covered(o, s, ev, c, q, i) ==
    /\ s > q \/ (o = c /\ s = q) \/ \E k \in 1 .. i - 1 : IsGrab(ev[k], c, q)
    /\ \A j \in 1 .. i - 1 : ev[j].kind = "grabbed" /\ ev[j].from = Server =>
         ev[j].seq > q \/ \E k \in j + 1 .. i - 1 : IsGrab(ev[k], c, q)

GrabSent(t, q, m) == \E k \in 1 .. m - 1 : t[k].kind = "grab" /\ t[k].seq = q

\* The same for an update that will reach the end of the stream.
Backed(c, q) ==
    \/ GrabSent(toServer[c], q, Len(toServer[c]) + 1)
    \/ Covered(clip.owner, clip.seq, events, c, q, Len(events) + 1)

EventsCovered ==
    \A i \in 1 .. Len(events) : events[i].kind = "changed" =>
        Covered(clip.owner, clip.seq, events, events[i].from, events[i].seq, i)

StreamsCovered ==
    \A c \in Clients : \A m \in 1 .. Len(toServer[c]) : toServer[c][m].kind = "data" =>
        \/ GrabSent(toServer[c], toServer[c][m].seq, m)
        \/ Covered(clip.owner, clip.seq, events, c, toServer[c][m].seq, Len(events) + 1)

TasksCovered ==
    \A c \in Clients : \A t : In(t, tasks[c]) /\ t.kind = "send" => Backed(c, t.seq)

OwnCovered ==
    \A c \in Clients : client[c].own /\ ~client[c].timed =>
        client[c].active /\ Backed(c, client[c].seq)

(***************************************************************************)
(* A sequence number other than 0 belongs to one client, the one that was  *)
(* entered with it, and the latest one to the active screen.               *)
(***************************************************************************)
Uses(c, q) ==
    \/ client[c].seq = q
    \/ \E m : In(m, toClient[c]) /\ m.kind = "enter" /\ m.seq = q
    \/ \E m : In(m, toServer[c]) /\ m.seq = q
    \/ \E t : In(t, tasks[c]) /\ t.kind = "send" /\ t.seq = q
    \/ \E e : In(e, events) /\ e.kind # "send" /\ e.from = c /\ e.seq = q

Numbers ==
    /\ \A c \in Clients, q \in Seqs : q > 0 /\ Uses(c, q) =>
         /\ q <= seqNum /\ (q = seqNum => active = c)
         /\ \A d \in Clients : Uses(d, q) => d = c
    /\ active = Server => primarySeq = seqNum

Positive ==
    /\ \A c \in Clients :
         /\ client[c].active => client[c].seq > 0
         /\ \A m : In(m, toClient[c]) /\ m.kind = "enter" => m.seq > 0
         /\ \A m : In(m, toServer[c]) => m.seq > 0
         /\ \A t : In(t, tasks[c]) => IF t.kind = "send" THEN t.seq > 0 ELSE client[c].seq > 0
    /\ \A e : In(e, events) /\ e.kind # "send" /\ e.from # Server => e.seq > 0

(***************************************************************************)
(* A client is entered and left in turn.                                   *)
(***************************************************************************)
Left(a, t, i) ==
    /\ a => \E j \in 1 .. i - 1 : t[j].kind = "leave"
    /\ \A k \in 1 .. i - 1 : t[k].kind = "enter" => \E j \in k + 1 .. i - 1 : t[j].kind = "leave"

InTurn(a, t) == \A i \in 1 .. Len(t) : t[i].kind = "enter" => Left(a, t, i)

Alternates ==
    \A c \in Clients : /\ InTurn(client[c].active, toClient[c])
                       /\ active # c => Left(client[c].active, toClient[c], Len(toClient[c]) + 1)

(***************************************************************************)
(* What the server hands on is within its limit.                           *)
(***************************************************************************)
EventsFit(ev) == \A e : In(e, ev) /\ e.kind = "send" => ~serverRefuses(e.data)
StreamFits(t) == \A m : In(m, t) /\ m.kind = "data" => ~serverRefuses(m.data)

Fits ==
    /\ ~serverRefuses(clip.data)
    /\ EventsFit(events)
    /\ \A c \in Clients : StreamFits(toClient[c])

ClipInv == TypeOK /\ Fits

OwnerInv ==
    /\ TypeOK /\ EventsCovered /\ StreamsCovered /\ TasksCovered /\ OwnCovered
    /\ Numbers /\ Positive /\ Alternates

-----------------------------------------------------------------------------
(* Queues *)

LEMMA InAppend ==
    ASSUME NEW A, NEW s \in Seq(A), NEW e \in A
    PROVE  \A x : In(x, Append(s, e)) <=> In(x, s) \/ x = e
  <1>1. Len(s) \in Nat /\ Len(Append(s, e)) = Len(s) + 1 /\ Append(s, e)[Len(s) + 1] = e
    BY AppendProperties, LenProperties
  <1>2. \A i \in 1 .. Len(s) : Append(s, e)[i] = s[i]
    BY AppendProperties
  <1>3. QED
    BY <1>1, <1>2 DEF In

LEMMA InTail ==
    ASSUME NEW A, NEW s \in Seq(A), s # <<>>
    PROVE  /\ \A x : In(x, s) <=> In(x, Tail(s)) \/ x = Head(s)
           /\ \A x : In(x, s) => x \in A
  <1>1. /\ Len(s) \in Nat /\ Len(s) >= 1 /\ Len(Tail(s)) = Len(s) - 1 /\ Head(s) = s[1]
        /\ \A i \in 1 .. Len(Tail(s)) : Tail(s)[i] = s[i + 1]
        /\ \A i \in 1 .. Len(s) : s[i] \in A
    BY HeadTailProperties, LenProperties, EmptySeq, ElementOfSeq
  <1>2. ASSUME NEW x, In(x, s) PROVE In(x, Tail(s)) \/ x = Head(s)
    <2>1. PICK i \in 1 .. Len(s) : s[i] = x
      BY <1>2 DEF In
    <2>2. CASE i = 1
      BY <1>1, <2>1, <2>2
    <2>3. CASE i # 1
      <3>1. i - 1 \in 1 .. Len(Tail(s)) /\ Tail(s)[i - 1] = s[i]
        BY <1>1, <2>3
      <3>2. QED
        BY <2>1, <3>1 DEF In
    <2>4. QED
      BY <2>2, <2>3
  <1>3. ASSUME NEW x, In(x, Tail(s)) PROVE In(x, s)
    <2>1. PICK i \in 1 .. Len(Tail(s)) : Tail(s)[i] = x
      BY <1>3 DEF In
    <2>2. i + 1 \in 1 .. Len(s)
      BY <1>1
    <2>3. QED
      BY <1>1, <2>1, <2>2 DEF In
  <1>4. In(Head(s), s)
    BY <1>1 DEF In
  <1>5. QED
    BY <1>1, <1>2, <1>3, <1>4 DEF In

LEMMA InType ==
    ASSUME NEW A, NEW s \in Seq(A), NEW x, In(x, s)
    PROVE  x \in A
  BY ElementOfSeq DEF In

LEMMA InEmpty == \A x : ~In(x, <<>>)
  BY DEF In

LEMMA InKept ==
    ASSUME NEW A, NEW s \in Seq(A), NEW S, NEW x, In(x, Kept(s, S))
    PROVE  In(x, s) /\ x \in S
  <1>1. PICK k \in 1 .. Len(Kept(s, S)) : Kept(s, S)[k] = x
    BY DEF In
  <1>2. PICK i \in 1 .. Len(s) : Kept(s, S)[k] = s[i] /\ s[i] \in S
    BY KeptType
  <1>3. QED
    BY <1>1, <1>2 DEF In

-----------------------------------------------------------------------------
(* Coverage *)

LEMMA CoveredBefore ==
    ASSUME NEW ev \in Seq(Events), NEW e \in Events, NEW i \in 1 .. Len(ev) + 1, NEW o, NEW s, NEW c, NEW q,
           Covered(o, s, ev, c, q, i)
    PROVE  Covered(o, s, Append(ev, e), c, q, i)
  <1>1. Len(ev) \in Nat /\ \A k \in 1 .. Len(ev) : Append(ev, e)[k] = ev[k]
    BY AppendProperties, LenProperties
  <1>2. \A k \in 1 .. i - 1 : Append(ev, e)[k] = ev[k] /\ k \in 1 .. Len(ev)
    BY <1>1
  <1> DEFINE t == Append(ev, e)
  <1> HIDE DEF t
  <1>3. \A k \in 1 .. i - 1 : t[k] = ev[k]
    BY <1>2 DEF t
  <1>4. QED
    BY <1>3 DEF Covered, t

LEMMA CoveredLonger ==
    ASSUME NEW ev \in Seq(Events), NEW e \in Events, NEW o, NEW s, NEW c, NEW q,
           Covered(o, s, ev, c, q, Len(ev) + 1),
           e.kind = "grabbed" /\ e.from = Server => e.seq > q
    PROVE  Covered(o, s, Append(ev, e), c, q, Len(Append(ev, e)) + 1)
  <1> DEFINE t == Append(ev, e)
  <1>1. Len(ev) \in Nat /\ (\A k \in 1 .. Len(ev) : t[k] = ev[k]) /\ t[Len(ev) + 1] = e /\ Len(t) = Len(ev) + 1
    BY AppendProperties, LenProperties
  <1> HIDE DEF t
  <1>2. s > q \/ (o = c /\ s = q) \/ \E k \in 1 .. Len(t) : IsGrab(t[k], c, q)
    BY <1>1 DEF Covered
  <1>3. ASSUME NEW j \in 1 .. Len(t), t[j].kind = "grabbed", t[j].from = Server
        PROVE  t[j].seq > q \/ \E k \in j + 1 .. Len(t) : IsGrab(t[k], c, q)
    <2>1. CASE j = Len(ev) + 1
      BY <1>1, <1>3, <2>1
    <2>2. CASE j # Len(ev) + 1
      <3>1. j \in 1 .. Len(ev) /\ t[j] = ev[j]
        BY <1>1, <2>2
      <3>2. ev[j].seq > q \/ \E k \in j + 1 .. Len(ev) : IsGrab(ev[k], c, q)
        BY <1>1, <1>3, <3>1 DEF Covered
      <3>3. QED
        BY <1>1, <3>1, <3>2
    <2>3. QED
      BY <2>1, <2>2
  <1>4. QED
    BY <1>1, <1>2, <1>3 DEF Covered, t

\* A grab of the client itself covers what comes after it.
LEMMA CoveredByGrab ==
    ASSUME NEW ev \in Seq(Events), NEW e \in Events, NEW o, NEW s, NEW c, NEW q, IsGrab(e, c, q)
    PROVE  c # Server => Covered(o, s, Append(ev, e), c, q, Len(Append(ev, e)) + 1)
  <1> DEFINE t == Append(ev, e)
  <1>1. Len(ev) \in Nat /\ t[Len(ev) + 1] = e /\ Len(t) = Len(ev) + 1
    BY AppendProperties, LenProperties
  <1> HIDE DEF t
  <1>2. IsGrab(t[Len(t)], c, q) /\ Len(t) \in 1 .. Len(t)
    BY <1>1
  <1>3. ASSUME c # Server, NEW j \in 1 .. Len(t), t[j].kind = "grabbed", t[j].from = Server
        PROVE  \E k \in j + 1 .. Len(t) : IsGrab(t[k], c, q)
    <2>1. j # Len(t)
      BY <1>2, <1>3 DEF IsGrab
    <2>2. Len(t) \in j + 1 .. Len(t)
      BY <1>1, <2>1
    <2>3. QED
      BY <1>2, <2>2
  <1>4. QED
    BY <1>1, <1>2, <1>3 DEF Covered, t

\* The first event is handled.
LEMMA CoveredNext ==
    ASSUME NEW ev \in Seq(Events), ev # <<>>, NEW i \in 2 .. Len(ev) + 1,
           NEW o, NEW s \in Nat, NEW c, NEW q \in Nat, Covered(o, s, ev, c, q, i),
           NEW p, NEW n \in Nat,
           LET h == Head(ev) IN
             \/ h.kind # "grabbed" /\ p = o /\ n = s
             \/ h.kind = "grabbed" /\ h.from # Server /\ h.seq < s /\ p = o /\ n = s
             \/ h.kind = "grabbed" /\ h.from # Server /\ h.seq >= s /\ p = h.from /\ n = h.seq
                /\ (h.seq = q /\ o = c => h.from = c)
             \/ h.kind = "grabbed" /\ h.from = Server /\ p = h.from /\ n = h.seq
    PROVE  Covered(p, n, Tail(ev), c, q, i - 1)
  <1> DEFINE h == Head(ev)
             t == Tail(ev)
  <1>1. /\ Len(ev) \in Nat /\ Len(ev) >= 1 /\ h = ev[1] /\ Len(t) = Len(ev) - 1
        /\ \A k \in 1 .. Len(t) : t[k] = ev[k + 1]
    BY HeadTailProperties, LenProperties, EmptySeq
  <1> HIDE DEF h, t
  <1>2. \A k \in 1 .. i - 2 : k \in 1 .. Len(t) /\ t[k] = ev[k + 1]
    BY <1>1
  <1>3. ASSUME NEW j \in 1 .. i - 1, \E k \in j + 1 .. i - 1 : IsGrab(ev[k], c, q)
        PROVE  \E k \in j .. i - 2 : IsGrab(t[k], c, q)
    <2>1. PICK k \in j + 1 .. i - 1 : IsGrab(ev[k], c, q)
      BY <1>3
    <2>2. k - 1 \in 1 .. i - 2 /\ k - 1 \in j .. i - 2 /\ (k - 1) + 1 = k
      BY <1>1
    <2>3. t[k - 1] = ev[k]
      BY <1>2, <2>2
    <2>4. QED
      BY <2>1, <2>2, <2>3
  <1>4. n > q \/ (p = c /\ n = q) \/ \E k \in 1 .. i - 2 : IsGrab(t[k], c, q)
    <2>1. s > q \/ (o = c /\ s = q) \/ IsGrab(h, c, q) \/ \E k \in 2 .. i - 1 : IsGrab(ev[k], c, q)
      BY <1>1 DEF Covered
    <2>2. (\E k \in 2 .. i - 1 : IsGrab(ev[k], c, q)) => \E k \in 1 .. i - 2 : IsGrab(t[k], c, q)
      <3>1. 1 \in 1 .. i - 1 /\ 1 + 1 = 2
        BY <1>1
      <3>2. QED
        BY <1>3, <3>1
    <2>3. h.kind = "grabbed" /\ h.from = Server =>
            h.seq > q \/ \E k \in 2 .. i - 1 : IsGrab(ev[k], c, q)
      BY <1>1 DEF Covered
    <2>4. QED
      BY <2>1, <2>2, <2>3 DEF IsGrab, h
  <1>5. ASSUME NEW j \in 1 .. i - 2, t[j].kind = "grabbed", t[j].from = Server
        PROVE  t[j].seq > q \/ \E k \in j + 1 .. i - 2 : IsGrab(t[k], c, q)
    <2>1. j + 1 \in 1 .. i - 1 /\ t[j] = ev[j + 1]
      BY <1>1, <1>2
    <2>2. ev[j + 1].seq > q \/ \E k \in (j + 1) + 1 .. i - 1 : IsGrab(ev[k], c, q)
      BY <1>5, <2>1 DEF Covered
    <2>3. QED
      BY <1>3, <2>1, <2>2
  <1>6. (i - 1) - 1 = i - 2
    OBVIOUS
  <1>7. QED
    BY <1>4, <1>5, <1>6 DEF Covered, t

\* The events of another client go.
LEMMA CoveredKept ==
    ASSUME NEW ev \in Seq(Events), NEW S, NEW o, NEW s, NEW c, NEW q, NEW i \in 1 .. Len(ev) + 1,
           Covered(o, s, ev, c, q, i),
           \A k \in 1 .. Len(ev) : IsGrab(ev[k], c, q) => ev[k] \in S
    PROVE  /\ i \in Places(ev, S) => Covered(o, s, Kept(ev, S), c, q, Rank(ev, S, i))
           /\ i = Len(ev) + 1 => Covered(o, s, Kept(ev, S), c, q, Len(Kept(ev, S)) + 1)
  <1> DEFINE t == Kept(ev, S)
  <1>1. Len(ev) \in Nat /\ Len(t) \in Nat /\ Len(t) = Rank(ev, S, Len(ev))
    BY KeptLen, LenProperties
  <1>2. ASSUME NEW n \in 1 .. Len(t) + 1,
               \A k \in Places(ev, S) : k < i <=> Rank(ev, S, k) < n
        PROVE  Covered(o, s, t, c, q, n)
    <2>1. ASSUME NEW k \in 1 .. i - 1, IsGrab(ev[k], c, q)
          PROVE  /\ Rank(ev, S, k) \in 1 .. n - 1 /\ IsGrab(t[Rank(ev, S, k)], c, q) /\ k \in Places(ev, S)
                 /\ Rank(ev, S, k) \in Nat
      <3>1. k \in 1 .. Len(ev)
        BY <1>1
      <3>2. k \in Places(ev, S)
        BY <2>1, <3>1 DEF Places
      <3>3. Rank(ev, S, k) \in 1 .. Len(t) /\ t[Rank(ev, S, k)] = ev[k]
        BY <3>2, KeptAt
      <3>4. QED
        BY <1>1, <1>2, <2>1, <3>2, <3>3
    <2>2. s > q \/ (o = c /\ s = q) \/ \E k \in 1 .. n - 1 : IsGrab(t[k], c, q)
      BY <2>1 DEF Covered
    <2>3. ASSUME NEW j \in 1 .. n - 1, t[j].kind = "grabbed", t[j].from = Server
          PROVE  t[j].seq > q \/ \E k \in j + 1 .. n - 1 : IsGrab(t[k], c, q)
      <3>1. j \in 1 .. Len(t)
        BY <1>1
      <3>2. PICK l \in Places(ev, S) : Rank(ev, S, l) = j
        BY <3>1, KeptLen
      <3>3. t[j] = ev[l] /\ l \in 1 .. Len(ev) /\ l < i
        BY <1>1, <1>2, <3>1, <3>2, KeptAt DEF Places
      <3>4. ev[l].seq > q \/ \E k \in l + 1 .. i - 1 : IsGrab(ev[k], c, q)
        BY <1>1, <2>3, <3>3 DEF Covered
      <3>5. ASSUME NEW k \in l + 1 .. i - 1, IsGrab(ev[k], c, q)
            PROVE  \E h \in j + 1 .. n - 1 : IsGrab(t[h], c, q)
        <4>1. k \in 1 .. i - 1 /\ l < k
          BY <1>1, <3>3
        <4>2. /\ Rank(ev, S, k) \in 1 .. n - 1 /\ IsGrab(t[Rank(ev, S, k)], c, q) /\ k \in Places(ev, S)
              /\ Rank(ev, S, k) \in Nat
          BY <2>1, <3>5, <4>1
        <4>3. Rank(ev, S, l) < Rank(ev, S, k)
          BY <3>2, <4>1, <4>2, RankGrows
        <4>4. Rank(ev, S, k) \in j + 1 .. n - 1
          BY <3>2, <4>2, <4>3
        <4>5. QED
          BY <4>2, <4>4
      <3>6. QED
        BY <3>3, <3>4, <3>5
    <2>4. QED
      BY <2>2, <2>3 DEF Covered
  <1>3. ASSUME i \in Places(ev, S) PROVE Covered(o, s, t, c, q, Rank(ev, S, i))
    <2>1. Rank(ev, S, i) \in 1 .. Len(t)
      BY <1>3, KeptAt
    <2>2. \A k \in Places(ev, S) : Rank(ev, S, k) \in 1 .. Len(t) /\ k \in 1 .. Len(ev)
      BY KeptAt DEF Places
    <2>3. ASSUME NEW k \in Places(ev, S) PROVE k < i <=> Rank(ev, S, k) < Rank(ev, S, i)
      <3>1. CASE k < i
        BY <1>3, <3>1, RankGrows
      <3>2. CASE k = i
        BY <2>1, <3>2, <1>1
      <3>3. CASE k > i
        <4>1. Rank(ev, S, i) < Rank(ev, S, k)
          BY <1>3, <3>3, RankGrows
        <4>2. QED
          BY <1>1, <2>1, <2>2, <3>3, <4>1
      <3>4. QED
        BY <1>1, <2>2, <3>1, <3>2, <3>3
    <2>4. QED
      BY <1>1, <1>2, <2>1, <2>3
  <1>4. ASSUME i = Len(ev) + 1 PROVE Covered(o, s, t, c, q, Len(t) + 1)
    <2>1. \A k \in Places(ev, S) : Rank(ev, S, k) \in 1 .. Len(t) /\ k \in 1 .. Len(ev)
      BY KeptAt DEF Places
    <2>2. QED
      BY <1>1, <1>2, <1>4, <2>1
  <1>5. QED
    BY <1>3, <1>4

\* A later element of a stream that a grab precedes.
LEMMA GrabSentLonger ==
    ASSUME NEW t \in Seq(UpMessages), NEW m \in UpMessages, NEW q, NEW i \in 1 .. Len(t) + 1, GrabSent(t, q, i)
    PROVE  GrabSent(Append(t, m), q, i) /\ GrabSent(Append(t, m), q, Len(Append(t, m)) + 1)
  <1> DEFINE u == Append(t, m)
  <1>1. Len(t) \in Nat /\ (\A k \in 1 .. Len(t) : u[k] = t[k]) /\ Len(u) = Len(t) + 1
    BY AppendProperties, LenProperties
  <1> HIDE DEF u
  <1>2. PICK k \in 1 .. i - 1 : t[k].kind = "grab" /\ t[k].seq = q
    BY DEF GrabSent
  <1>3. k \in 1 .. Len(t) /\ k \in 1 .. (Len(u) + 1) - 1 /\ u[k] = t[k]
    BY <1>1
  <1>4. QED
    BY <1>2, <1>3 DEF GrabSent, u

LEMMA GrabSentNow ==
    ASSUME NEW t \in Seq(UpMessages), NEW m \in UpMessages, m.kind = "grab"
    PROVE  GrabSent(Append(t, m), m.seq, Len(Append(t, m)) + 1)
  <1> DEFINE u == Append(t, m)
  <1>1. Len(t) \in Nat /\ u[Len(t) + 1] = m /\ Len(u) = Len(t) + 1
    BY AppendProperties, LenProperties
  <1> HIDE DEF u
  <1>2. Len(u) \in 1 .. (Len(u) + 1) - 1 /\ u[Len(u)] = m
    BY <1>1
  <1>3. QED
    BY <1>2 DEF GrabSent, u

LEMMA GrabSentNext ==
    ASSUME NEW t \in Seq(UpMessages), t # <<>>, NEW q, NEW i \in 2 .. Len(t) + 1, GrabSent(t, q, i)
    PROVE  (Head(t).kind = "grab" /\ Head(t).seq = q) \/ GrabSent(Tail(t), q, i - 1)
  <1> DEFINE u == Tail(t)
  <1>1. /\ Len(t) \in Nat /\ Len(t) >= 1 /\ Head(t) = t[1] /\ Len(u) = Len(t) - 1
        /\ \A k \in 1 .. Len(u) : u[k] = t[k + 1]
    BY HeadTailProperties, LenProperties, EmptySeq
  <1> HIDE DEF u
  <1>2. PICK k \in 1 .. i - 1 : t[k].kind = "grab" /\ t[k].seq = q
    BY DEF GrabSent
  <1>3. CASE k = 1
    BY <1>1, <1>2, <1>3
  <1>4. CASE k # 1
    <2>1. k - 1 \in 1 .. (i - 1) - 1 /\ k - 1 \in 1 .. Len(u) /\ (k - 1) + 1 = k
      BY <1>1, <1>4
    <2>2. u[k - 1] = t[k]
      BY <1>1, <2>1
    <2>3. QED
      BY <1>2, <2>1, <2>2 DEF GrabSent, u
  <1>5. QED
    BY <1>3, <1>4

-----------------------------------------------------------------------------
(* Enter and leave *)

LEMMA LeftLonger ==
    ASSUME NEW t \in Seq(DownMessages), NEW m \in DownMessages, NEW a
    PROVE  /\ \A i \in 1 .. Len(t) + 1 : Left(a, t, i) => Left(a, Append(t, m), i)
           /\ Left(a, t, Len(t) + 1) /\ m.kind # "enter" => Left(a, Append(t, m), Len(Append(t, m)) + 1)
           /\ m.kind = "leave" => Left(a, Append(t, m), Len(Append(t, m)) + 1)
           /\ InTurn(a, t) /\ (m.kind = "enter" => Left(a, t, Len(t) + 1)) => InTurn(a, Append(t, m))
  <1> DEFINE u == Append(t, m)
  <1>1. Len(t) \in Nat /\ (\A k \in 1 .. Len(t) : u[k] = t[k]) /\ u[Len(t) + 1] = m /\ Len(u) = Len(t) + 1
    BY AppendProperties, LenProperties
  <1> HIDE DEF u
  <1>2. ASSUME NEW i \in 1 .. Len(t) + 1, Left(a, t, i) PROVE Left(a, u, i)
    <2>1. \A k \in 1 .. i - 1 : u[k] = t[k] /\ k \in 1 .. Len(t)
      BY <1>1
    <2>2. \A k \in 1 .. i - 1 : \A j \in k + 1 .. i - 1 : u[j] = t[j]
      BY <1>1
    <2>3. QED
      BY <1>2, <2>1, <2>2 DEF Left
  <1>3. ASSUME Left(a, t, Len(t) + 1), m.kind # "enter" PROVE Left(a, u, Len(u) + 1)
    <2>1. (Len(u) + 1) - 1 = Len(t) + 1 /\ (Len(t) + 1) - 1 = Len(t)
      BY <1>1
    <2>2. a => \E j \in 1 .. Len(t) + 1 : u[j].kind = "leave"
      BY <1>1, <1>3, <2>1 DEF Left
    <2>3. ASSUME NEW k \in 1 .. Len(t) + 1, u[k].kind = "enter"
          PROVE  \E j \in k + 1 .. Len(t) + 1 : u[j].kind = "leave"
      <3>1. k \in 1 .. Len(t) /\ u[k] = t[k]
        BY <1>1, <1>3, <2>3
      <3>2. \E j \in k + 1 .. Len(t) : t[j].kind = "leave"
        BY <1>3, <2>1, <2>3, <3>1 DEF Left
      <3>3. QED
        BY <1>1, <3>1, <3>2
    <2>4. QED
      BY <2>1, <2>2, <2>3 DEF Left
  <1>4. ASSUME m.kind = "leave" PROVE Left(a, u, Len(u) + 1)
    <2>1. (Len(u) + 1) - 1 = Len(t) + 1 /\ Len(t) + 1 \in 1 .. Len(t) + 1
      BY <1>1
    <2>2. ASSUME NEW k \in 1 .. Len(t) + 1, u[k].kind = "enter"
          PROVE  \E j \in k + 1 .. Len(t) + 1 : u[j].kind = "leave"
      <3>1. k # Len(t) + 1
        BY <1>1, <1>4, <2>2
      <3>2. Len(t) + 1 \in k + 1 .. Len(t) + 1
        BY <1>1, <3>1
      <3>3. QED
        BY <1>1, <1>4, <3>2
    <2>3. QED
      BY <1>1, <1>4, <2>1, <2>2 DEF Left
  <1>5. ASSUME InTurn(a, t), m.kind = "enter" => Left(a, t, Len(t) + 1) PROVE InTurn(a, u)
    <2> SUFFICES ASSUME NEW i \in 1 .. Len(u), u[i].kind = "enter" PROVE Left(a, u, i)
      BY DEF InTurn
    <2>1. i \in 1 .. Len(t) + 1
      BY <1>1
    <2>2. Left(a, t, i)
      BY <1>1, <1>5 DEF InTurn
    <2>3. QED
      BY <1>2, <2>1, <2>2
  <1>6. QED
    BY <1>2, <1>3, <1>4, <1>5 DEF u

\* The client handles the first message of the stream.
LEMMA LeftNext ==
    ASSUME NEW t \in Seq(DownMessages), t # <<>>, NEW a \in BOOLEAN, NEW b \in BOOLEAN, InTurn(a, t),
           b = IF Head(t).kind = "enter" THEN TRUE ELSE IF Head(t).kind = "leave" THEN FALSE ELSE a
    PROVE  /\ Head(t).kind = "enter" => ~a
           /\ \A i \in 2 .. Len(t) + 1 : Left(a, t, i) => Left(b, Tail(t), i - 1)
           /\ InTurn(b, Tail(t))
  <1> DEFINE u == Tail(t)
             h == Head(t)
  <1>1. /\ Len(t) \in Nat /\ Len(t) >= 1 /\ h = t[1] /\ Len(u) = Len(t) - 1
        /\ \A k \in 1 .. Len(u) : u[k] = t[k + 1]
    BY HeadTailProperties, LenProperties, EmptySeq
  <1> HIDE DEF u
  <1>2. h.kind = "enter" => ~a
    BY <1>1 DEF InTurn, Left
  <1>3. ASSUME NEW i \in 2 .. Len(t) + 1, Left(a, t, i) PROVE Left(b, u, i - 1)
    <2>1. ASSUME NEW k \in 1 .. i - 1, \E j \in k + 1 .. i - 1 : t[j].kind = "leave"
          PROVE  \E j \in k .. (i - 1) - 1 : u[j].kind = "leave"
      <3>1. PICK j \in k + 1 .. i - 1 : t[j].kind = "leave"
        BY <2>1
      <3>2. j - 1 \in k .. (i - 1) - 1 /\ j - 1 \in 1 .. Len(u) /\ (j - 1) + 1 = j
        BY <1>1
      <3>3. u[j - 1] = t[j]
        BY <1>1, <3>2
      <3>4. QED
        BY <3>1, <3>2, <3>3
    <2>2. b => \E j \in 1 .. (i - 1) - 1 : u[j].kind = "leave"
      <3> SUFFICES ASSUME b PROVE \E j \in 1 .. (i - 1) - 1 : u[j].kind = "leave"
        OBVIOUS
      <3>1. 1 \in 1 .. i - 1 /\ 1 + 1 = 2
        BY <1>1
      <3>2. h.kind # "leave"
        OBVIOUS
      <3>3. \E j \in 2 .. i - 1 : t[j].kind = "leave"
        <4>1. CASE h.kind = "enter"
          BY <1>1, <1>3, <3>1, <4>1 DEF Left
        <4>2. CASE h.kind # "enter"
          <5>1. PICK j \in 1 .. i - 1 : t[j].kind = "leave"
            BY <1>3, <3>2, <4>2 DEF Left
          <5>2. j # 1
            BY <1>1, <3>2, <5>1
          <5>3. QED
            BY <5>1, <5>2
        <4>3. QED
          BY <4>1, <4>2
      <3>4. QED
        BY <2>1, <3>1, <3>3
    <2>3. ASSUME NEW k \in 1 .. (i - 1) - 1, u[k].kind = "enter"
          PROVE  \E j \in k + 1 .. (i - 1) - 1 : u[j].kind = "leave"
      <3>1. k \in 1 .. Len(u) /\ k + 1 \in 1 .. i - 1
        BY <1>1
      <3>2. \E j \in (k + 1) + 1 .. i - 1 : t[j].kind = "leave"
        BY <1>1, <1>3, <2>3, <3>1 DEF Left
      <3>3. QED
        BY <2>1, <3>1, <3>2
    <2>4. QED
      BY <2>2, <2>3 DEF Left
  <1>4. InTurn(b, u)
    <2> SUFFICES ASSUME NEW i \in 1 .. Len(u), u[i].kind = "enter" PROVE Left(b, u, i)
      BY DEF InTurn
    <2>1. i + 1 \in 2 .. Len(t) + 1 /\ i + 1 \in 1 .. Len(t) /\ u[i] = t[i + 1] /\ (i + 1) - 1 = i
      BY <1>1
    <2>2. Left(a, t, i + 1)
      BY <2>1 DEF InTurn
    <2>3. QED
      BY <1>3, <2>1, <2>2
  <1>5. QED
    BY <1>2, <1>3, <1>4 DEF u

-----------------------------------------------------------------------------
(* The server's operations on its state *)

States == [clip : Clips, dirty : [Screens -> BOOLEAN], cache : [Clients -> Contents],
           local : [Screens -> Contents], packed : BOOLEAN,
           toClient : [Clients -> Seq(DownMessages)], events : Seq(Events)]

LEMMA NowType == TypeOK => Now \in States
  BY DEF TypeOK, Now, States, Clips

\* tell appends to the stream of one client.
LEMMA TellEffect ==
    ASSUME NEW s \in States, NEW c \in Clients, NEW m \in DownMessages
    PROVE  /\ tell(s, c, m) \in States
           /\ tell(s, c, m).clip = s.clip /\ tell(s, c, m).events = s.events
           /\ tell(s, c, m).dirty = s.dirty /\ tell(s, c, m).cache = s.cache
           /\ tell(s, c, m).local = s.local
           /\ tell(s, c, m).toClient = [s.toClient EXCEPT ![c] = Append(@, m)]
  <1>1. s.toClient \in [Clients -> Seq(DownMessages)] /\ s.toClient[c] \in Seq(DownMessages)
    BY DEF States
  <1>2. Append(s.toClient[c], m) \in Seq(DownMessages)
    BY <1>1, AppendProperties
  <1>3. [s.toClient EXCEPT ![c] = Append(@, m)] \in [Clients -> Seq(DownMessages)]
    BY <1>1, <1>2
  <1> DEFINE t == [s.toClient EXCEPT ![c] = Append(@, m)]
  <1>4. tell(s, c, m) = [s EXCEPT !.toClient = t]
    BY DEF tell, States
  <1> HIDE DEF t
  <1>5. QED
    BY <1>3, <1>4 DEF States, t

\* What setClipboard and onClipboardChanged may do to the queue: nothing, or
\* queue a transfer of d.
Queues(old, new, d) ==
    new = old \/ \E p \in Clients : new = Append(old, [kind |-> "send", to |-> p, data |-> d])

LEMMA SendType ==
    ASSUME NEW p \in Clients, NEW d \in Contents
    PROVE  [kind |-> "send", to |-> p, data |-> d] \in Events
  BY DEF Events

LEMMA SetEffect ==
    ASSUME NEW s \in States, NEW p \in Screens, NEW d \in Contents
    PROVE  /\ setClipboard(s, p, d) \in States
           /\ setClipboard(s, p, d).clip = s.clip
           /\ setClipboard(s, p, d).toClient = s.toClient
           /\ Queues(s.events, setClipboard(s, p, d).events, d)
           /\ p = Server => setClipboard(s, p, d).events = s.events
  <1> DEFINE e == [kind |-> "send", to |-> p, data |-> d]
  <1>0. /\ s.dirty \in [Screens -> BOOLEAN] /\ s.local \in [Screens -> Contents]
        /\ s.cache \in [Clients -> Contents] /\ s.events \in Seq(Events)
    BY DEF States
  <1>1. CASE ~s.dirty[p]
    BY <1>1 DEF setClipboard, Queues
  <1>2. CASE s.dirty[p] /\ p = Server
    <2> DEFINE f == [s.dirty EXCEPT ![Server] = FALSE]
               l == [s.local EXCEPT ![Server] = d]
    <2>1. f \in [Screens -> BOOLEAN] /\ l \in [Screens -> Contents]
      BY <1>0, <1>2
    <2>2. setClipboard(s, p, d) = [s EXCEPT !.dirty = f, !.local = l, !.packed = d \in Files]
      BY <1>2 DEF setClipboard, States
    <2> HIDE DEF f, l
    <2>3. (d \in Files) \in BOOLEAN
      OBVIOUS
    <2>4. setClipboard(s, p, d) \in States
      BY <2>1, <2>2, <2>3 DEF States
    <2>5. QED
      BY <2>2, <2>4 DEF States, Queues
  <1>3. CASE s.dirty[p] /\ p # Server
    <2> DEFINE f == [s.dirty EXCEPT ![p] = FALSE]
               l == [s.cache EXCEPT ![p] = d]
               v == Append(s.events, e)
    <2>0. p \in Clients
      BY <1>3 DEF Screens
    <2>1. f \in [Screens -> BOOLEAN] /\ l \in [Clients -> Contents]
      BY <1>0, <2>0
    <2>a. v \in Seq(Events)
      BY <1>0, <2>0, SendType, AppendProperties
    <2>2. setClipboard(s, p, d) = [s EXCEPT !.dirty = f, !.cache = l, !.events = v]
      BY <1>3 DEF setClipboard, States
    <2>b. Queues(s.events, v, d)
      BY <2>0 DEF Queues
    <2> HIDE DEF f, l, v
    <2>4. setClipboard(s, p, d) \in States
      BY <2>1, <2>2, <2>a DEF States
    <2>5. QED
      BY <1>3, <2>2, <2>4, <2>b DEF States
  <1>4. QED
    BY <1>1, <1>2, <1>3

LEMMA DirtyType ==
    ASSUME NEW f \in [Screens -> BOOLEAN], NEW x
    PROVE  [p \in Screens |-> IF p \in Online THEN p # x ELSE f[p]] \in [Screens -> BOOLEAN]
  OBVIOUS

\* onClipboardChanged leaves owner and number alone; what it hands on is what
\* it keeps, and within the limit.
LEMMA ChangedEffect ==
    ASSUME NEW s \in States, NEW x \in Screens, NEW q \in Seqs, NEW ok \in BOOLEAN, active \in Screens
    PROVE  LET u == onClipboardChanged(s, x, q, ok)
           IN  /\ u \in States
               /\ u.clip.owner = s.clip.owner /\ u.clip.seq = s.clip.seq
               /\ u.toClient = s.toClient
               /\ \/ u.clip.data = s.clip.data /\ u.events = s.events
                  \/ ~serverRefuses(u.clip.data) /\ Queues(s.events, u.events, u.clip.data)
               /\ active = Server => u.events = s.events
  <1> DEFINE d == IF x = Server THEN s.local[Server] ELSE s.cache[x]
             r == [s EXCEPT !.clip.raw = d]
             f == [p \in Screens |-> IF p \in Online THEN p # x ELSE s.dirty[p]]
             u == [r EXCEPT !.clip.data = d, !.dirty = f]
  <1>1. d \in Contents /\ s.clip \in Clips
    BY DEF States, Screens
  <1>2. r = [s EXCEPT !.clip = [s.clip EXCEPT !.raw = d]]
    BY DEF States
  <1>3. u = [s EXCEPT !.clip = [s.clip EXCEPT !.raw = d, !.data = d], !.dirty = f]
    BY <1>1 DEF States, Clips
  <1>4. f \in [Screens -> BOOLEAN]
    BY DirtyType DEF States
  <1>5. [s.clip EXCEPT !.raw = d] \in Clips /\ [s.clip EXCEPT !.raw = d, !.data = d] \in Clips
    BY <1>1 DEF Clips
  <1>6. u.dirty = [p \in Screens |-> IF p \in Online THEN p # x ELSE r.dirty[p]]
    BY <1>2, <1>3 DEF States
  <1>7. /\ \/ onClipboardChanged(s, x, q, ok) = s
           \/ onClipboardChanged(s, x, q, ok) = r
           \/ /\ ~serverRefuses(d)
              /\ \/ onClipboardChanged(s, x, q, ok) = setClipboard(u, active, d)
                 \/ onClipboardChanged(s, x, q, ok) = u
                 \/ onClipboardChanged(s, x, q, ok) = [setClipboard(u, Server, d) EXCEPT !.packed = FALSE]
    <2>1. q \in Nat /\ s.clip.seq \in Nat
      BY <1>1 DEF Seqs, Clips
    <2>2. r.dirty = s.dirty
      BY <1>2 DEF States
    <2> DEFINE k == [r EXCEPT !.clip.data = d,
                              !.dirty = [p \in Screens |-> IF p \in Online THEN p # x ELSE @[p]]]
               refused == \/ x = Server /\ ~works(d, ok)
                          \/ serverRefuses(d)
                          \/ d = s.clip.data
    <2>3. k = u
      BY <2>2
    <2>4. onClipboardChanged(s, x, q, ok) =
            CASE q < s.clip.seq -> s
              [] q >= s.clip.seq /\ refused -> r
              [] OTHER -> IF active # Server THEN setClipboard(k, active, d)
                          ELSE IF x = Server \/ ~works(d, ok) THEN k
                          ELSE [setClipboard(k, Server, d) EXCEPT !.packed = FALSE]
      BY DEF onClipboardChanged
    <2>5. ~refused => ~serverRefuses(d)
      OBVIOUS
    <2> DEFINE w == [setClipboard(k, Server, d) EXCEPT !.packed = FALSE]
    <2> HIDE DEF k, d, r, refused, w
    <2>6. \/ onClipboardChanged(s, x, q, ok) = s
          \/ onClipboardChanged(s, x, q, ok) = r
          \/ /\ ~refused
             /\ \/ onClipboardChanged(s, x, q, ok) = setClipboard(k, active, d)
                \/ onClipboardChanged(s, x, q, ok) = k
                \/ onClipboardChanged(s, x, q, ok) = w
      BY <2>1, <2>4 DEF w
    <2>7. QED
      BY <2>3, <2>5, <2>6 DEF w
  <1> HIDE DEF d, f
  <1>8. /\ r \in States /\ r.clip.owner = s.clip.owner /\ r.clip.seq = s.clip.seq
        /\ r.toClient = s.toClient /\ r.clip.data = s.clip.data /\ r.events = s.events
    BY <1>1, <1>2, <1>5 DEF States, Clips
  <1>9. /\ u \in States /\ u.clip.owner = s.clip.owner /\ u.clip.seq = s.clip.seq
        /\ u.toClient = s.toClient /\ u.clip.data = d /\ u.events = s.events
    BY <1>1, <1>3, <1>4, <1>5 DEF States, Clips
  <1> HIDE DEF r, u
  <1>10. \A p \in Screens : LET w == setClipboard(u, p, d) IN
           /\ w \in States /\ w.clip = u.clip /\ w.toClient = u.toClient /\ Queues(u.events, w.events, d)
           /\ p = Server => w.events = u.events
    BY <1>1, <1>9, SetEffect
  <1>11. ASSUME NEW w \in States
         PROVE  LET v == [w EXCEPT !.packed = FALSE] IN
                v \in States /\ v.clip = w.clip /\ v.toClient = w.toClient /\ v.events = w.events
    BY DEF States
  <1>12. Server \in Screens /\ Queues(u.events, u.events, d)
    BY DEF Screens, Queues
  <1> DEFINE z == onClipboardChanged(s, x, q, ok)
             Good(v) == /\ v \in States
                        /\ v.clip.owner = s.clip.owner /\ v.clip.seq = s.clip.seq
                        /\ v.toClient = s.toClient
                        /\ \/ v.clip.data = s.clip.data /\ v.events = s.events
                           \/ ~serverRefuses(v.clip.data) /\ Queues(s.events, v.events, v.clip.data)
                        /\ active = Server => v.events = s.events
  <1>13. Good(s) /\ Good(r)
    BY <1>8
  <1>14. ~serverRefuses(d) => Good(u) /\ Good(setClipboard(u, active, d)) /\ Good(setClipboard(u, Server, d))
    BY <1>9, <1>10, <1>12
  <1>15. \A v : Good(v) => Good([v EXCEPT !.packed = FALSE])
    BY <1>11
  <1> HIDE DEF Good
  <1>16. Good(z)
    BY <1>7, <1>12, <1>13, <1>14, <1>15
  <1>17. QED
    BY <1>16 DEF Good

GrabMessage == [kind |-> "grab"]

LEMMA GrabMessageType == GrabMessage \in DownMessages /\ GrabMessage.kind = "grab"
  BY DEF GrabMessage, DownMessages

\* A grab is refused because of its number, or g owns the clipboard with that
\* number, it is empty, and some clients are told.
LEMMA GrabbedEffect ==
    ASSUME NEW s \in States, NEW g \in Screens, NEW q \in Seqs
    PROVE  LET u == handleGrabbed(s, g, q)
           IN  /\ u \in States
               /\ g # Server /\ q < s.clip.seq => u = s
               /\ g = Server \/ ~(q < s.clip.seq) =>
                    u.clip.owner = g /\ u.clip.seq = q /\ u.clip.data = 0
               /\ u.events = s.events
               /\ \A c \in Clients : \/ u.toClient[c] = s.toClient[c]
                                     \/ u.toClient[c] = Append(s.toClient[c], GrabMessage)
  <1> DEFINE n == [owner |-> g, seq |-> q, raw |-> 0, data |-> 0]
             a == [s EXCEPT !.clip = n]
             f == [p \in Screens |-> IF p \in Online THEN p # g ELSE s.dirty[p]]
             l == [s.local EXCEPT ![Server] = IF g = Server THEN @ ELSE 0]
             t == [c \in Clients |->
                     IF c # g /\ client[c].online THEN Append(s.toClient[c], GrabMessage) ELSE s.toClient[c]]
  <1>0. 0 \in Contents
    BY ConstantsAssumption DEF Contents
  <1>1. n \in Clips /\ n.owner = g /\ n.seq = q /\ n.data = 0
    BY <1>0 DEF Clips
  <1>2. f \in [Screens -> BOOLEAN]
    BY DirtyType DEF States
  <1>3. l \in [Screens -> Contents]
    BY <1>0 DEF States
  <1>4. t \in [Clients -> Seq(DownMessages)]
    <2>1. \A c \in Clients : s.toClient[c] \in Seq(DownMessages)
      BY DEF States
    <2>2. \A c \in Clients : Append(s.toClient[c], GrabMessage) \in Seq(DownMessages)
      BY <2>1, GrabMessageType, AppendProperties
    <2>3. QED
      BY <2>1, <2>2
  <1>5. \A c \in Clients : t[c] = s.toClient[c] \/ t[c] = Append(s.toClient[c], GrabMessage)
    OBVIOUS
  <1>6. (s.packed /\ g = Server) \in BOOLEAN
    BY DEF States
  <1>7. a.dirty = s.dirty /\ a.local = s.local /\ a.packed = s.packed /\ a.toClient = s.toClient
    BY DEF States
  <1>8. grabAll(a, g) = [s EXCEPT !.clip = n, !.dirty = f, !.local = l, !.packed = s.packed /\ g = Server,
                                  !.toClient = t]
    BY <1>7 DEF grabAll, States, GrabMessage
  <1>9. CASE g # Server /\ q < s.clip.seq
    BY <1>9 DEF handleGrabbed
  <1>10. CASE ~(g # Server /\ q < s.clip.seq)
    <2>1. handleGrabbed(s, g, q) = grabAll(a, g)
      BY <1>10 DEF handleGrabbed
    <2> HIDE DEF n, f, l, t, a
    <2> DEFINE u == handleGrabbed(s, g, q)
    <2> DEFINE b == s.packed /\ g = Server
    <2>a. b \in BOOLEAN
      BY <1>6
    <2>b. u = [s EXCEPT !.clip = n, !.dirty = f, !.local = l, !.packed = b, !.toClient = t]
      BY <1>8, <2>1
    <2> HIDE DEF b, u
    <2>2. /\ u \in States /\ u.clip = n /\ u.events = s.events /\ u.toClient = t
      BY <1>1, <1>2, <1>3, <1>4, <2>a, <2>b DEF States
    <2>3. QED
      BY <1>1, <1>5, <1>10, <2>2 DEF u
  <1>11. QED
    BY <1>9, <1>10

-----------------------------------------------------------------------------
(* The server's two large handlers, by what they do to the state *)

LEMMA BecomeType ==
    ASSUME TypeOK, NEW s \in States, Become(s), events' = s.events,
           active' \in Screens, seqNum' \in Seqs, primarySeq' \in Seqs,
           UNCHANGED <<client, toServer, tasks, mixing, copies, losses>>
    PROVE  TypeOK'
  BY DEF TypeOK, Become, States, Clips, mixing

LEMMA OutcomesType == Outcomes \subseteq BOOLEAN
  BY DEF Outcomes

LEMMA SwitchEffect ==
    ASSUME TypeOK, SwitchScreen
    PROVE  /\ TypeOK'
           /\ clip'.owner = clip.owner /\ clip'.seq = clip.seq
           /\ clip'.data = clip.data \/ ~serverRefuses(clip'.data)
           /\ Queues(events, events', clip'.data)
           /\ active # active' /\ active' \in Screens
           /\ active \in Clients =>
                toClient'[active] = Append(toClient[active], [kind |-> "leave"])
           /\ active' \in Clients =>
                toClient'[active'] = Append(toClient[active'], [kind |-> "enter", seq |-> seqNum + 1])
           /\ \A c \in Clients \ {active, active'} : toClient'[c] = toClient[c]
  <1>1. /\ active \in Screens /\ active' \in Screens /\ active # active'
        /\ seqNum' = seqNum + 1 /\ seqNum + 1 \in Seqs /\ seqNum' \in Seqs /\ primarySeq' \in Seqs
    BY ConstantsAssumption DEF SwitchScreen, TypeOK, Online, Screens, Seqs
  <1>2. PICK ok \in Outcomes :
     LET left == IF active # Server THEN tell(Now, active, [kind |-> "leave"])
                 ELSE IF clip.owner = Server THEN onClipboardChanged(Now, Server, clip.seq, ok)
                 ELSE Now
         in == IF active' = Server THEN left
               ELSE tell(left, active', [kind |-> "enter", seq |-> seqNum'])
         s == IF serverRefuses(in.clip.raw) THEN in ELSE setClipboard(in, active', in.clip.data)
     IN  Become(s) /\ events' = s.events
    BY DEF SwitchScreen
  <1> DEFINE leave == [kind |-> "leave"]
             enter == [kind |-> "enter", seq |-> seqNum']
             left == IF active # Server THEN tell(Now, active, leave)
                     ELSE IF clip.owner = Server THEN onClipboardChanged(Now, Server, clip.seq, ok)
                     ELSE Now
             in == IF active' = Server THEN left ELSE tell(left, active', enter)
             s == IF serverRefuses(in.clip.raw) THEN in ELSE setClipboard(in, active', in.clip.data)
  <1>3. Become(s) /\ events' = s.events
    BY <1>2
  <1>4. leave \in DownMessages /\ enter \in DownMessages
    BY <1>1 DEF DownMessages
  <1>5. /\ Now \in States /\ Now.clip = clip /\ Now.events = events /\ Now.toClient = toClient
        /\ clip.seq \in Seqs /\ clip.data \in Contents /\ Server \in Screens /\ ok \in BOOLEAN
    BY NowType, OutcomesType DEF Now, TypeOK, Screens
  <1>6. /\ left \in States
        /\ left.clip.owner = clip.owner /\ left.clip.seq = clip.seq
        /\ left.clip.data = clip.data \/ ~serverRefuses(left.clip.data)
        /\ left.events = events
        /\ left.toClient = IF active # Server THEN [toClient EXCEPT ![active] = Append(@, leave)] ELSE toClient
    <2> HIDE DEF leave
    <2>1. CASE active # Server
      <3>1. active \in Clients /\ left = tell(Now, active, leave)
        BY <1>1, <2>1 DEF Screens
      <3> HIDE DEF left
      <3>2. /\ left \in States /\ left.clip = clip /\ left.events = events
            /\ left.toClient = [toClient EXCEPT ![active] = Append(@, leave)]
        BY <1>4, <1>5, <3>1, TellEffect
      <3>3. QED
        BY <2>1, <3>2
    <2>2. CASE active = Server /\ clip.owner = Server
      <3>1. left = onClipboardChanged(Now, Server, clip.seq, ok)
        BY <2>2
      <3> HIDE DEF left
      <3>2. QED
        BY <1>1, <1>5, <2>2, <3>1, ChangedEffect
    <2>3. CASE active = Server /\ clip.owner # Server
      BY <1>5, <2>3
    <2>4. QED
      BY <2>1, <2>2, <2>3
  <1> HIDE DEF left, leave
  <1>7. /\ in \in States /\ in.clip = left.clip /\ in.events = events
        /\ in.toClient = IF active' # Server THEN [left.toClient EXCEPT ![active'] = Append(@, enter)]
                         ELSE left.toClient
    <2> HIDE DEF enter
    <2>1. CASE active' # Server
      <3>1. active' \in Clients /\ in = tell(left, active', enter)
        BY <1>1, <2>1 DEF Screens
      <3> HIDE DEF in
      <3>2. QED
        BY <1>4, <1>6, <2>1, <3>1, TellEffect
    <2>2. CASE active' = Server
      BY <1>6, <2>2
    <2>3. QED
      BY <2>1, <2>2
  <1> HIDE DEF in
  <1>8. /\ s \in States /\ s.clip = in.clip /\ s.toClient = in.toClient
        /\ Queues(events, s.events, s.clip.data)
    <2>1. in.clip.data \in Contents
      BY <1>7 DEF States, Clips
    <2>2. CASE serverRefuses(in.clip.raw)
      BY <1>7, <2>2 DEF Queues
    <2>3. CASE ~serverRefuses(in.clip.raw)
      <3>1. s = setClipboard(in, active', in.clip.data)
        BY <2>3
      <3> HIDE DEF s
      <3>2. QED
        BY <1>1, <1>7, <2>1, <3>1, SetEffect
    <2>4. QED
      BY <2>2, <2>3
  <1> HIDE DEF s
  <1>9. TypeOK'
    BY <1>1, <1>3, <1>8, BecomeType DEF SwitchScreen
  <1>10. clip' = left.clip /\ toClient' = in.toClient
    BY <1>3, <1>7, <1>8 DEF Become
  <1>11. /\ left.toClient \in [Clients -> Seq(DownMessages)] /\ toClient \in [Clients -> Seq(DownMessages)]
         /\ Server \notin Clients
    BY <1>6, ConstantsAssumption DEF States, TypeOK
  <1>12. /\ active \in Clients => toClient'[active] = Append(toClient[active], leave)
         /\ active' \in Clients => toClient'[active'] = Append(toClient[active'], enter)
         /\ \A c \in Clients \ {active, active'} : toClient'[c] = toClient[c]
    BY <1>1, <1>6, <1>7, <1>10, <1>11
  <1>13. QED
    BY <1>1, <1>3, <1>6, <1>8, <1>9, <1>10, <1>12 DEF enter, leave, Become

\* What Dispatch does with the first event h of the queue.
Handled(h) ==
    \/ /\ h.kind = "send"
       /\ clip' = clip /\ events' = Tail(events)
       /\ toClient' = [toClient EXCEPT ![h.to] = Append(@, [kind |-> "data", data |-> h.data])]
    \/ /\ h.kind = "grabbed" /\ h.from # Server /\ h.seq < clip.seq
       /\ clip' = clip /\ events' = Tail(events) /\ toClient' = toClient
    \/ /\ h.kind = "grabbed" /\ (h.from = Server \/ ~(h.seq < clip.seq))
       /\ clip'.owner = h.from /\ clip'.seq = h.seq /\ clip'.data = 0
       /\ events' = Tail(events)
       /\ \A c \in Clients : toClient'[c] = toClient[c] \/ toClient'[c] = Append(toClient[c], GrabMessage)
    \/ /\ h.kind = "changed"
       /\ clip'.owner = clip.owner /\ clip'.seq = clip.seq /\ toClient' = toClient
       /\ \/ clip'.data = clip.data /\ events' = Tail(events)
          \/ ~serverRefuses(clip'.data) /\ Queues(Tail(events), events', clip'.data)

LEMMA EventType ==
    ASSUME NEW e \in Events
    PROVE  /\ e.kind \in {"send", "grabbed", "changed"}
           /\ e.kind = "send" => e.to \in Clients /\ e.data \in Contents
           /\ e.kind = "grabbed" => e.from \in Screens /\ e.seq \in Seqs
           /\ e.kind = "changed" => e.from \in Clients /\ e.from \in Screens /\ e.seq \in Seqs
  BY DEF Events, Screens

LEMMA DispatchEffect ==
    ASSUME TypeOK, Dispatch
    PROVE  TypeOK' /\ Handled(Head(events))
  <1> DEFINE h == Head(events)
             now == [Now EXCEPT !.events = Tail(events)]
  <1>1. PICK ok \in Outcomes :
     LET s == CASE h.kind = "send" -> tell(now, h.to, [kind |-> "data", data |-> h.data])
                [] h.kind = "grabbed" -> handleGrabbed(now, h.from, h.seq)
                [] h.kind = "changed" -> onClipboardChanged(now, h.from, h.seq, ok)
     IN  Become(s) /\ events' = s.events
    BY DEF Dispatch
  <1> DEFINE s == CASE h.kind = "send" -> tell(now, h.to, [kind |-> "data", data |-> h.data])
                    [] h.kind = "grabbed" -> handleGrabbed(now, h.from, h.seq)
                    [] h.kind = "changed" -> onClipboardChanged(now, h.from, h.seq, ok)
  <1>2. Become(s) /\ events' = s.events
    BY <1>1
  <1>3. h \in Events /\ Tail(events) \in Seq(Events) /\ ok \in BOOLEAN /\ active \in Screens
    BY HeadTailProperties, OutcomesType DEF TypeOK, Dispatch
  <1>4. now \in States /\ now.clip = clip /\ now.events = Tail(events) /\ now.toClient = toClient
    BY <1>3, NowType DEF Now, States
  <1>5. s \in States => TypeOK'
    <2> HIDE DEF s
    <2>1. /\ active' = active /\ seqNum' = seqNum /\ primarySeq' = primarySeq
          /\ UNCHANGED <<client, toServer, tasks, mixing, copies, losses>>
      BY DEF Dispatch
    <2>2. active' \in Screens /\ seqNum' \in Seqs /\ primarySeq' \in Seqs
      BY <2>1 DEF TypeOK
    <2>3. QED
      BY <1>2, <2>1, <2>2, BecomeType
  <1> HIDE DEF h, now
  <1>6. CASE h.kind = "send"
    <2> DEFINE m == [kind |-> "data", data |-> h.data]
    <2>1. m \in DownMessages /\ h.to \in Clients
      BY <1>3, <1>6, EventType DEF DownMessages
    <2>2. s = tell(now, h.to, m)
      BY <1>6
    <2> HIDE DEF s, m
    <2>3. /\ s \in States /\ s.clip = clip /\ s.events = Tail(events)
          /\ s.toClient = [toClient EXCEPT ![h.to] = Append(@, m)]
      BY <1>4, <2>1, <2>2, TellEffect
    <2>4. QED
      BY <1>2, <1>5, <1>6, <2>3 DEF Become, Handled, m, h
  <1>7. CASE h.kind = "grabbed"
    <2>1. h.from \in Screens /\ h.seq \in Seqs
      BY <1>3, <1>7, EventType
    <2>2. s = handleGrabbed(now, h.from, h.seq)
      BY <1>7
    <2> HIDE DEF s
    <2>3. /\ s \in States
          /\ h.from # Server /\ h.seq < now.clip.seq => s = now
          /\ h.from = Server \/ ~(h.seq < now.clip.seq) =>
               s.clip.owner = h.from /\ s.clip.seq = h.seq /\ s.clip.data = 0
          /\ s.events = now.events
          /\ \A c \in Clients : \/ s.toClient[c] = now.toClient[c]
                                \/ s.toClient[c] = Append(now.toClient[c], GrabMessage)
      BY <1>4, <2>1, <2>2, GrabbedEffect
    <2>4. QED
      BY <1>2, <1>4, <1>5, <1>7, <2>3 DEF Become, Handled, h
  <1>8. CASE h.kind = "changed"
    <2>1. h.from \in Screens /\ h.seq \in Seqs
      BY <1>3, <1>8, EventType
    <2>2. s = onClipboardChanged(now, h.from, h.seq, ok)
      BY <1>8
    <2> HIDE DEF s
    <2>3. /\ s \in States
          /\ s.clip.owner = now.clip.owner /\ s.clip.seq = now.clip.seq
          /\ s.toClient = now.toClient
          /\ \/ s.clip.data = now.clip.data /\ s.events = now.events
             \/ ~serverRefuses(s.clip.data) /\ Queues(now.events, s.events, s.clip.data)
      BY <1>3, <1>4, <2>1, <2>2, ChangedEffect
    <2>4. QED
      BY <1>2, <1>4, <1>5, <1>8, <2>3 DEF Become, Handled, h
  <1>9. QED
    BY <1>3, <1>6, <1>7, <1>8, EventType DEF h

-----------------------------------------------------------------------------
(* The types of the other actions *)

\* One field of a client's record changes, or several.
LEMMA FieldType ==
    ASSUME NEW x \in ClientType
    PROVE  /\ \A b \in BOOLEAN : [x EXCEPT !.active = b] \in ClientType
           /\ \A b \in BOOLEAN : [x EXCEPT !.own = b] \in ClientType
           /\ \A b \in BOOLEAN : [x EXCEPT !.timed = b] \in ClientType
           /\ \A b \in BOOLEAN : [x EXCEPT !.online = b] \in ClientType
           /\ \A q \in Seqs : [x EXCEPT !.seq = q] \in ClientType
  <1>1. \A b \in BOOLEAN : [x EXCEPT !.active = b] \in ClientType
    BY DEF ClientType
  <1>2. \A b \in BOOLEAN : [x EXCEPT !.own = b] \in ClientType
    BY DEF ClientType
  <1>3. \A b \in BOOLEAN : [x EXCEPT !.timed = b] \in ClientType
    BY DEF ClientType
  <1>4. \A b \in BOOLEAN : [x EXCEPT !.online = b] \in ClientType
    BY DEF ClientType
  <1>5. \A q \in Seqs : [x EXCEPT !.seq = q] \in ClientType
    BY DEF ClientType
  <1>6. QED
    BY <1>1, <1>2, <1>3, <1>4, <1>5

LEMMA ClientChange ==
    ASSUME NEW f \in [Clients -> ClientType], NEW c \in Clients, NEW r \in ClientType
    PROVE  [f EXCEPT ![c] = r] \in [Clients -> ClientType]
  OBVIOUS

LEMMA FieldChange ==
    ASSUME NEW f \in [Clients -> ClientType], NEW c \in Clients
    PROVE  /\ \A b \in BOOLEAN : [f EXCEPT ![c].active = b] \in [Clients -> ClientType]
           /\ \A b \in BOOLEAN : [f EXCEPT ![c].own = b] \in [Clients -> ClientType]
           /\ \A b \in BOOLEAN : [f EXCEPT ![c].timed = b] \in [Clients -> ClientType]
           /\ \A b \in BOOLEAN : [f EXCEPT ![c].online = b] \in [Clients -> ClientType]
           /\ \A q \in Seqs : [f EXCEPT ![c].seq = q] \in [Clients -> ClientType]
  <1>1. f[c] \in ClientType
    OBVIOUS
  <1>2. /\ \A b : [f EXCEPT ![c].active = b] = [f EXCEPT ![c] = [f[c] EXCEPT !.active = b]]
        /\ \A b : [f EXCEPT ![c].own = b] = [f EXCEPT ![c] = [f[c] EXCEPT !.own = b]]
        /\ \A b : [f EXCEPT ![c].timed = b] = [f EXCEPT ![c] = [f[c] EXCEPT !.timed = b]]
        /\ \A b : [f EXCEPT ![c].online = b] = [f EXCEPT ![c] = [f[c] EXCEPT !.online = b]]
        /\ \A q : [f EXCEPT ![c].seq = q] = [f EXCEPT ![c] = [f[c] EXCEPT !.seq = q]]
    OBVIOUS
  <1>3. QED
    BY <1>1, <1>2, FieldType, ClientChange

LEMMA FlagsType ==
    ASSUME TypeOK, NEW c \in Clients, NEW a \in BOOLEAN, NEW o \in BOOLEAN, NEW t \in BOOLEAN,
           client' = [client EXCEPT ![c].active = a, ![c].own = o, ![c].timed = t]
    PROVE  client' \in [Clients -> ClientType]
  <1> DEFINE r == [client[c] EXCEPT !.active = a, !.own = o, !.timed = t]
  <1>1. client \in [Clients -> ClientType] /\ client[c] \in ClientType
    BY DEF TypeOK
  <1>2. r = [[[client[c] EXCEPT !.active = a] EXCEPT !.own = o] EXCEPT !.timed = t]
    BY <1>1 DEF ClientType
  <1>3. client' = [client EXCEPT ![c] = r]
    BY <1>1 DEF ClientType
  <1> HIDE DEF r
  <1>4. r \in ClientType
    BY <1>1, <1>2, FieldType
  <1>5. QED
    BY <1>1, <1>3, <1>4, ClientChange

LEMMA SendClipboardType ==
    ASSUME TypeOK, NEW c \in Clients, NEW ok
    PROVE  /\ sendClipboard(c, ok) \in Seq(Tasks)
           /\ \/ sendClipboard(c, ok) = <<>>
              \/ sendClipboard(c, ok) = <<[kind |-> "send", data |-> local[c], seq |-> client[c].seq]>>
  <1> DEFINE t == [kind |-> "send", data |-> local[c], seq |-> client[c].seq]
  <1>1. t \in Tasks
    BY DEF Tasks, ClientType, Screens, TypeOK
  <1>2. sendClipboard(c, ok) = <<>> \/ sendClipboard(c, ok) = <<t>>
    BY DEF sendClipboard
  <1> HIDE DEF t
  <1>3. <<t>> \in Seq(Tasks) /\ <<>> \in Seq(Tasks)
    BY <1>1
  <1>4. QED
    BY <1>2, <1>3 DEF t

\* What the server makes of the next message of client c, unless it met the upload of another client.
ReadEvent(c) == [kind |-> IF Head(toServer[c]).kind = "grab" THEN "grabbed" ELSE "changed", from |-> c,
                 seq |-> Head(toServer[c]).seq]

LEMMA ReceiveEffect ==
    ASSUME TypeOK, NEW c \in Clients, Receive(c)
    PROVE  /\ toServer[c] # <<>> /\ toServer'[c] = Tail(toServer[c]) /\ Head(toServer[c]) \in UpMessages
           /\ ReadEvent(c) \in Events
           /\ \/ events' = Append(events, ReadEvent(c))
              \/ events' = events /\ Head(toServer[c]).kind = "data" /\ c \in spoiled'
           /\ Head(toServer[c]).kind # "grab" => cache'[c] = Head(toServer[c]).data \/ c \in spoiled'
           /\ cache' \in [Clients -> Contents] /\ \A d \in Clients \ {c} : cache'[d] = cache[d]
           /\ crossed' \subseteq Clients /\ spoiled' \subseteq Clients /\ spoiled \subseteq spoiled'
  <1> DEFINE m == Head(toServer[c])
  <1>0. /\ toServer \in [Clients -> Seq(UpMessages)] /\ toServer[c] # <<>> /\ m \in UpMessages
        /\ cache \in [Clients -> Contents] /\ crossed \subseteq Clients /\ spoiled \subseteq Clients
        /\ 1 .. copies \subseteq Contents
    BY ConstantsAssumption, HeadTailProperties DEF TypeOK, Receive, Contents
  <1>1. toServer'[c] = Tail(toServer[c])
    BY <1>0 DEF Receive
  <1>2. /\ ReadEvent(c) \in Events /\ m.kind \in {"grab", "data"} /\ (m.kind = "data" => m.data \in Contents)
        /\ m.kind = "grab" => ReadEvent(c) = [kind |-> "grabbed", from |-> c, seq |-> m.seq]
        /\ m.kind # "grab" => ReadEvent(c) = [kind |-> "changed", from |-> c, seq |-> m.seq]
    BY <1>0 DEF UpMessages, Events, Screens, ReadEvent
  <1> HIDE DEF m
  <1>3. CASE m.kind = "grab"
    <2>1. recvGrabClipboard(c, m)
      BY <1>3 DEF Receive, m
    <2>2. events' = Append(events, ReadEvent(c)) /\ cache' = cache /\ crossed' = crossed /\ spoiled' = spoiled
      BY <1>2, <1>3, <2>1 DEF recvGrabClipboard, mixing
    <2>3. QED
      BY <1>0, <1>1, <1>2, <1>3, <2>2 DEF m
  <1>4. CASE m.kind # "grab"
    <2>1. recvClipboard(c, m) /\ m.kind = "data" /\ m.data \in Contents
      BY <1>2, <1>4 DEF Receive, m
    <2>2. crossed' \subseteq Clients
      BY <1>0, <2>1 DEF recvClipboard, Uploading
    <2>3. ASSUME NEW x \in Contents, Stored(c, x, m.seq)
          PROVE  /\ events' = Append(events, ReadEvent(c)) /\ cache'[c] = x /\ cache' \in [Clients -> Contents]
                 /\ \A d \in Clients \ {c} : cache'[d] = cache[d]
      BY <1>0, <1>2, <1>4, <2>3 DEF Stored
    <2>4. CASE Stored(c, m.data, m.seq) /\ spoiled' = spoiled
      BY <1>0, <1>1, <1>2, <2>1, <2>2, <2>3, <2>4 DEF m
    <2>5. CASE spoiled' = spoiled \cup {c} /\ events' = events /\ cache' = cache
      BY <1>0, <1>1, <1>2, <2>1, <2>2, <2>5 DEF m
    <2>6. ASSUME spoiled' = spoiled \cup {c}, NEW x \in 1 .. copies, Stored(c, x, m.seq)
          PROVE  /\ events' = Append(events, ReadEvent(c)) /\ cache' \in [Clients -> Contents]
                 /\ \A d \in Clients \ {c} : cache'[d] = cache[d]
                 /\ c \in spoiled' /\ spoiled' \subseteq Clients /\ spoiled \subseteq spoiled'
      BY <1>0, <2>3, <2>6
    <2>7. \/ Stored(c, m.data, m.seq) /\ spoiled' = spoiled
          \/ spoiled' = spoiled \cup {c} /\ events' = events /\ cache' = cache
          \/ spoiled' = spoiled \cup {c} /\ \E x \in 1 .. copies : Stored(c, x, m.seq)
      BY <2>1 DEF recvClipboard
    <2>8. QED
      BY <1>0, <1>1, <1>2, <2>1, <2>2, <2>4, <2>5, <2>6, <2>7 DEF m
  <1>5. QED
    BY <1>3, <1>4

LEMMA Typed ==
    ASSUME TypeOK, [Next]_vars
    PROVE  TypeOK'
  <1> USE ConstantsAssumption
  <1>0. 0 \in Contents /\ 0 \in Seqs
    BY DEF Contents, Seqs
  <1>1. CASE SwitchScreen
    BY <1>1, SwitchEffect
  <1>2. CASE CopyOnServer
    <2>1. copies' \in 0 .. MaxCopies /\ copies' \in Contents
      BY <1>2 DEF TypeOK, CopyOnServer, Contents
    <2>2. [kind |-> "grabbed", from |-> Server, seq |-> primarySeq] \in Events
      BY DEF TypeOK, Events, Screens
    <2>3. events' \in Seq(Events)
      BY <1>2, <2>2, AppendProperties DEF TypeOK, CopyOnServer
    <2>4. local' \in [Screens -> Contents]
      BY <1>2, <2>1 DEF TypeOK, CopyOnServer
    <2>5. QED
      BY <1>2, <2>1, <2>3, <2>4 DEF TypeOK, CopyOnServer, mixing
  <1>3. CASE Dispatch
    BY <1>3, DispatchEffect
  <1>4. ASSUME NEW c \in Clients, Receive(c) PROVE TypeOK'
    <2>1. /\ Tail(toServer[c]) \in Seq(UpMessages) /\ events \in Seq(Events)
          /\ toServer' = [toServer EXCEPT ![c] = Tail(@)]
      BY <1>4, HeadTailProperties DEF TypeOK, Receive
    <2>2. /\ ReadEvent(c) \in Events /\ cache' \in [Clients -> Contents]
          /\ events' = Append(events, ReadEvent(c)) \/ events' = events
          /\ crossed' \subseteq Clients /\ spoiled' \subseteq Clients
      BY <1>4, ReceiveEffect
    <2>3. events' \in Seq(Events)
      BY <2>1, <2>2, AppendProperties
    <2>4. toServer' \in [Clients -> Seq(UpMessages)]
      BY <2>1 DEF TypeOK
    <2>5. QED
      BY <1>4, <2>2, <2>3, <2>4 DEF TypeOK, Receive
  <1>5. ASSUME NEW c \in Clients, Obey(c) PROVE TypeOK'
    <2> DEFINE m == Head(toClient[c])
    <2>0. toClient[c] # <<>>
      BY <1>5 DEF Obey, ObeyEnter, ObeyLeave, ObeyGrab, ObeyData
    <2>1. m \in DownMessages /\ Tail(toClient[c]) \in Seq(DownMessages)
      BY <2>0, HeadTailProperties DEF TypeOK
    <2>2. m.kind = "enter" => m.seq \in Seqs
      BY <2>1 DEF DownMessages
    <2>3. m.kind = "data" => m.data \in Contents
      BY <2>1 DEF DownMessages
    <2>4. toClient' \in [Clients -> Seq(DownMessages)]
      <3>1. toClient' = [toClient EXCEPT ![c] = Tail(@)]
        BY <1>5 DEF Obey, ObeyEnter, ObeyLeave, ObeyGrab, ObeyData
      <3>2. QED
        BY <2>1, <3>1 DEF TypeOK
    <2>5. client' \in [Clients -> ClientType] /\ local' \in [Screens -> Contents] /\ tasks' \in [Clients -> Seq(Tasks)]
      <3> USE DEF TypeOK
      <3>1. CASE ObeyEnter(c)
        <4>1. client' = [[client EXCEPT ![c].active = TRUE] EXCEPT ![c].seq = m.seq] /\ m.seq \in Seqs
          BY <2>2, <3>1 DEF ObeyEnter
        <4>2. client' \in [Clients -> ClientType]
          BY <4>1, FieldChange
        <4>3. QED
          BY <3>1, <4>2 DEF ObeyEnter
      <3>2. CASE ObeyLeave(c)
        <4>1. client' \in [Clients -> ClientType]
          <5> DEFINE b == client[c].timed \/ (client[c].own /\ ~client[c].timed)
          <5>1. client' = [client EXCEPT ![c].active = FALSE, ![c].own = client[c].own, ![c].timed = b]
            BY <3>2 DEF ObeyLeave, ClientType
          <5>2. client[c].own \in BOOLEAN /\ b \in BOOLEAN
            BY DEF ClientType
          <5> HIDE DEF b
          <5>3. QED
            BY <5>1, <5>2, FlagsType
        <4>2. PICK ok \in Outcomes : tasks' = IF client[c].own /\ ~client[c].timed
                                              THEN [tasks EXCEPT ![c] = @ \o sendClipboard(c, ok)] ELSE tasks
          BY <3>2 DEF ObeyLeave
        <4>3. sendClipboard(c, ok) \in Seq(Tasks)
          BY SendClipboardType
        <4>4. tasks[c] \o sendClipboard(c, ok) \in Seq(Tasks)
          BY <4>3, ConcatProperties
        <4>5. QED
          BY <3>2, <4>1, <4>2, <4>4 DEF ObeyLeave
      <3>3. CASE ObeyGrab(c)
        <4>1. client' \in [Clients -> ClientType]
          BY <3>3, FieldChange DEF ObeyGrab
        <4>2. QED
          BY <1>0, <3>3, <4>1 DEF ObeyGrab, Screens
      <3>4. CASE ObeyData(c)
        <4>1. PICK ok \in Outcomes :
                \/ /\ client' = [client EXCEPT ![c].own = FALSE]
                   /\ local' = [local EXCEPT ![c] = m.data]
                \/ UNCHANGED <<client, local>>
          BY <3>4 DEF ObeyData
        <4>2. [client EXCEPT ![c].own = FALSE] \in [Clients -> ClientType]
          BY FieldChange
        <4>3. c \in Screens /\ m.data \in Contents
          BY <2>3, <3>4 DEF ObeyData, Screens
        <4>4. QED
          BY <3>4, <4>1, <4>2, <4>3 DEF ObeyData
      <3>5. QED
        BY <1>5, <3>1, <3>2, <3>3, <3>4 DEF Obey
    <2>6. QED
      BY <1>5, <2>4, <2>5 DEF TypeOK, Obey, mixing
  <1>6. ASSUME NEW c \in Clients, CopyOnClient(c) PROVE TypeOK'
    <2>1. copies' \in 0 .. MaxCopies /\ copies' \in Contents
      BY <1>6 DEF TypeOK, CopyOnClient, Contents
    <2>2. [kind |-> "grabbed"] \in Tasks
      BY DEF Tasks
    <2>3. Append(tasks[c], [kind |-> "grabbed"]) \in Seq(Tasks)
      BY <2>2, AppendProperties DEF TypeOK
    <2>4. tasks' \in [Clients -> Seq(Tasks)] /\ local' \in [Screens -> Contents]
      BY <1>6, <2>1, <2>3 DEF TypeOK, CopyOnClient, Screens
    <2>5. QED
      BY <1>6, <2>1, <2>4 DEF TypeOK, CopyOnClient, mixing
  <1>7. ASSUME NEW c \in Clients, Work(c) PROVE TypeOK'
    <2> DEFINE t == Head(tasks[c])
               rest == Tail(tasks[c])
    <2>1. t \in Tasks /\ rest \in Seq(Tasks)
      BY <1>7, HeadTailProperties DEF TypeOK, Work
    <2>2. t.kind = "send" => t.seq \in Seqs /\ t.data \in Contents
      BY <2>1 DEF Tasks
    <2>3. client[c].seq \in Seqs /\ client[c].active \in BOOLEAN
      BY DEF TypeOK, ClientType
    <2>4. CASE t.kind = "send"
      <3>1. [kind |-> "data", data |-> t.data, seq |-> t.seq] \in UpMessages
        BY <2>2, <2>4 DEF UpMessages
      <3>2. Append(toServer[c], [kind |-> "data", data |-> t.data, seq |-> t.seq]) \in Seq(UpMessages)
        BY <3>1, AppendProperties DEF TypeOK
      <3>3. toServer' \in [Clients -> Seq(UpMessages)] /\ tasks' \in [Clients -> Seq(Tasks)] /\ client' = client
        <4>1. /\ toServer' = [toServer EXCEPT ![c] = Append(@, [kind |-> "data", data |-> t.data, seq |-> t.seq])]
              /\ tasks' = [tasks EXCEPT ![c] = rest] /\ client' = client
          BY <1>7, <2>4 DEF Work
        <4>2. QED
          BY <2>1, <3>2, <4>1 DEF TypeOK
      <3>4. QED
        BY <1>7, <3>3 DEF TypeOK, Work, mixing
    <2>5. CASE t.kind # "send"
      <3>1. [kind |-> "grab", seq |-> client[c].seq] \in UpMessages
        BY <2>3 DEF UpMessages
      <3>2. Append(toServer[c], [kind |-> "grab", seq |-> client[c].seq]) \in Seq(UpMessages)
        BY <3>1, AppendProperties DEF TypeOK
      <3>3. PICK ok \in Outcomes : tasks' = [tasks EXCEPT ![c] = IF client[c].active THEN rest
                                                                ELSE rest \o sendClipboard(c, ok)]
        BY <1>7, <2>5 DEF Work
      <3>4. sendClipboard(c, ok) \in Seq(Tasks)
        BY SendClipboardType
      <3>5. rest \o sendClipboard(c, ok) \in Seq(Tasks)
        BY <2>1, <3>4, ConcatProperties
      <3>6. tasks' \in [Clients -> Seq(Tasks)]
        BY <2>1, <3>3, <3>5 DEF TypeOK
      <3>7. toServer' \in [Clients -> Seq(UpMessages)]
        BY <1>7, <2>5, <3>2 DEF TypeOK, Work
      <3>8. client' \in [Clients -> ClientType]
        <4>1. client' = [client EXCEPT ![c].own = TRUE, ![c].timed = ~client[c].active]
          BY <1>7, <2>5 DEF Work
        <4>2. client' = [client EXCEPT ![c].active = client[c].active, ![c].own = TRUE,
                                       ![c].timed = ~client[c].active]
          BY <4>1 DEF TypeOK, ClientType
        <4>3. (~client[c].active) \in BOOLEAN
          OBVIOUS
        <4>4. QED
          BY <2>3, <4>2, <4>3, FlagsType
      <3>9. QED
        BY <1>7, <3>6, <3>7, <3>8 DEF TypeOK, Work, mixing
    <2>6. QED
      BY <2>4, <2>5
  <1>8. ASSUME NEW c \in Clients, Lose(c) PROVE TypeOK'
    <2>1. events' \in Seq(Events)
      BY <1>8, KeptType DEF TypeOK, Lose
    <2>2. /\ toClient' \in [Clients -> Seq(DownMessages)] /\ toServer' \in [Clients -> Seq(UpMessages)]
          /\ tasks' \in [Clients -> Seq(Tasks)]
      BY <1>8, EmptySeq DEF TypeOK, Lose
    <2>3. client' \in [Clients -> ClientType]
      BY <1>0, <1>8 DEF TypeOK, Lose, ClientType
    <2>4. losses' \in 0 .. MaxLosses /\ active' \in Screens /\ primarySeq' \in Seqs
      BY <1>8 DEF TypeOK, Lose, Screens
    <2>5. crossed' \subseteq Clients /\ spoiled' \subseteq Clients
      BY <1>8 DEF TypeOK, Lose, Uploading
    <2>6. QED
      BY <1>8, <2>1, <2>2, <2>3, <2>4, <2>5 DEF TypeOK, Lose
  <1>9. ASSUME NEW c \in Clients, Reconnect(c) PROVE TypeOK'
    <2>1. client' \in [Clients -> ClientType]
      BY <1>9, FieldChange DEF TypeOK, Reconnect
    <2>2. dirty' \in [Screens -> BOOLEAN] /\ local' \in [Screens -> Contents] /\ cache' \in [Clients -> Contents]
      BY <1>0, <1>9 DEF TypeOK, Reconnect, Screens
    <2>3. QED
      BY <1>9, <2>1, <2>2 DEF TypeOK, Reconnect, wires, mixing
  <1>10. CASE UNCHANGED vars
    BY <1>10 DEF TypeOK, vars, wires, mixing
  <1>11. QED
    BY <1>1, <1>2, <1>3, <1>4, <1>5, <1>6, <1>7, <1>8, <1>9, <1>10 DEF Next

-----------------------------------------------------------------------------
(* The server's limit *)

LEMMA EventsFitLonger ==
    ASSUME NEW ev \in Seq(Events), EventsFit(ev), NEW e \in Events,
           e.kind = "send" => ~serverRefuses(e.data)
    PROVE  EventsFit(Append(ev, e))
  BY InAppend DEF EventsFit

LEMMA EventsFitQueued ==
    ASSUME NEW ev \in Seq(Events), EventsFit(ev), NEW new, NEW d \in Contents, Queues(ev, new, d),
           ~serverRefuses(d)
    PROVE  EventsFit(new)
  <1>1. CASE new = ev
    BY <1>1
  <1>2. ASSUME NEW p \in Clients, new = Append(ev, [kind |-> "send", to |-> p, data |-> d])
        PROVE  EventsFit(new)
    BY <1>2, SendType, EventsFitLonger
  <1>3. QED
    BY <1>1, <1>2 DEF Queues

LEMMA StreamFitsLonger ==
    ASSUME NEW t \in Seq(DownMessages), StreamFits(t), NEW m \in DownMessages,
           m.kind = "data" => ~serverRefuses(m.data)
    PROVE  StreamFits(Append(t, m))
  BY InAppend DEF StreamFits

LEMMA FitsStep ==
    ASSUME TypeOK, Fits, [Next]_vars
    PROVE  Fits'
  <1>0. /\ TypeOK' /\ clip.data \in Contents /\ clip'.data \in Contents /\ events \in Seq(Events)
        /\ \A c \in Clients : toClient[c] \in Seq(DownMessages)
    BY Typed DEF TypeOK
  <1> SUFFICES /\ ~serverRefuses(clip'.data)
               /\ EventsFit(events')
               /\ \A c \in Clients : StreamFits(toClient'[c])
    BY DEF Fits, EventsFit, StreamFits
  <1>a. /\ ~serverRefuses(clip.data)
        /\ EventsFit(events)
        /\ \A c \in Clients : StreamFits(toClient[c])
    BY DEF Fits
  <1>1. CASE SwitchScreen
    <2>1. ~serverRefuses(clip'.data) /\ EventsFit(events')
      BY <1>0, <1>a, <1>1, SwitchEffect, EventsFitQueued
    <2>2. ASSUME NEW c \in Clients PROVE StreamFits(toClient'[c])
      <3>1. seqNum + 1 \in Seqs
        BY <1>1, ConstantsAssumption DEF SwitchScreen, TypeOK, Seqs
      <3>2. [kind |-> "leave"] \in DownMessages /\ [kind |-> "enter", seq |-> seqNum + 1] \in DownMessages
        BY <3>1 DEF DownMessages
      <3>3. /\ StreamFits(Append(toClient[c], [kind |-> "leave"]))
            /\ StreamFits(Append(toClient[c], [kind |-> "enter", seq |-> seqNum + 1]))
        BY <1>0, <1>a, <3>2, StreamFitsLonger
      <3>4. QED
        BY <1>a, <1>1, <3>3, SwitchEffect
    <2>3. QED
      BY <2>1, <2>2
  <1>2. CASE CopyOnServer
    <2>1. [kind |-> "grabbed", from |-> Server, seq |-> primarySeq] \in Events
      BY DEF TypeOK, Events, Screens
    <2>2. EventsFit(events')
      BY <1>0, <1>a, <1>2, <2>1, EventsFitLonger DEF CopyOnServer
    <2>3. QED
      BY <1>a, <1>2, <2>2 DEF CopyOnServer
  <1>3. CASE Dispatch
    <2> DEFINE h == Head(events)
    <2>1. Handled(h) /\ events # <<>>
      BY <1>3, DispatchEffect DEF Dispatch
    <2>2. h \in Events /\ Tail(events) \in Seq(Events) /\ (\A x : In(x, Tail(events)) \/ x = h => In(x, events))
      BY <1>0, <2>1, InTail, HeadTailProperties
    <2>3. EventsFit(Tail(events)) /\ (h.kind = "send" => ~serverRefuses(h.data))
      BY <1>a, <2>2 DEF EventsFit
    <2> HIDE DEF h
    <2>4. CASE h.kind = "send"
      <3> DEFINE m == [kind |-> "data", data |-> h.data]
      <3>1. /\ clip' = clip /\ events' = Tail(events)
            /\ toClient' = [toClient EXCEPT ![h.to] = Append(@, m)]
        BY <2>1, <2>4 DEF Handled
      <3>2. m \in DownMessages /\ m.data = h.data
        BY <2>2, <2>4, EventType DEF DownMessages
      <3> HIDE DEF m
      <3>3. \A c \in Clients : StreamFits(Append(toClient[c], m))
        BY <1>0, <1>a, <2>3, <2>4, <3>2, StreamFitsLonger
      <3>4. toClient \in [Clients -> Seq(DownMessages)]
        BY DEF TypeOK
      <3>5. QED
        BY <1>a, <2>3, <3>1, <3>3, <3>4
    <2>5. CASE h.kind = "grabbed"
      <3>1. \A c \in Clients : StreamFits(Append(toClient[c], GrabMessage))
        BY <1>0, <1>a, GrabMessageType, StreamFitsLonger
      <3>2. ~serverRefuses(0)
        BY ConstantsAssumption DEF serverRefuses
      <3>3. QED
        BY <1>a, <2>1, <2>3, <2>5, <3>1, <3>2 DEF Handled
    <2>6. CASE h.kind = "changed"
      <3>1. /\ toClient' = toClient
            /\ \/ clip'.data = clip.data /\ events' = Tail(events)
               \/ ~serverRefuses(clip'.data) /\ Queues(Tail(events), events', clip'.data)
        BY <2>1, <2>6 DEF Handled
      <3>2. QED
        BY <1>0, <1>a, <2>2, <2>3, <3>1, EventsFitQueued
    <2>7. QED
      BY <2>2, <2>4, <2>5, <2>6, EventType
  <1>4. ASSUME NEW c \in Clients, Receive(c)
        PROVE  ~serverRefuses(clip'.data) /\ EventsFit(events') /\ \A d \in Clients : StreamFits(toClient'[d])
    <2>1. ReadEvent(c) \in Events /\ (events' = Append(events, ReadEvent(c)) \/ events' = events)
      BY <1>4, ReceiveEffect
    <2>2. EventsFit(Append(events, ReadEvent(c)))
      <3>1. ReadEvent(c).kind # "send"
        BY DEF ReadEvent
      <3>2. QED
        BY <1>0, <1>a, <2>1, <3>1, EventsFitLonger
    <2>3. QED
      BY <1>a, <1>4, <2>1, <2>2 DEF Receive
  <1>5. ASSUME NEW c \in Clients, Obey(c)
        PROVE  ~serverRefuses(clip'.data) /\ EventsFit(events') /\ \A d \in Clients : StreamFits(toClient'[d])
    <2>1. toClient[c] # <<>> /\ toClient' = [toClient EXCEPT ![c] = Tail(@)] /\ clip' = clip /\ events' = events
      BY <1>5 DEF Obey, ObeyEnter, ObeyLeave, ObeyGrab, ObeyData
    <2>2. StreamFits(Tail(toClient[c]))
      BY <1>0, <1>a, <2>1, InTail DEF StreamFits
    <2>3. toClient \in [Clients -> Seq(DownMessages)]
      BY DEF TypeOK
    <2>4. QED
      BY <1>a, <2>1, <2>2, <2>3
  <1>6. ASSUME NEW c \in Clients, CopyOnClient(c) \/ Work(c) \/ Reconnect(c)
        PROVE  ~serverRefuses(clip'.data) /\ EventsFit(events') /\ \A d \in Clients : StreamFits(toClient'[d])
    <2>1. clip' = clip /\ events' = events /\ toClient' = toClient
      BY <1>6 DEF CopyOnClient, Work, Reconnect, wires
    <2>2. QED
      BY <1>a, <2>1
  <1>7. ASSUME NEW c \in Clients, Lose(c)
        PROVE  ~serverRefuses(clip'.data) /\ EventsFit(events') /\ \A d \in Clients : StreamFits(toClient'[d])
    <2>1. clip' = clip /\ events' = Kept(events, EventsOfOthers(c)) /\ toClient' = [toClient EXCEPT ![c] = <<>>]
      BY <1>7 DEF Lose
    <2>2. EventsFit(events')
      BY <1>0, <1>a, <2>1, InKept DEF EventsFit
    <2>3. StreamFits(<<>>)
      BY InEmpty DEF StreamFits
    <2>4. toClient \in [Clients -> Seq(DownMessages)]
      BY DEF TypeOK
    <2>5. QED
      BY <1>a, <2>1, <2>2, <2>3, <2>4
  <1>8. CASE UNCHANGED vars
    BY <1>a, <1>8 DEF vars, wires
  <1>9. QED
    BY <1>1, <1>2, <1>3, <1>4, <1>5, <1>6, <1>7, <1>8 DEF Next

LEMMA InitTyped == Init => TypeOK
  <1> SUFFICES ASSUME Init PROVE TypeOK
    OBVIOUS
  <1>1. 0 \in Contents /\ 0 \in Seqs /\ 0 \in 0 .. MaxCopies /\ 0 \in 0 .. MaxLosses /\ Server \in Screens
    BY ConstantsAssumption DEF Contents, Seqs, Screens
  <1>2. /\ toClient \in [Clients -> Seq(DownMessages)] /\ toServer \in [Clients -> Seq(UpMessages)]
        /\ tasks \in [Clients -> Seq(Tasks)] /\ events \in Seq(Events)
    BY EmptySeq DEF Init
  <1>3. client \in [Clients -> ClientType]
    BY <1>1 DEF Init, ClientType
  <1>4. dirty \in [Screens -> BOOLEAN] /\ cache \in [Clients -> Contents] /\ local \in [Screens -> Contents]
    BY <1>1 DEF Init
  <1>5. QED
    BY <1>1, <1>2, <1>3, <1>4 DEF Init, TypeOK

LEMMA InitFits == Init => Fits
  BY InEmpty, ConstantsAssumption DEF Init, Fits, EventsFit, StreamFits, serverRefuses

(***************************************************************************)
(* Nothing over the limit is ever on its way to a client, although the     *)
(* server keeps an oversized content (m_clipboard) until the next grab.    *)
(***************************************************************************)
THEOREM OversizedNeverSent == Spec => []NothingOversized
  <1>1. Init => ClipInv
    BY InitTyped, InitFits DEF ClipInv
  <1>2. ClipInv /\ [Next]_vars => ClipInv'
    BY Typed, FitsStep DEF ClipInv
  <1>3. ClipInv => NothingOversized
    <2> SUFFICES ASSUME ClipInv, NEW c \in Clients, NEW i \in DOMAIN toClient[c], toClient[c][i].kind = "data"
                 PROVE  ~serverRefuses(toClient[c][i].data)
      BY DEF NothingOversized
    <2>1. i \in 1 .. Len(toClient[c])
      BY LenProperties DEF ClipInv, TypeOK
    <2>2. QED
      BY <2>1 DEF ClipInv, Fits, StreamFits, In
  <1>4. QED
    BY <1>1, <1>2, <1>3, PTL DEF Spec

-----------------------------------------------------------------------------
(* What each action adds to the queues and the streams *)

LEMMA QueuedIn ==
    ASSUME NEW ev \in Seq(Events), NEW new, NEW d \in Contents, Queues(ev, new, d), NEW x, In(x, new)
    PROVE  In(x, ev) \/ x.kind = "send"
  <1>1. CASE new = ev
    BY <1>1
  <1>2. ASSUME NEW p \in Clients, new = Append(ev, [kind |-> "send", to |-> p, data |-> d])
        PROVE  In(x, ev) \/ x.kind = "send"
    <2>1. In(x, ev) \/ x = [kind |-> "send", to |-> p, data |-> d]
      BY <1>2, SendType, InAppend
    <2>2. QED
      BY <2>1
  <1>3. QED
    BY <1>1, <1>2 DEF Queues

LEMMA SentIn ==
    ASSUME TypeOK, NEW c \in Clients, NEW ok, NEW s \in Seq(Tasks), NEW x, In(x, s \o sendClipboard(c, ok))
    PROVE  In(x, s) \/ (x.kind = "send" /\ x.seq = client[c].seq)
  <1> DEFINE t == [kind |-> "send", data |-> local[c], seq |-> client[c].seq]
  <1>1. t \in Tasks
    BY DEF Tasks, ClientType, Screens, TypeOK
  <1>2. sendClipboard(c, ok) = <<>> \/ sendClipboard(c, ok) = <<t>>
    BY SendClipboardType
  <1>3. t.kind = "send" /\ t.seq = client[c].seq
    OBVIOUS
  <1> HIDE DEF t
  <1>4. s \o <<>> = s
    BY ConcatEmptySeq
  <1>5. s \o <<t>> = Append(s, t)
    BY <1>1, AppendIsConcat
  <1>6. QED
    BY <1>1, <1>2, <1>3, <1>4, <1>5, InAppend

\* The events after a step: from the queue, or new and of this kind.
NewEvent(x) ==
    \/ x.kind = "send"
    \/ CopyOnServer /\ x.kind = "grabbed" /\ x.from = Server
    \/ \E c \in Clients : Receive(c) /\ x.kind \in {"grabbed", "changed"} /\ x.from = c
                          /\ x.seq = Head(toServer[c]).seq

LEMMA EventsAfter ==
    ASSUME TypeOK, [Next]_vars, NEW x, In(x, events')
    PROVE  In(x, events) \/ NewEvent(x)
  <1>0. TypeOK' /\ events \in Seq(Events)
    BY Typed DEF TypeOK
  <1>1. CASE SwitchScreen
    <2>1. clip'.data \in Contents
      BY <1>0 DEF TypeOK
    <2>2. QED
      BY <1>0, <1>1, <2>1, SwitchEffect, QueuedIn DEF NewEvent
  <1>2. CASE CopyOnServer
    <2> DEFINE e == [kind |-> "grabbed", from |-> Server, seq |-> primarySeq]
    <2>1. e \in Events
      BY DEF TypeOK, Events, Screens
    <2>2. events' = Append(events, e)
      BY <1>2 DEF CopyOnServer
    <2>3. In(x, events) \/ x = e
      BY <1>0, <2>1, <2>2, InAppend
    <2>4. QED
      BY <1>2, <2>3 DEF NewEvent
  <1>3. CASE Dispatch
    <2>1. Handled(Head(events)) /\ events # <<>> /\ clip'.data \in Contents
      BY <1>0, <1>3, DispatchEffect DEF Dispatch, TypeOK
    <2>2. Tail(events) \in Seq(Events) /\ (\A y : In(y, Tail(events)) => In(y, events))
      BY <1>0, <2>1, InTail, HeadTailProperties
    <2>3. events' = Tail(events) \/ Queues(Tail(events), events', clip'.data)
      BY <2>1 DEF Handled
    <2>4. QED
      BY <2>1, <2>2, <2>3, QueuedIn DEF NewEvent
  <1>4. ASSUME NEW c \in Clients, Receive(c) PROVE In(x, events) \/ NewEvent(x)
    <2>1. ReadEvent(c) \in Events /\ (events' = Append(events, ReadEvent(c)) \/ events' = events)
      BY <1>4, ReceiveEffect
    <2>2. In(x, events) \/ x = ReadEvent(c)
      BY <1>0, <2>1, InAppend
    <2>3. x = ReadEvent(c) => x.kind \in {"grabbed", "changed"} /\ x.from = c /\ x.seq = Head(toServer[c]).seq
      BY DEF ReadEvent
    <2>4. QED
      BY <1>4, <2>2, <2>3 DEF NewEvent
  <1>5. ASSUME NEW c \in Clients, Lose(c) PROVE In(x, events)
    BY <1>0, <1>5, InKept DEF Lose
  <1>6. CASE events' = events
    BY <1>6
  <1>7. QED
    <2>1. ASSUME NEW c \in Clients, Obey(c) \/ CopyOnClient(c) \/ Work(c) \/ Reconnect(c)
          PROVE  events' = events
      BY <2>1 DEF Obey, CopyOnClient, Work, Reconnect, wires
    <2>2. UNCHANGED vars => events' = events
      BY DEF vars, wires
    <2>3. QED
      BY <1>1, <1>2, <1>3, <1>4, <1>5, <1>6, <2>1, <2>2 DEF Next

\* The messages on their way to client c after a step.
LEMMA StreamAfter ==
    ASSUME TypeOK, [Next]_vars, NEW c \in Clients, NEW m, In(m, toClient'[c]), m.kind = "enter"
    PROVE  In(m, toClient[c]) \/ (SwitchScreen /\ active' = c /\ m.seq = seqNum + 1)
  <1>0. toClient \in [Clients -> Seq(DownMessages)] /\ toClient[c] \in Seq(DownMessages)
    BY DEF TypeOK
  <1>a. \A x \in DownMessages : In(m, Append(toClient[c], x)) => In(m, toClient[c]) \/ m = x
    BY <1>0, InAppend
  <1>1. CASE SwitchScreen
    <2> DEFINE e == [kind |-> "enter", seq |-> seqNum + 1]
               l == [kind |-> "leave"]
    <2>1. seqNum + 1 \in Seqs
      BY <1>1, ConstantsAssumption DEF SwitchScreen, TypeOK, Seqs
    <2>2. e \in DownMessages /\ l \in DownMessages /\ e.seq = seqNum + 1 /\ l.kind # "enter"
      BY <2>1 DEF DownMessages
    <2>3. \/ toClient'[c] = toClient[c] \/ toClient'[c] = Append(toClient[c], l)
          \/ active' = c /\ toClient'[c] = Append(toClient[c], e)
      BY <1>1, SwitchEffect
    <2> HIDE DEF e, l
    <2>4. QED
      BY <1>a, <1>1, <2>2, <2>3
  <1>2. CASE Dispatch
    <2> DEFINE h == Head(events)
               d == [kind |-> "data", data |-> h.data]
    <2>1. Handled(h) /\ h \in Events
      BY <1>2, DispatchEffect, HeadTailProperties DEF Dispatch, TypeOK
    <2>2. h.kind = "send" => d \in DownMessages
      BY <2>1, EventType DEF DownMessages
    <2>3. \/ toClient'[c] = toClient[c]
          \/ h.kind = "send" /\ toClient'[c] = Append(toClient[c], d)
          \/ toClient'[c] = Append(toClient[c], GrabMessage)
      BY <1>0, <2>1 DEF Handled
    <2>4. d.kind # "enter"
      OBVIOUS
    <2> HIDE DEF d
    <2>5. QED
      BY <1>a, <2>2, <2>3, <2>4, GrabMessageType
  <1>3. ASSUME NEW b \in Clients, Obey(b) PROVE In(m, toClient[c])
    <2>1. toClient[b] # <<>> /\ toClient' = [toClient EXCEPT ![b] = Tail(@)]
      BY <1>3 DEF Obey, ObeyEnter, ObeyLeave, ObeyGrab, ObeyData
    <2>2. QED
      BY <1>0, <2>1, InTail
  <1>4. ASSUME NEW b \in Clients, Lose(b) PROVE In(m, toClient[c])
    BY <1>0, <1>4, InEmpty DEF Lose
  <1>5. ASSUME toClient' = toClient PROVE In(m, toClient[c])
    BY <1>5
  <1>6. QED
    <2>1. ASSUME NEW b \in Clients, Receive(b) \/ CopyOnClient(b) \/ Work(b) \/ Reconnect(b)
          PROVE  toClient' = toClient
      BY <2>1 DEF Receive, CopyOnClient, Work, Reconnect, wires
    <2>2. CopyOnServer \/ UNCHANGED vars => toClient' = toClient
      BY DEF vars, wires, CopyOnServer
    <2>3. QED
      BY <1>1, <1>2, <1>3, <1>4, <1>5, <2>1, <2>2 DEF Next

\* The messages of client c to the server, and its tasks, after a step.
LEMMA UpAfter ==
    ASSUME TypeOK, [Next]_vars, NEW c \in Clients, NEW m, In(m, toServer'[c])
    PROVE  \/ In(m, toServer[c])
           \/ \E t : In(t, tasks[c]) /\ t.kind = "send" /\ m.seq = t.seq
           \/ /\ m.seq = client[c].seq
              /\ \E t : In(t, tasks[c]) /\ t.kind = "grabbed"
  <1>0. toServer \in [Clients -> Seq(UpMessages)] /\ toServer[c] \in Seq(UpMessages) /\ tasks[c] \in Seq(Tasks)
    BY DEF TypeOK
  <1>1. ASSUME NEW b \in Clients, Receive(b) PROVE In(m, toServer[c])
    BY <1>0, <1>1, InTail DEF Receive
  <1>2. ASSUME NEW b \in Clients, Lose(b) PROVE In(m, toServer[c])
    BY <1>0, <1>2, InEmpty DEF Lose
  <1>3. ASSUME Work(c) PROVE
           \/ In(m, toServer[c])
           \/ \E t : In(t, tasks[c]) /\ t.kind = "send" /\ m.seq = t.seq
           \/ /\ m.seq = client[c].seq
              /\ \E t : In(t, tasks[c]) /\ t.kind = "grabbed"
    <2> DEFINE t == Head(tasks[c])
               d == [kind |-> "data", data |-> t.data, seq |-> t.seq]
               g == [kind |-> "grab", seq |-> client[c].seq]
    <2>1. t \in Tasks /\ In(t, tasks[c])
      BY <1>0, <1>3, InTail, HeadTailProperties DEF Work
    <2>2. t.kind = "send" => d \in UpMessages
      BY <2>1 DEF Tasks, UpMessages
    <2>3. g \in UpMessages
      BY DEF UpMessages, TypeOK, ClientType
    <2>4. t.kind \in {"send", "grabbed"}
      BY <2>1 DEF Tasks
    <2>5. IF t.kind = "send" THEN toServer'[c] = Append(toServer[c], d) ELSE toServer'[c] = Append(toServer[c], g)
      BY <1>0, <1>3 DEF Work
    <2>6. d.seq = t.seq /\ g.seq = client[c].seq
      OBVIOUS
    <2> HIDE DEF d, g, t
    <2>7. \A x \in UpMessages : In(m, Append(toServer[c], x)) => In(m, toServer[c]) \/ m = x
      BY <1>0, InAppend
    <2>8. QED
      BY <2>1, <2>2, <2>3, <2>4, <2>5, <2>6, <2>7
  <1>4. ASSUME NEW b \in Clients, Work(b), b # c PROVE toServer'[c] = toServer[c]
    BY <1>0, <1>4 DEF Work
  <1>5. QED
    <2>1. ASSUME NEW b \in Clients, Obey(b) \/ CopyOnClient(b) \/ Reconnect(b)
          PROVE  toServer' = toServer
      BY <2>1 DEF Obey, CopyOnClient, Reconnect, wires
    <2>2. SwitchScreen \/ CopyOnServer \/ Dispatch \/ UNCHANGED vars => toServer' = toServer
      BY DEF vars, wires, CopyOnServer, SwitchScreen, Dispatch
    <2>3. QED
      BY <1>1, <1>2, <1>3, <1>4, <2>1, <2>2 DEF Next

LEMMA TasksAfter ==
    ASSUME TypeOK, [Next]_vars, NEW c \in Clients, NEW t, In(t, tasks'[c])
    PROVE  \/ In(t, tasks[c])
           \/ CopyOnClient(c) /\ t.kind = "grabbed"
           \/ /\ t.kind = "send" /\ t.seq = client[c].seq
              /\ \/ ObeyLeave(c) /\ client[c].own /\ ~client[c].timed
                 \/ Work(c) /\ Head(tasks[c]).kind = "grabbed"
  <1>0. tasks \in [Clients -> Seq(Tasks)] /\ tasks[c] \in Seq(Tasks)
    BY DEF TypeOK
  <1> DEFINE Goal == \/ In(t, tasks[c])
                     \/ CopyOnClient(c) /\ t.kind = "grabbed"
                     \/ /\ t.kind = "send" /\ t.seq = client[c].seq
                        /\ \/ ObeyLeave(c) /\ client[c].own /\ ~client[c].timed
                           \/ Work(c) /\ Head(tasks[c]).kind = "grabbed"
  <1>1. ASSUME CopyOnClient(c) PROVE Goal
    <2> DEFINE g == [kind |-> "grabbed"]
    <2>1. g \in Tasks /\ g.kind = "grabbed"
      BY DEF Tasks
    <2>2. tasks'[c] = Append(tasks[c], g)
      BY <1>0, <1>1 DEF CopyOnClient
    <2> HIDE DEF g
    <2>3. QED
      BY <1>0, <1>1, <2>1, <2>2, InAppend
  <1>2. ASSUME Obey(c) PROVE Goal
    <2>1. CASE ObeyLeave(c)
      <3>1. PICK ok \in Outcomes : tasks' = IF client[c].own /\ ~client[c].timed
                                            THEN [tasks EXCEPT ![c] = @ \o sendClipboard(c, ok)] ELSE tasks
        BY <2>1 DEF ObeyLeave
      <3>2. CASE client[c].own /\ ~client[c].timed
        <4>1. In(t, tasks[c] \o sendClipboard(c, ok))
          BY <1>0, <3>1, <3>2
        <4>2. In(t, tasks[c]) \/ (t.kind = "send" /\ t.seq = client[c].seq)
          BY <1>0, <4>1, SentIn
        <4>3. QED
          BY <2>1, <3>2, <4>2
      <3>3. CASE ~(client[c].own /\ ~client[c].timed)
        BY <3>1, <3>3
      <3>4. QED
        BY <3>2, <3>3
    <2>2. CASE ~ObeyLeave(c)
      <3>1. tasks' = tasks
        BY <1>2, <2>2 DEF Obey, ObeyEnter, ObeyGrab, ObeyData
      <3>2. QED
        BY <3>1
    <2>3. QED
      BY <2>1, <2>2
  <1>3. ASSUME Work(c) PROVE Goal
    <2> DEFINE h == Head(tasks[c])
               r == Tail(tasks[c])
    <2>1. h \in Tasks /\ r \in Seq(Tasks) /\ (\A x : In(x, r) => In(x, tasks[c]))
      BY <1>0, <1>3, InTail, HeadTailProperties DEF Work
    <2>2. h.kind \in {"send", "grabbed"}
      BY <2>1 DEF Tasks
    <2>3. CASE h.kind = "send"
      <3>1. tasks'[c] = r
        BY <1>0, <1>3, <2>3 DEF Work
      <3>2. QED
        BY <2>1, <3>1
    <2>4. CASE h.kind = "grabbed"
      <3>1. PICK ok \in Outcomes : tasks' = [tasks EXCEPT ![c] = IF client[c].active THEN r
                                                                 ELSE r \o sendClipboard(c, ok)]
        BY <1>3, <2>4 DEF Work
      <3>2. tasks'[c] = r \/ tasks'[c] = r \o sendClipboard(c, ok)
        BY <1>0, <3>1
      <3>3. In(t, r) \/ (t.kind = "send" /\ t.seq = client[c].seq)
        <4>1. CASE tasks'[c] = r
          BY <4>1
        <4>2. CASE tasks'[c] = r \o sendClipboard(c, ok)
          <5> HIDE DEF r
          <5>1. QED
            BY <2>1, <4>2, SentIn
        <4>3. QED
          BY <3>2, <4>1, <4>2
      <3>4. QED
        BY <1>3, <2>1, <2>4, <3>3
    <2>5. QED
      BY <2>2, <2>3, <2>4
  <1>4. ASSUME NEW b \in Clients, Lose(b) PROVE In(t, tasks[c])
    BY <1>0, <1>4, InEmpty DEF Lose
  <1>5. ASSUME NEW b \in Clients, b # c, CopyOnClient(b) \/ Obey(b) \/ Work(b) PROVE tasks'[c] = tasks[c]
    BY <1>0, <1>5 DEF CopyOnClient, Obey, ObeyEnter, ObeyLeave, ObeyGrab, ObeyData, Work
  <1>6. QED
    <2>1. ASSUME NEW b \in Clients, Receive(b) \/ Reconnect(b) PROVE tasks' = tasks
      BY <2>1 DEF Receive, Reconnect, wires
    <2>2. SwitchScreen \/ CopyOnServer \/ Dispatch \/ UNCHANGED vars => tasks' = tasks
      BY DEF vars, wires, CopyOnServer, SwitchScreen, Dispatch
    <2>3. QED
      BY <1>1, <1>2, <1>3, <1>4, <1>5, <2>1, <2>2 DEF Next

LEMMA ClientAfter ==
    ASSUME TypeOK, [Next]_vars, NEW c \in Clients
    PROVE  /\ \/ client'[c].seq = client[c].seq /\ (client'[c].active => client[c].active)
              \/ /\ ObeyEnter(c) /\ In(Head(toClient[c]), toClient[c]) /\ Head(toClient[c]).kind = "enter"
                 /\ client'[c].seq = Head(toClient[c]).seq
              \/ Lose(c) /\ client'[c].seq = 0 /\ ~client'[c].active
  <1>0. client \in [Clients -> ClientType] /\ toClient[c] \in Seq(DownMessages) /\ client[c] \in ClientType
    BY DEF TypeOK
  <1> DEFINE Same == client'[c].seq = client[c].seq /\ (client'[c].active => client[c].active)
  <1>1. ASSUME ObeyEnter(c)
        PROVE  /\ In(Head(toClient[c]), toClient[c]) /\ Head(toClient[c]).kind = "enter"
               /\ client'[c].seq = Head(toClient[c]).seq
    BY <1>0, <1>1, InTail DEF ObeyEnter, ClientType
  <1>2. ASSUME ObeyLeave(c) \/ ObeyGrab(c) PROVE Same
    BY <1>0, <1>2 DEF ObeyLeave, ObeyGrab, ClientType
  <1>3. ASSUME ObeyData(c) PROVE Same
    <2>1. client' = [client EXCEPT ![c].own = FALSE] \/ client' = client
      BY <1>3 DEF ObeyData
    <2>2. QED
      BY <1>0, <2>1 DEF ClientType
  <1>4. ASSUME Work(c) PROVE Same
    <2>1. client' = [client EXCEPT ![c].own = TRUE, ![c].timed = ~client[c].active] \/ client' = client
      BY <1>4 DEF Work
    <2>2. QED
      BY <1>0, <2>1 DEF ClientType
  <1>5. ASSUME Lose(c) PROVE client'[c].seq = 0 /\ ~client'[c].active
    BY <1>0, <1>5 DEF Lose
  <1>6. ASSUME Reconnect(c) PROVE Same
    BY <1>0, <1>6 DEF Reconnect, ClientType
  <1>7. ASSUME NEW b \in Clients, b # c, Obey(b) \/ Work(b) \/ Lose(b) \/ Reconnect(b) PROVE Same
    <2>1. client'[c] = client[c]
      <3>1. CASE Obey(b)
        BY <1>0, <1>7, <3>1 DEF Obey, ObeyEnter, ObeyLeave, ObeyGrab, ObeyData
      <3>2. CASE Work(b) \/ Lose(b) \/ Reconnect(b)
        BY <1>0, <1>7, <3>2 DEF Work, Lose, Reconnect
      <3>3. QED
        BY <1>7, <3>1, <3>2
    <2>2. QED
      BY <2>1
  <1>8. ASSUME client' = client PROVE Same
    BY <1>8
  <1>9. ASSUME NEW b \in Clients, Receive(b) \/ CopyOnClient(b) PROVE client' = client
    BY <1>9 DEF Receive, CopyOnClient
  <1>10. SwitchScreen \/ CopyOnServer \/ Dispatch \/ UNCHANGED vars => client' = client
    BY DEF vars, wires, CopyOnServer, SwitchScreen, Dispatch
  <1> HIDE DEF Same
  <1>11. Same \/ ObeyEnter(c) \/ Lose(c)
    BY <1>2, <1>3, <1>4, <1>6, <1>7, <1>8, <1>9, <1>10 DEF Next, Obey
  <1>12. QED
    BY <1>1, <1>5, <1>11 DEF Same

\* A number in use was in use before, or is the one a client is entered with.
LEMMA UsesAfter ==
    ASSUME TypeOK, [Next]_vars, NEW c \in Clients, NEW q \in Nat, q > 0, Uses(c, q)'
    PROVE  Uses(c, q) \/ (SwitchScreen /\ active' = c /\ q = seqNum + 1)
  <1>0. toServer[c] \in Seq(UpMessages) /\ tasks[c] \in Seq(Tasks) /\ Server \notin Clients
    BY ConstantsAssumption DEF TypeOK
  <1>1. CASE client'[c].seq = q
    BY <1>1, ClientAfter DEF Uses
  <1>2. ASSUME NEW m, In(m, toClient'[c]), m.kind = "enter", m.seq = q
        PROVE  Uses(c, q) \/ (SwitchScreen /\ active' = c /\ q = seqNum + 1)
    BY <1>2, StreamAfter DEF Uses
  <1>3. ASSUME NEW m, In(m, toServer'[c]), m.seq = q PROVE Uses(c, q)
    BY <1>3, UpAfter DEF Uses
  <1>4. ASSUME NEW t, In(t, tasks'[c]), t.kind = "send", t.seq = q PROVE Uses(c, q)
    BY <1>4, TasksAfter DEF Uses
  <1>5. ASSUME NEW e, In(e, events'), e.kind # "send", e.from = c, e.seq = q PROVE Uses(c, q)
    <2>1. CASE In(e, events)
      BY <1>5, <2>1 DEF Uses
    <2>2. CASE ~In(e, events)
      <3>1. NewEvent(e)
        BY <1>5, <2>2, EventsAfter
      <3>2. Receive(c) /\ e.seq = Head(toServer[c]).seq
        BY <1>0, <1>5, <3>1 DEF NewEvent
      <3>3. In(Head(toServer[c]), toServer[c])
        BY <1>0, <3>2, InTail DEF Receive
      <3>4. QED
        BY <1>5, <3>2, <3>3 DEF Uses
    <2>3. QED
      BY <2>1, <2>2
  <1>6. QED
    BY <1>1, <1>2, <1>3, <1>4, <1>5 DEF Uses

\* A client whose connection is lost uses no number.
LEMMA LostUsesNone ==
    ASSUME TypeOK, NEW c \in Clients, Lose(c), NEW q \in Nat, q > 0
    PROVE  ~Uses(c, q)'
  <1>1. client'[c].seq = 0 /\ toClient'[c] = <<>> /\ toServer'[c] = <<>> /\ tasks'[c] = <<>>
    BY DEF TypeOK, Lose
  <1>2. ASSUME NEW e, In(e, events'), e.kind # "send", e.from = c PROVE FALSE
    <2>1. e \in EventsOfOthers(c)
      BY <1>2, InKept DEF Lose, TypeOK
    <2>2. QED
      BY <1>2, <2>1 DEF EventsOfOthers
  <1>3. QED
    BY <1>1, <1>2, InEmpty DEF Uses

LEMMA NumbersStep ==
    ASSUME TypeOK, Numbers, [Next]_vars
    PROVE  Numbers'
  <1>0. seqNum \in Nat /\ seqNum' \in Nat /\ Seqs \subseteq Nat /\ Server \notin Clients
    BY Typed, ConstantsAssumption DEF TypeOK, Seqs
  <1>1. CASE SwitchScreen
    <2>1. seqNum' = seqNum + 1 /\ (active' = Server => primarySeq' = seqNum')
      BY <1>1 DEF SwitchScreen
    <2>2. ASSUME NEW c \in Clients, NEW q \in Seqs, q > 0, Uses(c, q)'
          PROVE  /\ q <= seqNum' /\ (q = seqNum' => active' = c)
                 /\ q < seqNum' => Uses(c, q)
      <3>1. Uses(c, q) => q <= seqNum
        BY <2>2 DEF Numbers
      <3>2. QED
        BY <1>0, <2>1, <2>2, <3>1, UsesAfter
    <2>3. ASSUME NEW c \in Clients, NEW q \in Seqs, q > 0, Uses(c, q)', NEW d \in Clients, Uses(d, q)'
          PROVE  d = c
      <3>1. q <= seqNum' /\ q \in Nat
        BY <1>0, <2>2, <2>3
      <3>2. CASE q = seqNum'
        BY <2>2, <2>3, <3>2
      <3>3. CASE q < seqNum'
        <4>1. Uses(c, q) /\ Uses(d, q)
          BY <2>2, <2>3, <3>3
        <4>2. QED
          BY <2>3, <4>1 DEF Numbers
      <3>4. QED
        BY <1>0, <3>1, <3>2, <3>3
    <2>4. QED
      BY <2>1, <2>2, <2>3 DEF Numbers
  <1>2. CASE ~SwitchScreen
    <2>1. /\ seqNum' = seqNum
          /\ \/ active' = active /\ primarySeq' = primarySeq
             \/ \E c \in Clients : Lose(c) /\ active' = (IF active = c THEN Server ELSE active)
                                   /\ primarySeq' = (IF active = c THEN seqNum ELSE primarySeq)
      BY <1>2 DEF Next, CopyOnServer, Dispatch, Receive, Obey, CopyOnClient, Work, Reconnect, Lose, vars
    <2>2. active' = Server => primarySeq' = seqNum'
      BY <2>1 DEF Numbers
    <2>3. ASSUME NEW c \in Clients, NEW q \in Seqs, q > 0, Uses(c, q)'
          PROVE  Uses(c, q) /\ (active = c => active' = c)
      <3>1. Uses(c, q) /\ q \in Nat
        BY <1>0, <1>2, <2>3, UsesAfter
      <3>2. ~Lose(c)
        BY <2>3, <3>1, LostUsesNone
      <3>3. QED
        BY <2>1, <3>1, <3>2
    <2>4. QED
      BY <2>1, <2>2, <2>3 DEF Numbers
  <1>3. QED
    BY <1>1, <1>2

LEMMA PositiveStep ==
    ASSUME ~LocalUse, TypeOK, Positive, OwnCovered, [Next]_vars
    PROVE  Positive'
  <1>0. /\ seqNum \in Nat /\ Server \notin Clients
        /\ \A c \in Clients : toServer[c] \in Seq(UpMessages) /\ tasks[c] \in Seq(Tasks) /\ client[c] \in ClientType
    BY ConstantsAssumption DEF TypeOK, Seqs
  <1>1. ASSUME NEW c \in Clients, NEW m, In(m, toClient'[c]), m.kind = "enter" PROVE m.seq > 0
    BY <1>0, <1>1, StreamAfter DEF Positive
  <1>2. ASSUME NEW c \in Clients PROVE client'[c].active => client'[c].seq > 0
    BY ClientAfter DEF Positive
  <1>3. ASSUME NEW c \in Clients, NEW m, In(m, toServer'[c]) PROVE m.seq > 0
    <2>1. \A t : In(t, tasks[c]) => IF t.kind = "send" THEN t.seq > 0 ELSE client[c].seq > 0
      BY DEF Positive
    <2>2. \A n : In(n, toServer[c]) => n.seq > 0
      BY DEF Positive
    <2>3. QED
      BY <1>3, <2>1, <2>2, UpAfter
  <1>4. ASSUME NEW c \in Clients, NEW t, In(t, tasks'[c])
        PROVE  IF t.kind = "send" THEN t.seq > 0 ELSE client'[c].seq > 0
    <2>1. \A x : In(x, tasks[c]) => IF x.kind = "send" THEN x.seq > 0 ELSE client[c].seq > 0
      BY DEF Positive
    <2>2. client[c].active => client[c].seq > 0
      BY DEF Positive
    <2>3. Lose(c) => FALSE
      <3>1. Lose(c) => tasks'[c] = <<>>
        BY DEF Lose, TypeOK
      <3>2. QED
        BY <1>4, <3>1, InEmpty
    <2>4. client[c].seq > 0 => client'[c].seq > 0
      <3>1. client'[c].seq = client[c].seq \/ (In(Head(toClient[c]), toClient[c]) /\ Head(toClient[c]).kind = "enter"
                                               /\ client'[c].seq = Head(toClient[c]).seq)
        BY <2>3, ClientAfter
      <3>2. QED
        BY <3>1 DEF Positive
    <2>5. CASE In(t, tasks[c])
      BY <2>1, <2>4, <2>5
    <2>6. CASE CopyOnClient(c) /\ t.kind = "grabbed"
      <3>1. client[c].seq > 0
        BY <2>2, <2>6 DEF CopyOnClient
      <3>2. QED
        BY <2>4, <2>6, <3>1
    <2>7. CASE t.kind = "send" /\ t.seq = client[c].seq /\ client[c].own /\ ~client[c].timed
      BY <2>2, <2>7 DEF OwnCovered
    <2>8. CASE t.kind = "send" /\ t.seq = client[c].seq /\ Work(c) /\ Head(tasks[c]).kind = "grabbed"
      <3>1. In(Head(tasks[c]), tasks[c])
        BY <1>0, <2>8, InTail DEF Work
      <3>2. QED
        BY <2>1, <2>8, <3>1
    <2>9. QED
      BY <1>4, <2>5, <2>6, <2>7, <2>8, TasksAfter
  <1>5. ASSUME NEW e, In(e, events'), e.kind # "send", e.from # Server PROVE e.seq > 0
    <2>1. CASE In(e, events)
      BY <1>5, <2>1 DEF Positive
    <2>2. CASE ~In(e, events)
      <3>1. NewEvent(e)
        BY <1>5, <2>2, EventsAfter
      <3>2. PICK c \in Clients : Receive(c) /\ e.seq = Head(toServer[c]).seq
        BY <1>5, <3>1 DEF NewEvent
      <3>3. In(Head(toServer[c]), toServer[c])
        BY <1>0, <3>2, InTail DEF Receive
      <3>4. QED
        BY <3>2, <3>3 DEF Positive
    <2>3. QED
      BY <2>1, <2>2
  <1>6. QED
    BY <1>1, <1>2, <1>3, <1>4, <1>5 DEF Positive

LEMMA AlternatesStep ==
    ASSUME TypeOK, Alternates, [Next]_vars
    PROVE  Alternates'
  <1>0. /\ TypeOK' /\ Server \notin Clients /\ toClient \in [Clients -> Seq(DownMessages)]
        /\ client \in [Clients -> ClientType]
        /\ \A c \in Clients : toClient[c] \in Seq(DownMessages) /\ client[c].active \in BOOLEAN
                              /\ client'[c].active \in BOOLEAN
    BY Typed, ConstantsAssumption DEF TypeOK, ClientType
  <1> SUFFICES ASSUME NEW c \in Clients
               PROVE  /\ InTurn(client'[c].active, toClient'[c])
                      /\ active' # c => Left(client'[c].active, toClient'[c], Len(toClient'[c]) + 1)
    BY DEF Alternates
  <1> DEFINE Goal == /\ InTurn(client'[c].active, toClient'[c])
                     /\ active' # c => Left(client'[c].active, toClient'[c], Len(toClient'[c]) + 1)
             a == client[c].active
             t == toClient[c]
  <1>a. InTurn(a, t) /\ (active # c => Left(a, t, Len(t) + 1))
    BY DEF Alternates
  <1>b. ASSUME client'[c].active = client[c].active, toClient'[c] = toClient[c],
               active' = active \/ (active # c /\ active' # c)
        PROVE  Goal
    BY <1>a, <1>b
  <1>c. ASSUME NEW m \in DownMessages, m.kind # "enter", toClient'[c] = Append(t, m),
               client'[c].active = client[c].active, active' = active
        PROVE  Goal
    <2>1. InTurn(a, Append(t, m)) /\ (active # c => Left(a, Append(t, m), Len(Append(t, m)) + 1))
      BY <1>0, <1>a, <1>c, LeftLonger
    <2>2. QED
      BY <1>c, <2>1
  <1>1. ASSUME SwitchScreen PROVE Goal
    <2> DEFINE e == [kind |-> "enter", seq |-> seqNum + 1]
               l == [kind |-> "leave"]
    <2>1. seqNum + 1 \in Seqs
      BY <1>1, ConstantsAssumption DEF SwitchScreen, TypeOK, Seqs
    <2>2. e \in DownMessages /\ l \in DownMessages /\ l.kind = "leave" /\ e.kind = "enter"
      BY <2>1 DEF DownMessages
    <2>3. /\ client' = client /\ active # active'
          /\ active = c => toClient'[c] = Append(t, l)
          /\ active' = c => toClient'[c] = Append(t, e)
          /\ active # c /\ active' # c => toClient'[c] = t
      BY <1>1, SwitchEffect DEF SwitchScreen
    <2> HIDE DEF e, l, t
    <2>4. CASE active = c
      <3>1. InTurn(a, Append(t, l)) /\ Left(a, Append(t, l), Len(Append(t, l)) + 1)
        BY <1>0, <1>a, <2>2, LeftLonger DEF t
      <3>2. QED
        BY <2>3, <2>4, <3>1
    <2>5. CASE active' = c
      <3>1. InTurn(a, Append(t, e))
        BY <1>0, <1>a, <2>2, <2>3, <2>5, LeftLonger DEF t
      <3>2. QED
        BY <2>3, <2>5, <3>1
    <2>6. CASE active # c /\ active' # c
      BY <1>b, <2>3, <2>6 DEF t
    <2>7. QED
      BY <2>4, <2>5, <2>6
  <1>2. ASSUME Dispatch PROVE Goal
    <2> DEFINE h == Head(events)
               d == [kind |-> "data", data |-> h.data]
    <2>1. Handled(h) /\ h \in Events /\ client' = client /\ active' = active
      BY <1>2, DispatchEffect, HeadTailProperties DEF Dispatch, TypeOK
    <2>2. h.kind = "send" => d \in DownMessages
      BY <2>1, EventType DEF DownMessages
    <2>3. \/ toClient'[c] = toClient[c]
          \/ h.kind = "send" /\ toClient'[c] = Append(toClient[c], d)
          \/ toClient'[c] = Append(toClient[c], GrabMessage)
      BY <1>0, <2>1 DEF Handled
    <2>4. d.kind # "enter"
      OBVIOUS
    <2> HIDE DEF d
    <2>5. QED
      BY <1>b, <1>c, <2>1, <2>2, <2>3, <2>4, GrabMessageType
  <1>3. ASSUME Obey(c) PROVE Goal
    <2>1. t # <<>> /\ toClient'[c] = Tail(t) /\ active' = active
      BY <1>0, <1>3 DEF Obey, ObeyEnter, ObeyLeave, ObeyGrab, ObeyData
    <2>2. client'[c].active = IF Head(t).kind = "enter" THEN TRUE ELSE IF Head(t).kind = "leave" THEN FALSE ELSE a
      <3>1. CASE ObeyEnter(c)
        BY <1>0, <3>1 DEF ObeyEnter, ClientType
      <3>2. CASE ObeyLeave(c)
        BY <1>0, <3>2 DEF ObeyLeave, ClientType
      <3>3. CASE ObeyGrab(c)
        BY <1>0, <3>3 DEF ObeyGrab, ClientType
      <3>4. CASE ObeyData(c)
        <4>1. client' = [client EXCEPT ![c].own = FALSE] \/ client' = client
          BY <3>4 DEF ObeyData
        <4>2. client'[c].active = a
          BY <1>0, <4>1 DEF ClientType
        <4>3. QED
          BY <3>4, <4>2 DEF ObeyData
      <3>5. QED
        BY <1>3, <3>1, <3>2, <3>3, <3>4 DEF Obey
    <2>3. /\ \A i \in 2 .. Len(t) + 1 : Left(a, t, i) => Left(client'[c].active, Tail(t), i - 1)
          /\ InTurn(client'[c].active, Tail(t))
      BY <1>0, <1>a, <2>1, <2>2, LeftNext
    <2>4. /\ Len(t) + 1 \in 2 .. Len(t) + 1 /\ (Len(t) + 1) - 1 = Len(Tail(t)) + 1
      BY <1>0, <2>1, LenProperties, EmptySeq, HeadTailProperties
    <2> HIDE DEF t, a
    <2>5. active # c => Left(client'[c].active, Tail(t), Len(Tail(t)) + 1)
      BY <1>a, <2>3, <2>4
    <2>6. QED
      BY <2>1, <2>3, <2>5
  <1>4. ASSUME Lose(c) PROVE Goal
    <2>1. client'[c].active = FALSE /\ toClient'[c] = <<>>
      BY <1>0, <1>4 DEF Lose
    <2>2. InTurn(FALSE, <<>>) /\ Left(FALSE, <<>>, Len(<<>>) + 1)
      BY DEF InTurn, Left
    <2>3. QED
      BY <2>1, <2>2
  <1>5. ASSUME Work(c) \/ Reconnect(c) PROVE Goal
    <2>1. toClient' = toClient /\ active' = active
      BY <1>5 DEF Work, Reconnect, wires
    <2>2. \/ client' = client \/ client' = [client EXCEPT ![c].online = TRUE]
          \/ client' = [client EXCEPT ![c].own = TRUE, ![c].timed = ~client[c].active]
      BY <1>5 DEF Work, Reconnect
    <2>3. client'[c].active = client[c].active
      BY <1>0, <2>2 DEF ClientType
    <2>4. QED
      BY <1>b, <2>1, <2>3
  <1>6. ASSUME NEW b \in Clients, b # c, Obey(b) \/ Work(b) \/ Lose(b) \/ Reconnect(b) PROVE Goal
    <2>1. CASE Obey(b)
      <3>1. client'[c] = client[c] /\ toClient'[c] = toClient[c] /\ active' = active
        BY <1>0, <1>6, <2>1 DEF Obey, ObeyEnter, ObeyLeave, ObeyGrab, ObeyData
      <3>2. QED
        BY <1>b, <3>1
    <2>2. CASE Work(b) \/ Lose(b) \/ Reconnect(b)
      <3>1. client'[c] = client[c] /\ toClient'[c] = toClient[c] /\ (active' = active \/ (active # c /\ active' # c))
        BY <1>0, <1>6, <2>2 DEF Work, Lose, Reconnect, wires
      <3>2. QED
        BY <1>b, <3>1
    <2>3. QED
      BY <1>6, <2>1, <2>2
  <1>7. ASSUME client' = client, toClient' = toClient, active' = active PROVE Goal
    BY <1>b, <1>7
  <1>8. ASSUME NEW b \in Clients, Receive(b) \/ CopyOnClient(b)
        PROVE  client' = client /\ toClient' = toClient /\ active' = active
    BY <1>8 DEF Receive, CopyOnClient
  <1>9. CopyOnServer \/ UNCHANGED vars => client' = client /\ toClient' = toClient /\ active' = active
    BY DEF vars, wires, CopyOnServer
  <1> HIDE DEF Goal
  <1>10. Goal
    BY <1>1, <1>2, <1>3, <1>4, <1>5, <1>6, <1>7, <1>8, <1>9 DEF Next
  <1>11. QED
    BY <1>10 DEF Goal

-----------------------------------------------------------------------------
(* The steps that handle or queue an event keep every update covered *)

\* The server appends a transfer to its queue, or nothing.
LEMMA CoveredQueued ==
    ASSUME NEW ev \in Seq(Events), NEW new, NEW d \in Contents, Queues(ev, new, d), NEW o, NEW s, NEW c, NEW q
    PROVE  /\ \A i \in 1 .. Len(ev) + 1 : Covered(o, s, ev, c, q, i) => Covered(o, s, new, c, q, i)
           /\ Covered(o, s, ev, c, q, Len(ev) + 1) => Covered(o, s, new, c, q, Len(new) + 1)
           /\ \A i \in 1 .. Len(new) : new[i].kind # "send" => i \in 1 .. Len(ev) /\ new[i] = ev[i]
  <1>1. CASE new = ev
    BY <1>1
  <1>2. ASSUME NEW p \in Clients, new = Append(ev, [kind |-> "send", to |-> p, data |-> d])
        PROVE  /\ \A i \in 1 .. Len(ev) + 1 : Covered(o, s, ev, c, q, i) => Covered(o, s, new, c, q, i)
               /\ Covered(o, s, ev, c, q, Len(ev) + 1) => Covered(o, s, new, c, q, Len(new) + 1)
               /\ \A i \in 1 .. Len(new) : new[i].kind # "send" => i \in 1 .. Len(ev) /\ new[i] = ev[i]
    <2> DEFINE e == [kind |-> "send", to |-> p, data |-> d]
    <2>1. e \in Events /\ e.kind = "send" /\ new = Append(ev, e)
      BY <1>2, SendType
    <2> HIDE DEF e
    <2>2. \A i \in 1 .. Len(ev) + 1 : Covered(o, s, ev, c, q, i) => Covered(o, s, Append(ev, e), c, q, i)
      BY <2>1, CoveredBefore
    <2>3. Covered(o, s, ev, c, q, Len(ev) + 1) => Covered(o, s, Append(ev, e), c, q, Len(Append(ev, e)) + 1)
      BY <2>1, CoveredLonger
    <2>4. /\ Len(new) = Len(ev) + 1 /\ Len(ev) \in Nat /\ new[Len(ev) + 1] = e
          /\ \A i \in 1 .. Len(ev) : new[i] = ev[i]
      BY <2>1, AppendProperties, LenProperties
    <2>5. QED
      BY <2>1, <2>2, <2>3, <2>4
  <1>3. QED
    BY <1>1, <1>2 DEF Queues

\* The updates still to be sent stay covered if the server's step keeps the
\* numbers in use covered.
LEMMA ServerKeeps ==
    ASSUME OwnerInv, UNCHANGED <<client, toServer, tasks>>,
           \A c \in Clients, q \in Seqs :
             q > 0 /\ Uses(c, q) /\ Covered(clip.owner, clip.seq, events, c, q, Len(events) + 1) =>
               Covered(clip'.owner, clip'.seq, events', c, q, Len(events') + 1)
    PROVE  StreamsCovered' /\ TasksCovered' /\ OwnCovered'
  <1> DEFINE C(c, q) == Covered(clip.owner, clip.seq, events, c, q, Len(events) + 1)
             D(c, q) == Covered(clip'.owner, clip'.seq, events', c, q, Len(events') + 1)
  <1>1. \A c \in Clients, q \in Seqs : q > 0 /\ Uses(c, q) /\ C(c, q) => D(c, q)
    OBVIOUS
  <1>2. client' = client /\ toServer' = toServer /\ tasks' = tasks /\ TypeOK
    BY DEF OwnerInv
  <1>3. \A c \in Clients : \A q : Backed(c, q)' <=> GrabSent(toServer[c], q, Len(toServer[c]) + 1) \/ D(c, q)
    BY <1>2 DEF Backed
  <1>4. \A c \in Clients : \A q : Backed(c, q) <=> GrabSent(toServer[c], q, Len(toServer[c]) + 1) \/ C(c, q)
    BY DEF Backed
  <1> HIDE DEF C, D
  <1>5. StreamsCovered'
    <2> SUFFICES ASSUME NEW c \in Clients, NEW m \in 1 .. Len(toServer[c]), toServer[c][m].kind = "data"
                 PROVE  GrabSent(toServer[c], toServer[c][m].seq, m) \/ D(c, toServer[c][m].seq)
      BY <1>2 DEF StreamsCovered, D
    <2>1. toServer[c][m] \in UpMessages /\ In(toServer[c][m], toServer[c])
      BY <1>2, ElementOfSeq DEF TypeOK, In
    <2>2. toServer[c][m].seq \in Seqs /\ toServer[c][m].seq > 0 /\ Uses(c, toServer[c][m].seq)
      BY <2>1 DEF UpMessages, OwnerInv, Positive, Uses
    <2>3. GrabSent(toServer[c], toServer[c][m].seq, m) \/ C(c, toServer[c][m].seq)
      BY DEF OwnerInv, StreamsCovered, C
    <2>4. QED
      BY <1>1, <2>2, <2>3
  <1>6. TasksCovered'
    <2> SUFFICES ASSUME NEW c \in Clients, NEW t, In(t, tasks[c]), t.kind = "send" PROVE Backed(c, t.seq)'
      BY <1>2 DEF TasksCovered
    <2>1. t \in Tasks
      BY <1>2, InType DEF TypeOK
    <2>2. t.seq \in Seqs /\ t.seq > 0 /\ Uses(c, t.seq)
      BY <2>1 DEF Tasks, OwnerInv, Positive, Uses
    <2>3. Backed(c, t.seq)
      BY DEF OwnerInv, TasksCovered
    <2>4. QED
      BY <1>1, <1>3, <1>4, <2>2, <2>3
  <1>7. OwnCovered'
    <2> SUFFICES ASSUME NEW c \in Clients, client[c].own, ~client[c].timed
                 PROVE  client[c].active /\ Backed(c, client[c].seq)'
      BY <1>2 DEF OwnCovered
    <2>1. client[c].active /\ Backed(c, client[c].seq)
      BY DEF OwnerInv, OwnCovered
    <2>2. client[c].seq \in Seqs /\ client[c].seq > 0 /\ Uses(c, client[c].seq)
      <3>1. client[c].seq \in Seqs
        BY <1>2 DEF TypeOK, ClientType
      <3>2. client[c].seq > 0
        BY <2>1 DEF OwnerInv, Positive
      <3>3. QED
        BY <3>1, <3>2 DEF Uses
    <2>3. QED
      BY <1>1, <1>3, <1>4, <2>1, <2>2
  <1>8. QED
    BY <1>5, <1>6, <1>7

\* The server moves the cursor: only a transfer may be queued.
LEMMA SwitchCovers ==
    ASSUME OwnerInv, SwitchScreen
    PROVE  EventsCovered' /\ StreamsCovered' /\ TasksCovered' /\ OwnCovered'
  <1>1. /\ TypeOK /\ TypeOK' /\ clip'.owner = clip.owner /\ clip'.seq = clip.seq
        /\ Queues(events, events', clip'.data) /\ events \in Seq(Events) /\ clip'.data \in Contents
        /\ UNCHANGED <<client, toServer, tasks>>
    BY SwitchEffect DEF OwnerInv, TypeOK, SwitchScreen
  <1> DEFINE o == clip.owner
             n == clip.seq
  <1>2. ASSUME NEW c, NEW q
        PROVE  /\ \A i \in 1 .. Len(events) + 1 : Covered(o, n, events, c, q, i) => Covered(o, n, events', c, q, i)
               /\ Covered(o, n, events, c, q, Len(events) + 1) => Covered(o, n, events', c, q, Len(events') + 1)
               /\ \A i \in 1 .. Len(events') : events'[i].kind # "send" =>
                     i \in 1 .. Len(events) /\ events'[i] = events[i]
    BY <1>1, CoveredQueued
  <1>3. StreamsCovered' /\ TasksCovered' /\ OwnCovered'
    BY <1>1, <1>2, ServerKeeps
  <1>4. EventsCovered'
    <2> SUFFICES ASSUME NEW i \in 1 .. Len(events'), events'[i].kind = "changed"
                 PROVE  Covered(o, n, events', events'[i].from, events'[i].seq, i)
      BY <1>1 DEF EventsCovered
    <2>1. i \in 1 .. Len(events) /\ events'[i] = events[i]
      BY <1>2
    <2>2. i \in 1 .. Len(events) + 1
      BY <1>1, <2>1, LenProperties
    <2>3. Covered(o, n, events, events[i].from, events[i].seq, i)
      BY <2>1 DEF OwnerInv, EventsCovered
    <2>4. QED
      BY <1>2, <2>1, <2>2, <2>3
  <1>5. QED
    BY <1>3, <1>4

\* A copy on the server's own screen, which has the cursor: its number is later
\* than any a client uses.
LEMMA CopyCovers ==
    ASSUME OwnerInv, ~LocalUse, CopyOnServer
    PROVE  EventsCovered' /\ StreamsCovered' /\ TasksCovered' /\ OwnCovered'
  <1> DEFINE e == [kind |-> "grabbed", from |-> Server, seq |-> primarySeq]
  <1>1. /\ TypeOK /\ clip' = clip /\ events' = Append(events, e) /\ events \in Seq(Events)
        /\ UNCHANGED <<client, toServer, tasks>> /\ Seqs \subseteq Nat /\ primarySeq \in Nat
        /\ seqNum \in Nat
    BY ConstantsAssumption DEF OwnerInv, TypeOK, CopyOnServer, Seqs
  <1>2. e \in Events /\ e.kind = "grabbed" /\ e.seq = primarySeq
    BY <1>1 DEF TypeOK, Events, Screens
  <1>3. active = Server /\ primarySeq = seqNum
    BY DEF CopyOnServer, OwnerInv, Numbers
  <1>4. ASSUME NEW c \in Clients, NEW q \in Seqs, q > 0, Uses(c, q) PROVE primarySeq > q
    <2>1. q <= seqNum /\ (q = seqNum => active = c)
      BY <1>4 DEF OwnerInv, Numbers
    <2>2. QED
      BY <1>1, <1>3, <2>1, ConstantsAssumption
  <1> HIDE DEF e
  <1>5. ASSUME NEW c \in Clients, NEW q \in Seqs, q > 0, Uses(c, q),
               Covered(clip.owner, clip.seq, events, c, q, Len(events) + 1)
        PROVE  Covered(clip'.owner, clip'.seq, events', c, q, Len(events') + 1)
    <2>1. e.seq > q
      BY <1>2, <1>4, <1>5
    <2>2. Covered(clip.owner, clip.seq, Append(events, e), c, q, Len(Append(events, e)) + 1)
      BY <1>1, <1>2, <1>5, <2>1, CoveredLonger
    <2>3. QED
      BY <1>1, <2>2
  <1>6. StreamsCovered' /\ TasksCovered' /\ OwnCovered'
    BY <1>1, <1>5, ServerKeeps
  <1>7. EventsCovered'
    <2> SUFFICES ASSUME NEW i \in 1 .. Len(events'), events'[i].kind = "changed"
                 PROVE  Covered(clip.owner, clip.seq, events', events'[i].from, events'[i].seq, i)
      BY <1>1 DEF EventsCovered
    <2>1. i \in 1 .. Len(events) /\ events'[i] = events[i] /\ i \in 1 .. Len(events) + 1
      BY <1>1, <1>2, AppendProperties, LenProperties
    <2>2. Covered(clip.owner, clip.seq, events, events[i].from, events[i].seq, i)
      BY <2>1 DEF OwnerInv, EventsCovered
    <2>3. QED
      BY <1>1, <1>2, <2>1, <2>2, CoveredBefore
  <1>8. QED
    BY <1>6, <1>7

\* The server handles its next event.
LEMMA DispatchCovers ==
    ASSUME OwnerInv, Dispatch
    PROVE  EventsCovered' /\ StreamsCovered' /\ TasksCovered' /\ OwnCovered'
  <1> DEFINE h == Head(events)
             t == Tail(events)
  <1>0. /\ TypeOK /\ TypeOK' /\ Handled(h) /\ events \in Seq(Events) /\ events # <<>>
        /\ UNCHANGED <<client, toServer, tasks>> /\ clip'.data \in Contents
        /\ clip.seq \in Nat /\ clip'.seq \in Nat /\ Seqs \subseteq Nat
    <2>1. TypeOK /\ TypeOK' /\ Handled(h)
      BY DispatchEffect DEF OwnerInv
    <2>2. events # <<>> /\ UNCHANGED <<client, toServer, tasks>>
      BY DEF Dispatch
    <2>3. events \in Seq(Events) /\ clip'.data \in Contents /\ clip.seq \in Seqs /\ clip'.seq \in Seqs
      BY <2>1 DEF TypeOK
    <2>4. Seqs \subseteq Nat
      BY ConstantsAssumption DEF Seqs
    <2>5. QED
      BY <2>1, <2>2, <2>3, <2>4
  <1>1. /\ Len(events) \in Nat /\ Len(events) >= 1 /\ h = events[1] /\ Len(t) = Len(events) - 1
        /\ \A k \in 1 .. Len(t) : t[k] = events[k + 1]
        /\ h \in Events /\ t \in Seq(Events) /\ In(h, events)
    BY <1>0, HeadTailProperties, LenProperties, EmptySeq, InTail
  <1>2. Queues(t, events', clip'.data)
    BY <1>0 DEF Handled, Queues
  <1>3. h.kind \in {"send", "grabbed", "changed"} /\ (h.kind = "grabbed" => h.from \in Screens /\ h.seq \in Seqs)
    BY <1>1, EventType
  <1> HIDE DEF h, t
  <1>4. ASSUME NEW c \in Clients, NEW q \in Seqs, q > 0, Uses(c, q), NEW i \in 2 .. Len(events) + 1,
               Covered(clip.owner, clip.seq, events, c, q, i)
        PROVE  Covered(clip'.owner, clip'.seq, t, c, q, i - 1)
    <2>1. h.kind = "grabbed" /\ h.from # Server /\ h.seq = q => h.from = c
      <3> SUFFICES ASSUME h.kind = "grabbed", h.from # Server, h.seq = q PROVE h.from = c
        OBVIOUS
      <3>1. h.from \in Clients
        BY <1>3 DEF Screens
      <3>2. Uses(h.from, q)
        BY <1>1 DEF Uses
      <3>3. QED
        BY <1>4, <3>1, <3>2 DEF OwnerInv, Numbers
    <2>2. \/ h.kind # "grabbed" /\ clip'.owner = clip.owner /\ clip'.seq = clip.seq
          \/ h.kind = "grabbed" /\ h.from # Server /\ h.seq < clip.seq /\ clip'.owner = clip.owner /\ clip'.seq = clip.seq
          \/ h.kind = "grabbed" /\ h.from # Server /\ ~(h.seq < clip.seq) /\ clip'.owner = h.from /\ clip'.seq = h.seq
          \/ h.kind = "grabbed" /\ h.from = Server /\ clip'.owner = h.from /\ clip'.seq = h.seq
      BY <1>0 DEF Handled
    <2>3. h.kind = "grabbed" /\ ~(h.seq < clip.seq) => h.seq >= clip.seq
      <3>1. \A x, y \in Nat : ~(x < y) => x >= y
        OBVIOUS
      <3>2. h.kind = "grabbed" => h.seq \in Nat
        BY <1>0, <1>3
      <3>3. QED
        BY <1>0, <3>1, <3>2
    <2>4. LET g == Head(events) IN
          \/ g.kind # "grabbed" /\ clip'.owner = clip.owner /\ clip'.seq = clip.seq
          \/ g.kind = "grabbed" /\ g.from # Server /\ g.seq < clip.seq /\ clip'.owner = clip.owner /\ clip'.seq = clip.seq
          \/ g.kind = "grabbed" /\ g.from # Server /\ g.seq >= clip.seq /\ clip'.owner = g.from /\ clip'.seq = g.seq
             /\ (g.seq = q /\ clip.owner = c => g.from = c)
          \/ g.kind = "grabbed" /\ g.from = Server /\ clip'.owner = g.from /\ clip'.seq = g.seq
      BY <2>1, <2>2, <2>3 DEF h
    <2>5. q \in Nat
      BY <1>0
    <2>6. Covered(clip'.owner, clip'.seq, Tail(events), c, q, i - 1)
      BY <1>0, <1>4, <2>4, <2>5, CoveredNext
    <2>7. QED
      BY <2>6 DEF t
  <1>5. ASSUME NEW c, NEW q
        PROVE  /\ \A i \in 1 .. Len(t) + 1 :
                    Covered(clip'.owner, clip'.seq, t, c, q, i) => Covered(clip'.owner, clip'.seq, events', c, q, i)
               /\ Covered(clip'.owner, clip'.seq, t, c, q, Len(t) + 1) =>
                    Covered(clip'.owner, clip'.seq, events', c, q, Len(events') + 1)
               /\ \A i \in 1 .. Len(events') : events'[i].kind # "send" =>
                     i \in 1 .. Len(t) /\ events'[i] = t[i]
    BY <1>0, <1>1, <1>2, CoveredQueued
  <1>6. StreamsCovered' /\ TasksCovered' /\ OwnCovered'
    <2>1. ASSUME NEW c \in Clients, NEW q \in Seqs, q > 0, Uses(c, q),
                 Covered(clip.owner, clip.seq, events, c, q, Len(events) + 1)
          PROVE  Covered(clip'.owner, clip'.seq, events', c, q, Len(events') + 1)
      <3>1. Len(events) + 1 \in 2 .. Len(events) + 1 /\ (Len(events) + 1) - 1 = Len(t) + 1
        BY <1>1
      <3>2. Covered(clip'.owner, clip'.seq, t, c, q, Len(t) + 1)
        BY <1>4, <2>1, <3>1
      <3>3. QED
        BY <1>5, <3>2
    <2>2. QED
      BY <1>0, <2>1, ServerKeeps
  <1>7. EventsCovered'
    <2> SUFFICES ASSUME NEW i \in 1 .. Len(events'), events'[i].kind = "changed"
                 PROVE  Covered(clip'.owner, clip'.seq, events', events'[i].from, events'[i].seq, i)
      BY DEF EventsCovered
    <2> DEFINE x == events[i + 1]
    <2>1. i \in 1 .. Len(t) /\ events'[i] = t[i]
      BY <1>5
    <2>2. /\ i \in 1 .. Len(t) + 1 /\ i + 1 \in 2 .. Len(events) + 1 /\ (i + 1) - 1 = i /\ i + 1 \in 1 .. Len(events)
          /\ events'[i] = x
      BY <1>1, <2>1
    <2>3. x \in Events /\ x.kind = "changed" /\ In(x, events)
      BY <1>0, <2>2, ElementOfSeq DEF In
    <2>4. x.from \in Clients /\ x.seq \in Seqs
      BY <2>3, EventType
    <2>5. Uses(x.from, x.seq)
      BY <2>3 DEF Uses
    <2>6. x.seq > 0
      BY <2>3, <2>4, ConstantsAssumption DEF OwnerInv, Positive
    <2>7. Covered(clip.owner, clip.seq, events, x.from, x.seq, i + 1)
      BY <2>2, <2>3 DEF OwnerInv, EventsCovered
    <2>8. Covered(clip'.owner, clip'.seq, t, x.from, x.seq, i)
      <3> HIDE DEF x
      <3>1. Covered(clip'.owner, clip'.seq, t, x.from, x.seq, (i + 1) - 1)
        BY <1>4, <2>2, <2>4, <2>5, <2>6, <2>7
      <3>2. QED
        BY <2>2, <3>1
    <2>9. QED
      BY <1>5, <2>2, <2>8
  <1>8. QED
    BY <1>6, <1>7

\* The server reads a message of client c: a grab covers what c sends after it.
LEMMA ReadCovers ==
    ASSUME OwnerInv, NEW c \in Clients, Receive(c), events' = Append(events, ReadEvent(c))
    PROVE  EventsCovered' /\ StreamsCovered' /\ TasksCovered' /\ OwnCovered'
  <1> DEFINE u == toServer[c]
             m == Head(u)
             e == [kind |-> IF m.kind = "grab" THEN "grabbed" ELSE "changed", from |-> c, seq |-> m.seq]
             o == clip.owner
             n == clip.seq
  <1>0. /\ TypeOK /\ events \in Seq(Events) /\ c # Server
        /\ toServer \in [Clients -> Seq(UpMessages)] /\ u \in Seq(UpMessages) /\ u # <<>>
    BY ConstantsAssumption DEF OwnerInv, TypeOK, Receive
  <1>1. /\ m \in UpMessages /\ Len(u) \in Nat /\ Len(u) >= 1 /\ m = u[1] /\ Len(Tail(u)) = Len(u) - 1
        /\ \A k \in 1 .. Len(Tail(u)) : Tail(u)[k] = u[k + 1]
    BY <1>0, HeadTailProperties, LenProperties, EmptySeq
  <1>2. m.seq \in Seqs /\ m.kind \in {"grab", "data"}
    BY <1>1 DEF UpMessages
  <1>3. e \in Events /\ e.from = c /\ e.seq = m.seq /\ (m.kind = "grab" => IsGrab(e, c, m.seq))
    BY <1>2 DEF Events, Screens, IsGrab
  <1>4. /\ events' = Append(events, e) /\ toServer' = [toServer EXCEPT ![c] = Tail(u)]
        /\ clip' = clip /\ client' = client /\ tasks' = tasks
    BY DEF Receive, ReadEvent
  <1>a. e.kind = "changed" => m.kind = "data"
    BY <1>2
  <1> HIDE DEF e, m, u
  <1>5. /\ Len(events) \in Nat /\ Len(events') = Len(events) + 1 /\ events'[Len(events) + 1] = e
        /\ \A i \in 1 .. Len(events) : events'[i] = events[i]
    BY <1>0, <1>3, <1>4, AppendProperties, LenProperties
  <1>6. ASSUME NEW d, NEW q, Covered(o, n, events, d, q, Len(events) + 1)
        PROVE  Covered(o, n, events', d, q, Len(events') + 1)
    <2>1. Covered(o, n, Append(events, e), d, q, Len(Append(events, e)) + 1)
      BY <1>0, <1>3, <1>6, CoveredLonger
    <2>2. QED
      BY <1>4, <2>1
  <1>7. ASSUME NEW d, NEW q, NEW i \in 1 .. Len(events) + 1, Covered(o, n, events, d, q, i)
        PROVE  Covered(o, n, events', d, q, i)
    BY <1>0, <1>3, <1>4, <1>7, CoveredBefore
  <1>8. ASSUME m.kind = "grab" PROVE Covered(o, n, events', c, m.seq, Len(events') + 1)
    <2>1. Covered(o, n, Append(events, e), c, m.seq, Len(Append(events, e)) + 1)
      BY <1>0, <1>3, <1>8, CoveredByGrab
    <2>2. QED
      BY <1>4, <2>1
  <1>9. ASSUME NEW q, NEW i \in 2 .. Len(u) + 1, GrabSent(u, q, i)
        PROVE  GrabSent(Tail(u), q, i - 1) \/ Covered(o, n, events', c, q, Len(events') + 1)
    <2>1. (m.kind = "grab" /\ m.seq = q) \/ GrabSent(Tail(u), q, i - 1)
      BY <1>0, <1>9, GrabSentNext DEF m
    <2>2. QED
      BY <1>8, <2>1
  <1>10. EventsCovered'
    <2> SUFFICES ASSUME NEW i \in 1 .. Len(events'), events'[i].kind = "changed"
                 PROVE  Covered(o, n, events', events'[i].from, events'[i].seq, i)
      BY <1>4 DEF EventsCovered
    <2>1. CASE i \in 1 .. Len(events)
      <3>1. events'[i] = events[i] /\ i \in 1 .. Len(events) + 1
        BY <1>5, <2>1
      <3>2. Covered(o, n, events, events[i].from, events[i].seq, i)
        BY <2>1, <3>1 DEF OwnerInv, EventsCovered
      <3>3. QED
        BY <1>7, <3>1, <3>2
    <2>2. CASE i = Len(events) + 1
      <3>1. events'[i] = e /\ m.kind = "data" /\ i \in 1 .. Len(events) + 1
        BY <1>5, <1>a, <2>2
      <3>2. 1 \in 1 .. Len(u) /\ u[1] = m
        BY <1>1
      <3>3. GrabSent(u, m.seq, 1) \/ Covered(o, n, events, c, m.seq, Len(events) + 1)
        BY <3>1, <3>2 DEF OwnerInv, StreamsCovered, u
      <3>4. ~GrabSent(u, m.seq, 1)
        BY DEF GrabSent
      <3>5. QED
        BY <1>3, <1>7, <2>2, <3>1, <3>3, <3>4
    <2>3. QED
      BY <1>5, <2>1, <2>2
  <1>11. StreamsCovered'
    <2> SUFFICES ASSUME NEW d \in Clients, NEW i \in 1 .. Len(toServer'[d]), toServer'[d][i].kind = "data"
                 PROVE  \/ GrabSent(toServer'[d], toServer'[d][i].seq, i)
                        \/ Covered(o, n, events', d, toServer'[d][i].seq, Len(events') + 1)
      BY <1>4 DEF StreamsCovered
    <2>1. CASE d # c
      <3>1. toServer'[d] = toServer[d]
        BY <1>0, <1>4, <2>1
      <3>2. \/ GrabSent(toServer[d], toServer[d][i].seq, i)
            \/ Covered(o, n, events, d, toServer[d][i].seq, Len(events) + 1)
        BY <3>1 DEF OwnerInv, StreamsCovered
      <3>3. QED
        BY <1>6, <3>1, <3>2
    <2>2. CASE d = c
      <3>1. toServer'[d] = Tail(u)
        BY <1>0, <1>4, <2>2
      <3>2. i + 1 \in 1 .. Len(u) /\ Tail(u)[i] = u[i + 1] /\ i + 1 \in 2 .. Len(u) + 1 /\ (i + 1) - 1 = i
        BY <1>1, <3>1
      <3>3. \/ GrabSent(u, u[i + 1].seq, i + 1)
            \/ Covered(o, n, events, c, u[i + 1].seq, Len(events) + 1)
        BY <3>1, <3>2 DEF OwnerInv, StreamsCovered, u
      <3>4. \/ GrabSent(Tail(u), u[i + 1].seq, i)
            \/ Covered(o, n, events', c, u[i + 1].seq, Len(events') + 1)
        BY <1>6, <1>9, <3>2, <3>3
      <3>5. QED
        BY <2>2, <3>1, <3>2, <3>4
    <2>3. QED
      BY <2>1, <2>2
  <1>12. ASSUME NEW d \in Clients, NEW q, Backed(d, q) PROVE Backed(d, q)'
    <2> SUFFICES \/ GrabSent(toServer'[d], q, Len(toServer'[d]) + 1)
                 \/ Covered(o, n, events', d, q, Len(events') + 1)
      BY <1>4 DEF Backed
    <2>0. GrabSent(toServer[d], q, Len(toServer[d]) + 1) \/ Covered(o, n, events, d, q, Len(events) + 1)
      BY <1>12 DEF Backed
    <2>1. CASE d # c
      <3>1. toServer'[d] = toServer[d]
        BY <1>0, <1>4, <2>1
      <3>2. QED
        BY <1>6, <2>0, <3>1
    <2>2. CASE d = c
      <3>1. toServer'[d] = Tail(u)
        BY <1>0, <1>4, <2>2
      <3>2. Len(u) + 1 \in 2 .. Len(u) + 1 /\ (Len(u) + 1) - 1 = Len(Tail(u)) + 1
        BY <1>1
      <3>3. GrabSent(u, q, Len(u) + 1) \/ Covered(o, n, events, c, q, Len(events) + 1)
        BY <2>0, <2>2 DEF u
      <3>4. \/ GrabSent(Tail(u), q, Len(Tail(u)) + 1)
            \/ Covered(o, n, events', c, q, Len(events') + 1)
        BY <1>6, <1>9, <3>2, <3>3
      <3>5. QED
        BY <2>2, <3>1, <3>4
    <2>3. QED
      BY <2>1, <2>2
  <1>13. TasksCovered'
    BY <1>4, <1>12 DEF OwnerInv, TasksCovered
  <1>14. OwnCovered'
    BY <1>4, <1>12 DEF OwnerInv, OwnCovered
  <1>15. QED
    BY <1>10, <1>11, <1>13, <1>14

\* The upload is lost: there is no grab in what the server takes from the stream.
LEMMA DropCovers ==
    ASSUME OwnerInv, NEW c \in Clients, Receive(c), events' = events, Head(toServer[c]).kind = "data"
    PROVE  EventsCovered' /\ StreamsCovered' /\ TasksCovered' /\ OwnCovered'
  <1> DEFINE u == toServer[c]
  <1>0. /\ toServer \in [Clients -> Seq(UpMessages)] /\ u \in Seq(UpMessages) /\ u # <<>>
    BY DEF OwnerInv, TypeOK, Receive
  <1>1. /\ Len(u) \in Nat /\ Len(u) >= 1 /\ Len(Tail(u)) = Len(u) - 1
        /\ \A k \in 1 .. Len(Tail(u)) : Tail(u)[k] = u[k + 1]
    BY <1>0, HeadTailProperties, LenProperties, EmptySeq
  <1>2. /\ toServer'[c] = Tail(u) /\ \A d \in Clients \ {c} : toServer'[d] = toServer[d]
        /\ clip' = clip /\ client' = client /\ tasks' = tasks
    BY <1>0 DEF Receive
  <1>3. \A q : \A i \in 2 .. Len(u) + 1 : GrabSent(u, q, i) => GrabSent(Tail(u), q, i - 1)
    BY <1>0, GrabSentNext
  <1>4. EventsCovered'
    BY <1>2 DEF OwnerInv, EventsCovered
  <1>5. StreamsCovered'
    <2> SUFFICES ASSUME NEW d \in Clients, NEW i \in 1 .. Len(toServer'[d]), toServer'[d][i].kind = "data"
                 PROVE  \/ GrabSent(toServer'[d], toServer'[d][i].seq, i)
                        \/ Covered(clip.owner, clip.seq, events, d, toServer'[d][i].seq, Len(events) + 1)
      BY <1>2 DEF StreamsCovered
    <2>1. CASE d # c
      BY <1>2, <2>1 DEF OwnerInv, StreamsCovered
    <2>2. CASE d = c
      <3>0. i \in 1 .. Len(Tail(u)) /\ toServer'[d][i] = Tail(u)[i] /\ u[i + 1] = Tail(u)[i]
        BY <1>1, <1>2, <2>2
      <3>1. i + 1 \in 1 .. Len(u) /\ toServer'[d][i] = u[i + 1] /\ i + 1 \in 2 .. Len(u) + 1 /\ (i + 1) - 1 = i
        BY <1>1, <3>0
      <3>2. GrabSent(u, u[i + 1].seq, i + 1) \/ Covered(clip.owner, clip.seq, events, c, u[i + 1].seq, Len(events) + 1)
        BY <3>1 DEF OwnerInv, StreamsCovered
      <3>3. GrabSent(u, u[i + 1].seq, i + 1) => GrabSent(Tail(u), u[i + 1].seq, (i + 1) - 1)
        BY <1>3, <3>1
      <3>4. QED
        BY <1>2, <2>2, <3>1, <3>2, <3>3
    <2>3. QED
      BY <2>1, <2>2
  <1>6. ASSUME NEW d \in Clients, NEW q, Backed(d, q) PROVE Backed(d, q)'
    <2> SUFFICES \/ GrabSent(toServer'[d], q, Len(toServer'[d]) + 1)
                 \/ Covered(clip.owner, clip.seq, events, d, q, Len(events) + 1)
      BY <1>2 DEF Backed
    <2>1. GrabSent(toServer[d], q, Len(toServer[d]) + 1) \/ Covered(clip.owner, clip.seq, events, d, q, Len(events) + 1)
      BY <1>6 DEF Backed
    <2>2. CASE d # c
      BY <1>2, <2>1, <2>2
    <2>3. CASE d = c
      <3>1. Len(u) + 1 \in 2 .. Len(u) + 1 /\ (Len(u) + 1) - 1 = Len(Tail(u)) + 1
        BY <1>1
      <3>2. GrabSent(u, q, Len(u) + 1) => GrabSent(Tail(u), q, (Len(u) + 1) - 1)
        BY <1>3, <3>1
      <3>3. QED
        BY <1>2, <2>1, <2>3, <3>1, <3>2
    <2>4. QED
      BY <2>2, <2>3
  <1>7. TasksCovered'
    BY <1>2, <1>6 DEF OwnerInv, TasksCovered
  <1>8. OwnCovered'
    BY <1>2, <1>6 DEF OwnerInv, OwnCovered
  <1>9. QED
    BY <1>4, <1>5, <1>7, <1>8

LEMMA ReceiveCovers ==
    ASSUME OwnerInv, NEW c \in Clients, Receive(c)
    PROVE  EventsCovered' /\ StreamsCovered' /\ TasksCovered' /\ OwnCovered'
  <1>1. TypeOK
    BY DEF OwnerInv
  <1>2. QED
    BY <1>1, ReceiveEffect, ReadCovers, DropCovers

\* Backed(c, q) after the step, for q as it is before it.
BackedThen(c, q) ==
    \/ GrabSent(toServer'[c], q, Len(toServer'[c]) + 1)
    \/ Covered(clip'.owner, clip'.seq, events', c, q, Len(events') + 1)

\* Nothing is said to the server, or one thing more.
LEMMA BackedLonger ==
    ASSUME TypeOK, NEW c \in Clients, clip' = clip, events' = events,
           toServer'[c] = toServer[c] \/ \E m \in UpMessages : toServer'[c] = Append(toServer[c], m),
           NEW q, Backed(c, q)
    PROVE  BackedThen(c, q)
  <1>1. toServer[c] \in Seq(UpMessages) /\ Len(toServer[c]) \in Nat
    BY LenProperties DEF TypeOK
  <1>2. GrabSent(toServer[c], q, Len(toServer[c]) + 1) \/ Covered(clip.owner, clip.seq, events, c, q, Len(events) + 1)
    BY DEF Backed
  <1>3. GrabSent(toServer[c], q, Len(toServer[c]) + 1) => GrabSent(toServer'[c], q, Len(toServer'[c]) + 1)
    <2>1. CASE toServer'[c] = toServer[c]
      BY <2>1
    <2>2. ASSUME NEW m \in UpMessages, toServer'[c] = Append(toServer[c], m),
                 GrabSent(toServer[c], q, Len(toServer[c]) + 1)
          PROVE  GrabSent(toServer'[c], q, Len(toServer'[c]) + 1)
      <3>1. Len(toServer[c]) + 1 \in 1 .. Len(toServer[c]) + 1
        BY <1>1
      <3>2. QED
        BY <1>1, <2>2, <3>1, GrabSentLonger
    <2>3. QED
      BY <2>1, <2>2
  <1>4. QED
    BY <1>2, <1>3 DEF BackedThen

\* The steps of a client that the server does not see.
LEMMA ClientCovers ==
    ASSUME OwnerInv, [Next]_vars, NEW b \in Clients, Obey(b) \/ CopyOnClient(b) \/ Work(b) \/ Reconnect(b)
    PROVE  EventsCovered' /\ StreamsCovered' /\ TasksCovered' /\ OwnCovered'
  <1>0. /\ TypeOK /\ clip' = clip /\ events' = events
        /\ client \in [Clients -> ClientType] /\ toServer \in [Clients -> Seq(UpMessages)]
        /\ \A c \in Clients : tasks[c] \in Seq(Tasks) /\ toServer[c] \in Seq(UpMessages)
                              /\ client[c] \in ClientType
    BY DEF OwnerInv, TypeOK, Obey, CopyOnClient, Work, Reconnect, wires
  <1> DEFINE Data(t) == [kind |-> "data", data |-> t.data, seq |-> t.seq]
             Grab(c) == [kind |-> "grab", seq |-> client[c].seq]
  <1>1. ASSUME NEW c \in Clients, Work(c)
        PROVE  LET t == Head(tasks[c]) IN
               /\ In(t, tasks[c]) /\ t.kind \in {"send", "grabbed"}
               /\ t.kind = "send" => Data(t) \in UpMessages /\ toServer'[c] = Append(toServer[c], Data(t)) /\ client' = client
               /\ t.kind = "grabbed" => /\ Grab(c) \in UpMessages /\ toServer'[c] = Append(toServer[c], Grab(c))
                                        /\ BackedThen(c, client[c].seq)
    <2> DEFINE t == Head(tasks[c])
    <2>1. t \in Tasks /\ In(t, tasks[c])
      BY <1>0, <1>1, InTail, HeadTailProperties DEF Work
    <2>2. t.kind = "send" => Data(t) \in UpMessages
      BY <2>1 DEF Tasks, UpMessages
    <2>3. Grab(c) \in UpMessages /\ Grab(c).kind = "grab" /\ Grab(c).seq = client[c].seq
      BY <1>0 DEF UpMessages, ClientType
    <2>4. t.kind \in {"send", "grabbed"}
      BY <2>1 DEF Tasks
    <2>5. t.kind = "send" => toServer'[c] = Append(toServer[c], Data(t)) /\ client' = client
      BY <1>0, <1>1 DEF Work
    <2>6. t.kind = "grabbed" => toServer'[c] = Append(toServer[c], Grab(c))
      BY <1>0, <1>1 DEF Work
    <2> HIDE DEF Data, Grab
    <2>7. GrabSent(Append(toServer[c], Grab(c)), client[c].seq, Len(Append(toServer[c], Grab(c))) + 1)
      BY <1>0, <2>3, GrabSentNow
    <2>8. QED
      BY <2>1, <2>2, <2>3, <2>4, <2>5, <2>6, <2>7 DEF BackedThen
  <1> HIDE DEF Data, Grab
  <1>2. ASSUME NEW c \in Clients
        PROVE  \/ toServer'[c] = toServer[c]
               \/ Work(c) /\ Head(tasks[c]).kind = "send" /\ toServer'[c] = Append(toServer[c], Data(Head(tasks[c])))
               \/ Work(c) /\ Head(tasks[c]).kind = "grabbed" /\ toServer'[c] = Append(toServer[c], Grab(c))
    <2>1. CASE Work(c)
      BY <1>1, <2>1
    <2>2. CASE ~Work(c)
      BY <1>0, <2>2 DEF Obey, CopyOnClient, Work, Reconnect, wires
    <2>3. QED
      BY <2>1, <2>2
  <1>3. ASSUME NEW c \in Clients, NEW q, Backed(c, q) PROVE BackedThen(c, q)
    <2>1. toServer'[c] = toServer[c] \/ \E m \in UpMessages : toServer'[c] = Append(toServer[c], m)
      BY <1>1, <1>2
    <2>2. QED
      BY <1>0, <1>3, <2>1, BackedLonger
  <1>4. EventsCovered'
    BY <1>0 DEF OwnerInv, EventsCovered
  <1>5. StreamsCovered'
    <2> SUFFICES ASSUME NEW c \in Clients, NEW i \in 1 .. Len(toServer'[c]), toServer'[c][i].kind = "data"
                 PROVE  \/ GrabSent(toServer'[c], toServer'[c][i].seq, i)
                        \/ Covered(clip.owner, clip.seq, events, c, toServer'[c][i].seq, Len(events) + 1)
      BY <1>0 DEF StreamsCovered
    <2> DEFINE u == toServer[c]
    <2>1. ASSUME NEW j \in 1 .. Len(u), u[j].kind = "data"
          PROVE  GrabSent(u, u[j].seq, j) \/ Covered(clip.owner, clip.seq, events, c, u[j].seq, Len(events) + 1)
      BY <2>1 DEF OwnerInv, StreamsCovered
    <2>2. CASE toServer'[c] = u
      BY <2>1, <2>2
    <2>3. ASSUME NEW m \in UpMessages, toServer'[c] = Append(u, m),
                 m.kind = "data" => Backed(c, m.seq)
          PROVE  \/ GrabSent(toServer'[c], toServer'[c][i].seq, i)
                 \/ Covered(clip.owner, clip.seq, events, c, toServer'[c][i].seq, Len(events) + 1)
      <3>1. /\ Len(u) \in Nat /\ Len(toServer'[c]) = Len(u) + 1 /\ toServer'[c][Len(u) + 1] = m
            /\ \A k \in 1 .. Len(u) : toServer'[c][k] = u[k]
        BY <1>0, <2>3, AppendProperties, LenProperties
      <3>2. \A q : \A k \in 1 .. Len(u) + 1 : GrabSent(u, q, k) => GrabSent(toServer'[c], q, k)
        <4> HIDE DEF u
        <4>1. u \in Seq(UpMessages)
          BY <1>0 DEF u
        <4>2. QED
          BY <2>3, <4>1, GrabSentLonger
      <3>3. CASE i \in 1 .. Len(u)
        <4>1. i \in 1 .. Len(u) + 1 /\ toServer'[c][i] = u[i]
          BY <3>1, <3>3
        <4>2. QED
          BY <2>1, <3>2, <3>3, <4>1
      <3>4. CASE i = Len(u) + 1
        <4>1. toServer'[c][i] = m /\ i \in 1 .. Len(u) + 1
          BY <3>1, <3>4
        <4>2. Backed(c, m.seq)
          BY <2>3, <4>1
        <4>3. QED
          BY <3>2, <3>4, <4>1, <4>2 DEF Backed
      <3>5. QED
        BY <3>1, <3>3, <3>4
    <2>4. CASE Work(c) /\ Head(tasks[c]).kind = "send" /\ toServer'[c] = Append(u, Data(Head(tasks[c])))
      <3>1. Data(Head(tasks[c])) \in UpMessages /\ In(Head(tasks[c]), tasks[c])
        BY <1>1, <2>4
      <3>2. Data(Head(tasks[c])).seq = Head(tasks[c]).seq
        BY DEF Data
      <3>3. Backed(c, Head(tasks[c]).seq)
        BY <2>4, <3>1 DEF OwnerInv, TasksCovered
      <3>4. QED
        BY <2>3, <2>4, <3>1, <3>2, <3>3
    <2>5. CASE Work(c) /\ Head(tasks[c]).kind = "grabbed" /\ toServer'[c] = Append(u, Grab(c))
      <3>1. Grab(c) \in UpMessages
        BY <1>1, <2>5
      <3>2. Grab(c).kind # "data"
        BY DEF Grab
      <3>3. QED
        BY <2>3, <2>5, <3>1, <3>2
    <2>6. QED
      BY <1>2, <2>2, <2>4, <2>5
  <1>6. TasksCovered'
    <2> SUFFICES ASSUME NEW c \in Clients, NEW t, In(t, tasks'[c]), t.kind = "send" PROVE BackedThen(c, t.seq)
      BY DEF TasksCovered, Backed, BackedThen
    <2>1. CASE In(t, tasks[c])
      BY <1>3, <2>1 DEF OwnerInv, TasksCovered
    <2>2. CASE t.seq = client[c].seq /\ client[c].own /\ ~client[c].timed
      BY <1>3, <2>2 DEF OwnerInv, OwnCovered
    <2>3. CASE t.seq = client[c].seq /\ Work(c) /\ Head(tasks[c]).kind = "grabbed"
      BY <1>1, <2>3
    <2>4. QED
      BY <1>0, <2>1, <2>2, <2>3, TasksAfter
  <1>7. OwnCovered'
    <2> SUFFICES ASSUME NEW c \in Clients, client'[c].own, ~client'[c].timed
                 PROVE  client'[c].active /\ BackedThen(c, client'[c].seq)
      BY DEF OwnCovered, Backed, BackedThen
    <2> DEFINE Goal == client'[c].active /\ BackedThen(c, client'[c].seq)
    <2>1. ASSUME client'[c].own = client[c].own, client'[c].timed = client[c].timed,
                 client'[c].active = client[c].active, client'[c].seq = client[c].seq
          PROVE  Goal
      BY <1>3, <2>1 DEF OwnerInv, OwnCovered
    <2>2. CASE b # c
      <3>1. client'[c] = client[c]
        <4>1. CASE Obey(b)
          BY <1>0, <2>2, <4>1 DEF Obey, ObeyEnter, ObeyLeave, ObeyGrab, ObeyData
        <4>2. CASE CopyOnClient(b) \/ Work(b) \/ Reconnect(b)
          BY <1>0, <2>2, <4>2 DEF CopyOnClient, Work, Reconnect
        <4>3. QED
          BY <4>1, <4>2
      <3>2. QED
        BY <2>1, <3>1
    <2>3. CASE b = c /\ ObeyEnter(c)
      <3>1. client'[c].own = client[c].own /\ client'[c].timed = client[c].timed
        BY <1>0, <2>3 DEF ObeyEnter, ClientType
      <3>2. client[c].active
        BY <3>1 DEF OwnerInv, OwnCovered
      <3>3. /\ toClient[c] \in Seq(DownMessages) /\ toClient[c] # <<>> /\ Head(toClient[c]).kind = "enter"
            /\ client[c].active \in BOOLEAN /\ InTurn(client[c].active, toClient[c])
        BY <1>0, <2>3 DEF TypeOK, ClientType, ObeyEnter, OwnerInv, Alternates
      <3>4. ~client[c].active
        <4>1. \A f \in BOOLEAN : (f = IF Head(toClient[c]).kind = "enter" THEN TRUE
                                      ELSE IF Head(toClient[c]).kind = "leave" THEN FALSE ELSE client[c].active)
                 => (Head(toClient[c]).kind = "enter" => ~client[c].active)
          BY <3>3, LeftNext
        <4>2. QED
          BY <3>3, <4>1
      <3>5. QED
        BY <3>2, <3>4
    <2>4. CASE b = c /\ ObeyLeave(c)
      <3>1. /\ client'[c].own = client[c].own
            /\ client'[c].timed = (client[c].timed \/ (client[c].own /\ ~client[c].timed))
        BY <1>0, <2>4 DEF ObeyLeave, ClientType
      <3>2. QED
        BY <3>1
    <2>5. CASE b = c /\ ObeyGrab(c)
      <3>1. client'[c].own = FALSE
        BY <1>0, <2>5 DEF ObeyGrab, ClientType
      <3>2. QED
        BY <3>1
    <2>6. CASE b = c /\ ObeyData(c)
      <3>1. client' = [client EXCEPT ![c].own = FALSE] \/ client' = client
        BY <2>6 DEF ObeyData
      <3>2. client'[c].own = FALSE \/ client' = client
        BY <1>0, <3>1 DEF ClientType
      <3>3. QED
        BY <2>1, <3>2
    <2>7. CASE b = c /\ (CopyOnClient(c) \/ Reconnect(c))
      <3>1. client' = client \/ client' = [client EXCEPT ![c].online = TRUE]
        BY <2>7 DEF CopyOnClient, Reconnect
      <3>2. /\ client'[c].own = client[c].own /\ client'[c].timed = client[c].timed
            /\ client'[c].active = client[c].active /\ client'[c].seq = client[c].seq
        BY <1>0, <3>1 DEF ClientType
      <3>3. QED
        BY <2>1, <3>2
    <2>8. CASE b = c /\ Work(c)
      <3>1. CASE Head(tasks[c]).kind = "send"
        <4>1. client' = client
          BY <1>1, <2>8, <3>1
        <4>2. QED
          BY <2>1, <4>1
      <3>2. CASE Head(tasks[c]).kind = "grabbed"
        <4>1. client' = [client EXCEPT ![c].own = TRUE, ![c].timed = ~client[c].active]
          BY <2>8, <3>2 DEF Work
        <4>2. client'[c].timed = ~client[c].active /\ client'[c].active = client[c].active /\ client'[c].seq = client[c].seq
          BY <1>0, <4>1 DEF ClientType
        <4>3. BackedThen(c, client[c].seq)
          BY <1>1, <2>8, <3>2
        <4>4. QED
          BY <4>2, <4>3
      <3>3. QED
        BY <1>1, <2>8, <3>1, <3>2
    <2>9. QED
      BY <2>2, <2>3, <2>4, <2>5, <2>6, <2>7, <2>8 DEF Obey
  <1>8. QED
    BY <1>4, <1>5, <1>6, <1>7

\* The connection of client b is lost: the grabs of the others stay in the queue.
LEMMA LoseCovers ==
    ASSUME OwnerInv, NEW b \in Clients, Lose(b)
    PROVE  EventsCovered' /\ StreamsCovered' /\ TasksCovered' /\ OwnCovered'
  <1> DEFINE S == EventsOfOthers(b)
             o == clip.owner
             n == clip.seq
  <1>0. /\ TypeOK /\ events \in Seq(Events) /\ Len(events) \in Nat
        /\ clip' = clip /\ events' = Kept(events, S)
        /\ client \in [Clients -> ClientType] /\ toServer \in [Clients -> Seq(UpMessages)]
        /\ tasks \in [Clients -> Seq(Tasks)]
        /\ toServer'[b] = <<>> /\ tasks'[b] = <<>> /\ client'[b].own = FALSE
        /\ \A c \in Clients \ {b} : toServer'[c] = toServer[c] /\ tasks'[c] = tasks[c] /\ client'[c] = client[c]
    BY LenProperties DEF OwnerInv, TypeOK, Lose
  <1>1. ASSUME NEW c \in Clients, c # b, NEW q
        PROVE  \A k \in 1 .. Len(events) : IsGrab(events[k], c, q) => events[k] \in S
    BY <1>0, <1>1, ElementOfSeq DEF IsGrab, EventsOfOthers
  <1> HIDE DEF S
  <1>2. ASSUME NEW c \in Clients, c # b, NEW q, NEW i \in 1 .. Len(events) + 1, Covered(o, n, events, c, q, i)
        PROVE  /\ i \in Places(events, S) => Covered(o, n, events', c, q, Rank(events, S, i))
               /\ i = Len(events) + 1 => Covered(o, n, events', c, q, Len(events') + 1)
    BY <1>0, <1>1, <1>2, CoveredKept
  <1>3. Len(events) + 1 \in 1 .. Len(events) + 1
    BY <1>0
  <1>4. EventsCovered'
    <2> SUFFICES ASSUME NEW j \in 1 .. Len(events'), events'[j].kind = "changed"
                 PROVE  Covered(o, n, events', events'[j].from, events'[j].seq, j)
      BY <1>0 DEF EventsCovered
    <2>1. PICK i \in Places(events, S) : Rank(events, S, i) = j
      BY <1>0, KeptLen
    <2>2. events'[j] = events[i]
      BY <1>0, <2>1, KeptAt
    <2>3. i \in 1 .. Len(events) /\ events[i] \in S /\ i \in 1 .. Len(events) + 1
      BY <1>0, <2>1 DEF Places
    <2>4. events[i] \in Events /\ events[i].from # b
      BY <2>2, <2>3 DEF S, EventsOfOthers
    <2>5. events[i].from \in Clients
      BY <2>2, <2>4, EventType
    <2>6. Covered(o, n, events, events[i].from, events[i].seq, i)
      BY <2>2, <2>3 DEF OwnerInv, EventsCovered
    <2>7. QED
      BY <1>2, <2>1, <2>2, <2>3, <2>4, <2>5, <2>6
  <1>5. StreamsCovered'
    <2> SUFFICES ASSUME NEW c \in Clients, NEW i \in 1 .. Len(toServer'[c]), toServer'[c][i].kind = "data"
                 PROVE  \/ GrabSent(toServer'[c], toServer'[c][i].seq, i)
                        \/ Covered(o, n, events', c, toServer'[c][i].seq, Len(events') + 1)
      BY <1>0 DEF StreamsCovered
    <2>1. c # b
      BY <1>0
    <2>2. toServer'[c] = toServer[c]
      BY <1>0, <2>1
    <2>3. \/ GrabSent(toServer[c], toServer[c][i].seq, i)
          \/ Covered(o, n, events, c, toServer[c][i].seq, Len(events) + 1)
      BY <2>2 DEF OwnerInv, StreamsCovered
    <2>4. QED
      BY <1>2, <1>3, <2>1, <2>2, <2>3
  <1>6. ASSUME NEW c \in Clients, c # b, NEW q, Backed(c, q) PROVE BackedThen(c, q)
    <2>1. GrabSent(toServer[c], q, Len(toServer[c]) + 1) \/ Covered(o, n, events, c, q, Len(events) + 1)
      BY <1>6 DEF Backed
    <2>2. toServer'[c] = toServer[c] /\ clip' = clip
      BY <1>0, <1>6
    <2>3. QED
      BY <1>2, <1>3, <1>6, <2>1, <2>2 DEF BackedThen
  <1>7. TasksCovered'
    <2> SUFFICES ASSUME NEW c \in Clients, NEW t, In(t, tasks'[c]), t.kind = "send" PROVE BackedThen(c, t.seq)
      BY DEF TasksCovered, Backed, BackedThen
    <2>1. c # b
      BY <1>0, InEmpty
    <2>2. In(t, tasks[c])
      BY <1>0, <2>1
    <2>3. QED
      BY <1>6, <2>1, <2>2 DEF OwnerInv, TasksCovered
  <1>8. OwnCovered'
    <2> SUFFICES ASSUME NEW c \in Clients, client'[c].own, ~client'[c].timed
                 PROVE  client'[c].active /\ BackedThen(c, client'[c].seq)
      BY DEF OwnCovered, Backed, BackedThen
    <2>1. c # b
      BY <1>0
    <2>2. client'[c] = client[c]
      BY <1>0, <2>1
    <2>3. client[c].active /\ Backed(c, client[c].seq)
      BY <2>2 DEF OwnerInv, OwnCovered
    <2>4. QED
      BY <1>6, <2>1, <2>2, <2>3
  <1>9. QED
    BY <1>4, <1>5, <1>7, <1>8

-----------------------------------------------------------------------------
(* Ownership *)

LEMMA OwnerInitially == Init => OwnerInv
  <1> SUFFICES ASSUME Init PROVE OwnerInv
    OBVIOUS
  <1>1. TypeOK
    BY InitTyped
  <1>2. /\ events = <<>>
        /\ \A c \in Clients : /\ toClient[c] = <<>> /\ toServer[c] = <<>> /\ tasks[c] = <<>>
                              /\ client[c].seq = 0 /\ client[c].active = FALSE /\ client[c].own = FALSE
    BY DEF Init
  <1>3. EventsCovered /\ StreamsCovered
    BY <1>2 DEF EventsCovered, StreamsCovered
  <1>4. TasksCovered /\ OwnCovered
    BY <1>2, InEmpty DEF TasksCovered, OwnCovered
  <1>5. \A c \in Clients, q \in Seqs : q > 0 => ~Uses(c, q)
    BY <1>2, InEmpty DEF Uses
  <1>6. Numbers
    BY <1>5 DEF Numbers, Init
  <1>7. Positive
    BY <1>2, InEmpty DEF Positive
  <1>8. Alternates
    <2>1. InTurn(FALSE, <<>>) /\ Left(FALSE, <<>>, Len(<<>>) + 1)
      BY DEF InTurn, Left
    <2>2. QED
      BY <1>2, <2>1 DEF Alternates
  <1>9. QED
    BY <1>1, <1>3, <1>4, <1>6, <1>7, <1>8 DEF OwnerInv

LEMMA OwnerStep ==
    ASSUME ~LocalUse, OwnerInv, [Next]_vars
    PROVE  OwnerInv'
  <1>1. TypeOK' /\ Numbers' /\ Positive' /\ Alternates'
    BY Typed, NumbersStep, PositiveStep, AlternatesStep DEF OwnerInv
  <1> DEFINE Goal == EventsCovered' /\ StreamsCovered' /\ TasksCovered' /\ OwnCovered'
  <1>2. SwitchScreen => Goal
    BY SwitchCovers
  <1>3. CopyOnServer => Goal
    BY CopyCovers
  <1>4. Dispatch => Goal
    BY DispatchCovers
  <1>5. ASSUME NEW c \in Clients, Receive(c) PROVE Goal
    BY <1>5, ReceiveCovers
  <1>6. ASSUME NEW c \in Clients, Obey(c) \/ CopyOnClient(c) \/ Work(c) \/ Reconnect(c) PROVE Goal
    BY <1>6, ClientCovers
  <1>7. ASSUME NEW c \in Clients, Lose(c) PROVE Goal
    BY <1>7, LoseCovers
  <1>8. ASSUME UNCHANGED vars PROVE Goal
    <2>1. client' = client /\ toServer' = toServer /\ tasks' = tasks /\ clip' = clip /\ events' = events
      BY <1>8 DEF vars, wires
    <2>2. EventsCovered'
      BY <2>1 DEF OwnerInv, EventsCovered
    <2>3. QED
      BY <2>1, <2>2, ServerKeeps
  <1> HIDE DEF Goal
  <1>9. Goal
    BY <1>2, <1>3, <1>4, <1>5, <1>6, <1>7, <1>8 DEF Next
  <1>10. QED
    BY <1>1, <1>9 DEF OwnerInv, Goal

(***************************************************************************)
(* An update that passes the sequence test of onClipboardChanged comes     *)
(* from the clipboard's owner (the assertion in that function), if a       *)
(* screen only copies while it has the cursor.  Otherwise a screen can     *)
(* take the clipboard with the number of an earlier visit.                 *)
(***************************************************************************)
THEOREM UpdatesComeFromOwner ==
    ASSUME ~LocalUse
    PROVE  Spec => []OwnershipInv
  <1>1. OwnerInv /\ [Next]_vars => OwnerInv'
    BY OwnerStep
  <1>2. OwnerInv => OwnershipInv
    <2> SUFFICES ASSUME OwnerInv, events # <<>>, Head(events).kind = "changed", Head(events).seq >= clip.seq
                 PROVE  Head(events).from = clip.owner
      BY DEF OwnershipInv, UpdateFromOwner, OwnerInv
    <2>1. events \in Seq(Events) /\ clip.seq \in Nat /\ Seqs \subseteq Nat
      BY ConstantsAssumption DEF OwnerInv, TypeOK, Seqs
    <2>2. 1 \in 1 .. Len(events) /\ Head(events) = events[1] /\ events[1] \in Events
      BY <2>1, EmptySeq, LenProperties, ElementOfSeq
    <2>3. events[1].seq \in Nat
      BY <2>1, <2>2, EventType
    <2>4. Covered(clip.owner, clip.seq, events, events[1].from, events[1].seq, 1)
      BY <2>2 DEF OwnerInv, EventsCovered
    <2>5. clip.seq > events[1].seq \/ clip.owner = events[1].from
      BY <2>4 DEF Covered
    <2>6. QED
      BY <2>1, <2>2, <2>3, <2>5
  <1>3. QED
    BY OwnerInitially, <1>1, <1>2, PTL DEF Spec

-----------------------------------------------------------------------------
(***************************************************************************)
(* What is still on its way in a queue s: nothing in S; its last element   *)
(* in S is one of X; and that comes after one of N.                        *)
(***************************************************************************)
NoneIn(s, S) == \A i \in 1 .. Len(s) : s[i] \notin S

LastIn(s, S, X) == \E i \in 1 .. Len(s) : s[i] \in X /\ \A j \in i + 1 .. Len(s) : s[j] \notin S

LastAfter(s, N, S, X) ==
    \E i, j \in 1 .. Len(s) :
        i < j /\ s[i] \in N /\ s[j] \in X /\ \A k \in j + 1 .. Len(s) : s[k] \notin S

\* Writing to a queue.
LEMMA AppendedIn ==
    ASSUME NEW A, NEW s \in Seq(A), NEW e \in A, NEW N, NEW S, NEW X
    PROVE  LET t == Append(s, e) IN
           /\ NoneIn(t, S) <=> NoneIn(s, S) /\ e \notin S
           /\ e \in X => LastIn(t, S, X)
           /\ e \notin S /\ LastIn(s, S, X) => LastIn(t, S, X)
           /\ e \in X /\ ~NoneIn(s, N) => LastAfter(t, N, S, X)
           /\ e \notin S /\ LastAfter(s, N, S, X) => LastAfter(t, N, S, X)
  <1> DEFINE t == Append(s, e)
             n == Len(s)
  <1>1. /\ n \in Nat /\ Len(t) = n + 1 /\ t[n + 1] = e
        /\ \A i \in 1 .. n : t[i] = s[i]
    BY AppendProperties, LenProperties
  <1> HIDE DEF t, n
  <1>2. \A i \in 1 .. n : i \in 1 .. Len(t) /\ t[i] = s[i]
    BY <1>1
  <1>3. \A i \in 1 .. Len(t) : i = n + 1 \/ i \in 1 .. n
    BY <1>1
  <1>4. NoneIn(t, S) <=> NoneIn(s, S) /\ e \notin S
    BY <1>1, <1>2, <1>3 DEF NoneIn, n
  <1>5. n + 1 \in 1 .. Len(t) /\ \A j \in n + 2 .. Len(t) : FALSE
    BY <1>1
  <1>6. e \in X => LastIn(t, S, X)
    BY <1>1, <1>5 DEF LastIn
  <1>7. ASSUME e \notin S, NEW i \in 1 .. n, \A j \in i + 1 .. n : s[j] \notin S
        PROVE  \A j \in i + 1 .. Len(t) : t[j] \notin S
    BY <1>1, <1>7
  <1>8. e \notin S /\ LastIn(s, S, X) => LastIn(t, S, X)
    BY <1>2, <1>7 DEF LastIn, n
  <1>9. e \in X /\ ~NoneIn(s, N) => LastAfter(t, N, S, X)
    <2> SUFFICES ASSUME e \in X, NEW i \in 1 .. n, s[i] \in N PROVE LastAfter(t, N, S, X)
      BY DEF NoneIn, n
    <2>1. i \in 1 .. Len(t) /\ t[i] \in N /\ i < n + 1 /\ \A k \in (n + 1) + 1 .. Len(t) : t[k] \notin S
      BY <1>1, <1>2
    <2>2. QED
      BY <1>1, <1>5, <2>1 DEF LastAfter
  <1>10. e \notin S /\ LastAfter(s, N, S, X) => LastAfter(t, N, S, X)
    BY <1>2, <1>7 DEF LastAfter, n
  <1>11. QED
    BY <1>4, <1>6, <1>8, <1>9, <1>10 DEF t

\* Reading from a queue.
LEMMA TakenFrom ==
    ASSUME NEW A, NEW s \in Seq(A), s # <<>>, NEW N, NEW S, NEW X
    PROVE  LET t == Tail(s) IN
           /\ NoneIn(s, S) <=> NoneIn(t, S) /\ Head(s) \notin S
           /\ LastIn(s, S, X) => LastIn(t, S, X) \/ (Head(s) \in X /\ NoneIn(t, S))
           /\ LastAfter(s, N, S, X) => LastAfter(t, N, S, X) \/ (Head(s) \in N /\ LastIn(t, S, X))
  <1> DEFINE t == Tail(s)
             n == Len(t)
  <1>1. /\ n \in Nat /\ Len(s) = n + 1 /\ Head(s) = s[1]
        /\ \A i \in 1 .. n : t[i] = s[i + 1]
    BY HeadTailProperties, EmptySeq, LenProperties
  <1> HIDE DEF t, n
  <1>2. \A i \in 1 .. Len(s) : i = 1 \/ (i - 1 \in 1 .. n /\ t[i - 1] = s[i] /\ i > 1)
    BY <1>1
  <1>3. 1 \in 1 .. Len(s) /\ \A i \in 1 .. n : i + 1 \in 1 .. Len(s)
    BY <1>1
  <1>4. NoneIn(s, S) <=> NoneIn(t, S) /\ Head(s) \notin S
    BY <1>1, <1>2, <1>3 DEF NoneIn, n
  <1>5. ASSUME NEW i \in 1 .. Len(s), i > 1, \A j \in i + 1 .. Len(s) : s[j] \notin S
        PROVE  \A j \in (i - 1) + 1 .. n : t[j] \notin S
    BY <1>1, <1>5
  <1>6. ASSUME NEW i \in 1 .. Len(s), s[i] \in X, \A j \in i + 1 .. Len(s) : s[j] \notin S
        PROVE  LastIn(t, S, X) \/ (Head(s) \in X /\ NoneIn(t, S))
    <2>1. CASE i = 1
      <3>1. \A j \in 1 .. n : t[j] \notin S
        BY <1>1, <1>6, <2>1
      <3>2. QED
        BY <1>1, <1>6, <2>1, <3>1 DEF NoneIn, n
    <2>2. CASE i > 1
      BY <1>2, <1>5, <1>6, <2>2 DEF LastIn, n
    <2>3. QED
      BY <1>1, <2>1, <2>2
  <1>7. ASSUME NEW i \in 1 .. Len(s), NEW j \in 1 .. Len(s), i < j, s[i] \in N, s[j] \in X,
               \A k \in j + 1 .. Len(s) : s[k] \notin S
        PROVE  LastAfter(t, N, S, X) \/ (Head(s) \in N /\ LastIn(t, S, X))
    <2>1. j > 1 /\ j - 1 \in 1 .. n /\ t[j - 1] = s[j]
      BY <1>1, <1>2, <1>7
    <2>2. \A k \in (j - 1) + 1 .. n : t[k] \notin S
      BY <1>5, <1>7, <2>1
    <2>3. LastIn(t, S, X)
      BY <1>7, <2>1, <2>2 DEF LastIn, n
    <2>4. CASE i > 1
      <3>1. i - 1 \in 1 .. n /\ t[i - 1] = s[i] /\ i - 1 < j - 1
        BY <1>1, <1>2, <1>7, <2>4
      <3>2. QED
        BY <1>7, <2>1, <2>2, <3>1 DEF LastAfter, n
    <2>5. QED
      BY <1>1, <1>7, <2>3, <2>4
  <1>8. QED
    BY <1>4, <1>6, <1>7 DEF LastIn, LastAfter, t

\* Dropping what is not in K from a queue.
LEMMA KeptIn ==
    ASSUME NEW A, NEW s \in Seq(A), NEW K, NEW S, NEW X
    PROVE  LET t == Kept(s, K) IN
           /\ NoneIn(s, S) => NoneIn(t, S)
           /\ S \subseteq K /\ NoneIn(t, S) => NoneIn(s, S)
           /\ X \subseteq K /\ LastIn(s, S, X) => LastIn(t, S, X)
  <1> DEFINE t == Kept(s, K)
  <1>0. Len(s) \in Nat /\ Len(t) \in Nat
    BY KeptLen, LenProperties
  <1>1. NoneIn(s, S) => NoneIn(t, S)
    <2>1. \A k \in 1 .. Len(t) : \E i \in 1 .. Len(s) : t[k] = s[i] /\ s[i] \in K
      BY KeptType
    <2> HIDE DEF t
    <2>2. QED
      BY <2>1 DEF NoneIn
  <1>2. S \subseteq K /\ NoneIn(t, S) => NoneIn(s, S)
    BY KeptFinds DEF NoneIn
  <1>3. ASSUME X \subseteq K, NEW i \in 1 .. Len(s), s[i] \in X, \A j \in i + 1 .. Len(s) : s[j] \notin S
        PROVE  LastIn(t, S, X)
    <2>1. i \in Places(s, K)
      BY <1>3 DEF Places
    <2>2. Rank(s, K, i) \in 1 .. Len(t) /\ t[Rank(s, K, i)] = s[i]
      BY <2>1, KeptAt
    <2>3. ASSUME NEW k \in Rank(s, K, i) + 1 .. Len(t) PROVE t[k] \notin S
      <3>1. k \in 1 .. Len(t) /\ Rank(s, K, i) < k
        BY <1>0, <2>2
      <3>2. PICK j \in Places(s, K) : Rank(s, K, j) = k
        BY <3>1, KeptLen
      <3>3. t[k] = s[j] /\ j \in 1 .. Len(s)
        BY <3>2, KeptAt DEF Places
      <3>4. j > i
        <4>1. CASE j = i
          BY <1>0, <2>2, <3>1, <3>2, <4>1
        <4>2. CASE j < i
          <5>1. Rank(s, K, j) < Rank(s, K, i)
            BY <2>1, <4>2, RankGrows
          <5>2. QED
            BY <1>0, <2>2, <3>1, <3>2, <5>1
        <4>3. QED
          BY <1>0, <3>3, <4>1, <4>2
      <3>5. QED
        BY <1>0, <1>3, <3>3, <3>4
    <2>4. QED
      BY <1>3, <2>2, <2>3 DEF LastIn
  <1>4. QED
    BY <1>1, <1>2, <1>3 DEF LastIn

-----------------------------------------------------------------------------
(* The server's operations, by what they do to one screen *)

\* A queue that may have got a transfer, but none for x.
Others(old, new, x) ==
    \/ new = old
    \/ \E p \in Clients \ {x}, d \in Contents : new = Append(old, [kind |-> "send", to |-> p, data |-> d])

\* From s to t, screen x is left alone, or given what the server holds.
Alone(s, t, x) ==
    /\ Others(s.events, t.events, x)
    /\ t.dirty[x] = s.dirty[x] /\ t.local[x] = s.local[x]
    /\ x \in Clients => t.cache[x] = s.cache[x]

Given(s, t, x) ==
    /\ ~t.dirty[x]
    /\ x = Server => t.local[x] = t.clip.data /\ t.events = s.events
    /\ x \in Clients => /\ t.local[x] = s.local[x] /\ t.cache[x] = t.clip.data
                        /\ t.events = Append(s.events, [kind |-> "send", to |-> x, data |-> t.clip.data])

\* setClipboard leaves a screen alone or gives it the clipboard.
LEMMA SetServes ==
    ASSUME NEW s \in States, NEW p \in Screens, NEW x \in Screens
    PROVE  LET t == setClipboard(s, p, s.clip.data)
           IN  Alone(s, t, x) \/ (x = p /\ Given(s, t, x))
  <1> DEFINE d == s.clip.data
             t == setClipboard(s, p, d)
             e == [kind |-> "send", to |-> p, data |-> d]
  <1> SUFFICES Alone(s, t, x) \/ (x = p /\ Given(s, t, x))
    OBVIOUS
  <1>0. /\ s.dirty \in [Screens -> BOOLEAN] /\ s.local \in [Screens -> Contents]
        /\ s.cache \in [Clients -> Contents] /\ s.events \in Seq(Events) /\ d \in Contents
        /\ Server \notin Clients /\ t \in States /\ t.clip = s.clip
    BY SetEffect, ConstantsAssumption DEF States, Clips
  <1>1. CASE ~s.dirty[p]
    <2>1. t = s
      BY <1>1 DEF setClipboard
    <2>2. QED
      BY <2>1 DEF Alone, Others
  <1>2. CASE s.dirty[p] /\ p = Server
    <2> DEFINE f == [s.dirty EXCEPT ![Server] = FALSE]
               l == [s.local EXCEPT ![Server] = d]
    <2>1. t = [s EXCEPT !.dirty = f, !.local = l, !.packed = d \in Files]
      BY <1>2 DEF setClipboard, States
    <2> HIDE DEF t, f, l
    <2>2. t.dirty = f /\ t.local = l /\ t.cache = s.cache /\ t.events = s.events
      BY <2>1 DEF States
    <2> HIDE DEF d
    <2>3. CASE x = Server
      <3>1. ~f[x] /\ l[x] = d
        BY <1>0, <2>3 DEF f, l
      <3>2. QED
        BY <1>0, <1>2, <2>2, <2>3, <3>1 DEF Given, d
    <2>4. CASE x # Server
      <3>1. f[x] = s.dirty[x] /\ l[x] = s.local[x]
        BY <1>0, <2>4 DEF f, l
      <3>2. QED
        BY <2>2, <3>1 DEF Alone, Others
    <2>5. QED
      BY <2>3, <2>4
  <1>3. CASE s.dirty[p] /\ p # Server
    <2> DEFINE f == [s.dirty EXCEPT ![p] = FALSE]
               l == [s.cache EXCEPT ![p] = d]
               v == Append(s.events, e)
    <2>0. p \in Clients
      BY <1>3 DEF Screens
    <2>1. t = [s EXCEPT !.dirty = f, !.cache = l, !.events = v]
      BY <1>3 DEF setClipboard, States
    <2> HIDE DEF t, f, l, v
    <2>2. t.dirty = f /\ t.cache = l /\ t.local = s.local /\ t.events = v
      BY <2>1 DEF States
    <2> HIDE DEF d
    <2>3. CASE x = p
      <3>1. ~f[x] /\ l[x] = d
        BY <1>0, <2>0, <2>3 DEF f, l
      <3>2. QED
        BY <1>0, <2>0, <2>2, <2>3, <3>1 DEF Given, d, v
    <2>4. CASE x # p
      <3>1. f[x] = s.dirty[x] /\ (x \in Clients => l[x] = s.cache[x])
        BY <1>0, <2>0, <2>4 DEF f, l
      <3>2. Others(s.events, v, x)
        BY <1>0, <2>0, <2>4 DEF Others, v
      <3>3. QED
        BY <2>2, <3>1, <3>2 DEF Alone
    <2>5. QED
      BY <2>3, <2>4
  <1>4. QED
    BY <1>1, <1>2, <1>3

\* onClipboardChanged, called for z with number q and making s to t: nothing
\* changes for x, or x is given the new content d, or outdated unless it is z.
ChangedFor(s, t, z, q, d, x) ==
    /\ \/ t.clip.data = s.clip.data /\ Alone(s, t, x) /\ t.events = s.events
       \/ /\ ~(q < s.clip.seq) /\ t.clip.data = d
          /\ \/ x = active /\ Given(s, t, x)
             \/ /\ Others(s.events, t.events, x)
                /\ x \in Clients => t.cache[x] = s.cache[x] /\ t.local[x] = s.local[x]
                /\ x \in Online => t.dirty[x] \/ x = z
    /\ z # Server /\ ~(q < s.clip.seq) /\ ~serverRefuses(d) => t.clip.data = d

ContentOf(s, z) == IF z = Server THEN s.local[Server] ELSE s.cache[z]

\* onClipboardChanged, for each screen: the clipboard stays, or it is d and the
\* screens other than the sender are dirty or have been given it.
LEMMA ChangedServes ==
    ASSUME NEW s \in States, NEW z \in Screens, NEW q \in Seqs, NEW ok \in BOOLEAN,
           active \in Screens, NEW x \in Screens
    PROVE  ChangedFor(s, onClipboardChanged(s, z, q, ok), z, q, ContentOf(s, z), x)
  <1> DEFINE d == IF z = Server THEN s.local[Server] ELSE s.cache[z]
             r == [s EXCEPT !.clip.raw = d]
             f == [p \in Screens |-> IF p \in Online THEN p # z ELSE s.dirty[p]]
             k == [r EXCEPT !.clip.data = d,
                            !.dirty = [p \in Screens |-> IF p \in Online THEN p # z ELSE @[p]]]
             w == [setClipboard(k, Server, d) EXCEPT !.packed = FALSE]
             refused == \/ z = Server /\ ~works(d, ok)
                        \/ serverRefuses(d)
                        \/ d = s.clip.data
             t == onClipboardChanged(s, z, q, ok)
  <1> SUFFICES ChangedFor(s, t, z, q, d, x)
    BY DEF ContentOf
  <1>1. d \in Contents /\ s.clip \in Clips /\ q \in Nat /\ s.clip.seq \in Nat
    BY DEF States, Screens, Seqs, Clips
  <1>2. r = [s EXCEPT !.clip = [s.clip EXCEPT !.raw = d]]
    BY DEF States
  <1>3. f \in [Screens -> BOOLEAN]
    BY DirtyType DEF States
  <1>4. k = [s EXCEPT !.clip = [s.clip EXCEPT !.raw = d, !.data = d], !.dirty = f]
    BY <1>1, <1>2 DEF States, Clips
  <1>5. t = CASE q < s.clip.seq -> s
              [] q >= s.clip.seq /\ refused -> r
              [] OTHER -> IF active # Server THEN setClipboard(k, active, d)
                          ELSE IF z = Server \/ ~works(d, ok) THEN k
                          ELSE w
    BY DEF onClipboardChanged
  <1>6. [s.clip EXCEPT !.raw = d] \in Clips /\ [s.clip EXCEPT !.raw = d, !.data = d] \in Clips
    BY <1>1 DEF Clips
  <1> HIDE DEF d, f
  <1>7. /\ r.clip.data = s.clip.data /\ r.dirty = s.dirty /\ r.cache = s.cache
        /\ r.local = s.local /\ r.events = s.events
    BY <1>1, <1>2 DEF States, Clips
  <1>8. /\ k \in States /\ k.clip.data = d /\ k.dirty = f /\ k.cache = s.cache
        /\ k.local = s.local /\ k.events = s.events
    BY <1>1, <1>3, <1>4, <1>6 DEF States, Clips
  <1>9. x \in Online => f[x] = (x # z)
    BY DEF f
  <1>10. Server \in Screens
    BY DEF Screens
  <1> HIDE DEF r, k
  <1> DEFINE Fine(u) == /\ u.clip.data = d
                        /\ \/ x = active /\ Given(s, u, x)
                           \/ /\ Others(s.events, u.events, x)
                              /\ x \in Clients => u.cache[x] = s.cache[x] /\ u.local[x] = s.local[x]
                              /\ x \in Online => u.dirty[x] \/ x = z
  <1>11. Fine(k)
    BY <1>8, <1>9 DEF Others
  <1>12. ASSUME NEW p \in Screens, p = active PROVE Fine(setClipboard(k, p, d))
    <2> DEFINE u == setClipboard(k, p, d)
    <2>1. u.clip = k.clip
      BY <1>1, <1>8, SetEffect
    <2>2. Alone(k, u, x) \/ (x = p /\ Given(k, u, x))
      BY <1>8, SetServes
    <2> HIDE DEF u
    <2>3. ASSUME Alone(k, u, x) PROVE Fine(u)
      BY <1>8, <1>9, <2>1, <2>3 DEF Alone
    <2>4. ASSUME x = p /\ Given(k, u, x) PROVE Fine(u)
      <3>1. Given(s, u, x)
        BY <1>8, <2>4 DEF Given
      <3>2. QED
        BY <1>8, <1>12, <2>1, <2>4, <3>1
    <2>5. QED
      BY <2>2, <2>3, <2>4 DEF u
  <1>13. active = Server => Fine(w)
    <2> SUFFICES ASSUME active = Server PROVE Fine(w)
      OBVIOUS
    <2> DEFINE u == setClipboard(k, Server, d)
    <2>1. Fine(u) /\ u \in States
      BY <1>1, <1>8, <1>10, <1>12, SetEffect
    <2> HIDE DEF u, Fine
    <2>2. /\ w.clip = u.clip /\ w.events = u.events /\ w.dirty = u.dirty
          /\ w.cache = u.cache /\ w.local = u.local
      BY <2>1 DEF States, u
    <2>3. QED
      BY <2>1, <2>2 DEF Fine, Given
  <1> DEFINE Same(u) == u.clip.data = s.clip.data /\ Alone(s, u, x) /\ u.events = s.events
  <1>14. Same(s) /\ Same(r)
    BY <1>7 DEF Alone, Others
  <1> HIDE DEF Fine, Same, w, t
  <1>15. CASE q < s.clip.seq
    <2>1. t = s
      BY <1>1, <1>5, <1>15
    <2>2. QED
      BY <1>14, <1>15, <2>1 DEF Same, ChangedFor
  <1>16. CASE ~(q < s.clip.seq) /\ refused
    <2>1. t = r
      BY <1>1, <1>5, <1>16
    <2>2. z # Server /\ ~serverRefuses(d) => d = s.clip.data
      BY <1>16
    <2>3. QED
      BY <1>7, <1>14, <2>1, <2>2 DEF Same, ChangedFor
  <1>17. CASE ~(q < s.clip.seq) /\ ~refused
    <2>1. t = IF active # Server THEN setClipboard(k, active, d)
              ELSE IF z = Server \/ ~works(d, ok) THEN k ELSE w
      BY <1>1, <1>5, <1>17
    <2>2. Fine(t)
      BY <1>10, <1>11, <1>12, <1>13, <2>1
    <2>3. QED
      BY <1>17, <2>2 DEF Fine, ChangedFor
  <1>18. QED
    BY <1>15, <1>16, <1>17

(***************************************************************************)
(* What becomes of screen x in a step of the server that leaves `ev' of    *)
(* its queue, may append to it, and gives its clipboard to nobody but a.   *)
(***************************************************************************)
Served(ev, a, x) ==
    /\ x \in Clients => local'[x] = local[x]
    /\ \/ /\ x = a /\ ~dirty'[x]
          /\ x = Server => local'[x] = clip'.data
          /\ x \in Clients => /\ cache'[x] = clip'.data
                              /\ events' = Append(ev, [kind |-> "send", to |-> x, data |-> clip'.data])
       \/ /\ Others(ev, events', x)
          /\ x \in Clients => cache'[x] = cache[x]
          /\ x \in Online => \/ dirty'[x] \/ clip.owner = x
                             \/ ~dirty[x] /\ clip'.data = clip.data /\ local'[x] = local[x]

\* A switch gives the clipboard to the screen that is entered, or to nobody.
LEMMA SwitchServes ==
    ASSUME TypeOK, SwitchScreen, NEW x \in Screens
    PROVE  /\ Served(events, active', x)
           /\ clip.owner # Server => clip'.data = clip.data
  <1>1. /\ active \in Screens /\ active' \in Screens
        /\ seqNum' = seqNum + 1 /\ seqNum' \in Seqs
    BY ConstantsAssumption DEF SwitchScreen, TypeOK, Online, Screens, Seqs
  <1>2. PICK ok \in Outcomes :
     LET left == IF active # Server THEN tell(Now, active, [kind |-> "leave"])
                 ELSE IF clip.owner = Server THEN onClipboardChanged(Now, Server, clip.seq, ok)
                 ELSE Now
         in == IF active' = Server THEN left
               ELSE tell(left, active', [kind |-> "enter", seq |-> seqNum'])
         s == IF serverRefuses(in.clip.raw) THEN in ELSE setClipboard(in, active', in.clip.data)
     IN  Become(s) /\ events' = s.events
    BY DEF SwitchScreen
  <1> DEFINE leave == [kind |-> "leave"]
             enter == [kind |-> "enter", seq |-> seqNum']
             left == IF active # Server THEN tell(Now, active, leave)
                     ELSE IF clip.owner = Server THEN onClipboardChanged(Now, Server, clip.seq, ok)
                     ELSE Now
             in == IF active' = Server THEN left ELSE tell(left, active', enter)
             s == IF serverRefuses(in.clip.raw) THEN in ELSE setClipboard(in, active', in.clip.data)
  <1>3. Become(s) /\ events' = s.events
    BY <1>2
  <1>4. leave \in DownMessages /\ enter \in DownMessages
    BY <1>1 DEF DownMessages
  <1>5. /\ Now \in States /\ Now.clip = clip /\ Now.events = events /\ Now.dirty = dirty
        /\ Now.cache = cache /\ Now.local = local
        /\ clip.seq \in Seqs /\ Server \in Screens /\ ok \in BOOLEAN /\ Server \notin Clients
    BY NowType, OutcomesType, ConstantsAssumption DEF Now, TypeOK, Screens
  \* The screen, before the new active one is given its clipboard.
  <1> DEFINE Early(u) == /\ u \in States /\ u.events = events
                         /\ x \in Clients => u.cache[x] = cache[x] /\ u.local[x] = local[x]
                         /\ clip.owner # Server => u.clip.data = clip.data
                         /\ x \in Online => \/ u.dirty[x] \/ clip.owner = x
                                            \/ /\ u.dirty[x] = dirty[x] /\ u.clip.data = clip.data
                                               /\ u.local[x] = local[x]
  <1>6. Early(left)
    <2> HIDE DEF leave
    <2>1. CASE active # Server
      <3>1. active \in Clients /\ left = tell(Now, active, leave)
        BY <1>1, <2>1 DEF Screens
      <3> HIDE DEF left
      <3>2. /\ left \in States /\ left.clip = clip /\ left.events = events /\ left.dirty = dirty
            /\ left.cache = cache /\ left.local = local
        BY <1>4, <1>5, <3>1, TellEffect
      <3>3. QED
        BY <3>2
    <2>2. CASE active = Server /\ clip.owner = Server
      <3>1. left = onClipboardChanged(Now, Server, clip.seq, ok)
        BY <2>2
      <3> HIDE DEF left
      <3>2. left \in States /\ left.events = events
        <4>1. LET u == onClipboardChanged(Now, Server, clip.seq, ok)
              IN  u \in States /\ (active = Server => u.events = Now.events)
          BY <1>1, <1>5, ChangedEffect, ZenonT(30)
        <4>2. QED
          BY <1>5, <2>2, <3>1, <4>1
      <3>3. \/ left.clip.data = clip.data /\ Alone(Now, left, x)
            \/ x = active /\ Given(Now, left, x)
            \/ /\ x \in Clients => left.cache[x] = Now.cache[x] /\ left.local[x] = Now.local[x]
               /\ x \in Online => left.dirty[x] \/ x = Server
        <4>1. ChangedFor(Now, left, Server, clip.seq, ContentOf(Now, Server), x)
          BY <1>1, <1>5, <3>1, ChangedServes
        <4>2. QED
          BY <1>5, <4>1 DEF ChangedFor
      <3>4. CASE left.clip.data = clip.data /\ Alone(Now, left, x)
        BY <1>5, <2>2, <3>2, <3>4 DEF Alone
      <3>5. CASE x = active
        BY <1>5, <2>2, <3>2, <3>5
      <3>6. QED
        BY <1>5, <2>2, <3>2, <3>3, <3>4, <3>5
    <2>3. CASE active = Server /\ clip.owner # Server
      BY <1>5, <2>3
    <2>4. QED
      BY <2>1, <2>2, <2>3
  <1> HIDE DEF left, leave
  <1>7. Early(in)
    <2> HIDE DEF enter
    <2>1. CASE active' # Server
      <3>1. active' \in Clients /\ in = tell(left, active', enter)
        BY <1>1, <2>1 DEF Screens
      <3> HIDE DEF in
      <3>2. /\ in \in States /\ in.clip = left.clip /\ in.events = left.events /\ in.dirty = left.dirty
            /\ in.cache = left.cache /\ in.local = left.local
        BY <1>4, <1>6, <3>1, TellEffect
      <3>3. QED
        BY <1>6, <3>2
    <2>2. CASE active' = Server
      BY <1>6, <2>2
    <2>3. QED
      BY <2>1, <2>2
  <1> HIDE DEF in
  <1>8. \/ s = in
        \/ /\ s.clip = in.clip
           /\ Alone(in, s, x) \/ (x = active' /\ Given(in, s, x))
    <2>1. CASE serverRefuses(in.clip.raw)
      BY <2>1
    <2>2. CASE ~serverRefuses(in.clip.raw)
      <3>1. s = setClipboard(in, active', in.clip.data) /\ in.clip.data \in Contents
        BY <1>7, <2>2 DEF States, Clips
      <3> HIDE DEF s
      <3>2. QED
        BY <1>1, <1>7, <3>1, SetServes, SetEffect
    <2>3. QED
      BY <2>1, <2>2
  <1> HIDE DEF s
  <1>9. s.clip = in.clip /\ (Alone(in, s, x) \/ (x = active' /\ Given(in, s, x)))
    BY <1>8 DEF Alone, Others
  <1>10. clip' = s.clip /\ dirty' = s.dirty /\ cache' = s.cache /\ local' = s.local /\ events' = s.events
    BY <1>3 DEF Become
  <1>11. dirty[x] \in BOOLEAN
    BY DEF TypeOK
  <1>12. Served(events, active', x)
    <2>1. CASE Alone(in, s, x)
      <3>1. Others(events, events', x) /\ dirty'[x] = in.dirty[x] /\ local'[x] = in.local[x]
        BY <1>7, <1>10, <2>1 DEF Alone
      <3>2. x \in Clients => cache'[x] = cache[x] /\ local'[x] = local[x]
        BY <1>7, <1>10, <2>1 DEF Alone
      <3>3. x \in Online => \/ dirty'[x] \/ clip.owner = x
                            \/ ~dirty[x] /\ clip'.data = clip.data /\ local'[x] = local[x]
        BY <1>7, <1>9, <1>10, <1>11, <3>1
      <3>4. QED
        BY <3>1, <3>2, <3>3 DEF Served
    <2>2. CASE x = active' /\ Given(in, s, x)
      BY <1>5, <1>7, <1>9, <1>10, <2>2 DEF Given, Served
    <2>3. QED
      BY <1>9, <2>1, <2>2
  <1>13. QED
    BY <1>7, <1>9, <1>10, <1>12

\* What Dispatch does to screen x when it handles h.
HandledFor(h, x) ==
    \/ /\ h.kind = "send" \/ (h.kind = "grabbed" /\ h.from # Server /\ h.seq < clip.seq)
       /\ dirty' = dirty /\ local' = local /\ cache' = cache
    \/ /\ h.kind = "grabbed" /\ (h.from = Server \/ ~(h.seq < clip.seq))
       /\ cache' = cache
       /\ x \in Clients => local'[x] = local[x]
       /\ x \in Online => dirty'[x] = (x # h.from)
    \/ /\ h.kind = "changed"
       /\ (~(h.seq < clip.seq) => h.from = clip.owner) => Served(Tail(events), active, x)
       /\ x \in Clients => local'[x] = local[x]
       /\ h.seq < clip.seq => clip'.data = clip.data
       /\ clip'.data = clip.data \/ clip'.data = cache[h.from]
       /\ ~(h.seq < clip.seq) /\ ~serverRefuses(cache[h.from]) => clip'.data = cache[h.from]

\* A grab that is accepted makes every other screen dirty.
LEMMA GrabbedServes ==
    ASSUME NEW s \in States, NEW g \in Screens, NEW q \in Seqs, g = Server \/ ~(q < s.clip.seq),
           NEW x \in Screens
    PROVE  LET u == handleGrabbed(s, g, q)
           IN  /\ u.cache = s.cache
               /\ x \in Clients => u.local[x] = s.local[x]
               /\ x \in Online => u.dirty[x] = (x # g)
  <1> DEFINE n == [owner |-> g, seq |-> q, raw |-> 0, data |-> 0]
             a == [s EXCEPT !.clip = n]
             f == [p \in Screens |-> IF p \in Online THEN p # g ELSE s.dirty[p]]
             l == [s.local EXCEPT ![Server] = IF g = Server THEN @ ELSE 0]
             t == [c \in Clients |->
                     IF c # g /\ client[c].online THEN Append(s.toClient[c], [kind |-> "grab"]) ELSE s.toClient[c]]
             b == s.packed /\ g = Server
             u == handleGrabbed(s, g, q)
  <1>1. a.dirty = s.dirty /\ a.local = s.local /\ a.packed = s.packed /\ a.toClient = s.toClient
    BY DEF States
  <1>2. grabAll(a, g) = [s EXCEPT !.clip = n, !.dirty = f, !.local = l, !.packed = b, !.toClient = t]
    BY <1>1 DEF grabAll, States
  <1>3. u = grabAll(a, g)
    BY DEF handleGrabbed
  <1>4. x \in Clients => l[x] = s.local[x]
    BY ConstantsAssumption DEF States
  <1>5. x \in Online => f[x] = (x # g)
    OBVIOUS
  <1> HIDE DEF n, a, f, l, t, b, u
  <1>6. u.dirty = f /\ u.local = l /\ u.cache = s.cache
    BY <1>2, <1>3 DEF States
  <1>7. QED
    BY <1>4, <1>5, <1>6 DEF u

\* What Dispatch does to one screen follows from the event it handles.
LEMMA DispatchServes ==
    ASSUME TypeOK, Dispatch, NEW x \in Screens
    PROVE  HandledFor(Head(events), x)
  <1> DEFINE h == Head(events)
             now == [Now EXCEPT !.events = Tail(events)]
  <1>1. PICK ok \in Outcomes :
     LET s == CASE h.kind = "send" -> tell(now, h.to, [kind |-> "data", data |-> h.data])
                [] h.kind = "grabbed" -> handleGrabbed(now, h.from, h.seq)
                [] h.kind = "changed" -> onClipboardChanged(now, h.from, h.seq, ok)
     IN  Become(s) /\ events' = s.events
    BY DEF Dispatch
  <1> DEFINE s == CASE h.kind = "send" -> tell(now, h.to, [kind |-> "data", data |-> h.data])
                    [] h.kind = "grabbed" -> handleGrabbed(now, h.from, h.seq)
                    [] h.kind = "changed" -> onClipboardChanged(now, h.from, h.seq, ok)
  <1>2. /\ clip' = s.clip /\ dirty' = s.dirty /\ cache' = s.cache /\ local' = s.local
        /\ events' = s.events
    BY <1>1 DEF Become
  <1>3. h \in Events /\ Tail(events) \in Seq(Events) /\ ok \in BOOLEAN /\ active \in Screens
    BY HeadTailProperties, OutcomesType DEF TypeOK, Dispatch
  <1>4. /\ now \in States /\ now.clip = clip /\ now.events = Tail(events) /\ now.dirty = dirty
        /\ now.cache = cache /\ now.local = local
    BY <1>3, NowType DEF Now, States
  <1>5. dirty[x] \in BOOLEAN /\ Server \notin Clients
    BY ConstantsAssumption DEF TypeOK
  <1> HIDE DEF h, now
  <1>6. CASE h.kind = "send"
    <2> DEFINE m == [kind |-> "data", data |-> h.data]
    <2>1. m \in DownMessages /\ h.to \in Clients
      BY <1>3, <1>6, EventType DEF DownMessages
    <2>2. s = tell(now, h.to, m)
      BY <1>6
    <2> HIDE DEF s, m
    <2>3. s.dirty = dirty /\ s.cache = cache /\ s.local = local
      BY <1>4, <2>1, <2>2, TellEffect
    <2>4. QED
      BY <1>2, <1>6, <2>3 DEF HandledFor, h
  <1>7. CASE h.kind = "grabbed"
    <2>1. h.from \in Screens /\ h.seq \in Seqs
      BY <1>3, <1>7, EventType
    <2>2. s = handleGrabbed(now, h.from, h.seq)
      BY <1>7
    <2> HIDE DEF s
    <2>3. CASE h.from # Server /\ h.seq < clip.seq
      <3>1. s = now
        BY <1>4, <2>2, <2>3 DEF handleGrabbed
      <3>2. QED
        BY <1>2, <1>4, <1>7, <2>3, <3>1 DEF HandledFor, h
    <2>4. CASE ~(h.from # Server /\ h.seq < clip.seq)
      <3>1. /\ s.cache = cache
            /\ x \in Clients => s.local[x] = local[x]
            /\ x \in Online => s.dirty[x] = (x # h.from)
        BY <1>4, <2>1, <2>2, <2>4, GrabbedServes
      <3>2. QED
        BY <1>2, <1>7, <2>4, <3>1 DEF HandledFor, h
    <2>5. QED
      BY <2>3, <2>4
  <1>8. CASE h.kind = "changed"
    <2>1. h.from \in Clients /\ h.from \in Screens /\ h.seq \in Seqs /\ h.from # Server
      BY <1>3, <1>5, <1>8, EventType
    <2>2. s = onClipboardChanged(now, h.from, h.seq, ok)
      BY <1>8
    <2> HIDE DEF s
    <2>3. /\ \/ s.clip.data = clip.data /\ Alone(now, s, x) /\ s.events = now.events
             \/ /\ ~(h.seq < clip.seq) /\ s.clip.data = cache[h.from]
                /\ \/ x = active /\ Given(now, s, x)
                   \/ /\ Others(now.events, s.events, x)
                      /\ x \in Clients => s.cache[x] = cache[x] /\ s.local[x] = local[x]
                      /\ x \in Online => s.dirty[x] \/ x = h.from
          /\ ~(h.seq < clip.seq) /\ ~serverRefuses(cache[h.from]) => s.clip.data = cache[h.from]
      <3>1. cache[h.from] = ContentOf(now, h.from)
        BY <1>4, <2>1 DEF ContentOf
      <3>2. ChangedFor(now, s, h.from, h.seq, ContentOf(now, h.from), x)
        BY <1>3, <1>4, <2>1, <2>2, ChangedServes
      <3>3. QED
        BY <1>4, <2>1, <3>1, <3>2 DEF ChangedFor
    <2>4. CASE s.clip.data = clip.data /\ Alone(now, s, x) /\ s.events = now.events
      <3>1. /\ Others(Tail(events), events', x) /\ local'[x] = local[x] /\ dirty'[x] = dirty[x]
            /\ x \in Clients => cache'[x] = cache[x]
            /\ clip'.data = clip.data
        BY <1>2, <1>4, <2>4 DEF Alone
      <3>2. Served(Tail(events), active, x)
        BY <1>5, <3>1 DEF Served
      <3>3. QED
        BY <1>2, <1>8, <2>3, <3>1, <3>2 DEF HandledFor, h
    <2>5. CASE ~(h.seq < clip.seq) /\ s.clip.data = cache[h.from] /\ x = active /\ Given(now, s, x)
      <3>1. Served(Tail(events), active, x) /\ (x \in Clients => local'[x] = local[x])
        BY <1>2, <1>4, <1>5, <2>5 DEF Given, Served
      <3>2. QED
        BY <1>2, <1>8, <2>3, <2>5, <3>1 DEF HandledFor, h
    <2>6. CASE /\ ~(h.seq < clip.seq) /\ s.clip.data = cache[h.from]
               /\ Others(now.events, s.events, x)
               /\ x \in Clients => s.cache[x] = cache[x] /\ s.local[x] = local[x]
               /\ x \in Online => s.dirty[x] \/ x = h.from
      <3>1. h.from = clip.owner => Served(Tail(events), active, x)
        BY <1>2, <1>4, <2>6 DEF Served
      <3>2. x \in Clients => local'[x] = local[x]
        BY <1>2, <2>6
      <3>3. QED
        BY <1>2, <1>8, <2>3, <2>6, <3>1, <3>2 DEF HandledFor, h
    <2>7. QED
      BY <2>3, <2>4, <2>5, <2>6
  <1>9. QED
    BY <1>3, <1>6, <1>7, <1>8, EventType DEF h

-----------------------------------------------------------------------------
(***************************************************************************)
(* Kinds of messages: transfers to c, and those of content d; grabs of c   *)
(* with a number from n on, as events, messages and tasks; enters with a   *)
(* number from n on; what makes a client give up its content, and the      *)
(* transfers of d among it.                                                *)
(***************************************************************************)
SendsTo(c) == {e \in Events : e.kind = "send" /\ e.to = c}
SendsOf(c, d) == {e \in Events : e.kind = "send" /\ e.to = c /\ e.data = d}
GrabsBy(c, n) == {e \in Events : e.kind = "grabbed" /\ e.from = c /\ e.seq >= n}
UpGrabs(n) == {m \in UpMessages : m.kind = "grab" /\ m.seq >= n}
GrabTasks == {t \in Tasks : t.kind = "grabbed"}
SendTasks == {t \in Tasks : t.kind = "send"}
SendTask(d, q) == {t \in Tasks : t.kind = "send" /\ t.data = d /\ t.seq = q}
Enters(n) == {m \in DownMessages : m.kind = "enter" /\ m.seq >= n}
Takes == {m \in DownMessages : m.kind \in {"data", "grab"}}
Gifts(d) == {m \in DownMessages : m.kind = "data" /\ m.data = d}

(***************************************************************************)
(* A client is entered with rising numbers: those in its stream t are not  *)
(* below its own, q, and in order.                                         *)
(***************************************************************************)
Rising(q, t) ==
    \A i \in 1 .. Len(t) : t[i].kind = "enter" =>
        t[i].seq >= q /\ \A j \in 1 .. i - 1 : t[j].kind = "enter" => t[j].seq <= t[i].seq

\* A client with number q and stream t has been, or will be, entered with a
\* number from n on.
Entered(n, q, t) == q >= n \/ ~NoneIn(t, Enters(n))

\* All numbers in use are past ones, and the active client has the latest.
Numbering ==
    /\ clip.seq <= seqNum /\ primarySeq <= seqNum
    /\ NoneIn(events, GrabsBy(Server, seqNum + 1))
    /\ \A c \in Clients : /\ Rising(client[c].seq, toClient[c])
                          /\ active = c => Entered(seqNum, client[c].seq, toClient[c])

\* A step writes to the stream to c, or c reads from it, or the connection goes.
LEMMA DownMove ==
    ASSUME TypeOK, [Next]_vars, NEW c \in Clients
    PROVE  \/ toClient'[c] = toClient[c] /\ client'[c].seq = client[c].seq
           \/ /\ client'[c].seq = client[c].seq
              /\ \E m \in DownMessages : m.kind # "enter" /\ toClient'[c] = Append(toClient[c], m)
           \/ /\ SwitchScreen /\ active' = c /\ client'[c].seq = client[c].seq
              /\ toClient'[c] = Append(toClient[c], [kind |-> "enter", seq |-> seqNum + 1])
           \/ /\ toClient[c] # <<>> /\ toClient'[c] = Tail(toClient[c])
              /\ client'[c].seq = IF Head(toClient[c]).kind = "enter" THEN Head(toClient[c]).seq
                                  ELSE client[c].seq
           \/ Lose(c) /\ toClient'[c] = <<>> /\ client'[c].seq = 0
  <1>0. /\ toClient \in [Clients -> Seq(DownMessages)] /\ client \in [Clients -> ClientType]
        /\ client[c] \in ClientType
    BY DEF TypeOK
  <1>1. CASE SwitchScreen
    <2>1. client' = client
      BY <1>1 DEF SwitchScreen
    <2>2. /\ active # active'
          /\ active = c => toClient'[c] = Append(toClient[c], [kind |-> "leave"])
          /\ active' = c => toClient'[c] = Append(toClient[c], [kind |-> "enter", seq |-> seqNum + 1])
          /\ active # c /\ active' # c => toClient'[c] = toClient[c]
      BY <1>1, SwitchEffect
    <2> DEFINE l == [kind |-> "leave"]
    <2>3. l \in DownMessages /\ l.kind # "enter"
      BY DEF DownMessages
    <2> HIDE DEF l
    <2>4. active = c => toClient'[c] = Append(toClient[c], l)
      BY <2>2 DEF l
    <2>5. QED
      BY <1>1, <2>1, <2>2, <2>3, <2>4
  <1>2. CASE Dispatch
    <2>1. client' = client
      BY <1>2 DEF Dispatch
    <2> DEFINE h == Head(events)
               m == [kind |-> "data", data |-> h.data]
    <2>2. h \in Events
      BY <1>2, HeadTailProperties DEF TypeOK, Dispatch
    <2>3. Handled(h)
      BY <1>2, DispatchEffect
    <2> HIDE DEF h
    <2>4. h.kind = "send" => m \in DownMessages /\ m.kind # "enter"
      BY <2>2, EventType DEF DownMessages
    <2> HIDE DEF m
    <2>5. \/ toClient'[c] = toClient[c]
          \/ toClient'[c] = Append(toClient[c], GrabMessage)
          \/ h.kind = "send" /\ toClient'[c] = Append(toClient[c], m)
      BY <1>0, <2>3 DEF Handled, m
    <2>6. GrabMessage \in DownMessages /\ GrabMessage.kind # "enter"
      BY GrabMessageType
    <2>7. QED
      BY <2>1, <2>4, <2>5, <2>6
  <1>3. ASSUME NEW b \in Clients, Obey(b)
        PROVE  \/ toClient'[c] = toClient[c] /\ client'[c].seq = client[c].seq
               \/ /\ toClient[c] # <<>> /\ toClient'[c] = Tail(toClient[c])
                  /\ client'[c].seq = IF Head(toClient[c]).kind = "enter" THEN Head(toClient[c]).seq
                                      ELSE client[c].seq
    <2>1. toClient[b] # <<>> /\ toClient' = [toClient EXCEPT ![b] = Tail(@)]
      BY <1>3 DEF Obey, ObeyEnter, ObeyLeave, ObeyGrab, ObeyData
    <2>2. ASSUME ObeyEnter(b)
          PROVE  /\ c # b => client'[c].seq = client[c].seq
                 /\ c = b => client'[c].seq = Head(toClient[c]).seq /\ Head(toClient[c]).kind = "enter"
      BY <1>0, <2>2 DEF ObeyEnter, ClientType
    <2>3. ASSUME ObeyLeave(b) \/ ObeyGrab(b) \/ ObeyData(b)
          PROVE  client'[c].seq = client[c].seq /\ (c = b => Head(toClient[c]).kind # "enter")
      <3>1. ObeyLeave(b) => client'[c].seq = client[c].seq /\ Head(toClient[b]).kind # "enter"
        BY <1>0 DEF ObeyLeave, ClientType
      <3>2. ObeyGrab(b) => client'[c].seq = client[c].seq /\ Head(toClient[b]).kind # "enter"
        BY <1>0 DEF ObeyGrab, ClientType
      <3>3. ASSUME ObeyData(b) PROVE client'[c].seq = client[c].seq /\ Head(toClient[b]).kind # "enter"
        <4>1. client' = [client EXCEPT ![b].own = FALSE] \/ client' = client
          BY <3>3 DEF ObeyData
        <4>2. client'[c].seq = client[c].seq
          <5>1. CASE c = b
            BY <1>0, <4>1, <5>1 DEF ClientType
          <5>2. CASE c # b
            BY <1>0, <4>1, <5>2
          <5>3. QED
            BY <5>1, <5>2
        <4>3. QED
          BY <3>3, <4>2 DEF ObeyData
      <3>4. QED
        BY <2>3, <3>1, <3>2, <3>3
    <2>4. CASE c = b
      BY <1>0, <1>3, <2>1, <2>2, <2>3, <2>4 DEF Obey
    <2>5. CASE c # b
      BY <1>0, <1>3, <2>1, <2>2, <2>3, <2>5 DEF Obey
    <2>6. QED
      BY <2>4, <2>5
  <1>4. ASSUME NEW b \in Clients, Lose(b)
        PROVE  \/ toClient'[c] = toClient[c] /\ client'[c].seq = client[c].seq
               \/ Lose(c) /\ toClient'[c] = <<>> /\ client'[c].seq = 0
    <2>1. CASE b = c
      BY <1>0, <1>4, <2>1 DEF Lose
    <2>2. CASE b # c
      BY <1>0, <1>4, <2>2 DEF Lose
    <2>3. QED
      BY <2>1, <2>2
  <1>5. ASSUME NEW b \in Clients, Receive(b) \/ CopyOnClient(b) \/ Work(b) \/ Reconnect(b)
        PROVE  toClient'[c] = toClient[c] /\ client'[c].seq = client[c].seq
    <2>1. toClient' = toClient
      BY <1>5 DEF Receive, CopyOnClient, Work, Reconnect, wires
    <2>2. ASSUME Work(b) PROVE client'[c].seq = client[c].seq
      <3>1. client' = client \/ client' = [client EXCEPT ![b].own = TRUE, ![b].timed = ~client[b].active]
        BY <2>2 DEF Work
      <3>2. CASE c = b
        BY <1>0, <3>1, <3>2 DEF ClientType
      <3>3. CASE c # b
        BY <1>0, <3>1, <3>3
      <3>4. QED
        BY <3>2, <3>3
    <2>3. Reconnect(b) => client'[c].seq = client[c].seq
      BY <1>0 DEF Reconnect, ClientType
    <2>4. QED
      BY <1>5, <2>1, <2>2, <2>3 DEF Receive, CopyOnClient
  <1>6. CASE CopyOnServer \/ UNCHANGED vars
    BY <1>6 DEF CopyOnServer, vars, wires
  <1>7. QED
    BY <1>1, <1>2, <1>3, <1>4, <1>5, <1>6 DEF Next

\* Enters stay in rising order when a later one is written.
LEMMA RisingAppend ==
    ASSUME NEW t \in Seq(DownMessages), NEW m \in DownMessages, NEW q \in Seqs, Rising(q, t),
           m.kind = "enter" => m.seq >= q /\ \A i \in 1 .. Len(t) : t[i].kind = "enter" => t[i].seq <= m.seq
    PROVE  Rising(q, Append(t, m))
  <1> DEFINE u == Append(t, m)
  <1>1. /\ Len(t) \in Nat /\ Len(u) = Len(t) + 1 /\ u[Len(t) + 1] = m
        /\ \A i \in 1 .. Len(t) : u[i] = t[i]
    BY AppendProperties, LenProperties
  <1> HIDE DEF u
  <1> SUFFICES ASSUME NEW i \in 1 .. Len(u), u[i].kind = "enter"
               PROVE  u[i].seq >= q /\ \A j \in 1 .. i - 1 : u[j].kind = "enter" => u[j].seq <= u[i].seq
    BY DEF Rising, u
  <1>2. CASE i = Len(t) + 1
    BY <1>1, <1>2
  <1>3. CASE i \in 1 .. Len(t)
    <2>1. \A j \in 1 .. i - 1 : j \in 1 .. Len(t)
      BY <1>1, <1>3
    <2>2. QED
      BY <1>1, <1>3, <2>1 DEF Rising
  <1>4. QED
    BY <1>1, <1>2, <1>3

\* And when the first message is read.
LEMMA RisingTail ==
    ASSUME NEW t \in Seq(DownMessages), t # <<>>, NEW q \in Seqs, Rising(q, t)
    PROVE  /\ Rising(IF Head(t).kind = "enter" THEN Head(t).seq ELSE q, Tail(t))
           /\ Head(t).kind = "enter" => Head(t).seq >= q
  <1> DEFINE u == Tail(t)
             p == IF Head(t).kind = "enter" THEN Head(t).seq ELSE q
  <1>1. /\ Len(t) \in Nat /\ Len(t) >= 1 /\ Len(u) = Len(t) - 1 /\ Head(t) = t[1]
        /\ \A i \in 1 .. Len(u) : u[i] = t[i + 1]
    BY HeadTailProperties, EmptySeq, LenProperties
  <1>2. Head(t).kind = "enter" => Head(t).seq >= q
    BY <1>1 DEF Rising
  <1> HIDE DEF u
  <1>3. ASSUME NEW i \in 1 .. Len(u), u[i].kind = "enter"
        PROVE  u[i].seq >= p /\ \A j \in 1 .. i - 1 : u[j].kind = "enter" => u[j].seq <= u[i].seq
    <2>1. i + 1 \in 1 .. Len(t) /\ u[i] = t[i + 1] /\ 1 \in 1 .. (i + 1) - 1
      BY <1>1
    <2>2. /\ t[i + 1].seq >= q
          /\ \A j \in 1 .. (i + 1) - 1 : t[j].kind = "enter" => t[j].seq <= t[i + 1].seq
      BY <1>3, <2>1 DEF Rising
    <2>3. t[1].kind = "enter" => t[1].seq <= t[i + 1].seq
      BY <2>1, <2>2
    <2>a. t[1] \in DownMessages /\ t[i + 1] \in DownMessages
      BY <1>1, <2>1, ElementOfSeq
    <2>b. /\ t[1].kind = "enter" => t[1].seq \in Nat
          /\ t[i + 1].kind = "enter" => t[i + 1].seq \in Nat
      BY <2>a, ConstantsAssumption DEF DownMessages, Seqs
    <2>4. u[i].seq >= p
      BY <1>1, <1>3, <2>1, <2>2, <2>3, <2>b
    <2>5. ASSUME NEW j \in 1 .. i - 1 PROVE j + 1 \in 1 .. (i + 1) - 1 /\ u[j] = t[j + 1]
      BY <1>1
    <2>6. QED
      BY <2>1, <2>2, <2>4, <2>5
  <1>4. QED
    BY <1>2, <1>3 DEF Rising, u

\* NoneIn, without places.
LEMMA NoneInIs ==
    ASSUME NEW s, NEW S
    PROVE  NoneIn(s, S) <=> \A x : In(x, s) => x \notin S
  BY DEF NoneIn, In

\* The numbers client c was or is about to be entered with are past ones.
LEMMA PastNumbers ==
    ASSUME OwnerInv, NEW c \in Clients
    PROVE  /\ client[c].seq \in Nat /\ client[c].seq <= seqNum
           /\ \A i \in 1 .. Len(toClient[c]) : toClient[c][i].kind = "enter" =>
                toClient[c][i].seq \in Nat /\ toClient[c][i].seq <= seqNum
  <1>0. /\ Seqs \subseteq Nat /\ seqNum \in Nat /\ client[c].seq \in Seqs
        /\ toClient[c] \in Seq(DownMessages)
    BY ConstantsAssumption DEF OwnerInv, TypeOK, ClientType, Seqs
  <1>1. \A q \in Seqs : q > 0 /\ Uses(c, q) => q <= seqNum
    BY DEF OwnerInv, Numbers
  <1>2. client[c].seq <= seqNum
    <2> DEFINE q == client[c].seq
    <2>1. Uses(c, q) /\ q \in Seqs /\ q \in Nat
      BY <1>0 DEF Uses
    <2> HIDE DEF q
    <2>2. q > 0 => q <= seqNum
      BY <1>1, <2>1
    <2>3. q <= seqNum
      BY <1>0, <2>1, <2>2
    <2>4. QED
      BY <2>3 DEF q
  <1>3. ASSUME NEW i \in 1 .. Len(toClient[c]), toClient[c][i].kind = "enter"
        PROVE  toClient[c][i].seq \in Nat /\ toClient[c][i].seq <= seqNum
    <2> DEFINE m == toClient[c][i]
    <2>1. m \in DownMessages /\ In(m, toClient[c])
      BY <1>0, ElementOfSeq DEF In
    <2>2. m.seq \in Seqs
      BY <1>3, <2>1 DEF DownMessages
    <2>3. Uses(c, m.seq)
      BY <1>3, <2>1 DEF Uses
    <2> HIDE DEF m
    <2>4. m.seq \in Nat /\ (m.seq > 0 => m.seq <= seqNum)
      BY <1>0, <1>1, <2>2, <2>3
    <2>5. m.seq <= seqNum
      BY <1>0, <2>4
    <2>6. QED
      BY <2>4, <2>5 DEF m
  <1>4. QED
    BY <1>0, <1>2, <1>3

\* A client stays entered, while it is connected.
LEMMA EnteredKept ==
    ASSUME OwnerInv, Numbering, [Next]_vars, NEW c \in Clients, ~Lose(c), NEW n \in Nat,
           Entered(n, client[c].seq, toClient[c])
    PROVE  Entered(n, client'[c].seq, toClient'[c])
  <1>0. /\ TypeOK /\ toClient[c] \in Seq(DownMessages) /\ client[c].seq \in Seqs /\ client[c].seq \in Nat
        /\ Rising(client[c].seq, toClient[c]) /\ Seqs \subseteq Nat
    BY ConstantsAssumption DEF OwnerInv, TypeOK, ClientType, Seqs, Numbering
  <1>1. client[c].seq >= n \/ ~NoneIn(toClient[c], Enters(n))
    BY DEF Entered
  <1>2. CASE toClient'[c] = toClient[c] /\ client'[c].seq = client[c].seq
    BY <1>1, <1>2 DEF Entered
  <1>3. ASSUME client'[c].seq = client[c].seq, NEW m \in DownMessages, toClient'[c] = Append(toClient[c], m)
        PROVE  Entered(n, client'[c].seq, toClient'[c])
    <2>1. ~NoneIn(toClient[c], Enters(n)) => ~NoneIn(Append(toClient[c], m), Enters(n))
      BY <1>0, AppendedIn
    <2>2. QED
      BY <1>1, <1>3, <2>1 DEF Entered
  <1>4. CASE /\ toClient[c] # <<>> /\ toClient'[c] = Tail(toClient[c])
             /\ client'[c].seq = IF Head(toClient[c]).kind = "enter" THEN Head(toClient[c]).seq
                                 ELSE client[c].seq
    <2>1. NoneIn(toClient[c], Enters(n)) <=> NoneIn(Tail(toClient[c]), Enters(n)) /\ Head(toClient[c]) \notin Enters(n)
      BY <1>0, <1>4, TakenFrom
    <2>2. Head(toClient[c]).kind = "enter" => Head(toClient[c]).seq >= client[c].seq
      BY <1>0, <1>4, RisingTail
    <2>3. Head(toClient[c]) \in Enters(n) => client'[c].seq >= n
      BY <1>4 DEF Enters
    <2>a. Head(toClient[c]) \in DownMessages
      BY <1>0, <1>4, HeadTailProperties
    <2>b. Head(toClient[c]).kind = "enter" => Head(toClient[c]).seq \in Nat
      BY <1>0, <2>a DEF DownMessages
    <2>4. client[c].seq >= n => client'[c].seq >= n
      BY <1>0, <1>4, <2>2, <2>b
    <2>5. QED
      BY <1>1, <1>4, <2>1, <2>3, <2>4 DEF Entered
  <1>5. QED
    <2>1. [kind |-> "enter", seq |-> seqNum + 1] \in DownMessages \/ ~SwitchScreen
      BY ConstantsAssumption DEF SwitchScreen, OwnerInv, TypeOK, Seqs, DownMessages
    <2>2. QED
      BY <1>0, <1>2, <1>3, <1>4, <2>1, DownMove

\* Every step keeps the numbers in order.
LEMMA NumberingStep ==
    ASSUME OwnerInv, Numbering, [Next]_vars
    PROVE  Numbering'
  <1>0. /\ TypeOK /\ TypeOK' /\ Seqs \subseteq Nat /\ seqNum \in Seqs /\ seqNum \in Nat /\ primarySeq \in Nat
        /\ clip.seq \in Nat /\ events \in Seq(Events) /\ Server \notin Clients
    BY Typed, ConstantsAssumption DEF OwnerInv, TypeOK, Seqs
  <1>1. /\ seqNum' \in Nat /\ seqNum' >= seqNum
        /\ SwitchScreen => seqNum' = seqNum + 1
        /\ ~SwitchScreen => seqNum' = seqNum
    <2>1. ~SwitchScreen => seqNum' = seqNum
      BY DEF Next, CopyOnServer, Dispatch, Receive, Obey, CopyOnClient, Work, Reconnect, Lose, vars
    <2>2. QED
      BY <1>0, <2>1 DEF SwitchScreen
  <1>2. clip'.seq <= seqNum'
    <2>1. CASE Dispatch
      <3> DEFINE h == Head(events)
      <3>1. Handled(h) /\ h \in Events /\ In(h, events)
        BY <1>0, <2>1, DispatchEffect, HeadTailProperties, InTail DEF Dispatch
      <3> HIDE DEF h
      <3>2. clip'.seq = clip.seq \/ (h.kind = "grabbed" /\ clip'.seq = h.seq)
        BY <3>1 DEF Handled
      <3>3. h.kind = "grabbed" => h.from \in Screens /\ h.seq \in Seqs /\ h.seq \in Nat
        BY <1>0, <3>1, EventType
      <3>4. ASSUME h.kind = "grabbed", h.from = Server PROVE h.seq <= seqNum
        <4>1. h \notin GrabsBy(Server, seqNum + 1)
          BY <3>1, NoneInIs DEF Numbering
        <4>2. ~(h.seq >= seqNum + 1)
          BY <3>1, <3>4, <4>1 DEF GrabsBy
        <4>3. QED
          BY <1>0, <3>3, <3>4, <4>2
      <3>5. ASSUME h.kind = "grabbed", h.from \in Clients PROVE h.seq <= seqNum
        <4>1. Uses(h.from, h.seq)
          BY <3>1, <3>5 DEF Uses
        <4>2. h.seq > 0 => h.seq <= seqNum
          BY <3>3, <3>5, <4>1 DEF OwnerInv, Numbers
        <4>3. QED
          BY <1>0, <3>3, <3>5, <4>2
      <3>6. clip'.seq <= seqNum
        BY <3>2, <3>3, <3>4, <3>5 DEF Screens, Numbering
      <3>7. clip'.seq \in Nat
        BY <1>0, <3>2, <3>3
      <3>8. QED
        BY <1>0, <1>1, <3>6, <3>7
    <2>2. CASE ~Dispatch
      <3>1. clip'.seq = clip.seq
        BY <1>0, <2>2, SwitchEffect DEF Next, CopyOnServer, Receive, Obey, CopyOnClient, Work, Reconnect, Lose, vars
      <3>2. QED
        BY <1>0, <1>1, <3>1 DEF Numbering
    <2>3. QED
      BY <2>1, <2>2
  <1>3. primarySeq' <= seqNum'
    <2>1. primarySeq' = primarySeq \/ primarySeq' = seqNum' \/ primarySeq' = seqNum
      BY DEF Next, SwitchScreen, CopyOnServer, Dispatch, Receive, Obey, CopyOnClient, Work, Reconnect, Lose, vars
    <2>2. QED
      BY <1>0, <1>1, <2>1 DEF Numbering
  <1>4. NoneIn(events', GrabsBy(Server, seqNum' + 1))
    <2> SUFFICES ASSUME NEW x, In(x, events'), x \in GrabsBy(Server, seqNum' + 1) PROVE FALSE
      BY NoneInIs
    <2>1. x \in Events /\ x.kind = "grabbed" /\ x.from = Server /\ x.seq >= seqNum' + 1 /\ x.seq \in Nat
      BY <1>0 DEF GrabsBy, Events
    <2>2. x \in GrabsBy(Server, seqNum + 1)
      BY <1>0, <1>1, <2>1 DEF GrabsBy
    <2>3. ~In(x, events)
      BY <2>2, NoneInIs DEF Numbering
    <2>4. NewEvent(x)
      BY <1>0, <2>3, EventsAfter
    <2>5. CopyOnServer
      BY <1>0, <2>1, <2>4 DEF NewEvent
    <2> DEFINE e == [kind |-> "grabbed", from |-> Server, seq |-> primarySeq]
    <2>6. e \in Events /\ e.seq = primarySeq /\ events' = Append(events, e)
      BY <1>0, <2>5 DEF CopyOnServer, TypeOK, Events, Screens
    <2> HIDE DEF e
    <2>7. x = e
      BY <1>0, <2>3, <2>6, InAppend
    <2>8. QED
      BY <1>0, <1>1, <2>1, <2>6, <2>7 DEF Numbering
  <1>5. ASSUME NEW c \in Clients PROVE Rising(client'[c].seq, toClient'[c])
    <2> DEFINE t == toClient[c]
               q == client[c].seq
    <2>0. t \in Seq(DownMessages) /\ q \in Seqs /\ q \in Nat /\ Rising(q, t)
      BY <1>0 DEF TypeOK, ClientType, Numbering
    <2>p. q <= seqNum /\ \A i \in 1 .. Len(t) : t[i].kind = "enter" => t[i].seq \in Nat /\ t[i].seq <= seqNum
      BY PastNumbers
    <2> HIDE DEF t, q
    <2>1. CASE toClient'[c] = t /\ client'[c].seq = q
      BY <2>0, <2>1
    <2>2. ASSUME client'[c].seq = q, NEW m \in DownMessages, m.kind # "enter", toClient'[c] = Append(t, m)
          PROVE  Rising(client'[c].seq, toClient'[c])
      BY <2>0, <2>2, RisingAppend
    <2>3. CASE SwitchScreen /\ client'[c].seq = q /\ toClient'[c] = Append(t, [kind |-> "enter", seq |-> seqNum + 1])
      <3> DEFINE m == [kind |-> "enter", seq |-> seqNum + 1]
      <3>1. m \in DownMessages /\ m.kind = "enter" /\ m.seq = seqNum + 1
        BY <2>3, ConstantsAssumption DEF SwitchScreen, OwnerInv, TypeOK, Seqs, DownMessages
      <3> HIDE DEF m
      <3>2. m.seq >= q /\ \A i \in 1 .. Len(t) : t[i].kind = "enter" => t[i].seq <= m.seq
        BY <1>0, <2>0, <2>p, <3>1
      <3>3. QED
        BY <2>0, <2>3, <3>1, <3>2, RisingAppend DEF m
    <2>4. CASE /\ t # <<>> /\ toClient'[c] = Tail(t)
               /\ client'[c].seq = IF Head(t).kind = "enter" THEN Head(t).seq ELSE q
      BY <2>0, <2>4, RisingTail
    <2>5. CASE toClient'[c] = <<>>
      BY <2>5 DEF Rising
    <2>6. QED
      BY <1>0, <2>1, <2>2, <2>3, <2>4, <2>5, DownMove DEF t, q
  <1>6. ASSUME NEW c \in Clients, active' = c PROVE Entered(seqNum', client'[c].seq, toClient'[c])
    <2>1. CASE SwitchScreen
      <3> DEFINE m == [kind |-> "enter", seq |-> seqNum + 1]
      <3>1. m \in Enters(seqNum') /\ m \in DownMessages
        BY <1>0, <1>1, <2>1, ConstantsAssumption DEF SwitchScreen, TypeOK, Seqs, DownMessages, Enters
      <3>2. toClient'[c] = Append(toClient[c], m) /\ toClient[c] \in Seq(DownMessages)
        BY <1>0, <1>6, <2>1, SwitchEffect DEF TypeOK
      <3> HIDE DEF m
      <3> DEFINE S == Enters(seqNum')
      <3> HIDE DEF S
      <3>a. ~NoneIn(Append(toClient[c], m), S)
        BY <3>1, <3>2, AppendedIn DEF S
      <3>3. ~NoneIn(toClient'[c], Enters(seqNum'))
        BY <3>2, <3>a DEF S
      <3>4. QED
        BY <3>3 DEF Entered
    <2>2. CASE ~SwitchScreen
      <3>1. active = c /\ ~Lose(c)
        BY <1>0, <1>6, <2>2 DEF Next, CopyOnServer, Dispatch, Receive, Obey, CopyOnClient, Work, Reconnect, Lose, vars
      <3>2. Entered(seqNum, client[c].seq, toClient[c])
        BY <3>1 DEF Numbering
      <3>3. Entered(seqNum, client'[c].seq, toClient'[c])
        BY <1>0, <3>1, <3>2, EnteredKept
      <3>4. QED
        BY <1>1, <2>2, <3>3
    <2>3. QED
      BY <2>1, <2>2
  <1>7. QED
    BY <1>2, <1>3, <1>4, <1>5, <1>6 DEF Numbering

LEMMA NumberingInitially == Init => Numbering
  <1> SUFFICES ASSUME Init PROVE Numbering
    OBVIOUS
  <1>1. /\ clip.seq = 0 /\ seqNum = 0 /\ primarySeq = 0 /\ events = <<>> /\ active = Server
        /\ \A c \in Clients : toClient[c] = <<>>
    BY DEF Init
  <1>2. QED
    BY <1>1, ConstantsAssumption DEF Numbering, NoneIn, Rising

-----------------------------------------------------------------------------
(***************************************************************************)
(* How a screen that is not dirty gets what the server holds.  A transfer  *)
(* of content d to c is the last one queued, or none is queued; or it is   *)
(* the last thing in the stream t, behind the enter with number n; or the  *)
(* stream holds nothing more for the clipboard.                            *)
(***************************************************************************)
SentTo(c, d, ev) == LastIn(ev, SendsTo(c), SendsOf(c, d))
NotSent(c, ev) == NoneIn(ev, SendsTo(c))
Gets(d, n, q, t) == (q >= n /\ LastIn(t, Takes, Gifts(d))) \/ LastAfter(t, Enters(n), Takes, Gifts(d))
Rests(n, q, t) == q >= n /\ NoneIn(t, Takes)

\* A grab by c, numbered n or later, is on its way to the server.
Pending(c, n, tk, up, ev) ==
    ~NoneIn(tk, GrabTasks) \/ ~NoneIn(up, UpGrabs(n)) \/ ~NoneIn(ev, GrabsBy(c, n))

\* The screen of c, with content l, shows d, or failed to extract it, or is
\* about to replace it.
Shown(c, d, n, l, tk, up, ev) == l = d \/ d \in Files \/ Pending(c, n, tk, up, ev)

Covers(c) ==
    client[c].online /\ ~dirty[c] /\ clip.owner # c =>
        \/ SentTo(c, clip.data, events) /\ Entered(clip.seq, client[c].seq, toClient[c])
        \/ NotSent(c, events) /\ Gets(clip.data, clip.seq, client[c].seq, toClient[c])
        \/ /\ NotSent(c, events) /\ Rests(clip.seq, client[c].seq, toClient[c])
           /\ Shown(c, clip.data, clip.seq, local[c], tasks[c], toServer[c], events)

ServerCovers ==
    ~dirty[Server] /\ clip.owner # Server =>
        local[Server] = clip.data \/ clip.data \in Files \/ ~NoneIn(events, GrabsBy(Server, 0))

CoverInv == OwnerInv /\ Numbering /\ ServerCovers /\ \A c \in Clients : Covers(c)

\* What is on its way in the stream, when a message is written.
LEMMA StreamAppended ==
    ASSUME NEW t \in Seq(DownMessages), NEW m \in DownMessages, NEW d, NEW n, NEW q
    PROVE  LET u == Append(t, m) IN
           /\ Entered(n, q, t) => Entered(n, q, u)
           /\ m \notin Takes /\ Gets(d, n, q, t) => Gets(d, n, q, u)
           /\ m \notin Takes /\ Rests(n, q, t) => Rests(n, q, u)
           /\ m \in Gifts(d) /\ Entered(n, q, t) => Gets(d, n, q, u)
           /\ m \in Enters(n) => Entered(n, q, u)
  <1> DEFINE u == Append(t, m)
  <1>1. \A S : NoneIn(u, S) <=> NoneIn(t, S) /\ m \notin S
    BY AppendedIn
  <1>2. \A S, X : /\ m \in X => LastIn(u, S, X)
                  /\ m \notin S /\ LastIn(t, S, X) => LastIn(u, S, X)
    BY AppendedIn
  <1>3. \A N, S, X : /\ m \in X /\ ~NoneIn(t, N) => LastAfter(u, N, S, X)
                     /\ m \notin S /\ LastAfter(t, N, S, X) => LastAfter(u, N, S, X)
    BY AppendedIn
  <1> HIDE DEF u
  <1>4. Entered(n, q, t) => Entered(n, q, u)
    BY <1>1 DEF Entered
  <1>5. m \notin Takes /\ Gets(d, n, q, t) => Gets(d, n, q, u)
    BY <1>2, <1>3 DEF Gets
  <1>6. m \notin Takes /\ Rests(n, q, t) => Rests(n, q, u)
    BY <1>1 DEF Rests
  <1>7. m \in Gifts(d) /\ Entered(n, q, t) => Gets(d, n, q, u)
    BY <1>2, <1>3 DEF Gets, Entered
  <1>8. m \in Enters(n) => Entered(n, q, u)
    BY <1>1 DEF Entered
  <1>9. QED
    BY <1>4, <1>5, <1>6, <1>7, <1>8 DEF u

\* And when one is read.
LEMMA StreamTaken ==
    ASSUME NEW t \in Seq(DownMessages), t # <<>>, NEW d, NEW n \in Nat, NEW q \in Seqs, NEW p,
           Rising(q, t), p = IF Head(t).kind = "enter" THEN Head(t).seq ELSE q
    PROVE  /\ Entered(n, q, t) => Entered(n, p, Tail(t))
           /\ Gets(d, n, q, t) => Gets(d, n, p, Tail(t)) \/ (Head(t) \in Gifts(d) /\ Rests(n, p, Tail(t)))
           /\ Rests(n, q, t) => Rests(n, p, Tail(t)) /\ Head(t) \notin Takes
  <1> DEFINE u == Tail(t)
             h == Head(t)
  <1>1. \A S : NoneIn(t, S) <=> NoneIn(u, S) /\ h \notin S
    BY TakenFrom
  <1>2. \A S, X : LastIn(t, S, X) => LastIn(u, S, X) \/ (h \in X /\ NoneIn(u, S))
    BY TakenFrom
  <1>3. \A N, S, X : LastAfter(t, N, S, X) => LastAfter(u, N, S, X) \/ (h \in N /\ LastIn(u, S, X))
    BY TakenFrom
  <1>4. h \in DownMessages /\ Seqs \subseteq Nat
    BY HeadTailProperties, ConstantsAssumption DEF Seqs
  <1>5. h.kind = "enter" => h.seq >= q
    BY RisingTail
  <1>a. h.kind = "enter" => h.seq \in Nat
    BY <1>4 DEF DownMessages
  <1> HIDE DEF u, h
  <1>6. q >= n => p >= n
    BY <1>4, <1>5, <1>a DEF h
  <1>7. h \in Enters(n) => p >= n
    BY DEF Enters, h
  <1>8. Entered(n, q, t) => Entered(n, p, u)
    BY <1>1, <1>6, <1>7 DEF Entered
  <1>9. Gets(d, n, q, t) => Gets(d, n, p, u) \/ (h \in Gifts(d) /\ Rests(n, p, u))
    BY <1>2, <1>3, <1>6, <1>7 DEF Gets, Rests
  <1>10. Rests(n, q, t) => Rests(n, p, u) /\ h \notin Takes
    BY <1>1, <1>6 DEF Rests
  <1>11. QED
    BY <1>8, <1>9, <1>10 DEF u, h

\* What is on its way in the server's queue, when an event is queued for c.
LEMMA QueueAppended ==
    ASSUME NEW c, NEW d, NEW ev \in Seq(Events), NEW e \in Events
    PROVE  /\ e \in SendsOf(c, d) => SentTo(c, d, Append(ev, e))
           /\ e \notin SendsTo(c) /\ SentTo(c, d, ev) => SentTo(c, d, Append(ev, e))
           /\ e \notin SendsTo(c) /\ NotSent(c, ev) => NotSent(c, Append(ev, e))
  BY AppendedIn DEF SentTo, NotSent

\* When a transfer to another client is queued.
LEMMA QueueOthers ==
    ASSUME NEW c, NEW d, NEW ev \in Seq(Events), NEW new, Others(ev, new, c)
    PROVE  /\ SentTo(c, d, ev) => SentTo(c, d, new)
           /\ NotSent(c, ev) => NotSent(c, new)
           /\ \A x, n : ~NoneIn(ev, GrabsBy(x, n)) => ~NoneIn(new, GrabsBy(x, n))
  <1>1. CASE new = ev
    BY <1>1
  <1>2. ASSUME NEW p \in Clients \ {c}, NEW b \in Contents,
               new = Append(ev, [kind |-> "send", to |-> p, data |-> b])
        PROVE  /\ SentTo(c, d, ev) => SentTo(c, d, new)
               /\ NotSent(c, ev) => NotSent(c, new)
               /\ \A x, n : ~NoneIn(ev, GrabsBy(x, n)) => ~NoneIn(new, GrabsBy(x, n))
    <2> DEFINE e == [kind |-> "send", to |-> p, data |-> b]
    <2>1. e \in Events /\ e \notin SendsTo(c)
      BY SendType DEF SendsTo
    <2> HIDE DEF e
    <2>2. \A S : ~NoneIn(ev, S) => ~NoneIn(Append(ev, e), S)
      BY <2>1, AppendedIn
    <2>3. /\ SentTo(c, d, ev) => SentTo(c, d, Append(ev, e))
          /\ NotSent(c, ev) => NotSent(c, Append(ev, e))
      BY <2>1, QueueAppended
    <2>4. new = Append(ev, e)
      BY <1>2 DEF e
    <2>5. QED
      BY <2>2, <2>3, <2>4
  <1>3. QED
    BY <1>1, <1>2 DEF Others

\* When the first event is taken.
LEMMA QueueTaken ==
    ASSUME NEW c, NEW d, NEW ev \in Seq(Events), ev # <<>>
    PROVE  /\ SentTo(c, d, ev) => \/ SentTo(c, d, Tail(ev))
                                  \/ Head(ev) \in SendsOf(c, d) /\ NotSent(c, Tail(ev))
           /\ NotSent(c, ev) => NotSent(c, Tail(ev)) /\ Head(ev) \notin SendsTo(c)
           /\ \A x, n : ~NoneIn(ev, GrabsBy(x, n)) /\ Head(ev) \notin GrabsBy(x, n) =>
                ~NoneIn(Tail(ev), GrabsBy(x, n))
  <1>1. \A S : NoneIn(ev, S) <=> NoneIn(Tail(ev), S) /\ Head(ev) \notin S
    BY TakenFrom
  <1>2. \A S, X : LastIn(ev, S, X) => LastIn(Tail(ev), S, X) \/ (Head(ev) \in X /\ NoneIn(Tail(ev), S))
    BY TakenFrom
  <1>3. QED
    BY <1>1, <1>2 DEF SentTo, NotSent

\* When the events of another client are dropped.
LEMMA QueueKept ==
    ASSUME NEW b \in Clients, NEW c \in Screens \ {b}, NEW d, NEW ev \in Seq(Events)
    PROVE  LET new == Kept(ev, EventsOfOthers(b)) IN
           /\ SentTo(c, d, ev) => SentTo(c, d, new)
           /\ NotSent(c, ev) => NotSent(c, new)
           /\ \A n : ~NoneIn(ev, GrabsBy(c, n)) => ~NoneIn(new, GrabsBy(c, n))
  <1> DEFINE K == EventsOfOthers(b)
             new == Kept(ev, K)
  <1>1. SendsOf(c, d) \subseteq K /\ \A n : GrabsBy(c, n) \subseteq K
    BY DEF SendsOf, GrabsBy, EventsOfOthers
  <1> HIDE DEF K
  <1>2. \A S, X : X \subseteq K /\ LastIn(ev, S, X) => LastIn(new, S, X)
    BY KeptIn
  <1>3. \A S : (NoneIn(ev, S) => NoneIn(new, S)) /\ (S \subseteq K /\ NoneIn(new, S) => NoneIn(ev, S))
    BY KeptIn
  <1> HIDE DEF new
  <1>4. QED
    BY <1>1, <1>2, <1>3 DEF SentTo, NotSent, new, K

\* A step that leaves the server's clipboard as it is, and what is on its way.
LEMMA CoverFrame ==
    ASSUME NEW c \in Clients, Covers(c),
           client'[c].online => client[c].online, ~dirty'[c] => ~dirty[c],
           clip'.owner = clip.owner, clip'.seq = clip.seq, clip'.data = clip.data,
           NotSent(c, events) => NotSent(c, events'),
           SentTo(c, clip.data, events) => SentTo(c, clip.data, events'),
           Entered(clip.seq, client[c].seq, toClient[c]) => Entered(clip.seq, client'[c].seq, toClient'[c]),
           Gets(clip.data, clip.seq, client[c].seq, toClient[c]) =>
             Gets(clip.data, clip.seq, client'[c].seq, toClient'[c]),
           Rests(clip.seq, client[c].seq, toClient[c]) => Rests(clip.seq, client'[c].seq, toClient'[c]),
           Rests(clip.seq, client[c].seq, toClient[c])
             /\ Shown(c, clip.data, clip.seq, local[c], tasks[c], toServer[c], events) =>
                  Shown(c, clip.data, clip.seq, local'[c], tasks'[c], toServer'[c], events')
    PROVE  Covers(c)'
  <1> SUFFICES ASSUME client'[c].online, ~dirty'[c], clip'.owner # c
      PROVE  \/ SentTo(c, clip'.data, events') /\ Entered(clip'.seq, client'[c].seq, toClient'[c])
             \/ NotSent(c, events') /\ Gets(clip'.data, clip'.seq, client'[c].seq, toClient'[c])
             \/ /\ NotSent(c, events') /\ Rests(clip'.seq, client'[c].seq, toClient'[c])
                /\ Shown(c, clip'.data, clip'.seq, local'[c], tasks'[c], toServer'[c], events')
    BY DEF Covers
  <1>1. QED
    BY DEF Covers

\* More in the queues, and the same content, is shown as well.
LEMMA ShownMore ==
    ASSUME NEW c, NEW d, NEW n, NEW l, NEW tk, NEW up, NEW ev, NEW tk1, NEW up1, NEW ev1,
           Shown(c, d, n, l, tk, up, ev),
           ~NoneIn(tk, GrabTasks) => ~NoneIn(tk1, GrabTasks),
           ~NoneIn(up, UpGrabs(n)) => ~NoneIn(up1, UpGrabs(n)),
           ~NoneIn(ev, GrabsBy(c, n)) => ~NoneIn(ev1, GrabsBy(c, n))
    PROVE  Shown(c, d, n, l, tk1, up1, ev1)
  BY DEF Shown, Pending

\* A client that knows a number knows the smaller ones.
LEMMA EnteredLess ==
    ASSUME NEW n \in Nat, NEW k \in Nat, n <= k, NEW q \in Nat, NEW t, Entered(k, q, t)
    PROVE  Entered(n, q, t)
  <1>1. Enters(k) \subseteq Enters(n)
    <2> SUFFICES ASSUME NEW m \in Enters(k) PROVE m \in Enters(n)
      OBVIOUS
    <2>1. m \in DownMessages /\ m.kind = "enter" /\ m.seq >= k
      BY DEF Enters
    <2>2. m.seq \in Nat
      BY <2>1, ConstantsAssumption DEF DownMessages, Seqs
    <2>3. QED
      BY <2>1, <2>2 DEF Enters
  <1>2. NoneIn(t, Enters(n)) => NoneIn(t, Enters(k))
    BY <1>1 DEF NoneIn
  <1>3. QED
    BY <1>2 DEF Entered

\* The types the proofs below keep using.
LEMMA StateTypes ==
    ASSUME TypeOK, NEW c \in Clients
    PROVE  /\ events \in Seq(Events) /\ c \in Screens /\ dirty[c] \in BOOLEAN /\ local[c] \in Contents
           /\ toClient[c] \in Seq(DownMessages) /\ toServer[c] \in Seq(UpMessages) /\ tasks[c] \in Seq(Tasks)
           /\ client[c] \in ClientType /\ client[c].seq \in Seqs /\ client[c].seq \in Nat
           /\ seqNum \in Nat /\ clip.seq \in Nat /\ clip.data \in Contents
           /\ Seqs \subseteq Nat /\ Server \notin Clients
  BY ConstantsAssumption DEF TypeOK, ClientType, Screens, Seqs

\* The sequence test lets only the owner's update pass.
LEMMA AcceptedFromOwner ==
    ASSUME OwnerInv, events # <<>>, Head(events).kind = "changed", ~(Head(events).seq < clip.seq)
    PROVE  Head(events).from = clip.owner
  <1> DEFINE h == Head(events)
  <1>1. events \in Seq(Events) /\ clip.seq \in Nat /\ Seqs \subseteq Nat
    BY ConstantsAssumption DEF OwnerInv, TypeOK, Seqs
  <1>2. h = events[1] /\ 1 \in 1 .. Len(events) /\ h \in Events
    BY <1>1, EmptySeq, LenProperties, ElementOfSeq
  <1>3. h.seq \in Nat
    BY <1>1, <1>2, EventType
  <1>4. Covered(clip.owner, clip.seq, events, h.from, h.seq, 1)
    BY <1>2 DEF OwnerInv, EventsCovered
  <1> HIDE DEF h
  <1>5. clip.seq > h.seq \/ clip.owner = h.from
    BY <1>4 DEF Covered
  <1>6. QED
    BY <1>1, <1>3, <1>5 DEF h

\* One lemma for each action: what covers client c still does.
LEMMA SwitchCoversClient ==
    ASSUME CoverInv, SwitchScreen, NEW c \in Clients
    PROVE  Covers(c)'
  <1>0. /\ OwnerInv /\ Numbering /\ TypeOK /\ TypeOK' /\ Covers(c) /\ c \in Screens
        /\ events \in Seq(Events) /\ toClient[c] \in Seq(DownMessages) /\ client' = client
        /\ tasks' = tasks /\ toServer' = toServer /\ seqNum \in Nat /\ clip.seq \in Nat /\ clip.seq <= seqNum
        /\ clip'.owner = clip.owner /\ clip'.seq = clip.seq /\ clip'.data \in Contents /\ dirty[c] \in BOOLEAN
    <2>1. OwnerInv /\ Numbering /\ TypeOK /\ Covers(c) /\ clip.seq <= seqNum
      BY DEF CoverInv, OwnerInv, Numbering
    <2>2. TypeOK' /\ clip'.owner = clip.owner /\ clip'.seq = clip.seq
      BY <2>1, SwitchEffect
    <2>3. clip'.data \in Contents
      BY <2>2 DEF TypeOK
    <2>4. client' = client /\ tasks' = tasks /\ toServer' = toServer
      BY DEF SwitchScreen
    <2>5. QED
      BY <2>1, <2>2, <2>3, <2>4, StateTypes
  <1> DEFINE enter == [kind |-> "enter", seq |-> seqNum + 1]
             leave == [kind |-> "leave"]
             e == [kind |-> "send", to |-> c, data |-> clip'.data]
  <1>1. /\ enter \in DownMessages /\ enter \notin Takes /\ enter \in Enters(clip.seq)
        /\ leave \in DownMessages /\ leave \notin Takes
    BY <1>0, ConstantsAssumption DEF SwitchScreen, TypeOK, Seqs, DownMessages, Takes, Enters
  <1>2. /\ toClient'[c] = toClient[c] \/ toClient'[c] = Append(toClient[c], leave) \/ toClient'[c] = Append(toClient[c], enter)
        /\ active' = c => toClient'[c] = Append(toClient[c], enter)
    BY <1>0, SwitchEffect
  <1>3. e \in SendsOf(c, clip'.data) /\ e \in Events
    BY <1>0, SendType DEF SendsOf
  <1>4. Served(events, active', c)
    BY <1>0, SwitchServes
  <1>5. CASE /\ c = active'
             /\ events' = Append(events, e)
    <2> HIDE DEF e, enter
    <2>1. SentTo(c, clip'.data, events')
      BY <1>0, <1>3, <1>5, QueueAppended
    <2>2. Entered(clip'.seq, client'[c].seq, toClient'[c])
      BY <1>0, <1>1, <1>2, <1>5, StreamAppended
    <2>3. QED
      BY <2>1, <2>2 DEF Covers
  <1>6. CASE /\ Others(events, events', c) /\ local'[c] = local[c]
             /\ ~dirty[c] /\ clip'.data = clip.data
    <2> HIDE DEF e, enter, leave
    <2>1. /\ NotSent(c, events) => NotSent(c, events')
          /\ SentTo(c, clip.data, events) => SentTo(c, clip.data, events')
          /\ ~NoneIn(events, GrabsBy(c, clip.seq)) => ~NoneIn(events', GrabsBy(c, clip.seq))
      BY <1>0, <1>6, QueueOthers
    <2>2. /\ Entered(clip.seq, client[c].seq, toClient[c]) => Entered(clip.seq, client[c].seq, toClient'[c])
          /\ Gets(clip.data, clip.seq, client[c].seq, toClient[c]) =>
               Gets(clip.data, clip.seq, client[c].seq, toClient'[c])
          /\ Rests(clip.seq, client[c].seq, toClient[c]) => Rests(clip.seq, client[c].seq, toClient'[c])
      BY <1>0, <1>1, <1>2, StreamAppended
    <2>3. Shown(c, clip.data, clip.seq, local[c], tasks[c], toServer[c], events) =>
            Shown(c, clip.data, clip.seq, local[c], tasks[c], toServer[c], events')
      BY <2>1, ShownMore
    <2>4. QED
      BY <1>0, <1>6, <2>1, <2>2, <2>3, CoverFrame
  <1>7. CASE dirty'[c] \/ clip.owner = c \/ ~client[c].online
    BY <1>0, <1>7 DEF Covers
  <1>8. QED
    BY <1>4, <1>5, <1>6, <1>7 DEF Served, Online

LEMMA DispatchCoversClient ==
    ASSUME CoverInv, Dispatch, NEW c \in Clients
    PROVE  Covers(c)'
  <1> DEFINE h == Head(events)
             d == clip.data
             n == clip.seq
             q == client[c].seq
             t == toClient[c]
             ev == Tail(events)
  <1>0. /\ OwnerInv /\ Numbering /\ TypeOK /\ TypeOK' /\ Covers(c) /\ c \in Screens
        /\ events \in Seq(Events) /\ events # <<>> /\ t \in Seq(DownMessages) /\ client' = client
        /\ tasks' = tasks /\ toServer' = toServer /\ seqNum \in Nat /\ clip.seq \in Nat /\ clip.seq <= seqNum
        /\ clip'.data \in Contents /\ dirty[c] \in BOOLEAN /\ q \in Nat /\ Seqs \subseteq Nat
        /\ Server \notin Clients
    <2>1. OwnerInv /\ Numbering /\ TypeOK /\ Covers(c) /\ clip.seq <= seqNum
      BY DEF CoverInv, OwnerInv, Numbering
    <2>2. TypeOK'
      BY <2>1, DispatchEffect
    <2>3. clip'.data \in Contents
      BY <2>2 DEF TypeOK
    <2>4. client' = client /\ tasks' = tasks /\ toServer' = toServer /\ events # <<>>
      BY DEF Dispatch
    <2>5. QED
      BY <2>1, <2>2, <2>3, <2>4, StateTypes
  <1>1. Handled(h) /\ HandledFor(h, c) /\ h \in Events /\ ev \in Seq(Events)
    BY <1>0, DispatchEffect, DispatchServes, HeadTailProperties
  <1>2. /\ SentTo(c, d, events) => SentTo(c, d, ev) \/ (h \in SendsOf(c, d) /\ NotSent(c, ev))
        /\ NotSent(c, events) => NotSent(c, ev) /\ h \notin SendsTo(c)
        /\ ~NoneIn(events, GrabsBy(c, n)) /\ h \notin GrabsBy(c, n) => ~NoneIn(ev, GrabsBy(c, n))
    BY <1>0, QueueTaken
  <1>3. ASSUME h \notin GrabsBy(c, n), Shown(c, d, n, local[c], tasks[c], toServer[c], events)
        PROVE  Shown(c, d, n, local[c], tasks[c], toServer[c], ev)
    BY <1>2, <1>3, ShownMore
  <1> HIDE DEF h, d, n, q, t, ev
  <1>4. CASE h.kind = "send"
    <2> DEFINE m == [kind |-> "data", data |-> h.data]
    <2>1. m \in DownMessages /\ h.to \in Clients
      BY <1>1, <1>4, EventType DEF DownMessages
    <2>2. /\ clip' = clip /\ events' = ev /\ dirty' = dirty /\ local' = local
          /\ toClient' = [toClient EXCEPT ![h.to] = Append(@, m)]
      BY <1>1, <1>4 DEF Handled, HandledFor, ev
    <2>3. h \notin GrabsBy(c, n)
      BY <1>4 DEF GrabsBy
    <2> HIDE DEF m
    <2>4. CASE h.to # c
      <3>1. toClient'[c] = t
        BY <1>0, <2>2, <2>4 DEF TypeOK, t
      <3>2. h \notin SendsOf(c, d)
        BY <2>4 DEF SendsOf
      <3>3. /\ SentTo(c, clip.data, events) => SentTo(c, clip.data, events')
            /\ NotSent(c, events) => NotSent(c, events')
            /\ Shown(c, clip.data, clip.seq, local[c], tasks[c], toServer[c], events) =>
                 Shown(c, clip.data, clip.seq, local[c], tasks[c], toServer[c], events')
        BY <1>2, <1>3, <2>2, <2>3, <3>2 DEF d, n
      <3>4. QED
        BY <1>0, <2>2, <3>1, <3>3, CoverFrame DEF t
    <2>5. CASE h.to = c
      <3>1. toClient'[c] = Append(t, m) /\ h \in SendsTo(c)
        BY <1>0, <1>1, <1>4, <2>1, <2>2, <2>5 DEF TypeOK, t, SendsTo
      <3>2. h \in SendsOf(c, d) => m \in Gifts(d)
        BY <2>1 DEF SendsOf, Gifts, m
      <3>3. /\ Entered(n, q, t) => Entered(n, q, Append(t, m))
            /\ m \in Gifts(d) /\ Entered(n, q, t) => Gets(d, n, q, Append(t, m))
        BY <1>0, <2>1, StreamAppended
      <3>4. SUFFICES ASSUME client[c].online, ~dirty[c], clip.owner # c
            PROVE  \/ SentTo(c, d, events') /\ Entered(n, q, toClient'[c])
                   \/ NotSent(c, events') /\ Gets(d, n, q, toClient'[c])
        BY <1>0, <2>2 DEF Covers, d, n, q
      <3>5. SentTo(c, d, events) /\ Entered(n, q, t)
        BY <1>0, <1>2, <3>1, <3>4 DEF Covers, d, n, q, t
      <3>6. QED
        BY <1>2, <2>2, <3>1, <3>2, <3>3, <3>5
    <2>6. QED
      BY <2>4, <2>5
  <1>5. CASE h.kind = "grabbed" /\ h.from # Server /\ h.seq < clip.seq
    <2>1. clip' = clip /\ events' = ev /\ toClient' = toClient
      BY <1>1, <1>5 DEF Handled, ev
    <2>2. dirty' = dirty /\ local' = local
      BY <1>1, <1>5 DEF HandledFor
    <2>3. h.seq \in Nat
      BY <1>0, <1>1, <1>5, EventType
    <2>4. h \notin GrabsBy(c, n) /\ h \notin SendsOf(c, d)
      BY <1>0, <1>5, <2>3 DEF GrabsBy, SendsOf, n
    <2>5. /\ SentTo(c, clip.data, events) => SentTo(c, clip.data, events')
          /\ NotSent(c, events) => NotSent(c, events')
          /\ Shown(c, clip.data, clip.seq, local[c], tasks[c], toServer[c], events) =>
               Shown(c, clip.data, clip.seq, local[c], tasks[c], toServer[c], events')
      BY <1>2, <1>3, <2>1, <2>4 DEF d, n
    <2>6. QED
      BY <1>0, <2>1, <2>2, <2>5, CoverFrame
  <1>6. CASE h.kind = "grabbed" /\ (h.from = Server \/ ~(h.seq < clip.seq))
    <2>1. clip'.owner = h.from
      BY <1>1, <1>6 DEF Handled
    <2>2. c \in Online => dirty'[c] = (c # h.from)
      BY <1>1, <1>6 DEF HandledFor
    <2>3. QED
      BY <1>0, <2>1, <2>2 DEF Covers, Online
  <1>7. CASE h.kind = "changed"
    <2>1. clip'.owner = clip.owner /\ clip'.seq = clip.seq /\ toClient' = toClient
      BY <1>1, <1>7 DEF Handled
    <2>2. ~(h.seq < clip.seq) => h.from = clip.owner
      BY <1>0, <1>7, AcceptedFromOwner DEF h
    <2>3. Served(ev, active, c)
      BY <1>1, <1>7, <2>2 DEF HandledFor, ev
    <2> DEFINE e == [kind |-> "send", to |-> c, data |-> clip'.data]
    <2>4. CASE c = active /\ events' = Append(ev, e)
      <3>1. e \in SendsOf(c, clip'.data) /\ e \in Events
        BY <1>0, SendType DEF SendsOf
      <3> HIDE DEF e
      <3>2. SentTo(c, clip'.data, events')
        BY <1>1, <2>4, <3>1, QueueAppended
      <3>3. Entered(seqNum, q, t)
        BY <1>0, <2>4 DEF Numbering, q, t
      <3>4. Entered(clip.seq, q, t)
        BY <1>0, <3>3, EnteredLess
      <3>5. QED
        BY <1>0, <2>1, <3>2, <3>4 DEF Covers, q, t
    <2>5. CASE Others(ev, events', c) /\ local'[c] = local[c] /\ ~dirty[c] /\ clip'.data = clip.data
      <3>1. h \notin GrabsBy(c, n) /\ h \notin SendsOf(c, d)
        BY <1>7 DEF GrabsBy, SendsOf
      <3>2. /\ NotSent(c, ev) => NotSent(c, events')
            /\ SentTo(c, d, ev) => SentTo(c, d, events')
            /\ ~NoneIn(ev, GrabsBy(c, n)) => ~NoneIn(events', GrabsBy(c, n))
        BY <1>1, <2>5, QueueOthers
      <3>3. /\ SentTo(c, clip.data, events) => SentTo(c, clip.data, events')
            /\ NotSent(c, events) => NotSent(c, events')
        BY <1>2, <3>1, <3>2 DEF d
      <3>4. Shown(c, d, n, local[c], tasks[c], toServer[c], events) =>
              Shown(c, d, n, local[c], tasks[c], toServer[c], events')
        BY <1>3, <3>1, <3>2, ShownMore
      <3>5. QED
        BY <1>0, <2>1, <2>5, <3>3, <3>4, CoverFrame DEF d, n
    <2>6. CASE dirty'[c] \/ clip.owner = c \/ ~client[c].online
      BY <1>0, <2>1, <2>6 DEF Covers
    <2>7. QED
      BY <2>3, <2>4, <2>5, <2>6 DEF Served, Online
  <1>8. QED
    BY <1>1, <1>4, <1>5, <1>6, <1>7, EventType

LEMMA ReadCoversClient ==
    ASSUME CoverInv, NEW b \in Clients, Receive(b), events' = Append(events, ReadEvent(b)), NEW c \in Clients
    PROVE  Covers(c)'
  <1> DEFINE m == Head(toServer[b])
             e == [kind |-> IF m.kind = "grab" THEN "grabbed" ELSE "changed", from |-> b, seq |-> m.seq]
             n == clip.seq
  <1>0. /\ TypeOK /\ Covers(c) /\ events \in Seq(Events) /\ toServer[c] \in Seq(UpMessages)
        /\ toServer[b] \in Seq(UpMessages) /\ toServer[b] # <<>> /\ toServer \in [Clients -> Seq(UpMessages)]
    BY StateTypes DEF CoverInv, OwnerInv, TypeOK, Receive
  <1>1. /\ client' = client /\ dirty' = dirty /\ clip' = clip /\ local' = local /\ tasks' = tasks
        /\ toClient' = toClient /\ toServer' = [toServer EXCEPT ![b] = Tail(@)]
    BY DEF Receive
  <1>2. events' = Append(events, e)
    BY DEF ReadEvent
  <1>3. m \in UpMessages
    BY <1>0, HeadTailProperties
  <1>4. m.kind \in {"grab", "data"} /\ m.seq \in Seqs
    BY <1>3 DEF UpMessages
  <1>5. e \in Events /\ e \notin SendsTo(c)
    BY <1>4 DEF Events, Screens, SendsTo
  <1>6. b = c /\ m \in UpGrabs(n) => e \in GrabsBy(c, n)
    BY <1>4, <1>5 DEF UpGrabs, GrabsBy
  <1> HIDE DEF e, m, n
  <1>7. /\ NotSent(c, events) => NotSent(c, events')
        /\ SentTo(c, clip.data, events) => SentTo(c, clip.data, events')
    BY <1>0, <1>2, <1>5, QueueAppended
  <1>8. \A S : NoneIn(Append(events, e), S) <=> NoneIn(events, S) /\ e \notin S
    BY <1>0, <1>5, AppendedIn
  <1>9. ~NoneIn(toServer[c], UpGrabs(n)) => ~NoneIn(toServer'[c], UpGrabs(n)) \/ ~NoneIn(events', GrabsBy(c, n))
    <2>1. CASE b # c
      BY <1>0, <1>1, <2>1
    <2>2. CASE b = c
      <3>1. \A S : NoneIn(toServer[c], S) <=> NoneIn(Tail(toServer[c]), S) /\ Head(toServer[c]) \notin S
        BY <1>0, <2>2, TakenFrom
      <3>2. QED
        BY <1>0, <1>1, <1>2, <1>6, <1>8, <2>2, <3>1 DEF m
    <2>3. QED
      BY <2>1, <2>2
  <1>10. Shown(c, clip.data, n, local[c], tasks[c], toServer[c], events) =>
           Shown(c, clip.data, n, local[c], tasks[c], toServer'[c], events')
    BY <1>2, <1>8, <1>9 DEF Shown, Pending
  <1>11. QED
    BY <1>0, <1>1, <1>7, <1>10, CoverFrame DEF n

\* The upload of client b is lost.
LEMMA DropCoversClient ==
    ASSUME CoverInv, NEW b \in Clients, Receive(b), events' = events, Head(toServer[b]).kind = "data",
           NEW c \in Clients
    PROVE  Covers(c)'
  <1>0. /\ TypeOK /\ Covers(c) /\ toServer[b] \in Seq(UpMessages) /\ toServer[b] # <<>>
        /\ toServer \in [Clients -> Seq(UpMessages)]
    BY StateTypes DEF CoverInv, OwnerInv, TypeOK, Receive
  <1>1. /\ client' = client /\ dirty' = dirty /\ clip' = clip /\ local' = local /\ tasks' = tasks
        /\ toClient' = toClient /\ toServer' = [toServer EXCEPT ![b] = Tail(@)]
    BY DEF Receive
  <1>2. Head(toServer[b]) \notin UpGrabs(clip.seq)
    BY DEF UpGrabs
  <1>3. ~NoneIn(toServer[c], UpGrabs(clip.seq)) => ~NoneIn(toServer'[c], UpGrabs(clip.seq))
    <2>1. CASE b # c
      BY <1>0, <1>1, <2>1
    <2>2. CASE b = c
      <3>1. \A S : NoneIn(toServer[c], S) <=> NoneIn(Tail(toServer[c]), S) /\ Head(toServer[c]) \notin S
        BY <1>0, <2>2, TakenFrom
      <3>2. QED
        BY <1>0, <1>1, <1>2, <2>2, <3>1
    <2>3. QED
      BY <2>1, <2>2
  <1>4. Shown(c, clip.data, clip.seq, local[c], tasks[c], toServer[c], events) =>
          Shown(c, clip.data, clip.seq, local[c], tasks[c], toServer'[c], events)
    BY <1>3 DEF Shown, Pending
  <1>5. QED
    BY <1>0, <1>1, <1>4, CoverFrame

LEMMA ReceiveCoversClient ==
    ASSUME CoverInv, NEW b \in Clients, Receive(b), NEW c \in Clients
    PROVE  Covers(c)'
  <1>1. TypeOK
    BY DEF CoverInv, OwnerInv
  <1>2. QED
    BY <1>1, ReceiveEffect, ReadCoversClient, DropCoversClient

LEMMA CopyCoversClient ==
    ASSUME CoverInv, CopyOnServer, NEW c \in Clients
    PROVE  Covers(c)'
  <1> DEFINE e == [kind |-> "grabbed", from |-> Server, seq |-> primarySeq]
  <1>0. TypeOK /\ Covers(c) /\ events \in Seq(Events) /\ c # Server /\ local \in [Screens -> Contents]
    BY StateTypes DEF CoverInv, OwnerInv, TypeOK
  <1>1. /\ client' = client /\ dirty' = dirty /\ clip' = clip /\ tasks' = tasks
        /\ toClient' = toClient /\ toServer' = toServer /\ events' = Append(events, e)
    BY DEF CopyOnServer
  <1>2. local'[c] = local[c]
    BY <1>0 DEF CopyOnServer, Screens
  <1>3. e \in Events /\ e \notin SendsTo(c)
    BY <1>0 DEF TypeOK, Events, Screens, SendsTo
  <1> HIDE DEF e
  <1>4. /\ NotSent(c, events) => NotSent(c, events')
        /\ SentTo(c, clip.data, events) => SentTo(c, clip.data, events')
    BY <1>0, <1>1, <1>3, QueueAppended
  <1>a. \A S : ~NoneIn(events, S) => ~NoneIn(Append(events, e), S)
    BY <1>0, <1>3, AppendedIn
  <1>5. Shown(c, clip.data, clip.seq, local[c], tasks[c], toServer[c], events) =>
          Shown(c, clip.data, clip.seq, local[c], tasks[c], toServer[c], events')
    BY <1>1, <1>a, ShownMore
  <1>6. QED
    BY <1>0, <1>1, <1>2, <1>4, <1>5, CoverFrame

\* The tasks of a client grow by what sendClipboard returns.
LEMMA TasksGrow ==
    ASSUME TypeOK, NEW c \in Clients, NEW ok, NEW s \in Seq(Tasks)
    PROVE  /\ NoneIn(s \o sendClipboard(c, ok), GrabTasks) <=> NoneIn(s, GrabTasks)
           /\ local[c] \notin Files /\ ~clientRefuses(local[c]) =>
                LastIn(s \o sendClipboard(c, ok), SendTasks, SendTask(local[c], client[c].seq))
  <1> DEFINE t == [kind |-> "send", data |-> local[c], seq |-> client[c].seq]
  <1>1. t \in Tasks /\ t \notin GrabTasks /\ t \in SendTask(local[c], client[c].seq)
    BY DEF Tasks, ClientType, Screens, TypeOK, GrabTasks, SendTask
  <1>2. sendClipboard(c, ok) = <<>> \/ sendClipboard(c, ok) = <<t>>
    BY SendClipboardType
  <1>3. local[c] \notin Files /\ ~clientRefuses(local[c]) => sendClipboard(c, ok) = <<t>>
    BY DEF sendClipboard, works
  <1> HIDE DEF t
  <1>4. s \o <<>> = s
    BY ConcatEmptySeq
  <1>5. s \o <<t>> = Append(s, t)
    BY <1>1, AppendIsConcat
  <1>6. \A S : NoneIn(Append(s, t), S) <=> NoneIn(s, S) /\ t \notin S
    BY <1>1, AppendedIn
  <1>7. \A S, X : t \in X => LastIn(Append(s, t), S, X)
    BY <1>1, AppendedIn
  <1>8. QED
    BY <1>1, <1>2, <1>3, <1>4, <1>5, <1>6, <1>7

LEMMA ObeyCoversClient ==
    ASSUME CoverInv, [Next]_vars, NEW b \in Clients, Obey(b), NEW c \in Clients
    PROVE  Covers(c)'
  <1> DEFINE t == toClient[c]
             q == client[c].seq
             p == client'[c].seq
             d == clip.data
             n == clip.seq
  <1>0. /\ OwnerInv /\ TypeOK /\ Covers(c) /\ t \in Seq(DownMessages) /\ q \in Seqs /\ n \in Nat /\ Rising(q, t)
        /\ tasks[c] \in Seq(Tasks) /\ client \in [Clients -> ClientType] /\ client[c] \in ClientType
        /\ toClient \in [Clients -> Seq(DownMessages)] /\ tasks \in [Clients -> Seq(Tasks)]
        /\ local \in [Screens -> Contents] /\ c \in Screens
    BY StateTypes DEF CoverInv, OwnerInv, Numbering, TypeOK
  <1>1. /\ dirty' = dirty /\ clip' = clip /\ toServer' = toServer /\ events' = events
    BY DEF Obey
  <1>2. CASE b # c
    <2>1. client'[c] = client[c] /\ toClient'[c] = t /\ local'[c] = local[c] /\ tasks'[c] = tasks[c]
      <3>1. CASE ObeyEnter(b)
        BY <1>0, <1>2, <3>1 DEF ObeyEnter
      <3>2. CASE ObeyLeave(b)
        BY <1>0, <1>2, <3>2 DEF ObeyLeave
      <3>3. CASE ObeyGrab(b)
        BY <1>0, <1>2, <3>3 DEF ObeyGrab
      <3>4. CASE ObeyData(b)
        BY <1>0, <1>2, <3>4 DEF ObeyData
      <3>5. QED
        BY <3>1, <3>2, <3>3, <3>4 DEF Obey
    <2>2. QED
      BY <1>0, <1>1, <2>1, CoverFrame
  <1>3. CASE b = c
    <2>1. t # <<>> /\ toClient'[c] = Tail(t)
      BY <1>0, <1>3 DEF Obey, ObeyEnter, ObeyLeave, ObeyGrab, ObeyData
    <2>2. p = IF Head(t).kind = "enter" THEN Head(t).seq ELSE q
      <3>1. CASE ObeyEnter(c)
        BY <1>0, <3>1 DEF ObeyEnter, ClientType
      <3>2. CASE ObeyLeave(c)
        BY <1>0, <3>2 DEF ObeyLeave, ClientType
      <3>3. CASE ObeyGrab(c)
        BY <1>0, <3>3 DEF ObeyGrab, ClientType
      <3>4. CASE ObeyData(c)
        <4>1. client' = [client EXCEPT ![c].own = FALSE] \/ client' = client
          BY <3>4 DEF ObeyData
        <4>2. client'[c].seq = client[c].seq
          BY <1>0, <4>1 DEF ClientType
        <4>3. QED
          BY <3>4, <4>2 DEF ObeyData
      <3>5. QED
        BY <1>3, <3>1, <3>2, <3>3, <3>4 DEF Obey
    <2>3. client'[c].online = client[c].online
      <3>1. CASE ObeyData(c)
        <4>1. client' = [client EXCEPT ![c].own = FALSE] \/ client' = client
          BY <3>1 DEF ObeyData
        <4>2. QED
          BY <1>0, <4>1 DEF ClientType
      <3>2. CASE ObeyEnter(c) \/ ObeyLeave(c) \/ ObeyGrab(c)
        BY <1>0, <3>2 DEF ObeyEnter, ObeyLeave, ObeyGrab, ClientType
      <3>3. QED
        BY <1>3, <3>1, <3>2 DEF Obey
    <2>4. /\ Entered(n, q, t) => Entered(n, p, Tail(t))
          /\ Gets(d, n, q, t) => Gets(d, n, p, Tail(t)) \/ (Head(t) \in Gifts(d) /\ Rests(n, p, Tail(t)))
          /\ Rests(n, q, t) => Rests(n, p, Tail(t)) /\ Head(t) \notin Takes
      BY <1>0, <2>1, <2>2, StreamTaken
    <2>5. Head(t) \in DownMessages
      BY <1>0, <2>1, HeadTailProperties
    <2>6. CASE Head(t).kind \in {"enter", "leave"}
      <3>1. local'[c] = local[c]
        BY <1>3, <2>6 DEF Obey, ObeyEnter, ObeyLeave, ObeyGrab, ObeyData
      <3>2. ~NoneIn(tasks[c], GrabTasks) => ~NoneIn(tasks'[c], GrabTasks)
        <4>1. CASE tasks' = tasks
          BY <4>1
        <4>2. ASSUME NEW ok \in Outcomes, tasks' = [tasks EXCEPT ![c] = @ \o sendClipboard(c, ok)]
              PROVE  ~NoneIn(tasks[c], GrabTasks) => ~NoneIn(tasks'[c], GrabTasks)
          BY <1>0, <4>2, TasksGrow
        <4>3. QED
          BY <1>3, <2>6, <4>1, <4>2 DEF Obey, ObeyEnter, ObeyLeave, ObeyGrab, ObeyData
      <3>3. Head(t) \notin Gifts(d)
        BY <2>6 DEF Gifts
      <3>4. Shown(c, d, n, local[c], tasks[c], toServer[c], events) =>
              Shown(c, d, n, local'[c], tasks'[c], toServer[c], events)
        BY <3>1, <3>2, ShownMore
      <3>5. QED
        BY <1>0, <1>1, <2>1, <2>3, <2>4, <3>3, <3>4, CoverFrame
    <2>7. CASE Head(t).kind \in {"grab", "data"}
      <3>1. Head(t) \in Takes
        BY <2>5, <2>7 DEF Takes
      <3>2. Head(t) \in Gifts(d) => local'[c] = d \/ d \in Files
        <4> SUFFICES ASSUME Head(t).kind = "data", Head(t).data = d PROVE local'[c] = d \/ d \in Files
          BY DEF Gifts
        <4>1. ObeyData(c)
          BY <1>3 DEF Obey, ObeyEnter, ObeyLeave, ObeyGrab
        <4>2. PICK ok \in Outcomes : IF works(d, ok) THEN local' = [local EXCEPT ![c] = d] ELSE TRUE
          BY <4>1 DEF ObeyData
        <4>3. QED
          BY <1>0, <4>2 DEF works
      <3>3. SUFFICES ASSUME client[c].online, ~dirty[c], clip.owner # c
            PROVE  \/ SentTo(c, d, events) /\ Entered(n, p, Tail(t))
                   \/ NotSent(c, events) /\ Gets(d, n, p, Tail(t))
                   \/ /\ NotSent(c, events) /\ Rests(n, p, Tail(t))
                      /\ Shown(c, d, n, local'[c], tasks'[c], toServer[c], events)
        BY <1>1, <2>1, <2>3 DEF Covers
      <3>4. \/ SentTo(c, d, events) /\ Entered(n, q, t)
            \/ NotSent(c, events) /\ Gets(d, n, q, t)
        BY <1>0, <2>4, <3>1, <3>3 DEF Covers
      <3>5. QED
        BY <2>4, <3>2, <3>4 DEF Shown
    <2>8. QED
      BY <2>5, <2>6, <2>7 DEF DownMessages
  <1>4. QED
    BY <1>2, <1>3

LEMMA CopyingCoversClient ==
    ASSUME CoverInv, NEW b \in Clients, CopyOnClient(b), NEW c \in Clients
    PROVE  Covers(c)'
  <1>0. /\ TypeOK /\ Covers(c) /\ tasks[c] \in Seq(Tasks) /\ tasks \in [Clients -> Seq(Tasks)]
        /\ local \in [Screens -> Contents] /\ c \in Screens /\ b \in Screens
    BY StateTypes DEF CoverInv, OwnerInv, TypeOK, Screens
  <1>1. /\ client' = client /\ dirty' = dirty /\ clip' = clip /\ toServer' = toServer
        /\ toClient' = toClient /\ events' = events
    BY DEF CopyOnClient
  <1>2. CASE b # c
    <2>1. local'[c] = local[c] /\ tasks'[c] = tasks[c]
      BY <1>0, <1>2 DEF CopyOnClient
    <2>2. QED
      BY <1>0, <1>1, <2>1, CoverFrame
  <1>3. CASE b = c
    <2> DEFINE g == [kind |-> "grabbed"]
    <2>1. g \in Tasks /\ g \in GrabTasks
      BY DEF Tasks, GrabTasks
    <2>2. tasks'[c] = Append(tasks[c], g)
      BY <1>0, <1>3 DEF CopyOnClient
    <2> HIDE DEF g
    <2>a. \A S : NoneIn(Append(tasks[c], g), S) <=> NoneIn(tasks[c], S) /\ g \notin S
      BY <1>0, <2>1, AppendedIn
    <2>3. ~NoneIn(tasks'[c], GrabTasks)
      BY <2>1, <2>2, <2>a
    <2>4. Shown(c, clip.data, clip.seq, local'[c], tasks'[c], toServer[c], events)
      BY <2>3 DEF Shown, Pending
    <2>5. QED
      BY <1>0, <1>1, <2>4, CoverFrame
  <1>4. QED
    BY <1>2, <1>3

\* What client c does with its next task.
LEMMA WorkEffect ==
    ASSUME TypeOK, NEW c \in Clients, Work(c)
    PROVE  /\ tasks[c] # <<>> /\ Head(tasks[c]) \in Tasks
           /\ \/ /\ Head(tasks[c]).kind = "send" /\ client' = client /\ tasks'[c] = Tail(tasks[c])
                 /\ \E m \in UpMessages :
                      /\ m.kind = "data" /\ m.data = Head(tasks[c]).data /\ m.seq = Head(tasks[c]).seq
                      /\ toServer'[c] = Append(toServer[c], m)
              \/ /\ Head(tasks[c]).kind = "grabbed"
                 /\ client'[c].own = TRUE /\ client'[c].timed = ~client[c].active
                 /\ client'[c].seq = client[c].seq /\ client'[c].active = client[c].active
                 /\ client'[c].online = client[c].online
                 /\ \E m \in UpMessages : m.kind = "grab" /\ m.seq = client[c].seq
                                          /\ toServer'[c] = Append(toServer[c], m)
                 /\ \E ok \in Outcomes : tasks'[c] = IF client[c].active THEN Tail(tasks[c])
                                                     ELSE Tail(tasks[c]) \o sendClipboard(c, ok)
  <1> DEFINE t == Head(tasks[c])
             d == [kind |-> "data", data |-> t.data, seq |-> t.seq]
             g == [kind |-> "grab", seq |-> client[c].seq]
  <1>0. /\ tasks[c] # <<>> /\ t \in Tasks /\ client \in [Clients -> ClientType] /\ client[c] \in ClientType
        /\ toServer \in [Clients -> Seq(UpMessages)] /\ tasks \in [Clients -> Seq(Tasks)]
    BY HeadTailProperties DEF TypeOK, Work
  <1>1. t.kind \in {"send", "grabbed"}
    BY <1>0 DEF Tasks
  <1>2. CASE t.kind = "send"
    <2>1. d \in UpMessages
      BY <1>0, <1>2 DEF Tasks, UpMessages
    <2>2. client' = client /\ tasks'[c] = Tail(tasks[c]) /\ toServer'[c] = Append(toServer[c], d)
      BY <1>0, <1>2 DEF Work
    <2>3. QED
      BY <1>0, <1>2, <2>1, <2>2
  <1>3. CASE t.kind = "grabbed"
    <2>1. g \in UpMessages
      BY <1>0 DEF ClientType, UpMessages
    <2>2. toServer'[c] = Append(toServer[c], g)
      BY <1>0, <1>3 DEF Work
    <2>3. client' = [client EXCEPT ![c].own = TRUE, ![c].timed = ~client[c].active]
      BY <1>3 DEF Work
    <2>4. /\ client'[c].own = TRUE /\ client'[c].timed = ~client[c].active
          /\ client'[c].seq = client[c].seq /\ client'[c].active = client[c].active
          /\ client'[c].online = client[c].online
      BY <1>0, <2>3 DEF ClientType
    <2>5. PICK ok \in Outcomes : tasks' = [tasks EXCEPT ![c] = IF client[c].active THEN Tail(tasks[c])
                                                             ELSE Tail(tasks[c]) \o sendClipboard(c, ok)]
      BY <1>3 DEF Work
    <2>6. tasks'[c] = IF client[c].active THEN Tail(tasks[c]) ELSE Tail(tasks[c]) \o sendClipboard(c, ok)
      BY <1>0, <2>5
    <2>7. QED
      BY <1>0, <1>3, <2>1, <2>2, <2>4, <2>6
  <1>4. QED
    BY <1>1, <1>2, <1>3

LEMMA WorkCoversClient ==
    ASSUME CoverInv, NEW b \in Clients, Work(b), NEW c \in Clients
    PROVE  Covers(c)'
  <1> DEFINE n == clip.seq
  <1>0. /\ TypeOK /\ Covers(c) /\ tasks[c] \in Seq(Tasks) /\ tasks \in [Clients -> Seq(Tasks)]
        /\ toServer[c] \in Seq(UpMessages) /\ toServer \in [Clients -> Seq(UpMessages)]
        /\ client \in [Clients -> ClientType]
    BY StateTypes DEF CoverInv, OwnerInv, TypeOK
  <1>1. dirty' = dirty /\ clip' = clip /\ local' = local /\ toClient' = toClient /\ events' = events
    BY DEF Work
  <1>2. CASE b # c
    <2>1. client'[c] = client[c] /\ tasks'[c] = tasks[c] /\ toServer'[c] = toServer[c]
      BY <1>0, <1>2 DEF Work
    <2>2. QED
      BY <1>0, <1>1, <2>1, CoverFrame
  <1>3. CASE b = c
    <2>0. tasks[c] # <<>>
      BY <1>3 DEF Work
    <2>1. \A S : NoneIn(tasks[c], S) <=> NoneIn(Tail(tasks[c]), S) /\ Head(tasks[c]) \notin S
      BY <1>0, <2>0, TakenFrom
    <2>2. ASSUME NEW m \in UpMessages
          PROVE  \A S : NoneIn(Append(toServer[c], m), S) <=> NoneIn(toServer[c], S) /\ m \notin S
      BY <1>0, AppendedIn
    <2>3. CASE Head(tasks[c]).kind = "send"
      <3>1. /\ client' = client /\ tasks'[c] = Tail(tasks[c])
            /\ \E m \in UpMessages : toServer'[c] = Append(toServer[c], m)
        BY <1>0, <1>3, <2>3, WorkEffect
      <3>2. Head(tasks[c]) \notin GrabTasks
        BY <2>3 DEF GrabTasks
      <3>3. Shown(c, clip.data, n, local[c], tasks[c], toServer[c], events) =>
              Shown(c, clip.data, n, local[c], tasks'[c], toServer'[c], events)
        BY <2>1, <2>2, <3>1, <3>2 DEF Shown, Pending
      <3>4. QED
        BY <1>0, <1>1, <3>1, <3>3, CoverFrame
    <2>4. CASE Head(tasks[c]).kind = "grabbed"
      <3>1. /\ client'[c].seq = client[c].seq /\ client'[c].online = client[c].online
            /\ \E m \in UpMessages : m.kind = "grab" /\ m.seq = client[c].seq
                                     /\ toServer'[c] = Append(toServer[c], m)
        BY <1>0, <1>3, <2>4, WorkEffect
      <3>2. client[c].seq >= n => ~NoneIn(toServer'[c], UpGrabs(n))
        BY <2>2, <3>1 DEF UpGrabs
      <3>3. Rests(n, client[c].seq, toClient[c]) =>
              Shown(c, clip.data, n, local[c], tasks'[c], toServer'[c], events)
        BY <3>2 DEF Shown, Pending, Rests
      <3>4. QED
        BY <1>0, <1>1, <3>1, <3>3, CoverFrame
    <2>5. QED
      BY <1>0, <1>3, <2>3, <2>4, WorkEffect
  <1>4. QED
    BY <1>2, <1>3

LEMMA LoseCoversClient ==
    ASSUME CoverInv, NEW b \in Clients, Lose(b), NEW c \in Clients
    PROVE  Covers(c)'
  <1>0. /\ TypeOK /\ Covers(c) /\ events \in Seq(Events) /\ tasks \in [Clients -> Seq(Tasks)]
        /\ toServer \in [Clients -> Seq(UpMessages)] /\ toClient \in [Clients -> Seq(DownMessages)]
        /\ client \in [Clients -> ClientType] /\ c \in Screens
    BY StateTypes DEF CoverInv, OwnerInv, TypeOK
  <1>1. dirty' = dirty /\ clip' = clip /\ local' = local /\ events' = Kept(events, EventsOfOthers(b))
    BY DEF Lose
  <1>2. CASE b = c
    <2>1. client'[c].online = FALSE
      BY <1>0, <1>2 DEF Lose
    <2>2. QED
      BY <2>1 DEF Covers
  <1>3. CASE b # c
    <2>1. client'[c] = client[c] /\ tasks'[c] = tasks[c] /\ toServer'[c] = toServer[c] /\ toClient'[c] = toClient[c]
      BY <1>0, <1>3 DEF Lose
    <2>2. /\ SentTo(c, clip.data, events) => SentTo(c, clip.data, events')
          /\ NotSent(c, events) => NotSent(c, events')
          /\ \A n : ~NoneIn(events, GrabsBy(c, n)) => ~NoneIn(events', GrabsBy(c, n))
      BY <1>0, <1>1, <1>3, QueueKept
    <2>3. Shown(c, clip.data, clip.seq, local[c], tasks[c], toServer[c], events) =>
            Shown(c, clip.data, clip.seq, local[c], tasks[c], toServer[c], events')
      BY <2>2, ShownMore
    <2>4. QED
      BY <1>0, <1>1, <2>1, <2>2, <2>3, CoverFrame
  <1>4. QED
    BY <1>2, <1>3

LEMMA ReconnectCoversClient ==
    ASSUME CoverInv, NEW b \in Clients, Reconnect(b), NEW c \in Clients
    PROVE  Covers(c)'
  <1>0. /\ TypeOK /\ Covers(c) /\ client \in [Clients -> ClientType] /\ c \in Screens /\ b \in Screens
        /\ dirty \in [Screens -> BOOLEAN] /\ local \in [Screens -> Contents]
    BY StateTypes DEF CoverInv, OwnerInv, TypeOK
  <1>1. clip' = clip /\ UNCHANGED wires
    BY DEF Reconnect
  <1>2. CASE b = c
    <2>1. dirty'[c] = TRUE
      BY <1>0, <1>2 DEF Reconnect
    <2>2. QED
      BY <2>1 DEF Covers
  <1>3. CASE b # c
    <2>1. client'[c] = client[c] /\ dirty'[c] = dirty[c] /\ local'[c] = local[c]
      BY <1>0, <1>3 DEF Reconnect
    <2>2. QED
      BY <1>0, <1>1, <2>1, CoverFrame DEF wires
  <1>4. QED
    BY <1>2, <1>3

\* The same for the server's own screen.
LEMMA ServerCoversStep ==
    ASSUME CoverInv, [Next]_vars
    PROVE  ServerCovers'
  <1> DEFINE G == GrabsBy(Server, 0)
  <1>0. /\ TypeOK /\ OwnerInv /\ ServerCovers /\ events \in Seq(Events) /\ Server \in Screens /\ Server \in Online
        /\ Server \notin Clients /\ dirty[Server] \in BOOLEAN /\ local \in [Screens -> Contents]
        /\ dirty \in [Screens -> BOOLEAN] /\ Seqs \subseteq Nat /\ clip.seq \in Nat
    BY ConstantsAssumption DEF CoverInv, OwnerInv, TypeOK, Screens, Online, Seqs
  <1>1. ASSUME clip' = clip, dirty'[Server] = dirty[Server], local'[Server] = local[Server],
               ~NoneIn(events, G) => ~NoneIn(events', G)
        PROVE  ServerCovers'
    BY <1>0, <1>1 DEF ServerCovers
  <1>2. ASSUME NEW ev \in Seq(Events), NEW a, Served(ev, a, Server), clip'.owner = clip.owner,
               ~NoneIn(events, G) => ~NoneIn(ev, G)
        PROVE  ServerCovers'
    <2>1. CASE local'[Server] = clip'.data
      BY <2>1 DEF ServerCovers
    <2>2. CASE /\ Others(ev, events', Server) /\ ~dirty[Server] /\ clip'.data = clip.data
               /\ local'[Server] = local[Server]
      <3>1. ~NoneIn(ev, G) => ~NoneIn(events', G)
        BY <1>2, <2>2, QueueOthers
      <3>2. QED
        BY <1>0, <1>2, <2>2, <3>1 DEF ServerCovers
    <2>3. CASE dirty'[Server] \/ clip.owner = Server
      BY <1>2, <2>3 DEF ServerCovers
    <2>4. QED
      BY <1>0, <1>2, <2>1, <2>2, <2>3 DEF Served
  <1>3. CASE SwitchScreen
    BY <1>0, <1>2, <1>3, SwitchServes, SwitchEffect
  <1>4. CASE CopyOnServer
    <2> DEFINE e == [kind |-> "grabbed", from |-> Server, seq |-> primarySeq]
    <2>1. e \in Events /\ e \in G /\ events' = Append(events, e)
      BY <1>0, <1>4, ConstantsAssumption DEF CopyOnServer, TypeOK, Events, Seqs, GrabsBy
    <2> HIDE DEF e, G
    <2>2. \A S : NoneIn(Append(events, e), S) <=> NoneIn(events, S) /\ e \notin S
      BY <1>0, <2>1, AppendedIn
    <2>3. ~NoneIn(events', G)
      BY <2>1, <2>2
    <2>4. QED
      BY <2>3 DEF ServerCovers, G
  <1>5. CASE Dispatch
    <2> DEFINE h == Head(events)
               ev == Tail(events)
    <2>1. Handled(h) /\ HandledFor(h, Server) /\ h \in Events /\ ev \in Seq(Events) /\ events # <<>>
      BY <1>0, <1>5, DispatchEffect, DispatchServes, HeadTailProperties DEF Dispatch
    <2>2. ~NoneIn(events, G) /\ h \notin G => ~NoneIn(ev, G)
      BY <1>0, <2>1, QueueTaken
    <2> HIDE DEF h, ev
    <2>3. CASE h.kind = "send" \/ (h.kind = "grabbed" /\ h.from # Server /\ h.seq < clip.seq)
      <3>1. clip' = clip /\ events' = ev
        BY <2>1, <2>3 DEF Handled, ev
      <3>2. dirty' = dirty /\ local' = local
        BY <2>1, <2>3 DEF HandledFor
      <3>3. h \notin G
        BY <2>3 DEF GrabsBy
      <3>4. QED
        BY <1>1, <2>2, <3>1, <3>2, <3>3
    <2>4. CASE h.kind = "grabbed" /\ (h.from = Server \/ ~(h.seq < clip.seq))
      <3>1. clip'.owner = h.from
        BY <2>1, <2>4 DEF Handled
      <3>2. dirty'[Server] = (Server # h.from)
        BY <1>0, <2>1, <2>4 DEF HandledFor
      <3>3. QED
        BY <3>1, <3>2 DEF ServerCovers
    <2>5. CASE h.kind = "changed"
      <3>1. clip'.owner = clip.owner
        BY <2>1, <2>5 DEF Handled
      <3>2. ~(h.seq < clip.seq) => h.from = clip.owner
        BY <1>0, <2>1, <2>5, AcceptedFromOwner DEF h
      <3>3. Served(ev, active, Server)
        BY <2>1, <2>5, <3>2 DEF HandledFor, ev
      <3>4. h \notin G
        BY <2>5 DEF GrabsBy
      <3>5. QED
        BY <1>2, <2>1, <2>2, <3>1, <3>3, <3>4
    <2>6. QED
      BY <2>1, <2>3, <2>4, <2>5, EventType
  <1>6. ASSUME NEW b \in Clients, Receive(b) PROVE ServerCovers'
    <2>1. ReadEvent(b) \in Events /\ (events' = Append(events, ReadEvent(b)) \/ events' = events)
      BY <1>0, <1>6, ReceiveEffect
    <2>2. \A S : NoneIn(Append(events, ReadEvent(b)), S) <=> NoneIn(events, S) /\ ReadEvent(b) \notin S
      BY <1>0, <2>1, AppendedIn
    <2>3. clip' = clip /\ dirty' = dirty /\ local' = local
      BY <1>6 DEF Receive
    <2>4. QED
      BY <1>1, <2>1, <2>2, <2>3
  <1>7. ASSUME NEW b \in Clients, Obey(b) \/ CopyOnClient(b) \/ Work(b) \/ Reconnect(b) PROVE ServerCovers'
    <2>1. clip' = clip /\ events' = events
      BY <1>7 DEF Obey, CopyOnClient, Work, Reconnect, wires
    <2>2. dirty'[Server] = dirty[Server]
      BY <1>0, <1>7 DEF Obey, CopyOnClient, Work, Reconnect
    <2>3. local' = local \/ \E d : local' = [local EXCEPT ![b] = d]
      <3>1. Obey(b) => local' = local \/ \E d : local' = [local EXCEPT ![b] = d]
        BY DEF Obey, ObeyEnter, ObeyLeave, ObeyGrab, ObeyData
      <3>2. QED
        BY <1>7, <3>1 DEF CopyOnClient, Work, Reconnect
    <2>4. local'[Server] = local[Server]
      BY <1>0, <2>3
    <2>5. QED
      BY <1>1, <2>1, <2>2, <2>4
  <1>8. ASSUME NEW b \in Clients, Lose(b) PROVE ServerCovers'
    <2>1. clip' = clip /\ dirty' = dirty /\ local' = local /\ events' = Kept(events, EventsOfOthers(b))
      BY <1>8 DEF Lose
    <2>2. ~NoneIn(events, G) => ~NoneIn(Kept(events, EventsOfOthers(b)), G)
      BY <1>0, QueueKept
    <2>3. QED
      BY <1>1, <2>1, <2>2
  <1>9. CASE UNCHANGED vars
    BY <1>1, <1>9 DEF vars, wires
  <1>10. QED
    BY <1>3, <1>4, <1>5, <1>6, <1>7, <1>8, <1>9 DEF Next

LEMMA CoverStep ==
    ASSUME ~LocalUse, CoverInv, [Next]_vars
    PROVE  CoverInv'
  <1>1. OwnerInv /\ Numbering
    BY DEF CoverInv
  <1>2. OwnerInv' /\ Numbering'
    BY <1>1, OwnerStep, NumberingStep
  <1>3. ServerCovers'
    BY ServerCoversStep
  <1>4. ASSUME NEW c \in Clients PROVE Covers(c)'
    <2>1. UNCHANGED vars => Covers(c)'
      <3> SUFFICES ASSUME UNCHANGED vars PROVE Covers(c)'
        OBVIOUS
      <3>1. Covers(c)
        BY DEF CoverInv
      <3>2. QED
        BY <3>1, CoverFrame DEF vars, wires
    <2>2. QED
      BY <2>1, SwitchCoversClient, CopyCoversClient, DispatchCoversClient, ReceiveCoversClient, ObeyCoversClient,
         CopyingCoversClient, WorkCoversClient, LoseCoversClient, ReconnectCoversClient DEF Next
  <1>5. QED
    BY <1>2, <1>3, <1>4 DEF CoverInv

LEMMA CoverInitially == Init => CoverInv
  <1> SUFFICES ASSUME Init PROVE CoverInv
    OBVIOUS
  <1>1. OwnerInv /\ Numbering
    BY OwnerInitially, NumberingInitially
  <1>2. \A p \in Screens : dirty[p] = (p # Server)
    BY DEF Init
  <1>3. \A c \in Clients : dirty[c]
    BY <1>2, ConstantsAssumption DEF Screens
  <1>4. clip.owner = Server
    BY DEF Init
  <1>5. QED
    BY <1>1, <1>3, <1>4 DEF CoverInv, Covers, ServerCovers

(***************************************************************************)
(* The dirty flags never forget a screen, if a screen only copies while it *)
(* has the cursor: once everything is delivered, a screen that is neither  *)
(* dirty nor the owner shows what the server holds, or failed to extract   *)
(* it.  About the flags of setClipboard, grabClipboard and                 *)
(* onClipboardChanged, and the queues a transfer passes on its way.        *)
(***************************************************************************)
THEOREM ScreensStayCovered ==
    ASSUME ~LocalUse
    PROVE  Spec => []DirtyCovers
  <1>1. CoverInv /\ [Next]_vars => CoverInv'
    BY CoverStep
  <1>2. CoverInv => DirtyCovers
    <2> SUFFICES ASSUME CoverInv, Quiet, NEW p \in Online, ~dirty[p], clip.owner # p
                 PROVE  local[p] = clip.data \/ clip.data \in Files
      BY DEF DirtyCovers
    <2>0. events = <<>> /\ Len(<<>>) = 0
      BY DEF Quiet
    <2>1. /\ \A S, X : NoneIn(<<>>, S) /\ ~LastIn(<<>>, S, X)
          /\ \A N, S, X : ~LastAfter(<<>>, N, S, X)
      BY <2>0 DEF NoneIn, LastIn, LastAfter
    <2>2. CASE p = Server
      BY <2>0, <2>1, <2>2 DEF CoverInv, ServerCovers
    <2>3. CASE p \in Clients /\ client[p].online
      <3>1. Covers(p) /\ toClient[p] = <<>> /\ toServer[p] = <<>> /\ tasks[p] = <<>>
        BY <2>3 DEF CoverInv, Quiet
      <3>2. QED
        BY <2>0, <2>1, <2>3, <3>1 DEF Covers, SentTo, Gets, Shown, Pending
    <2>4. QED
      BY <2>2, <2>3 DEF Online
  <1>3. QED
    BY CoverInitially, <1>1, <1>2, PTL DEF Spec

-----------------------------------------------------------------------------
(***************************************************************************)
(* How a client's content gets to the server.  What c writes with number q *)
(* comes after all its grabs: the one that made it the owner (k is the     *)
(* server's clipboard), those in its stream and those in the queue.        *)
(***************************************************************************)
Behind(c, q, k, up, ev) ==
    /\ k.owner = c => k.seq <= q
    /\ NoneIn(up, UpGrabs(q + 1))
    /\ NoneIn(ev, GrabsBy(c, q + 1))

\* A number c has, or will be entered with.
Writes(q, s, t) == (q = s /\ q > 0) \/ \E m : In(m, t) /\ m.kind = "enter" /\ m.seq = q

Ordered(c) ==
    \A q \in Seqs : Writes(q, client[c].seq, toClient[c]) => Behind(c, q, clip, toServer[c], events)

\* A client that is not connected owns nothing, and is not about to.
Idle(c) == ~client[c].online => ~client[c].own /\ NoneIn(tasks[c], GrabTasks)

OrderInv == OwnerInv /\ Numbering /\ \A c \in Clients : Ordered(c) /\ Idle(c)

\* Who writes to the stream from c, and who reads it.
LEMMA UpMove ==
    ASSUME TypeOK, [Next]_vars, NEW c \in Clients
    PROVE  \/ toServer'[c] = toServer[c]
           \/ Receive(c) \/ Work(c)
           \/ Lose(c) /\ toServer'[c] = <<>>
  <1>0. toServer \in [Clients -> Seq(UpMessages)]
    BY DEF TypeOK
  <1>1. ASSUME NEW b \in Clients, Receive(b), b # c PROVE toServer'[c] = toServer[c]
    BY <1>0, <1>1 DEF Receive
  <1>2. ASSUME NEW b \in Clients, Work(b), b # c PROVE toServer'[c] = toServer[c]
    BY <1>0, <1>2 DEF Work
  <1>3. ASSUME NEW b \in Clients, Lose(b), b # c PROVE toServer'[c] = toServer[c]
    BY <1>0, <1>3 DEF Lose
  <1>4. Lose(c) => toServer'[c] = <<>>
    BY <1>0 DEF Lose
  <1>5. ASSUME NEW b \in Clients, Obey(b) \/ CopyOnClient(b) \/ Reconnect(b) PROVE toServer' = toServer
    BY <1>5 DEF Obey, CopyOnClient, Reconnect, wires
  <1>6. SwitchScreen \/ CopyOnServer \/ Dispatch \/ UNCHANGED vars => toServer' = toServer
    BY DEF vars, wires, CopyOnServer, SwitchScreen, Dispatch
  <1>7. QED
    BY <1>1, <1>2, <1>3, <1>4, <1>5, <1>6 DEF Next

\* A number that is behind all grabs of c stays so, unless c grabs again.
LEMMA BehindKept ==
    ASSUME TypeOK, [Next]_vars, NEW c \in Clients, NEW q \in Seqs,
           Behind(c, q, clip, toServer[c], events),
           Work(c) /\ Head(tasks[c]).kind = "grabbed" => client[c].seq <= q
    PROVE  Behind(c, q, clip', toServer'[c], events')
  <1> DEFINE G == GrabsBy(c, q + 1)
             U == UpGrabs(q + 1)
  <1>0. /\ Seqs \subseteq Nat /\ q \in Nat /\ events \in Seq(Events) /\ toServer[c] \in Seq(UpMessages)
        /\ client[c].seq \in Nat /\ Server \notin Clients
    BY StateTypes
  <1>1. (clip.owner = c => clip.seq <= q) /\ NoneIn(toServer[c], U) /\ NoneIn(events, G)
    BY DEF Behind
  <1>2. clip'.owner = c => clip'.seq <= q
    <2>1. CASE Dispatch
      <3> DEFINE h == Head(events)
      <3>1. Handled(h) /\ h \in Events /\ In(h, events)
        BY <1>0, <2>1, DispatchEffect, HeadTailProperties, InTail DEF Dispatch
      <3> HIDE DEF h
      <3>2. h \notin G
        BY <1>1, <3>1, NoneInIs
      <3>3. h.kind = "grabbed" => h.seq \in Nat
        BY <1>0, <3>1, EventType
      <3>4. h.kind = "grabbed" /\ h.from = c => h.seq <= q
        <4>1. h.kind = "grabbed" /\ h.from = c => ~(h.seq >= q + 1)
          BY <3>1, <3>2 DEF GrabsBy
        <4>2. QED
          BY <1>0, <3>3, <4>1
      <3>5. QED
        BY <1>1, <3>1, <3>4 DEF Handled
    <2>2. CASE ~Dispatch
      <3>1. clip'.owner = clip.owner /\ clip'.seq = clip.seq
        BY <2>2, SwitchEffect DEF Next, CopyOnServer, Receive, Obey, CopyOnClient, Work, Reconnect, Lose, vars
      <3>2. QED
        BY <1>1, <3>1
    <2>3. QED
      BY <2>1, <2>2
  <1>3. NoneIn(events', G)
    <2>1. CASE Receive(c)
      <3> DEFINE e == ReadEvent(c)
      <3>1. e \in Events /\ (events' = Append(events, e) \/ events' = events)
        BY <2>1, ReceiveEffect
      <3>2. toServer[c] # <<>> /\ Head(toServer[c]) \in UpMessages /\ In(Head(toServer[c]), toServer[c])
        BY <1>0, <2>1, ReceiveEffect, InTail
      <3>3. Head(toServer[c]) \notin U
        BY <1>1, <3>2, NoneInIs
      <3>4. e \notin G
        BY <3>2, <3>3 DEF GrabsBy, UpGrabs, ReadEvent
      <3> HIDE DEF G, e
      <3>5. \A S : NoneIn(Append(events, e), S) <=> NoneIn(events, S) /\ e \notin S
        BY <1>0, <3>1, AppendedIn
      <3>6. QED
        BY <1>1, <3>1, <3>4, <3>5
    <2>2. CASE ~Receive(c)
      <3> SUFFICES ASSUME NEW x, In(x, events'), x \in G PROVE FALSE
        BY NoneInIs
      <3>1. x.kind = "grabbed" /\ x.from = c
        BY DEF GrabsBy
      <3>2. ~In(x, events)
        BY <1>1, NoneInIs
      <3>3. NewEvent(x)
        BY <3>2, EventsAfter
      <3>4. QED
        BY <1>0, <2>2, <3>1, <3>3 DEF NewEvent
    <2>3. QED
      BY <2>1, <2>2
  <1>4. NoneIn(toServer'[c], U)
    <2>1. CASE toServer'[c] = toServer[c]
      BY <1>1, <2>1
    <2>2. CASE Receive(c)
      <3>1. toServer[c] # <<>> /\ toServer'[c] = Tail(toServer[c])
        BY <2>2, ReceiveEffect
      <3> HIDE DEF U
      <3>2. \A S : NoneIn(toServer[c], S) <=> NoneIn(Tail(toServer[c]), S) /\ Head(toServer[c]) \notin S
        BY <1>0, <3>1, TakenFrom
      <3>3. QED
        BY <1>1, <3>1, <3>2
    <2>3. CASE Work(c)
      <3>1. PICK m \in UpMessages : /\ toServer'[c] = Append(toServer[c], m)
                                    /\ m.kind = "grab" => m.seq <= q
        <4>1. Head(tasks[c]).kind = "grabbed" => client[c].seq <= q
          BY <2>3
        <4>2. QED
          BY <2>3, <4>1, WorkEffect
      <3>2. m \notin U
        <4>1. m.seq \in Nat
          BY <1>0 DEF UpMessages
        <4>2. QED
          BY <1>0, <3>1, <4>1 DEF UpGrabs
      <3> HIDE DEF U
      <3>3. \A S : NoneIn(Append(toServer[c], m), S) <=> NoneIn(toServer[c], S) /\ m \notin S
        BY <1>0, AppendedIn
      <3>4. QED
        BY <1>1, <3>1, <3>2, <3>3
    <2>4. CASE toServer'[c] = <<>>
      BY <2>4 DEF NoneIn
    <2>5. QED
      BY <2>1, <2>2, <2>3, <2>4, UpMove
  <1>5. QED
    BY <1>2, <1>3, <1>4 DEF Behind

\* A new number is behind everything c has written.
LEMMA OrderedStep ==
    ASSUME OrderInv, [Next]_vars, NEW c \in Clients
    PROVE  Ordered(c)'
  <1>0. /\ OwnerInv /\ TypeOK /\ Numbering /\ Seqs \subseteq Nat /\ events \in Seq(Events)
        /\ toServer[c] \in Seq(UpMessages) /\ toClient[c] \in Seq(DownMessages)
        /\ client[c].seq \in Seqs /\ client[c].seq \in Nat /\ seqNum \in Nat /\ clip.seq \in Nat
        /\ Len(toClient[c]) \in Nat
    BY StateTypes, LenProperties DEF OrderInv, OwnerInv
  <1> SUFFICES ASSUME NEW q \in Seqs, Writes(q, client'[c].seq, toClient'[c])
               PROVE  Behind(c, q, clip', toServer'[c], events')
    BY DEF Ordered
  <1>1. q \in Nat
    BY <1>0
  <1>2. CASE Writes(q, client[c].seq, toClient[c])
    <2>1. Behind(c, q, clip, toServer[c], events)
      BY <1>2 DEF OrderInv, Ordered
    <2>2. client[c].seq <= q
      <3>1. CASE q = client[c].seq
        BY <1>0, <3>1
      <3>2. ASSUME NEW m, In(m, toClient[c]), m.kind = "enter", m.seq = q PROVE client[c].seq <= q
        <4>1. PICK i \in 1 .. Len(toClient[c]) : toClient[c][i] = m
          BY <3>2 DEF In
        <4>2. toClient[c][i].seq >= client[c].seq
          BY <1>0, <3>2, <4>1 DEF Numbering, Rising
        <4>3. QED
          BY <1>0, <1>1, <3>2, <4>1, <4>2
      <3>3. QED
        BY <1>2, <3>1, <3>2 DEF Writes
    <2>3. QED
      BY <1>0, <2>1, <2>2, BehindKept
  <1>3. CASE SwitchScreen /\ active' = c /\ q = seqNum + 1
    <2>1. \A p \in Seqs : p > 0 /\ Uses(c, p) => p <= seqNum
      BY <1>0 DEF OwnerInv, Numbers
    <2>2. clip.owner = c => clip.seq <= q
      BY <1>0, <1>3 DEF Numbering
    <2>3. NoneIn(toServer[c], UpGrabs(q + 1))
      <3> SUFFICES ASSUME NEW x, In(x, toServer[c]), x \in UpGrabs(q + 1) PROVE FALSE
        BY NoneInIs
      <3>1. x.seq \in Seqs /\ x.seq >= q + 1 /\ Uses(c, x.seq)
        BY DEF UpGrabs, UpMessages, Uses
      <3>2. x.seq \in Nat /\ (x.seq > 0 => x.seq <= seqNum)
        BY <1>0, <2>1, <3>1
      <3>3. QED
        BY <1>0, <1>1, <1>3, <3>1, <3>2
    <2>4. NoneIn(events, GrabsBy(c, q + 1))
      <3> SUFFICES ASSUME NEW x, In(x, events), x \in GrabsBy(c, q + 1) PROVE FALSE
        BY NoneInIs
      <3>1. x \in Events /\ x.kind = "grabbed" /\ x.from = c /\ x.seq >= q + 1
        BY DEF GrabsBy
      <3>2. x.seq \in Seqs /\ Uses(c, x.seq)
        BY <3>1, EventType DEF Uses
      <3>3. x.seq \in Nat /\ (x.seq > 0 => x.seq <= seqNum)
        BY <1>0, <2>1, <3>2
      <3>4. QED
        BY <1>0, <1>1, <1>3, <3>1, <3>3
    <2>5. client[c].seq <= q
      <3>1. client[c].seq <= seqNum
        BY <1>0, PastNumbers
      <3>2. QED
        BY <1>0, <1>3, <3>1
    <2>6. Behind(c, q, clip, toServer[c], events)
      BY <2>2, <2>3, <2>4 DEF Behind
    <2>7. QED
      BY <1>0, <2>5, <2>6, BehindKept
  <1>4. QED
    <2>1. ASSUME q = client'[c].seq, q > 0 PROVE Writes(q, client[c].seq, toClient[c])
      BY <1>0, <2>1, ClientAfter DEF Writes
    <2>2. ASSUME NEW m, In(m, toClient'[c]), m.kind = "enter", m.seq = q
          PROVE  Writes(q, client[c].seq, toClient[c]) \/ (SwitchScreen /\ active' = c /\ q = seqNum + 1)
      BY <1>0, <2>2, StreamAfter DEF Writes
    <2>3. QED
      BY <1>2, <1>3, <2>1, <2>2 DEF Writes

\* A step of client b, or of its connection, leaves client c alone.
LEMMA OthersKept ==
    ASSUME TypeOK, NEW b \in Clients, NEW c \in Clients, b # c,
           Receive(b) \/ Obey(b) \/ CopyOnClient(b) \/ Work(b) \/ Lose(b) \/ Reconnect(b)
    PROVE  /\ client'[c] = client[c] /\ tasks'[c] = tasks[c] /\ local'[c] = local[c]
           /\ toClient'[c] = toClient[c] /\ toServer'[c] = toServer[c] /\ cache'[c] = cache[c]
  <1>0. /\ client \in [Clients -> ClientType] /\ tasks \in [Clients -> Seq(Tasks)]
        /\ local \in [Screens -> Contents] /\ toClient \in [Clients -> Seq(DownMessages)]
        /\ toServer \in [Clients -> Seq(UpMessages)] /\ cache \in [Clients -> Contents] /\ c \in Screens
    BY DEF TypeOK, Screens
  <1>1. CASE Receive(b)
    <2>1. cache'[c] = cache[c]
      BY <1>1, ReceiveEffect
    <2>2. QED
      BY <1>0, <1>1, <2>1 DEF Receive
  <1>2. CASE Obey(b)
    <2>1. client'[c] = client[c] /\ toClient'[c] = toClient[c] /\ local'[c] = local[c] /\ tasks'[c] = tasks[c]
      <3>1. CASE ObeyEnter(b)
        BY <1>0, <3>1 DEF ObeyEnter
      <3>2. CASE ObeyLeave(b)
        BY <1>0, <3>2 DEF ObeyLeave
      <3>3. CASE ObeyGrab(b)
        BY <1>0, <3>3 DEF ObeyGrab
      <3>4. CASE ObeyData(b)
        BY <1>0, <3>4 DEF ObeyData
      <3>5. QED
        BY <1>2, <3>1, <3>2, <3>3, <3>4 DEF Obey
    <2>2. QED
      BY <1>2, <2>1 DEF Obey
  <1>3. CASE CopyOnClient(b)
    BY <1>0, <1>3 DEF CopyOnClient
  <1>4. CASE Work(b)
    BY <1>0, <1>4 DEF Work
  <1>5. CASE Lose(b)
    BY <1>0, <1>5 DEF Lose
  <1>6. CASE Reconnect(b)
    BY <1>0, <1>6 DEF Reconnect, wires
  <1>7. QED
    BY <1>1, <1>2, <1>3, <1>4, <1>5, <1>6

\* What a message does to client c.
LEMMA ObeyEffect ==
    ASSUME TypeOK, NEW c \in Clients, Obey(c)
    PROVE  /\ toClient[c] # <<>> /\ toClient'[c] = Tail(toClient[c])
           /\ client'[c].online = client[c].online /\ (client'[c].own => client[c].own)
           /\ NoneIn(tasks'[c], GrabTasks) <=> NoneIn(tasks[c], GrabTasks)
           /\ \/ client'[c].timed = client[c].timed /\ tasks'[c] = tasks[c]
              \/ /\ client[c].own /\ ~client[c].timed
                 /\ \E ok \in Outcomes : tasks'[c] = tasks[c] \o sendClipboard(c, ok)
           /\ client'[c].own => /\ local'[c] = local[c]
                                /\ Head(toClient[c]).kind # "grab"
                                /\ Head(toClient[c]).kind = "data" => Head(toClient[c]).data \in Files
  <1>0. /\ client \in [Clients -> ClientType] /\ client[c] \in ClientType /\ tasks \in [Clients -> Seq(Tasks)]
        /\ toClient \in [Clients -> Seq(DownMessages)] /\ local \in [Screens -> Contents] /\ c \in Screens
        /\ client[c].timed \in BOOLEAN
    BY StateTypes DEF TypeOK, ClientType
  <1>1. toClient[c] # <<>> /\ toClient'[c] = Tail(toClient[c])
    BY <1>0 DEF Obey, ObeyEnter, ObeyLeave, ObeyGrab, ObeyData
  <1> DEFINE Calm == client'[c].timed = client[c].timed /\ tasks'[c] = tasks[c] /\ client'[c].online = client[c].online
  <1>2. CASE ObeyEnter(c)
    <2>1. Calm /\ client'[c].own = client[c].own /\ local' = local /\ Head(toClient[c]).kind = "enter"
      BY <1>0, <1>2 DEF ObeyEnter, ClientType
    <2>2. QED
      BY <1>1, <2>1
  <1>3. CASE ObeyLeave(c)
    <2>1. /\ client'[c].own = client[c].own /\ local' = local /\ Head(toClient[c]).kind = "leave"
          /\ client'[c].online = client[c].online
          /\ client'[c].timed = (client[c].timed \/ (client[c].own /\ ~client[c].timed))
      BY <1>0, <1>3 DEF ObeyLeave, ClientType
    <2>2. CASE client[c].own /\ ~client[c].timed
      <3>1. PICK ok \in Outcomes : tasks' = [tasks EXCEPT ![c] = @ \o sendClipboard(c, ok)]
        BY <1>3, <2>2 DEF ObeyLeave
      <3>2. tasks'[c] = tasks[c] \o sendClipboard(c, ok) /\ tasks[c] \in Seq(Tasks)
        BY <1>0, <3>1
      <3>3. NoneIn(tasks[c] \o sendClipboard(c, ok), GrabTasks) <=> NoneIn(tasks[c], GrabTasks)
        BY <3>2, TasksGrow
      <3>4. QED
        BY <1>1, <2>1, <2>2, <3>2, <3>3
    <2>3. CASE ~(client[c].own /\ ~client[c].timed)
      <3>1. tasks' = tasks
        BY <1>3, <2>3 DEF ObeyLeave
      <3>2. QED
        BY <1>0, <1>1, <2>1, <2>3, <3>1
    <2>4. QED
      BY <2>2, <2>3
  <1>4. CASE ObeyGrab(c)
    <2>1. Calm /\ client'[c].own = FALSE
      BY <1>0, <1>4 DEF ObeyGrab, ClientType
    <2>2. QED
      BY <1>1, <2>1
  <1>5. CASE ObeyData(c)
    <2>1. \/ client' = [client EXCEPT ![c].own = FALSE]
          \/ client' = client /\ local' = local /\ Head(toClient[c]).data \in Files
      BY <1>5 DEF ObeyData, works
    <2>2. Calm /\ (client'[c].own => client[c].own /\ local' = local /\ Head(toClient[c]).data \in Files)
      <3>1. tasks' = tasks
        BY <1>5 DEF ObeyData
      <3>2. CASE client' = [client EXCEPT ![c].own = FALSE]
        BY <1>0, <3>1, <3>2 DEF ClientType
      <3>3. CASE client' = client
        BY <1>0, <2>1, <3>1, <3>3 DEF ClientType
      <3>4. QED
        BY <2>1, <3>2, <3>3
    <2>3. Head(toClient[c]).kind = "data"
      BY <1>5 DEF ObeyData
    <2>4. QED
      BY <1>1, <2>2, <2>3
  <1>6. QED
    BY <1>2, <1>3, <1>4, <1>5 DEF Obey

\* A lost connection takes the queue of the client with it.
LEMMA IdleStep ==
    ASSUME OrderInv, [Next]_vars, NEW c \in Clients
    PROVE  Idle(c)'
  <1>0. /\ TypeOK /\ Idle(c) /\ tasks \in [Clients -> Seq(Tasks)] /\ tasks[c] \in Seq(Tasks)
        /\ client \in [Clients -> ClientType] /\ client[c] \in ClientType
    BY StateTypes DEF OrderInv, OwnerInv, TypeOK
  <1>1. ASSUME client'[c].online = client[c].online, client'[c].own => client[c].own,
               NoneIn(tasks[c], GrabTasks) => NoneIn(tasks'[c], GrabTasks)
        PROVE  Idle(c)'
    BY <1>0, <1>1 DEF Idle
  <1>2. CASE SwitchScreen \/ CopyOnServer \/ Dispatch \/ UNCHANGED vars
    <2>1. client' = client /\ tasks' = tasks
      BY <1>2 DEF SwitchScreen, CopyOnServer, Dispatch, vars, wires
    <2>2. QED
      BY <1>1, <2>1
  <1>3. ASSUME NEW b \in Clients, b # c,
               Receive(b) \/ Obey(b) \/ CopyOnClient(b) \/ Work(b) \/ Lose(b) \/ Reconnect(b)
        PROVE  Idle(c)'
    <2>1. client'[c] = client[c] /\ tasks'[c] = tasks[c]
      BY <1>3, OthersKept, <1>0
    <2>2. QED
      BY <1>1, <2>1
  <1>4. CASE Receive(c)
    BY <1>1, <1>4 DEF Receive
  <1>5. CASE Obey(c)
    BY <1>0, <1>1, <1>5, ObeyEffect
  <1>6. CASE CopyOnClient(c)
    BY <1>6 DEF CopyOnClient, Idle
  <1>7. CASE Work(c)
    <2>1. \A S : NoneIn(tasks[c], S) <=> NoneIn(Tail(tasks[c]), S) /\ Head(tasks[c]) \notin S
      BY <1>0, <1>7, WorkEffect, TakenFrom
    <2>2. CASE Head(tasks[c]).kind = "send"
      BY <1>0, <1>1, <1>7, <2>1, <2>2, WorkEffect
    <2>3. CASE Head(tasks[c]).kind = "grabbed"
      <3>1. Head(tasks[c]) \in GrabTasks /\ client'[c].online = client[c].online
        BY <1>0, <1>7, <2>3, WorkEffect DEF GrabTasks
      <3>2. QED
        BY <1>0, <2>1, <3>1 DEF Idle
    <2>4. QED
      BY <1>0, <1>7, <2>2, <2>3, WorkEffect
  <1>8. CASE Lose(c)
    <2>1. client'[c].own = FALSE /\ tasks'[c] = <<>>
      BY <1>0, <1>8 DEF Lose
    <2>2. QED
      BY <2>1 DEF Idle, NoneIn
  <1>9. CASE Reconnect(c)
    <2>1. client'[c].online = TRUE
      BY <1>0, <1>9 DEF Reconnect, ClientType
    <2>2. QED
      BY <2>1 DEF Idle
  <1>10. QED
    BY <1>2, <1>3, <1>4, <1>5, <1>6, <1>7, <1>8, <1>9 DEF Next

LEMMA OrderStep ==
    ASSUME ~LocalUse, OrderInv, [Next]_vars
    PROVE  OrderInv'
  <1>1. OwnerInv' /\ Numbering'
    BY OwnerStep, NumberingStep DEF OrderInv
  <1>2. QED
    BY <1>1, OrderedStep, IdleStep DEF OrderInv

LEMMA OrderInitially == Init => OrderInv
  <1> SUFFICES ASSUME Init PROVE OrderInv
    OBVIOUS
  <1>1. OwnerInv /\ Numbering
    BY OwnerInitially, NumberingInitially
  <1>2. ASSUME NEW c \in Clients PROVE toClient[c] = <<>> /\ client[c].seq = 0 /\ client[c].online
    BY DEF Init
  <1>3. ASSUME NEW c \in Clients PROVE Ordered(c)
    BY <1>2, InEmpty DEF Ordered, Writes
  <1>4. QED
    BY <1>1, <1>2, <1>3 DEF OrderInv, Idle

(***************************************************************************)
(* A client that owns the clipboard and has sent it, with nothing on its   *)
(* way that would make it give it up, and none of whose uploads has met    *)
(* another's.                                                              *)
(***************************************************************************)
UpData(d, q) == {m \in UpMessages : m.kind = "data" /\ m.data = d /\ m.seq = q}
EventsOf(c) == {e \in Events : e.kind # "send" /\ e.from = c}
Changes(c, q) == {e \in Events : e.kind = "changed" /\ e.from = c /\ e.seq = q}
Overwrites == {m \in DownMessages : m.kind = "grab" \/ (m.kind = "data" /\ m.data \notin Files)}
Overwriting(c) == {e \in Events : e.kind = "send" /\ e.to = c /\ e.data \notin Files}

Publisher(c) ==
    /\ c \notin spoiled
    /\ client[c].own /\ client[c].timed /\ local[c] \notin Files /\ ~clientRefuses(local[c])
    /\ NoneIn(tasks[c], GrabTasks) /\ NoneIn(toClient[c], Overwrites) /\ NoneIn(events, Overwriting(c))

\* The proxy holds content d, or a package it sent meanwhile.
Holds(x, d) == x = d \/ (x \in Files /\ ~serverRefuses(x))

\* Content d, numbered q, is the last that c sent: in its queue, in its
\* stream, or in the proxy with an event queued for it.
OnWay(c, q, d, x, tk, up, ev) ==
    \/ LastIn(tk, SendTasks, SendTask(d, q))
    \/ NoneIn(tk, SendTasks) /\ LastIn(up, UpMessages, UpData(d, q))
    \/ /\ NoneIn(tk, SendTasks) /\ NoneIn(up, UpMessages)
       /\ LastIn(ev, EventsOf(c), Changes(c, q)) /\ Holds(x, d)

\* Nothing of c is on its way, and the server, if c is the owner, holds d.
Done(c, d, k, tk, up, ev) ==
    /\ NoneIn(tk, SendTasks) /\ NoneIn(up, UpMessages) /\ NoneIn(ev, EventsOf(c))
    /\ k.owner = c => k.data = d \/ k.data \in Files

Publishes(c) ==
    Publisher(c) =>
        \/ Done(c, local[c], clip, tasks[c], toServer[c], events)
        \/ \E q \in Seqs : /\ Behind(c, q, clip, toServer[c], events)
                           /\ OnWay(c, q, local[c], cache[c], tasks[c], toServer[c], events)

PublishInv == OrderInv /\ Fits /\ \A c \in Clients : Publishes(c)

\* What is spoiled stays so.
LEMMA SpoiledGrows ==
    ASSUME TypeOK, [Next]_vars
    PROVE  spoiled \subseteq spoiled'
  <1>1. ASSUME NEW c \in Clients, Receive(c) PROVE spoiled \subseteq spoiled'
    BY <1>1, ReceiveEffect
  <1>2. ASSUME NEW c \in Clients, Obey(c) \/ CopyOnClient(c) \/ Work(c) \/ Lose(c) \/ Reconnect(c)
        PROVE  spoiled' = spoiled
    BY <1>2 DEF Obey, CopyOnClient, Work, Lose, Reconnect, mixing
  <1>3. SwitchScreen \/ CopyOnServer \/ Dispatch \/ UNCHANGED vars => spoiled' = spoiled
    BY DEF SwitchScreen, CopyOnServer, Dispatch, vars, mixing
  <1>4. QED
    BY <1>1, <1>2, <1>3 DEF Next

\* A step under which c stays a publisher: what c sent moves on towards the server.
LEMMA PublishFrame ==
    ASSUME TypeOK, [Next]_vars, NEW c \in Clients, Publishes(c), Publisher(c)' => Publisher(c),
           Publisher(c)' => local'[c] = local[c],
           \A q \in Seqs :
             Publisher(c)' /\ Behind(c, q, clip, toServer[c], events)
               /\ OnWay(c, q, local[c], cache[c], tasks[c], toServer[c], events) =>
                    \/ OnWay(c, q, local[c], cache'[c], tasks'[c], toServer'[c], events')
                    \/ Done(c, local[c], clip', tasks'[c], toServer'[c], events'),
           Publisher(c)' /\ Done(c, local[c], clip, tasks[c], toServer[c], events) =>
             Done(c, local[c], clip', tasks'[c], toServer'[c], events')
    PROVE  Publishes(c)'
  <1> SUFFICES ASSUME Publisher(c)'
               PROVE  \/ Done(c, local'[c], clip', tasks'[c], toServer'[c], events')
                      \/ \E q \in Seqs : /\ Behind(c, q, clip', toServer'[c], events')
                                         /\ OnWay(c, q, local'[c], cache'[c], tasks'[c], toServer'[c], events')
    BY DEF Publishes
  <1>1. Publisher(c) /\ local'[c] = local[c]
    OBVIOUS
  <1>2. CASE Done(c, local[c], clip, tasks[c], toServer[c], events)
    BY <1>1, <1>2
  <1>3. ASSUME NEW q \in Seqs, Behind(c, q, clip, toServer[c], events),
               OnWay(c, q, local[c], cache[c], tasks[c], toServer[c], events)
        PROVE  \/ Done(c, local'[c], clip', tasks'[c], toServer'[c], events')
               \/ \E p \in Seqs : /\ Behind(c, p, clip', toServer'[c], events')
                                  /\ OnWay(c, p, local'[c], cache'[c], tasks'[c], toServer'[c], events')
    <2>1. ~(Work(c) /\ Head(tasks[c]).kind = "grabbed")
      <3> SUFFICES ASSUME Work(c), Head(tasks[c]).kind = "grabbed" PROVE FALSE
        OBVIOUS
      <3>1. tasks[c] # <<>> /\ Head(tasks[c]) \in GrabTasks /\ tasks[c] \in Seq(Tasks)
        BY WorkEffect, StateTypes DEF GrabTasks
      <3>2. In(Head(tasks[c]), tasks[c])
        BY <3>1, InTail
      <3>3. QED
        BY <1>1, <3>1, <3>2, NoneInIs DEF Publisher
    <2>2. Behind(c, q, clip', toServer'[c], events')
      BY <1>3, <2>1, BehindKept
    <2>3. QED
      BY <1>1, <1>3, <2>2
  <1>4. QED
    BY <1>1, <1>2, <1>3 DEF Publishes

\* A transfer the server queues does not hide an event of c.
LEMMA QueuesKept ==
    ASSUME NEW ev \in Seq(Events), NEW new, NEW d \in Contents, Queues(ev, new, d), NEW c
    PROVE  /\ NoneIn(ev, EventsOf(c)) => NoneIn(new, EventsOf(c))
           /\ \A X : LastIn(ev, EventsOf(c), X) => LastIn(new, EventsOf(c), X)
           /\ \A S : NoneIn(new, S) => NoneIn(ev, S)
  <1>1. CASE new = ev
    BY <1>1
  <1>2. ASSUME NEW p \in Clients, new = Append(ev, [kind |-> "send", to |-> p, data |-> d])
        PROVE  /\ NoneIn(ev, EventsOf(c)) => NoneIn(new, EventsOf(c))
               /\ \A X : LastIn(ev, EventsOf(c), X) => LastIn(new, EventsOf(c), X)
               /\ \A S : NoneIn(new, S) => NoneIn(ev, S)
    <2> DEFINE e == [kind |-> "send", to |-> p, data |-> d]
    <2>1. e \in Events /\ e \notin EventsOf(c) /\ new = Append(ev, e)
      BY <1>2, SendType DEF EventsOf
    <2> HIDE DEF e
    <2>2. \A S : NoneIn(Append(ev, e), S) <=> NoneIn(ev, S) /\ e \notin S
      BY <2>1, AppendedIn
    <2>3. \A S, X : e \notin S /\ LastIn(ev, S, X) => LastIn(Append(ev, e), S, X)
      BY <2>1, AppendedIn
    <2>4. QED
      BY <2>1, <2>2, <2>3
  <1>3. QED
    BY <1>1, <1>2 DEF Queues

\* A proxy that is given the server's content meanwhile is given a package.
LEMMA HoldsKept ==
    ASSUME NEW c \in Clients, NEW ev \in Seq(Events), NEW a, Served(ev, a, c), NoneIn(events', Overwriting(c)),
           clip'.data \in Contents, ~serverRefuses(clip'.data), NEW d, Holds(cache[c], d), c # Server
    PROVE  Holds(cache'[c], d)
  <1>1. CASE cache'[c] = cache[c]
    BY <1>1
  <1> DEFINE e == [kind |-> "send", to |-> c, data |-> clip'.data]
  <1>2. CASE cache'[c] = clip'.data /\ events' = Append(ev, e)
    <2>1. e \in Events /\ (clip'.data \notin Files => e \in Overwriting(c))
      BY SendType DEF Overwriting
    <2> HIDE DEF e
    <2>2. \A S : NoneIn(Append(ev, e), S) <=> NoneIn(ev, S) /\ e \notin S
      BY <2>1, AppendedIn
    <2>3. clip'.data \in Files
      BY <1>2, <2>1, <2>2
    <2>4. QED
      BY <1>2, <2>3 DEF Holds
  <1>3. QED
    BY <1>1, <1>2 DEF Served

\* One lemma for each action: what c sent is still on its way, or has arrived.
LEMMA SwitchPublishes ==
    ASSUME PublishInv, SwitchScreen, [Next]_vars, NEW c \in Clients
    PROVE  Publishes(c)'
  <1>0. /\ TypeOK /\ Publishes(c) /\ events \in Seq(Events) /\ c \in Screens /\ c # Server
        /\ toClient[c] \in Seq(DownMessages)
    BY StateTypes DEF PublishInv, OrderInv, OwnerInv
  <1>1. /\ client' = client /\ tasks' = tasks /\ toServer' = toServer
    BY DEF SwitchScreen
  <1>2. /\ TypeOK' /\ clip'.owner = clip.owner /\ Queues(events, events', clip'.data)
        /\ Served(events, active', c) /\ (clip.owner # Server => clip'.data = clip.data)
    BY <1>0, SwitchEffect, SwitchServes
  <1>3. clip'.data \in Contents /\ local'[c] = local[c]
    BY <1>2 DEF TypeOK, Served
  <1>4. ~serverRefuses(clip'.data)
    BY <1>0, SwitchEffect DEF PublishInv, Fits
  <1>5. /\ NoneIn(events, EventsOf(c)) => NoneIn(events', EventsOf(c))
        /\ \A X : LastIn(events, EventsOf(c), X) => LastIn(events', EventsOf(c), X)
        /\ \A S : NoneIn(events', S) => NoneIn(events, S)
    BY <1>0, <1>2, <1>3, QueuesKept
  <1>6. NoneIn(toClient'[c], Overwrites) => NoneIn(toClient[c], Overwrites)
    <2> DEFINE enter == [kind |-> "enter", seq |-> seqNum + 1]
               leave == [kind |-> "leave"]
    <2>1. enter \in DownMessages /\ leave \in DownMessages
      BY <1>0, ConstantsAssumption DEF SwitchScreen, TypeOK, Seqs, DownMessages
    <2>2. toClient'[c] = toClient[c] \/ toClient'[c] = Append(toClient[c], leave) \/ toClient'[c] = Append(toClient[c], enter)
      BY <1>0, SwitchEffect
    <2> HIDE DEF enter, leave
    <2>3. \A m \in DownMessages : \A S : NoneIn(Append(toClient[c], m), S) <=> NoneIn(toClient[c], S) /\ m \notin S
      BY <1>0, AppendedIn
    <2>4. QED
      BY <2>1, <2>2, <2>3
  <1>7. Publisher(c)' => Publisher(c)
    BY <1>0, <1>1, <1>3, <1>5, <1>6, SpoiledGrows DEF Publisher
  <1>8. Publisher(c)' => (Holds(cache[c], local[c]) => Holds(cache'[c], local[c]))
    BY <1>0, <1>2, <1>3, <1>4, HoldsKept DEF Publisher
  <1>9. ASSUME NEW q \in Seqs, Publisher(c)', OnWay(c, q, local[c], cache[c], tasks[c], toServer[c], events)
        PROVE  OnWay(c, q, local[c], cache'[c], tasks'[c], toServer'[c], events')
    BY <1>1, <1>5, <1>8, <1>9 DEF OnWay
  <1>10. Done(c, local[c], clip, tasks[c], toServer[c], events) =>
           Done(c, local[c], clip', tasks'[c], toServer'[c], events')
    BY <1>0, <1>1, <1>2, <1>5 DEF Done
  <1>11. QED
    BY <1>0, <1>3, <1>7, <1>9, <1>10, PublishFrame

\* What the client can send, the server can keep.
LEMMA RefusedByBoth ==
    ASSUME NEW d, ~clientRefuses(d)
    PROVE  ~serverRefuses(d)
  BY DEF clientRefuses, serverRefuses

\* The server handles an event: an update of c, if c is the owner, is accepted.
LEMMA DispatchPublishes ==
    ASSUME PublishInv, Dispatch, [Next]_vars, NEW c \in Clients
    PROVE  Publishes(c)'
  <1> DEFINE h == Head(events)
             ev == Tail(events)
             E == EventsOf(c)
  <1>0. /\ OrderInv /\ OwnerInv /\ TypeOK /\ Publishes(c) /\ c \in Screens /\ ~serverRefuses(clip.data)
        /\ events \in Seq(Events) /\ events # <<>> /\ toClient[c] \in Seq(DownMessages)
        /\ client' = client /\ tasks' = tasks /\ toServer' = toServer /\ TypeOK' /\ clip'.data \in Contents
        /\ clip.seq \in Nat /\ Seqs \subseteq Nat /\ c # Server /\ local[c] \in Contents
    <2>1. OrderInv /\ OwnerInv /\ TypeOK /\ Publishes(c) /\ ~serverRefuses(clip.data)
      BY DEF PublishInv, OrderInv, OwnerInv, Fits
    <2>2. TypeOK' /\ events # <<>> /\ client' = client /\ tasks' = tasks /\ toServer' = toServer
      BY <2>1, DispatchEffect DEF Dispatch
    <2>3. clip'.data \in Contents
      BY <2>2 DEF TypeOK
    <2>4. QED
      BY <2>1, <2>2, <2>3, StateTypes
  <1>1. Handled(h) /\ HandledFor(h, c) /\ h \in Events /\ ev \in Seq(Events)
    BY <1>0, DispatchEffect, DispatchServes, HeadTailProperties
  <1>2. /\ \A S : NoneIn(events, S) <=> NoneIn(ev, S) /\ h \notin S
        /\ \A S, X : LastIn(events, S, X) => LastIn(ev, S, X) \/ (h \in X /\ NoneIn(ev, S))
    BY <1>0, TakenFrom
  <1>3. local'[c] = local[c]
    BY <1>0, <1>1 DEF HandledFor
  <1>4. \A m \in DownMessages : \A S : NoneIn(Append(toClient[c], m), S) <=> NoneIn(toClient[c], S) /\ m \notin S
    BY <1>0, AppendedIn
  <1> HIDE DEF h, ev, E
  <1>5. CASE h.kind # "changed"
    <2>1. events' = ev /\ cache' = cache
      BY <1>1, <1>5 DEF Handled, HandledFor, ev
    <2>2. Publisher(c)' => Publisher(c)
      <3>1. CASE h.kind = "send" /\ h.to = c
        <4> DEFINE m == [kind |-> "data", data |-> h.data]
        <4>1. m \in DownMessages /\ (h \in Overwriting(c) => m \in Overwrites)
          BY <1>1, <3>1, EventType DEF DownMessages, Overwrites, Overwriting
        <4>2. toClient'[c] = Append(toClient[c], m)
          BY <1>0, <1>1, <3>1 DEF Handled, TypeOK
        <4> HIDE DEF m
        <4>3. NoneIn(toClient'[c], Overwrites) => NoneIn(toClient[c], Overwrites) /\ h \notin Overwriting(c)
          BY <1>4, <4>1, <4>2
        <4>4. QED
          BY <1>0, <1>2, <1>3, <2>1, <4>3, SpoiledGrows DEF Publisher
      <3>2. CASE ~(h.kind = "send" /\ h.to = c)
        <4>1. h \notin Overwriting(c)
          BY <3>2 DEF Overwriting
        <4>2. toClient'[c] = toClient[c] \/ toClient'[c] = Append(toClient[c], GrabMessage)
          <5>1. CASE h.kind = "send"
            BY <1>0, <1>1, <3>2, <5>1 DEF Handled, TypeOK
          <5>2. CASE h.kind = "grabbed"
            BY <1>0, <1>1, <5>2 DEF Handled
          <5>3. QED
            BY <1>1, <1>5, <5>1, <5>2, EventType
        <4>3. NoneIn(toClient'[c], Overwrites) => NoneIn(toClient[c], Overwrites)
          BY <1>4, <4>2, GrabMessageType
        <4>4. QED
          BY <1>0, <1>2, <1>3, <2>1, <4>1, <4>3, SpoiledGrows DEF Publisher
      <3>3. QED
        BY <3>1, <3>2
    <2>3. ASSUME NEW q \in Seqs, OnWay(c, q, local[c], cache[c], tasks[c], toServer[c], events)
          PROVE  OnWay(c, q, local[c], cache'[c], tasks'[c], toServer'[c], events')
      <3>1. h \notin Changes(c, q)
        BY <1>5 DEF Changes
      <3>2. LastIn(events, EventsOf(c), Changes(c, q)) => LastIn(ev, EventsOf(c), Changes(c, q))
        BY <1>2, <3>1
      <3>3. QED
        BY <1>0, <2>1, <2>3, <3>2 DEF OnWay
    <2>4. ASSUME Done(c, local[c], clip, tasks[c], toServer[c], events)
          PROVE  Done(c, local[c], clip', tasks'[c], toServer'[c], events')
      <3>1. NoneIn(ev, E) /\ h \notin E
        BY <1>2, <2>4 DEF Done, E
      <3>2. h.kind # "send" => h.from # c
        BY <1>1, <3>1 DEF EventsOf, E
      <3>3. clip'.owner = c => clip.owner = c /\ clip'.data = clip.data
        BY <1>1, <1>5, <3>2 DEF Handled
      <3>4. QED
        BY <1>0, <2>1, <2>4, <3>1, <3>3 DEF Done, E
    <2>5. QED
      BY <1>0, <1>3, <2>2, <2>3, <2>4, PublishFrame
  <1>6. CASE h.kind = "changed"
    <2>1. /\ clip'.owner = clip.owner /\ toClient' = toClient /\ h.from \in Clients /\ h.seq \in Nat
          /\ ~serverRefuses(clip'.data) /\ Queues(ev, events', clip'.data)
      BY <1>0, <1>1, <1>6, EventType DEF Handled, Queues, ev
    <2>2. ~(h.seq < clip.seq) => h.from = clip.owner
      BY <1>0, <1>6, AcceptedFromOwner DEF h
    <2>3. /\ Served(ev, active, c) /\ (h.seq < clip.seq => clip'.data = clip.data)
          /\ ~(h.seq < clip.seq) /\ ~serverRefuses(cache[h.from]) => clip'.data = cache[h.from]
      BY <1>1, <1>6, <2>2 DEF HandledFor, ev
    <2>4. /\ NoneIn(ev, E) => NoneIn(events', E)
          /\ \A X : LastIn(ev, E, X) => LastIn(events', E, X)
          /\ \A S : NoneIn(events', S) => NoneIn(ev, S)
      BY <1>0, <1>1, <2>1, QueuesKept DEF E
    <2>5. h \notin Overwriting(c)
      BY <1>6 DEF Overwriting
    <2>6. Publisher(c)' => Publisher(c)
      BY <1>0, <1>2, <1>3, <2>1, <2>4, <2>5, SpoiledGrows DEF Publisher
    <2>7. Publisher(c)' => (Holds(cache[c], local[c]) => Holds(cache'[c], local[c]))
      BY <1>0, <1>1, <2>1, <2>3, HoldsKept DEF Publisher
    <2>8. ASSUME NEW q \in Seqs, Publisher(c)', Behind(c, q, clip, toServer[c], events),
                 OnWay(c, q, local[c], cache[c], tasks[c], toServer[c], events)
          PROVE  \/ OnWay(c, q, local[c], cache'[c], tasks'[c], toServer'[c], events')
                 \/ Done(c, local[c], clip', tasks'[c], toServer'[c], events')
      <3>1. CASE \/ LastIn(tasks[c], SendTasks, SendTask(local[c], q))
                 \/ NoneIn(tasks[c], SendTasks) /\ LastIn(toServer[c], UpMessages, UpData(local[c], q))
        BY <1>0, <3>1 DEF OnWay
      <3>2. CASE /\ NoneIn(tasks[c], SendTasks) /\ NoneIn(toServer[c], UpMessages)
                 /\ LastIn(events, E, Changes(c, q)) /\ Holds(cache[c], local[c])
        <4>1. CASE LastIn(ev, E, Changes(c, q))
          BY <1>0, <2>4, <2>7, <2>8, <3>2, <4>1 DEF OnWay, E
        <4>2. CASE h \in Changes(c, q) /\ NoneIn(ev, E)
          <5>1. h.from = c /\ h.seq = q /\ q \in Nat
            BY <1>0, <4>2 DEF Changes
          <5>2. ~serverRefuses(cache[c])
            BY <2>6, <2>8, <3>2, RefusedByBoth DEF Holds, Publisher
          <5>3. clip.owner = c => ~(h.seq < clip.seq)
            BY <1>0, <2>8, <5>1 DEF Behind
          <5>4. clip.owner = c => clip'.data = local[c] \/ clip'.data \in Files
            BY <2>3, <3>2, <5>1, <5>2, <5>3 DEF Holds
          <5>5. QED
            BY <1>0, <2>1, <2>4, <3>2, <4>2, <5>4 DEF Done, E
        <4>3. QED
          BY <1>2, <3>2, <4>1, <4>2
      <3>3. QED
        BY <2>8, <3>1, <3>2 DEF OnWay, E
    <2>9. ASSUME Done(c, local[c], clip, tasks[c], toServer[c], events)
          PROVE  Done(c, local[c], clip', tasks'[c], toServer'[c], events')
      <3>1. NoneIn(ev, E) /\ h \notin E
        BY <1>2, <2>9 DEF Done, E
      <3>2. h.from # c
        BY <1>1, <1>6, <3>1 DEF EventsOf, E
      <3>3. clip'.owner = c => clip.owner = c /\ clip'.data = clip.data
        BY <2>1, <2>2, <2>3, <3>2
      <3>4. QED
        BY <1>0, <2>4, <2>9, <3>1, <3>3 DEF Done, E
    <2>10. QED
      BY <1>0, <1>3, <2>6, <2>8, <2>9, PublishFrame
  <1>7. QED
    BY <1>5, <1>6

\* A step that leaves client c and its wires alone, and the events about it in the queue.
LEMMA QueuePublishes ==
    ASSUME PublishInv, [Next]_vars, NEW c \in Clients, clip' = clip,
           client'[c] = client[c], tasks'[c] = tasks[c], local'[c] = local[c],
           toClient'[c] = toClient[c], toServer'[c] = toServer[c], cache'[c] = cache[c],
           NoneIn(events', Overwriting(c)) => NoneIn(events, Overwriting(c)),
           NoneIn(events, EventsOf(c)) => NoneIn(events', EventsOf(c)),
           \A q \in Seqs : LastIn(events, EventsOf(c), Changes(c, q)) => LastIn(events', EventsOf(c), Changes(c, q))
    PROVE  Publishes(c)'
  <1>0. TypeOK /\ Publishes(c)
    BY DEF PublishInv, OrderInv, OwnerInv
  <1>1. Publisher(c)' => Publisher(c)
    BY <1>0, SpoiledGrows DEF Publisher
  <1>2. ASSUME NEW q \in Seqs, OnWay(c, q, local[c], cache[c], tasks[c], toServer[c], events)
        PROVE  OnWay(c, q, local[c], cache'[c], tasks'[c], toServer'[c], events')
    BY <1>2 DEF OnWay
  <1>3. Done(c, local[c], clip, tasks[c], toServer[c], events) =>
          Done(c, local[c], clip', tasks'[c], toServer'[c], events')
    BY DEF Done
  <1>4. QED
    BY <1>0, <1>1, <1>2, <1>3, PublishFrame

\* A copy on the server is not an event of c.
LEMMA CopyPublishes ==
    ASSUME PublishInv, CopyOnServer, [Next]_vars, NEW c \in Clients
    PROVE  Publishes(c)'
  <1> DEFINE e == [kind |-> "grabbed", from |-> Server, seq |-> primarySeq]
  <1>0. TypeOK /\ events \in Seq(Events) /\ c \in Screens /\ c # Server /\ primarySeq \in Seqs
    BY StateTypes DEF PublishInv, OrderInv, OwnerInv, TypeOK
  <1>1. e \in Events /\ e \notin EventsOf(c) /\ e \notin Overwriting(c)
    BY <1>0 DEF Events, Screens, EventsOf, Overwriting
  <1>2. /\ events' = Append(events, e) /\ clip' = clip /\ client' = client /\ tasks' = tasks
        /\ toClient' = toClient /\ toServer' = toServer /\ cache' = cache
    BY DEF CopyOnServer
  <1>3. local'[c] = local[c]
    BY <1>0 DEF CopyOnServer, TypeOK
  <1> HIDE DEF e
  <1>4. /\ \A S : NoneIn(Append(events, e), S) <=> NoneIn(events, S) /\ e \notin S
        /\ \A S, X : e \notin S /\ LastIn(events, S, X) => LastIn(Append(events, e), S, X)
    BY <1>0, <1>1, AppendedIn
  <1>5. QED
    BY <1>1, <1>2, <1>3, <1>4, QueuePublishes

\* The steps of another client, or of its connection.
LEMMA OthersPublish ==
    ASSUME PublishInv, [Next]_vars, NEW b \in Clients, NEW c \in Clients, b # c,
           Receive(b) \/ Obey(b) \/ CopyOnClient(b) \/ Work(b) \/ Lose(b) \/ Reconnect(b)
    PROVE  Publishes(c)'
  <1>0. TypeOK /\ events \in Seq(Events)
    BY StateTypes DEF PublishInv, OrderInv, OwnerInv
  <1>1. /\ client'[c] = client[c] /\ tasks'[c] = tasks[c] /\ local'[c] = local[c]
        /\ toClient'[c] = toClient[c] /\ toServer'[c] = toServer[c] /\ cache'[c] = cache[c]
    BY <1>0, OthersKept
  <1>2. clip' = clip
    BY DEF Receive, Obey, CopyOnClient, Work, Lose, Reconnect
  <1>3. CASE Receive(b)
    <2> DEFINE e == ReadEvent(b)
    <2>1. e \in Events /\ (events' = Append(events, e) \/ events' = events)
      BY <1>0, <1>3, ReceiveEffect
    <2>2. e \notin EventsOf(c) /\ e \notin Overwriting(c)
      BY DEF EventsOf, Overwriting, ReadEvent
    <2> HIDE DEF e
    <2>3. /\ \A S : NoneIn(Append(events, e), S) <=> NoneIn(events, S) /\ e \notin S
          /\ \A S, X : e \notin S /\ LastIn(events, S, X) => LastIn(Append(events, e), S, X)
      BY <1>0, <2>1, AppendedIn
    <2>4. QED
      BY <1>1, <1>2, <2>1, <2>2, <2>3, QueuePublishes
  <1>4. CASE Lose(b)
    <2> DEFINE K == EventsOfOthers(b)
    <2>1. events' = Kept(events, K)
      BY <1>4 DEF Lose
    <2>2. Overwriting(c) \subseteq K /\ \A q : Changes(c, q) \subseteq K
      BY DEF Overwriting, Changes, EventsOfOthers
    <2> HIDE DEF K
    <2>3. /\ \A S : NoneIn(events, S) => NoneIn(Kept(events, K), S)
          /\ \A S : S \subseteq K /\ NoneIn(Kept(events, K), S) => NoneIn(events, S)
          /\ \A S, X : X \subseteq K /\ LastIn(events, S, X) => LastIn(Kept(events, K), S, X)
      BY <1>0, KeptIn
    <2>4. QED
      BY <1>1, <1>2, <2>1, <2>2, <2>3, QueuePublishes
  <1>5. CASE Obey(b) \/ CopyOnClient(b) \/ Work(b) \/ Reconnect(b)
    <2>1. events' = events
      BY <1>5 DEF Obey, CopyOnClient, Work, Reconnect, wires
    <2>2. QED
      BY <1>1, <1>2, <2>1, QueuePublishes
  <1>6. QED
    BY <1>3, <1>4, <1>5

\* The server reads a message of c: a content becomes the proxy's.
LEMMA ReadPublishes ==
    ASSUME PublishInv, [Next]_vars, NEW c \in Clients, Receive(c), Publisher(c)'
    PROVE  Publishes(c)'
  <1> DEFINE m == Head(toServer[c])
             up == toServer[c]
             e == ReadEvent(c)
  <1>0. TypeOK /\ Publishes(c) /\ events \in Seq(Events) /\ up \in Seq(UpMessages)
    BY StateTypes DEF PublishInv, OrderInv, OwnerInv
  <1>1. /\ up # <<>> /\ toServer'[c] = Tail(up) /\ m \in UpMessages
        /\ m.kind # "grab" => cache'[c] = m.data
        /\ e \in Events /\ events' = Append(events, e)
    BY <1>0, ReceiveEffect DEF Publisher
  <1>2. e.from = c /\ e.seq = m.seq /\ e.kind = (IF m.kind = "grab" THEN "grabbed" ELSE "changed")
    BY DEF ReadEvent
  <1>3. clip' = clip /\ client' = client /\ tasks' = tasks /\ toClient' = toClient /\ local' = local
    BY DEF Receive
  <1>4. /\ \A S : NoneIn(up, S) <=> NoneIn(Tail(up), S) /\ m \notin S
        /\ \A S, X : LastIn(up, S, X) => LastIn(Tail(up), S, X) \/ (m \in X /\ NoneIn(Tail(up), S))
    BY <1>0, <1>1, TakenFrom
  <1> HIDE DEF m, up, e
  <1>5. /\ \A S : NoneIn(Append(events, e), S) <=> NoneIn(events, S) /\ e \notin S
        /\ \A S, X : e \in X => LastIn(Append(events, e), S, X)
    BY <1>0, <1>1, AppendedIn
  <1>6. Publisher(c)' => Publisher(c)
    BY <1>0, <1>1, <1>3, <1>5, SpoiledGrows DEF Publisher
  <1>7. ~NoneIn(up, UpMessages)
    BY <1>1, <1>4
  <1>8. ASSUME NEW q \in Seqs, OnWay(c, q, local[c], cache[c], tasks[c], up, events)
        PROVE  OnWay(c, q, local[c], cache'[c], tasks'[c], toServer'[c], events')
    <2>1. CASE LastIn(tasks[c], SendTasks, SendTask(local[c], q))
      BY <1>3, <2>1 DEF OnWay
    <2>2. CASE NoneIn(tasks[c], SendTasks) /\ LastIn(Tail(up), UpMessages, UpData(local[c], q))
      BY <1>1, <1>3, <2>2 DEF OnWay
    <2>3. CASE NoneIn(tasks[c], SendTasks) /\ NoneIn(Tail(up), UpMessages) /\ m \in UpData(local[c], q)
      <3>1. m.kind = "data" /\ m.data = local[c] /\ m.seq = q
        BY <2>3 DEF UpData
      <3>2. e \in Changes(c, q) /\ cache'[c] = local[c]
        BY <1>1, <1>2, <3>1 DEF Changes
      <3>3. LastIn(events', EventsOf(c), Changes(c, q))
        BY <1>1, <1>5, <3>2
      <3>4. QED
        BY <1>1, <1>3, <2>3, <3>2, <3>3 DEF OnWay, Holds
    <2>4. QED
      BY <1>4, <1>7, <1>8, <2>1, <2>2, <2>3 DEF OnWay
  <1>9. ~Done(c, local[c], clip, tasks[c], up, events)
    BY <1>7 DEF Done
  <1>10. QED
    BY <1>0, <1>3, <1>6, <1>8, <1>9, PublishFrame DEF up

LEMMA ReceivePublishes ==
    ASSUME PublishInv, [Next]_vars, NEW c \in Clients, Receive(c)
    PROVE  Publishes(c)'
  <1>1. CASE Publisher(c)'
    BY <1>1, ReadPublishes
  <1>2. CASE ~Publisher(c)'
    BY <1>2 DEF Publishes
  <1>3. QED
    BY <1>1, <1>2

\* Client::leave queues the content, with a number that is behind the grab.
LEMMA ObeyPublishes ==
    ASSUME PublishInv, [Next]_vars, NEW c \in Clients, Obey(c)
    PROVE  Publishes(c)'
  <1> DEFINE t == toClient[c]
             q == client[c].seq
  <1>0. /\ TypeOK /\ OrderInv /\ OwnerInv /\ Publishes(c) /\ t \in Seq(DownMessages) /\ tasks[c] \in Seq(Tasks)
        /\ q \in Seqs /\ local[c] \in Contents
    BY StateTypes DEF PublishInv, OrderInv, OwnerInv
  <1>1. clip' = clip /\ cache' = cache /\ toServer' = toServer /\ events' = events
    BY DEF Obey
  <1>2. /\ t # <<>> /\ toClient'[c] = Tail(t) /\ (client'[c].own => client[c].own)
        /\ NoneIn(tasks'[c], GrabTasks) <=> NoneIn(tasks[c], GrabTasks)
        /\ client'[c].own => /\ local'[c] = local[c] /\ Head(t).kind # "grab"
                             /\ Head(t).kind = "data" => Head(t).data \in Files
    BY <1>0, ObeyEffect
  <1>3. \A S : NoneIn(t, S) <=> NoneIn(Tail(t), S) /\ Head(t) \notin S
    BY <1>0, <1>2, TakenFrom
  <1>4. Publisher(c)' => local'[c] = local[c] /\ Head(t) \notin Overwrites /\ NoneIn(t, Overwrites)
    BY <1>2, <1>3 DEF Publisher, Overwrites
  <1>5. CASE client'[c].timed = client[c].timed /\ tasks'[c] = tasks[c]
    <2>1. Publisher(c)' => Publisher(c)
      BY <1>0, <1>1, <1>2, <1>4, <1>5, SpoiledGrows DEF Publisher
    <2>2. /\ cache'[c] = cache[c] /\ tasks'[c] = tasks[c] /\ toServer'[c] = toServer[c]
          /\ Publisher(c)' => local'[c] = local[c]
      BY <1>1, <1>4, <1>5
    <2>3. QED
      BY <1>0, <1>1, <2>1, <2>2, PublishFrame
  <1>6. ASSUME client[c].own, ~client[c].timed, NEW ok \in Outcomes, tasks'[c] = tasks[c] \o sendClipboard(c, ok)
        PROVE  Publishes(c)'
    <2>1. client[c].active /\ q > 0
      BY <1>0, <1>6 DEF OwnerInv, OwnCovered, Positive
    <2>2. Behind(c, q, clip, toServer[c], events)
      BY <1>0, <2>1 DEF OrderInv, Ordered, Writes
    <2>3. local[c] \notin Files /\ ~clientRefuses(local[c]) =>
            LastIn(tasks'[c], SendTasks, SendTask(local[c], q))
      BY <1>0, <1>6, TasksGrow
    <2>4. Publisher(c)' => OnWay(c, q, local'[c], cache'[c], tasks'[c], toServer'[c], events')
      BY <1>4, <2>3 DEF Publisher, OnWay
    <2>5. Behind(c, q, clip', toServer'[c], events')
      BY <1>1, <2>2
    <2> HIDE DEF q
    <2>6. QED
      BY <1>0, <2>4, <2>5 DEF Publishes
  <1>7. QED
    BY <1>0, <1>5, <1>6, ObeyEffect

\* Client c grabs, or writes a queued content to the stream.
LEMMA WorkPublishes ==
    ASSUME PublishInv, [Next]_vars, NEW c \in Clients, Work(c)
    PROVE  Publishes(c)'
  <1> DEFINE k == tasks[c]
             w == Head(tasks[c])
             up == toServer[c]
  <1>0. /\ TypeOK /\ OrderInv /\ OwnerInv /\ Publishes(c) /\ k \in Seq(Tasks) /\ up \in Seq(UpMessages)
        /\ client[c].seq \in Seqs /\ client[c].seq \in Nat /\ local[c] \in Contents
    BY StateTypes DEF PublishInv, OrderInv, OwnerInv
  <1>1. k # <<>> /\ w \in Tasks /\ In(w, k)
    BY <1>0, WorkEffect, InTail
  <1>2. clip' = clip /\ cache' = cache /\ local' = local /\ toClient' = toClient /\ events' = events
    BY DEF Work
  <1>3. /\ \A S : NoneIn(k, S) <=> NoneIn(Tail(k), S) /\ w \notin S
        /\ \A S, X : LastIn(k, S, X) => LastIn(Tail(k), S, X) \/ (w \in X /\ NoneIn(Tail(k), S))
    BY <1>0, <1>1, TakenFrom
  <1>4. CASE w.kind = "send"
    <2>1. client' = client /\ tasks'[c] = Tail(k)
      BY <1>0, <1>4, WorkEffect
    <2>2. PICK m \in UpMessages : m.kind = "data" /\ m.data = w.data /\ m.seq = w.seq /\ toServer'[c] = Append(up, m)
      BY <1>0, <1>4, WorkEffect
    <2>3. \A S, X : m \in X => LastIn(Append(up, m), S, X)
      BY <1>0, AppendedIn
    <2> HIDE DEF k, w, up
    <2>4. w \in SendTasks /\ w \notin GrabTasks
      BY <1>1, <1>4 DEF SendTasks, GrabTasks
    <2>5. Publisher(c)' => Publisher(c)
      BY <1>0, <1>2, <1>3, <2>1, <2>4, SpoiledGrows DEF Publisher, k
    <2>6. ASSUME NEW q \in Seqs, OnWay(c, q, local[c], cache[c], k, up, events)
          PROVE  OnWay(c, q, local[c], cache'[c], tasks'[c], toServer'[c], events')
      <3>1. LastIn(k, SendTasks, SendTask(local[c], q))
        BY <1>3, <2>4, <2>6 DEF OnWay
      <3>2. CASE LastIn(Tail(k), SendTasks, SendTask(local[c], q))
        BY <2>1, <3>2 DEF OnWay
      <3>3. CASE w \in SendTask(local[c], q) /\ NoneIn(Tail(k), SendTasks)
        <4>1. m \in UpData(local[c], q)
          BY <2>2, <3>3 DEF SendTask, UpData
        <4>2. QED
          BY <2>1, <2>2, <2>3, <3>3, <4>1 DEF OnWay
      <3>4. QED
        BY <1>3, <3>1, <3>2, <3>3
    <2>7. ~Done(c, local[c], clip, k, up, events)
      BY <1>3, <2>4 DEF Done
    <2>8. QED
      BY <1>0, <1>2, <2>5, <2>6, <2>7, PublishFrame DEF k, up
  <1>5. CASE w.kind = "grabbed"
    <2>1. client'[c].timed = ~client[c].active
      BY <1>0, <1>5, WorkEffect
    <2>2. PICK ok \in Outcomes : tasks'[c] = IF client[c].active THEN Tail(k) ELSE Tail(k) \o sendClipboard(c, ok)
      BY <1>0, <1>5, WorkEffect
    <2>3. client[c].seq > 0
      BY <1>0, <1>1, <1>5 DEF OwnerInv, Positive
    <2> DEFINE q == client[c].seq
    <2>4. Behind(c, q, clip, toServer[c], events)
      BY <1>0, <2>3 DEF OrderInv, Ordered, Writes
    <2>5. Behind(c, q, clip', toServer'[c], events')
      BY <1>0, <2>4, BehindKept
    <2>6. Tail(k) \in Seq(Tasks)
      BY <1>0, <1>1, HeadTailProperties
    <2>7. local[c] \notin Files /\ ~clientRefuses(local[c]) =>
            LastIn(Tail(k) \o sendClipboard(c, ok), SendTasks, SendTask(local[c], q))
      BY <1>0, <2>6, TasksGrow
    <2>8. Publisher(c)' => OnWay(c, q, local'[c], cache'[c], tasks'[c], toServer'[c], events')
      BY <1>2, <2>1, <2>2, <2>7 DEF Publisher, OnWay
    <2> HIDE DEF q
    <2>9. QED
      BY <1>0, <2>5, <2>8 DEF Publishes, q
  <1>6. QED
    BY <1>0, <1>4, <1>5, WorkEffect

\* Client c is about to grab, or owns nothing.
LEMMA OwnPublishes ==
    ASSUME PublishInv, [Next]_vars, NEW c \in Clients, CopyOnClient(c) \/ Lose(c) \/ Reconnect(c)
    PROVE  Publishes(c)'
  <1>0. /\ TypeOK /\ Idle(c) /\ tasks[c] \in Seq(Tasks) /\ client \in [Clients -> ClientType]
        /\ tasks \in [Clients -> Seq(Tasks)]
    BY StateTypes DEF PublishInv, OrderInv, OwnerInv, TypeOK
  <1>1. CASE CopyOnClient(c)
    <2> DEFINE w == [kind |-> "grabbed"]
    <2>1. tasks'[c] = Append(tasks[c], w) /\ w \in Tasks /\ w \in GrabTasks
      BY <1>0, <1>1 DEF CopyOnClient, Tasks, GrabTasks
    <2> HIDE DEF w
    <2>2. \A S : NoneIn(Append(tasks[c], w), S) <=> NoneIn(tasks[c], S) /\ w \notin S
      BY <1>0, <2>1, AppendedIn
    <2>3. QED
      BY <2>1, <2>2 DEF Publishes, Publisher
  <1>2. CASE Lose(c)
    <2>1. client'[c].own = FALSE
      BY <1>0, <1>2 DEF Lose
    <2>2. QED
      BY <2>1 DEF Publishes, Publisher
  <1>3. CASE Reconnect(c)
    <2>1. ~client[c].own
      BY <1>0, <1>3 DEF Reconnect, Idle
    <2>2. client'[c].own = client[c].own
      BY <1>0, <1>3 DEF Reconnect, ClientType
    <2>3. QED
      BY <2>1, <2>2 DEF Publishes, Publisher
  <1>4. QED
    BY <1>1, <1>2, <1>3

LEMMA PublishesStep ==
    ASSUME PublishInv, [Next]_vars, NEW c \in Clients
    PROVE  Publishes(c)'
  <1>1. CASE SwitchScreen
    BY <1>1, SwitchPublishes
  <1>2. CASE CopyOnServer
    BY <1>2, CopyPublishes
  <1>3. CASE Dispatch
    BY <1>3, DispatchPublishes
  <1>4. ASSUME NEW b \in Clients,
               Receive(b) \/ Obey(b) \/ CopyOnClient(b) \/ Work(b) \/ Lose(b) \/ Reconnect(b)
        PROVE  Publishes(c)'
    <2>1. CASE b # c
      BY <1>4, <2>1, OthersPublish
    <2>2. CASE b = c
      BY <1>4, <2>2, ReceivePublishes, ObeyPublishes, WorkPublishes, OwnPublishes
    <2>3. QED
      BY <2>1, <2>2
  <1>5. CASE UNCHANGED vars
    BY <1>5, QueuePublishes DEF vars, wires
  <1>6. QED
    BY <1>1, <1>2, <1>3, <1>4, <1>5 DEF Next

LEMMA PublishStep ==
    ASSUME ~LocalUse, PublishInv, [Next]_vars
    PROVE  PublishInv'
  <1>1. OrderInv /\ TypeOK /\ Fits
    BY DEF PublishInv, OrderInv, OwnerInv
  <1>2. OrderInv'
    BY <1>1, OrderStep
  <1>3. Fits'
    BY <1>1, FitsStep
  <1>4. \A c \in Clients : Publishes(c)'
    BY PublishesStep
  <1>5. QED
    BY <1>2, <1>3, <1>4 DEF PublishInv

LEMMA PublishInitially == Init => PublishInv
  <1> SUFFICES ASSUME Init PROVE PublishInv
    OBVIOUS
  <1>1. \A c \in Clients : ~client[c].own
    BY DEF Init
  <1>2. QED
    BY <1>1, OrderInitially, InitFits DEF PublishInv, Publishes, Publisher

(***************************************************************************)
(* Once everything is delivered, a client that the server takes for the    *)
(* owner and that has lost the cursor has published what it holds, unless  *)
(* that is too big for it to send or a list of files that it may have      *)
(* failed to package, or the server holds a package that the client may    *)
(* have failed to extract, or one of its uploads met another client's in   *)
(* the server's one buffer (Client::leave, Client::handle_clipboard_       *)
(* grabbed, ClientProxy1_6::recvClipboard and Server::onClipboardChanged). *)
(***************************************************************************)
THEOREM OwnersPublish ==
    ASSUME ~LocalUse
    PROVE  Spec => []OwnerPublished
  <1>1. PublishInv /\ [Next]_vars => PublishInv'
    BY PublishStep
  <1>2. PublishInv => OwnerPublished
    <2> SUFFICES ASSUME PublishInv, Quiet, NEW c \in Clients \ spoiled, clip.owner = c, client[c].own, active # c,
                        ~clientRefuses(local[c]), local[c] \notin Files
                 PROVE  clip.data = local[c] \/ clip.data \in Files
      BY DEF OwnerPublished
    <2>0. /\ events = <<>> /\ toClient[c] = <<>> /\ toServer[c] = <<>> /\ tasks[c] = <<>>
          /\ OwnerInv /\ Publishes(c) /\ Len(<<>>) = 0
      BY DEF Quiet, PublishInv, OrderInv
    <2>1. \A S, X : NoneIn(<<>>, S) /\ ~LastIn(<<>>, S, X)
      BY <2>0 DEF NoneIn, LastIn
    <2>2. ~client[c].active
      BY <2>0 DEF OwnerInv, Alternates, Left
    <2>3. client[c].timed
      BY <2>0, <2>2 DEF OwnerInv, OwnCovered
    <2>4. Publisher(c)
      BY <2>0, <2>1, <2>3 DEF Publisher
    <2>5. \A q \in Seqs : ~OnWay(c, q, local[c], cache[c], tasks[c], toServer[c], events)
      BY <2>0, <2>1 DEF OnWay
    <2>6. QED
      BY <2>0, <2>4, <2>5 DEF Publishes, Done
  <1>3. QED
    BY PublishInitially, <1>1, <1>2, PTL DEF Spec
=============================================================================
