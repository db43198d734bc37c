----------------------- MODULE ServerSwitching_proofs -----------------------
(***************************************************************************)
(* Proofs about ServerSwitching, for any clients, names and configurations. *)
(***************************************************************************)
EXTENDS ServerSwitching, TLAPS

----------------------------------------------------------------------------
(* The cursor operations keep the cursor state well formed *)

CursorOK(c) == c \in CursorType /\ Stoppable(c)

\* Stopping the switch tests (Server::stopSwitch) keeps the state well formed
\* and leaves no wait timer.
LEMMA StopSwitchOK ==
  ASSUME NEW c, CursorOK(c)
  PROVE  /\ CursorOK(stopSwitch(c))
         /\ ~stopSwitch(c).timer
         /\ stopSwitch(c).active = c.active
         /\ stopSwitch(c).activeSaver = c.activeSaver
         /\ stopSwitch(c).entered = c.entered
         /\ stopSwitch(c).jump = c.jump
BY ConstantsAssumption
DEF CursorOK, CursorType, Stoppable, stopSwitch, stopSwitchWait, stopSwitchTwoTap, Dirs,
    Horizontal, Vertical, NoDir, Proxies

\* Motion away from the edge (Server::noSwitch) keeps it well formed, stops the
\* timer and moves nothing.
LEMMA NoSwitchOK ==
  ASSUME NEW c, CursorOK(c), NEW tap
  PROVE  /\ CursorOK(noSwitch(c, tap))
         /\ ~noSwitch(c, tap).timer
         /\ noSwitch(c, tap).active = c.active
         /\ noSwitch(c, tap).activeSaver = c.activeSaver
         /\ noSwitch(c, tap).entered = c.entered
BY ConstantsAssumption
DEF CursorOK, CursorType, Stoppable, noSwitch, armSwitchTwoTap, stopSwitchWait,
    stopSwitchTwoTap

\* Switching to a screen (Server::switchScreen) keeps it well formed, leaves
\* no timer, and either reaches the screen or stays.
LEMMA SwitchScreenOK ==
  ASSUME NEW c, CursorOK(c), NEW dst \in Proxies, NEW at \in Proxies, NEW canLeave
  PROVE  /\ CursorOK(switchScreen(c, dst, at, canLeave))
         /\ ~switchScreen(c, dst, at, canLeave).timer
         /\ switchScreen(c, dst, at, canLeave).activeSaver = c.activeSaver
         /\ switchScreen(c, dst, at, canLeave).active \in {dst, c.active}
         /\ c.entered = {c.active} =>
              switchScreen(c, dst, at, canLeave).entered
                = {switchScreen(c, dst, at, canLeave).active}
<1> DEFINE s == stopSwitch(c)
           d == [s EXCEPT !.pos = at]
<1>1. /\ CursorOK(s) /\ ~s.timer /\ s.active = c.active
      /\ s.activeSaver = c.activeSaver /\ s.entered = c.entered
  BY StopSwitchOK
<1>2. /\ CursorOK(d) /\ ~d.timer /\ d.active = c.active
      /\ d.activeSaver = c.activeSaver /\ d.entered = c.entered
  BY <1>1 DEF CursorOK, CursorType, Stoppable
<1> HIDE DEF s, d
<1>3. switchScreen(c, dst, at, canLeave) =
        IF d.active # dst /\ leaves(d, canLeave)
          THEN [d EXCEPT !.active = dst, !.entered = (d.entered \ {d.active}) \cup {dst}]
          ELSE d
  BY DEF switchScreen, d, s
<1>4. CASE d.active # dst /\ leaves(d, canLeave)
  <2> DEFINE e == [d EXCEPT !.active = dst, !.entered = (d.entered \ {d.active}) \cup {dst}]
  <2>1. e \in CursorType
    BY <1>2 DEF CursorOK, CursorType
  <2>2. /\ Stoppable(e) /\ ~e.timer /\ e.activeSaver = c.activeSaver /\ e.active = dst
        /\ c.entered = {c.active} => e.entered = {dst}
    BY <1>2 DEF CursorOK, CursorType, Stoppable
  <2>3. QED
    BY <1>3, <1>4, <2>1, <2>2 DEF CursorOK
<1>5. CASE ~(d.active # dst /\ leaves(d, canLeave))
  BY <1>2, <1>3, <1>5
<1>6. QED
  BY <1>4, <1>5

\* Jumping to a screen (Server::jumpToScreen) is a switch from a well-formed
\* state.
LEMMA JumpToScreenOK ==
  ASSUME NEW c, CursorOK(c), NEW dst \in Proxies, NEW canLeave
  PROVE  /\ CursorOK(jumpToScreen(c, dst, canLeave))
         /\ ~jumpToScreen(c, dst, canLeave).timer
         /\ jumpToScreen(c, dst, canLeave).activeSaver = c.activeSaver
         /\ jumpToScreen(c, dst, canLeave).active \in {dst, c.active}
         /\ c.entered = {c.active} =>
              jumpToScreen(c, dst, canLeave).entered
                = {jumpToScreen(c, dst, canLeave).active}
<1> DEFINE d == [c EXCEPT !.jump[c.active] = c.pos]
<1>1. /\ CursorOK(d) /\ d.active = c.active /\ d.activeSaver = c.activeSaver
      /\ d.entered = c.entered /\ d.jump[dst] \in Proxies
  BY DEF CursorOK, CursorType, Stoppable
<1>2. jumpToScreen(c, dst, canLeave) = switchScreen(d, dst, d.jump[dst], canLeave)
  BY DEF jumpToScreen
<1> DEFINE at == d.jump[dst]
<1>a. at \in Proxies
  BY <1>1
<1> HIDE DEF d, at
<1>3. /\ CursorOK(switchScreen(d, dst, at, canLeave))
      /\ ~switchScreen(d, dst, at, canLeave).timer
      /\ switchScreen(d, dst, at, canLeave).activeSaver = d.activeSaver
      /\ switchScreen(d, dst, at, canLeave).active \in {dst, d.active}
      /\ d.entered = {d.active} =>
           switchScreen(d, dst, at, canLeave).entered
             = {switchScreen(d, dst, at, canLeave).active}
  BY <1>1, <1>a, SwitchScreenOK
<1>4. QED
  BY <1>1, <1>2, <1>3 DEF at

\* The switch tests (Server::isSwitchOkay) keep the state well formed and never
\* move the cursor; without a delay they start no timer; they accept only an
\* existing screen.
LEMMA IsSwitchOkayOK ==
  ASSUME NEW c, CursorOK(c), NEW dst \in Proxies \cup {Null}, NEW d \in Dirs, NEW in
  PROVE  /\ CursorOK(isSwitchOkay(c, dst, d, in).cur)
         /\ isSwitchOkay(c, dst, d, in).cur.active = c.active
         /\ isSwitchOkay(c, dst, d, in).cur.activeSaver = c.activeSaver
         /\ isSwitchOkay(c, dst, d, in).cur.entered = c.entered
         /\ (~c.timer /\ ~opts.delay) =>
              ~isSwitchOkay(c, dst, d, in).cur.timer
         /\ isSwitchOkay(c, dst, d, in).ok => dst \in Proxies
<1> DEFINE Same(x) == /\ CursorOK(x) /\ x.active = c.active
                      /\ x.activeSaver = c.activeSaver /\ x.entered = c.entered
                      /\ (~c.timer /\ ~opts.delay) => ~x.timer
<1>1. CASE dst = Null
  <2>1. isSwitchOkay(c, dst, d, in) = [cur |-> stopSwitch(c), ok |-> FALSE]
    BY <1>1 DEF isSwitchOkay
  <2>2. /\ isSwitchOkay(c, dst, d, in).cur = stopSwitch(c)
        /\ ~isSwitchOkay(c, dst, d, in).ok
    BY <2>1
  <2>3. Same(stopSwitch(c))
    BY StopSwitchOK
  <2>4. QED
    BY <2>2, <2>3
<1>2. CASE dst # Null
  <2> DEFINE isNewDirection == d # c.dir
             begun == IF isNewDirection \/ c.target = Null
                        THEN [c EXCEPT !.dir = d, !.target = dst] ELSE c
             secondTap == opts.twoTap /\ ~isNewDirection /\ begun.engaged /\ begun.armed /\ in.quick
             firstTap == opts.twoTap /\ ~secondTap
             tapped == IF firstTap THEN startSwitchTwoTap(begun) ELSE begun
             waiting == opts.delay /\ ~secondTap
             waited == IF waiting /\ (isNewDirection \/ ~tapped.timer)
                         THEN startSwitchWait(tapped, dst) ELSE tapped
             prevented == firstTap \/ waiting
             stopped == \/ config.corners /\ in.corner
                        \/ ~prevented /\ (locked \/ in.held)
                        \/ ~prevented /\ opts.needsMods /\ ~in.mods
  <2>1. dst \in Proxies
    BY <1>2
  <2>2. Same(begun) /\ begun.target # Null
    BY <2>1, <1>2, ConstantsAssumption DEF CursorOK, CursorType, Stoppable
  <2> HIDE DEF begun
  <2>3. Same(startSwitchTwoTap(begun)) /\ startSwitchTwoTap(begun).target # Null
    BY <2>2 DEF CursorOK, CursorType, Stoppable, startSwitchTwoTap
  <2>4. Same(tapped) /\ tapped.target # Null
    BY <2>2, <2>3
  <2> HIDE DEF tapped
  <2>5. opts.delay => Same(startSwitchWait(tapped, dst))
    BY <2>1, <2>4 DEF CursorOK, CursorType, Stoppable, startSwitchWait
  <2>6. Same(waited)
    BY <2>4, <2>5
  <2> HIDE DEF waited
  <2>7. Same(stopSwitch(waited))
    BY <2>6, StopSwitchOK
  <2> HIDE DEF firstTap, secondTap, waiting, prevented, stopped
  <2>8. isSwitchOkay(c, dst, d, in) =
          [cur |-> IF stopped THEN stopSwitch(waited) ELSE waited, ok |-> ~prevented /\ ~stopped]
    BY <1>2 DEF isSwitchOkay, begun, tapped, waited, firstTap, secondTap, waiting, prevented,
                stopped
  <2>9. QED
    BY <2>1, <2>6, <2>7, <2>8
<1>3. QED
  BY <1>1, <1>2

\* Cursor state x is what a motion or jump makes of c: the cursor stays or is
\* on a screen of D, exactly the active screen is entered, and no timer was
\* started unless a delay is configured.
Follows(c, x, D) ==
  /\ CursorOK(x)
  /\ x.activeSaver = c.activeSaver
  /\ x.active \in {c.active} \cup D
  /\ c.entered = {c.active} => x.entered = {x.active}
  /\ (~c.timer /\ ~opts.delay) => ~x.timer

\* One attempt to cross an edge leads to the screen behind it or nowhere.
LEMMA TryDirectionOK ==
  ASSUME NEW c, CursorOK(c), NEW dst \in Proxies \cup {Null}, NEW d \in Dirs, NEW in,
         NEW drag, NEW canLeave
  PROVE  Follows(c, tryDirection(c, dst, d, in, drag, canLeave).cur, {dst} \cap Proxies)
<1> DEFINE r == isSwitchOkay(c, dst, d, in)
           go == r.ok /\ ~(drag /\ c.active = Primary /\ dst # Primary)
<1>1. /\ CursorOK(r.cur) /\ r.cur.active = c.active /\ r.cur.activeSaver = c.activeSaver
      /\ r.cur.entered = c.entered /\ ((~c.timer /\ ~opts.delay) => ~r.cur.timer)
      /\ r.ok => dst \in Proxies
  BY IsSwitchOkayOK
<1>2. tryDirection(c, dst, d, in, drag, canLeave).cur =
        IF go THEN switchScreen(r.cur, dst, dst, canLeave) ELSE r.cur
  BY DEF tryDirection
<1> HIDE DEF r
<1>3. CASE go
  <2> DEFINE x == switchScreen(r.cur, dst, dst, canLeave)
             y == r.cur
  <2>1. CursorOK(y) /\ dst \in Proxies
    BY <1>1, <1>3
  <2> HIDE DEF y
  <2>2. /\ CursorOK(switchScreen(y, dst, dst, canLeave))
        /\ ~switchScreen(y, dst, dst, canLeave).timer
        /\ switchScreen(y, dst, dst, canLeave).activeSaver = y.activeSaver
        /\ switchScreen(y, dst, dst, canLeave).active \in {dst, y.active}
        /\ y.entered = {y.active} =>
             switchScreen(y, dst, dst, canLeave).entered
               = {switchScreen(y, dst, dst, canLeave).active}
    BY <2>1, SwitchScreenOK
  <2>3. /\ CursorOK(x) /\ ~x.timer /\ x.activeSaver = c.activeSaver
        /\ x.active \in {dst, c.active}
        /\ c.entered = {c.active} => x.entered = {x.active}
    BY <1>1, <2>2 DEF y
  <2> HIDE DEF x
  <2>4. QED
    BY <1>2, <1>3, <2>1, <2>3 DEF Follows, x
<1>4. CASE ~go
  BY <1>1, <1>2, <1>4 DEF Follows
<1>5. QED
  BY <1>3, <1>4

\* Two attempts, one after the other, lead to one of the two screens.
LEMMA OffPrimaryOK ==
  ASSUME NEW c, CursorOK(c), c.active = Primary,
         NEW h \in Dirs \cup {NoDir}, NEW v \in Dirs \cup {NoDir},
         NEW dh \in Proxies \cup {Null}, NEW dv \in Proxies \cup {Null},
         NEW in, NEW drag, NEW canLeave
  PROVE  Follows(c, offPrimary(c, h, v, dh, dv, in, drag, canLeave), {dh, dv} \cap Proxies)
<1> DEFINE c0 == [c EXCEPT !.pos = Primary]
           a == IF h = NoDir THEN [cur |-> c0, done |-> FALSE]
                ELSE tryDirection(c0, dh, h, in, drag, canLeave)
           b == IF v = NoDir \/ a.done THEN a
                ELSE tryDirection(a.cur, dv, v, in, drag, canLeave)
<1>1. Follows(c, c0, {}) /\ c0.active = c.active /\ c0.entered = c.entered
  BY DEF Follows, CursorOK, CursorType, Stoppable, Proxies
<1>2. /\ c0.activeSaver = c.activeSaver /\ (~c.timer => ~c0.timer) /\ CursorOK(c0)
  BY DEF CursorOK, CursorType, Stoppable, Proxies
<1> HIDE DEF c0
<1>3. h # NoDir =>
        Follows(c0, tryDirection(c0, dh, h, in, drag, canLeave).cur, {dh} \cap Proxies)
  BY <1>2, TryDirectionOK
<1>4. Follows(c, a.cur, {dh} \cap Proxies)
  <2>1. CASE h = NoDir
    BY <1>1, <2>1 DEF Follows
  <2>2. CASE h # NoDir
    BY <1>1, <1>2, <1>3, <2>2 DEF Follows
  <2>3. QED
    BY <2>1, <2>2
<1> HIDE DEF a
<1> DEFINE y == a.cur
<1>5. Follows(c, y, {dh} \cap Proxies)
  BY <1>4
<1>6. CursorOK(y)
  BY <1>5 DEF Follows
<1>7. b.cur = IF v = NoDir \/ a.done THEN y ELSE tryDirection(y, dv, v, in, drag, canLeave).cur
  OBVIOUS
<1> HIDE DEF y
<1>8. v # NoDir => Follows(y, tryDirection(y, dv, v, in, drag, canLeave).cur, {dv} \cap Proxies)
  BY <1>6, TryDirectionOK
<1>9. Follows(c, b.cur, {dh, dv} \cap Proxies)
  <2>1. CASE v = NoDir \/ a.done
    BY <1>5, <1>7, <2>1 DEF Follows
  <2>2. CASE ~(v = NoDir \/ a.done)
    BY <1>5, <1>7, <1>8, <2>2 DEF Follows
  <2>3. QED
    BY <2>1, <2>2
<1>10. offPrimary(c, h, v, dh, dv, in, drag, canLeave) = b.cur
  BY DEF offPrimary, a, c0
<1>11. QED
  BY <1>9, <1>10

\* Leaving clients (Server::forceLeaveClient): the state stays well formed, and
\* the active screen is then the primary's or stays what it was.
LEMMA ForceLeaveOK ==
  ASSUME NEW c, CursorOK(c), NEW S \in SUBSET Clients
  PROVE  /\ CursorOK(forceLeaveClient(c, S))
         /\ ~c.timer => ~forceLeaveClient(c, S).timer
<1> DEFINE active == IF c.activeSaver # Null THEN c.activeSaver ELSE c.active
           d == IF active = c.target THEN stopSwitch(c) ELSE c
           e == [d EXCEPT !.pos = Primary, !.active = Primary,
                     !.entered = IF c.activeSaver = Null THEN (@ \ S) \cup {Primary} ELSE @ \ S]
           f == IF active \in S THEN e ELSE [c EXCEPT !.entered = @ \ S]
           g == [f EXCEPT !.activeSaver = IF @ \in S THEN Null ELSE @]
<1>1. CursorOK(d) /\ (~c.timer => ~d.timer)
  BY StopSwitchOK
<1> HIDE DEF d
<1>2. CursorOK(e) /\ (~c.timer => ~e.timer)
  <2> DEFINE E == IF c.activeSaver = Null THEN (d.entered \ S) \cup {Primary} ELSE d.entered \ S
  <2>1. d \in CursorType /\ d.entered \subseteq Proxies /\ Primary \in Proxies
    BY <1>1 DEF CursorOK, CursorType, Proxies
  <2>2. E \in SUBSET Proxies
    BY <2>1
  <2> HIDE DEF E
  <2>3. e = [d EXCEPT !.pos = Primary, !.active = Primary, !.entered = E]
    BY DEF E
  <2> HIDE DEF e
  <2>4. QED
    BY <1>1, <2>1, <2>2, <2>3 DEF CursorOK, CursorType, Stoppable
<1> HIDE DEF e
<1>3. CursorOK([c EXCEPT !.entered = @ \ S])
      /\ (~c.timer => ~[c EXCEPT !.entered = @ \ S].timer)
  BY DEF CursorOK, CursorType, Stoppable, Proxies
<1>4. CursorOK(f) /\ (~c.timer => ~f.timer)
  BY <1>2, <1>3
<1> HIDE DEF f
<1>5. CursorOK(g) /\ (~c.timer => ~g.timer)
  BY <1>4 DEF CursorOK, CursorType, Stoppable
<1>6. forceLeaveClient(c, S) = g
  BY DEF forceLeaveClient, f, e, d
<1>7. QED
  BY <1>5, <1>6

\* The two other operations on the cursor state, of a change of options.
LEMMA OptionsOK ==
  ASSUME NEW c, CursorOK(c), NEW k
  PROVE  /\ CursorOK(stopRelativeMoves(c)) /\ (~c.timer => ~stopRelativeMoves(c).timer)
         /\ CursorOK(processedCursor(c, k)) /\ (~c.timer => ~processedCursor(c, k).timer)
         /\ stopRelativeMoves(c).active = c.active
         /\ stopRelativeMoves(c).activeSaver = c.activeSaver
         /\ stopRelativeMoves(c).entered = c.entered
         /\ processedCursor(c, k).active = c.active
         /\ processedCursor(c, k).activeSaver = c.activeSaver
         /\ processedCursor(c, k).entered = c.entered
<1> DEFINE Kept(x, y) == /\ CursorOK(y) /\ (~x.timer => ~y.timer) /\ y.active = x.active
                         /\ y.activeSaver = x.activeSaver /\ y.entered = x.entered
<1>1. ASSUME NEW x, CursorOK(x) PROVE Kept(x, stopRelativeMoves(x))
  BY <1>1 DEF CursorOK, CursorType, Stoppable, stopRelativeMoves
<1>2. ASSUME NEW x, CursorOK(x) PROVE Kept(x, stopSwitchWait(x))
  BY <1>2 DEF CursorOK, CursorType, Stoppable, stopSwitchWait
<1>3. ASSUME NEW x, CursorOK(x) PROVE Kept(x, stopSwitchTwoTap(x))
  BY <1>3 DEF CursorOK, CursorType, Stoppable, stopSwitchTwoTap
<1> DEFINE a == IF k.delay = "absent" THEN c ELSE stopSwitchWait(c)
           b == IF k.twoTap = "absent" THEN a ELSE stopSwitchTwoTap(a)
<1>4. Kept(c, a)
  BY <1>2
<1> HIDE DEF a
<1>5. Kept(c, b)
  BY <1>3, <1>4
<1> HIDE DEF b
<1>6. Kept(c, IF k.relative = "off" THEN stopRelativeMoves(b) ELSE b)
  BY <1>1, <1>5
<1>7. processedCursor(c, k) =
        IF ~k.global THEN c ELSE IF k.relative = "off" THEN stopRelativeMoves(b) ELSE b
  BY DEF processedCursor, b, a
<1>8. Kept(c, processedCursor(c, k))
  BY <1>6, <1>7
<1>9. QED
  BY <1>1, <1>8

\* A neighbour found (Server::getNeighbor, mapToNeighbor) is a connected screen.
LEMMA NeighborsConnected ==
  ASSUME NEW p, NEW d
  PROVE  /\ getNeighbor(p, d) \subseteq Connected(clients) \cup {Null}
         /\ mapToNeighbor(p, d) \subseteq Connected(clients) \cup {Null}
         /\ destinations(p, d) \subseteq Connected(clients) \cup {Null}
<1>1. getNeighbor(p, d) \subseteq Connected(clients) \cup {Null}
  BY DEF getNeighbor, Connected
<1>2. mapToNeighbor(p, d) \subseteq Connected(clients) \cup {Null}
  BY DEF mapToNeighbor, Connected
<1>3. QED
  BY <1>1, <1>2 DEF destinations

\* Connected screens are proxies.
LEMMA ConnectedProxies ==
  ASSUME TypeOK
  PROVE  Connected(clients) \subseteq Proxies
BY DEF TypeOK, Connected, Listed

----------------------------------------------------------------------------
(* Type correctness, and every pending test can be stopped *)

BasicInv == TypeOK /\ TestsStoppable

\* A server just constructed is of its type and has no test under way.
LEMMA BasicInit == Init => BasicInv
<1> SUFFICES ASSUME Init PROVE BasicInv
  OBVIOUS
<1>1. opts \in OptsType
  BY ConstantsAssumption DEF Init, OptsType, processedOpts, newOption, ConfigType
<1>2. cur \in CursorType /\ TestsStoppable
  BY DEF Init, CursorType, TestsStoppable, Stoppable, NoDir, Proxies
<1>3. QED
  BY <1>1, <1>2, ConstantsAssumption
  DEF Init, BasicInv, TypeOK, Proxies, getActivePrimarySides

\* Following twice is following.
LEMMA FollowsTwice ==
  ASSUME NEW c, NEW x, NEW y, NEW C, NEW D, NEW E, C \subseteq E, D \subseteq E,
         Follows(c, x, C), Follows(x, y, D)
  PROVE  Follows(c, y, E)
BY DEF Follows

\* A motion that stays on the screen follows.
LEMMA InsideFollows ==
  ASSUME NEW c, CursorOK(c)
  PROVE  /\ Follows(c, c, {})
         /\ \A x \in insidePrimary(c) : Follows(c, x, {})
         /\ \A x \in insideSecondary(c) : Follows(c, x, {})
<1>1. Follows(c, c, {})
  BY DEF Follows
<1> DEFINE d == [c EXCEPT !.pos = Primary]
<1>2. Follows(c, d, {}) /\ CursorOK(d)
  BY DEF Follows, CursorOK, CursorType, Stoppable, Proxies
<1> HIDE DEF d
<1>3. ASSUME NEW e, CursorOK(e), NEW tap PROVE Follows(e, noSwitch(e, tap), {})
  BY <1>3, NoSwitchOK DEF Follows
<1>4. \A tap : Follows(c, noSwitch(d, tap), {}) /\ Follows(c, noSwitch(c, tap), {})
  BY <1>2, <1>3, FollowsTwice
<1>5. insidePrimary(c) = {noSwitch(d, tap) : tap \in Taps}
  BY DEF insidePrimary, d
<1>6. \A x \in insideSecondary(c) : x = c \/ \E tap \in Taps : x = noSwitch(c, tap)
  BY DEF insideSecondary
<1>7. QED
  BY <1>1, <1>4, <1>5, <1>6

\* A motion on the primary screen leads to a connected screen or nowhere.
LEMMA MovePrimaryFollows ==
  ASSUME NEW c, CursorOK(c), TypeOK, onMouseMovePrimary(c)
  PROVE  Follows(c, cur', Connected(clients))
<1>1. c.active = Primary
  BY DEF onMouseMovePrimary
<1>2. CASE cur' \in insidePrimary(c)
  <2>1. Follows(c, cur', {})
    BY <1>2, InsideFollows
  <2>2. QED
    BY <2>1 DEF Follows
<1>3. ASSUME NEW h \in Horizontal \cup {NoDir}, NEW v \in Vertical \cup {NoDir},
             NEW dh \in destinations(Primary, h), NEW dv \in destinations(Primary, v),
             NEW in, NEW drag, NEW canLeave,
             cur' = offPrimary(c, h, v, dh, dv, in, drag, canLeave)
      PROVE  Follows(c, cur', Connected(clients))
  <2>1. dh \in Connected(clients) \cup {Null} /\ dv \in Connected(clients) \cup {Null}
    BY NeighborsConnected
  <2>2. dh \in Proxies \cup {Null} /\ dv \in Proxies \cup {Null}
    BY <2>1, ConnectedProxies
  <2>3. h \in Dirs \cup {NoDir} /\ v \in Dirs \cup {NoDir}
    BY DEF Dirs
  <2>4. Follows(c, cur', {dh, dv} \cap Proxies)
    BY <1>1, <1>3, <2>2, <2>3, OffPrimaryOK
  <2>5. {dh, dv} \cap Proxies \subseteq Connected(clients)
    BY <2>1, ConstantsAssumption
  <2>6. QED
    BY <2>4, <2>5 DEF Follows
<1>4. QED
  BY <1>2, <1>3 DEF onMouseMovePrimary

\* The screen a running wait timer would switch to.
TimerTarget == IF cur.timer THEN {cur.target} ELSE {}

\* Every mouse, hot key and timer event follows: the cursor stays, or reaches a
\* connected screen (awake) or the target of the timer, and neither the
\* registry nor the options change.
LEMMA InputFollows ==
  ASSUME BasicInv, Input
  PROVE  /\ Follows(cur, cur', (IF Awake THEN Connected(clients) ELSE {}) \cup TimerTarget)
         /\ UNCHANGED <<config, opts, registry, gone, saver>>
         /\ locked' \in BOOLEAN /\ sides' \subseteq Dirs
<1> DEFINE D == Connected(clients)
           E == (IF Awake THEN D ELSE {}) \cup TimerTarget
           Frame == UNCHANGED <<config, opts, registry, gone, saver>>
                    /\ locked' \in BOOLEAN /\ sides' \subseteq Dirs
<1>1. CursorOK(cur) /\ D \subseteq Proxies /\ locked \in BOOLEAN /\ sides \subseteq Dirs /\ TypeOK
  BY ConnectedProxies DEF BasicInv, TypeOK, CursorOK, TestsStoppable
<1>2. Moved => Frame
  BY <1>1 DEF Moved
<1>3. Follows(cur, cur', {}) => Follows(cur, cur', E)
  BY DEF Follows
<1>4. Awake /\ Follows(cur, cur', D) => Follows(cur, cur', E)
  BY DEF Follows
<1>5. ASSUME NEW dst \in D, NEW canLeave PROVE Follows(cur, jumpToScreen(cur, dst, canLeave), D)
  BY <1>1, <1>5, JumpToScreenOK DEF Follows
<1>6. CASE MotionPrimary
  BY <1>1, <1>2, <1>4, <1>6, MovePrimaryFollows DEF MotionPrimary
<1>7. CASE MotionInsideSecondary
  BY <1>1, <1>2, <1>3, <1>7, InsideFollows DEF MotionInsideSecondary
<1>8. CASE MotionOffSecondary
  <2>1. PICK d \in Dirs, in \in Inputs : \E dst \in mapToNeighbor(cur.active, d) :
          cur' = tryDirection(cur, dst, d, in, FALSE, TRUE).cur
    BY <1>8 DEF MotionOffSecondary, offSecondary
  <2>2. PICK dst \in mapToNeighbor(cur.active, d) :
          cur' = tryDirection(cur, dst, d, in, FALSE, TRUE).cur
    BY <2>1
  <2>3. dst \in D \cup {Null}
    BY NeighborsConnected
  <2>4. Follows(cur, cur', {dst} \cap Proxies)
    BY <1>1, <2>2, <2>3, TryDirectionOK
  <2>5. Follows(cur, cur', D)
    BY <2>3, <2>4, ConstantsAssumption DEF Follows
  <2>6. QED
    BY <1>2, <1>4, <1>8, <2>5 DEF MotionOffSecondary
<1>9. CASE HandleSwitchToScreen
  BY <1>2, <1>4, <1>5, <1>9 DEF HandleSwitchToScreen
<1>10. CASE HandleToggleScreen
  <2>1. \A n \in Listed(clients) : clients[n] \in D
    BY DEF Connected
  <2>2. QED
    BY <1>2, <1>4, <1>5, <1>10, <2>1 DEF HandleToggleScreen
<1>11. CASE HandleSwitchInDirection
  <2>1. \A d : getNeighbor(cur.active, d) \ {Null} \subseteq D
    BY NeighborsConnected
  <2>2. QED
    BY <1>2, <1>4, <1>5, <1>11, <2>1 DEF HandleSwitchInDirection
<1>12. CASE HandleSwitchWait
  <2>1. cur.timer /\ cur.target \in Proxies /\ cur.waitAt \in Proxies
    BY <1>1, <1>12 DEF HandleSwitchWait, CursorOK, CursorType, Stoppable
  <2>2. PICK canLeave : \/ cur' = stopSwitch(cur)
                        \/ cur' = switchScreen(cur, cur.target, cur.waitAt, canLeave)
    BY <1>12 DEF HandleSwitchWait
  <2>3. cur' = stopSwitch(cur) => Follows(cur, cur', {})
    BY <1>1, StopSwitchOK DEF Follows
  <2> DEFINE t == cur.target
             w == cur.waitAt
  <2>4. t \in Proxies /\ w \in Proxies
    BY <2>1
  <2> HIDE DEF t, w
  <2>5. Follows(cur, switchScreen(cur, t, w, canLeave), {t})
    BY <1>1, <2>4, SwitchScreenOK DEF Follows
  <2>6. cur' = switchScreen(cur, t, w, canLeave) => Follows(cur, cur', {t})
    BY <2>5
  <2>7. {t} \subseteq E
    BY <2>1 DEF TimerTarget, t
  <2>8. Follows(cur, cur', {t}) => Follows(cur, cur', E)
    BY <2>7 DEF Follows
  <2>9. QED
    BY <1>2, <1>3, <1>12, <2>2, <2>3, <2>6, <2>8 DEF HandleSwitchWait, t, w
<1>13. CASE HandleLockCursorToScreen
  <2>1. Follows(cur, cur, {}) /\ Follows(cur, stopRelativeMoves(cur), {})
    BY <1>1, OptionsOK DEF Follows
  <2>2. Follows(cur, cur', {})
    BY <1>13, <2>1 DEF HandleLockCursorToScreen
  <2>3. Frame
    BY <1>13 DEF HandleLockCursorToScreen, getActivePrimarySides
  <2>4. QED
    BY <1>3, <2>2, <2>3
<1>14. CASE HandleShapeChanged
  <2>1. PICK p \in clientSet \ {Primary} :
          cur' = [cur EXCEPT !.jump[p] = p, !.pos = IF cur.active = p THEN p ELSE @]
    BY <1>14 DEF HandleShapeChanged
  <2>2. p \in Proxies
    BY <1>1 DEF TypeOK
  <2>3. Follows(cur, cur', {})
    BY <1>1, <2>1, <2>2 DEF Follows, CursorOK, CursorType, Stoppable
  <2>4. QED
    BY <1>2, <1>3, <1>14, <2>3 DEF HandleShapeChanged
<1>15. CASE HandlePrimaryShapeChanged
  <2> DEFINE c == [cur EXCEPT !.jump[Primary] = Primary]
  <2>1. Follows(cur, c, {}) /\ CursorOK(c)
    BY <1>1 DEF Follows, CursorOK, CursorType, Stoppable, Proxies
  <2>2. onMouseMovePrimary(c) \/ cur' \in insideSecondary(c) \/ offSecondary(c)
    BY <1>15 DEF HandlePrimaryShapeChanged
  <2> HIDE DEF c
  <2>3. onMouseMovePrimary(c) => Follows(c, cur', D)
    BY <1>1, <2>1, MovePrimaryFollows
  <2>4. cur' \in insideSecondary(c) => Follows(c, cur', {})
    BY <2>1, InsideFollows
  <2>5. ASSUME offSecondary(c) PROVE Follows(c, cur', D)
    <3>1. PICK d \in Dirs, in \in Inputs : \E dst \in mapToNeighbor(c.active, d) :
            cur' = tryDirection(c, dst, d, in, FALSE, TRUE).cur
      BY <2>5 DEF offSecondary
    <3>2. PICK dst \in mapToNeighbor(c.active, d) :
            cur' = tryDirection(c, dst, d, in, FALSE, TRUE).cur
      BY <3>1
    <3>3. dst \in D \cup {Null}
      BY NeighborsConnected
    <3>4. Follows(c, cur', {dst} \cap Proxies)
      BY <1>1, <2>1, <3>2, <3>3, TryDirectionOK
    <3>5. QED
      BY <3>3, <3>4, ConstantsAssumption DEF Follows
  <2>6. Follows(cur, cur', D)
    BY <2>1, <2>2, <2>3, <2>4, <2>5 DEF Follows
  <2>7. QED
    BY <1>2, <1>4, <1>15, <2>6 DEF HandlePrimaryShapeChanged
<1>16. QED
  BY <1>6, <1>7, <1>8, <1>9, <1>10, <1>11, <1>12, <1>13, <1>14, <1>15 DEF Input

\* Names are looked up and erased within Names (Server::getName, removeClient).
LEMMA NamesOK ==
  ASSUME TypeOK, NEW c \in Configs
  PROVE  /\ \A p \in Proxies : getName(c, p) \in Names
         /\ \A S : unlist(clients, c, S) \in [Names -> Proxies \cup {Null}]
         /\ \A lock : getActivePrimarySides(c, lock) \subseteq Dirs
         /\ processedOpts(opts, c) \in OptsType
<1>1. \A p \in Proxies : getName(c, p) \in Names
  BY ConstantsAssumption DEF getName, isScreen, ConfigType
<1>2. \A S : unlist(clients, c, S) \in [Names -> Proxies \cup {Null}]
  BY DEF unlist, TypeOK
<1>3. \A lock : getActivePrimarySides(c, lock) \subseteq Dirs
  BY DEF getActivePrimarySides
<1>4. processedOpts(opts, c) \in OptsType
  BY ConstantsAssumption DEF TypeOK, OptsType, processedOpts, newOption, ConfigType
<1>5. QED
  BY <1>1, <1>2, <1>3, <1>4

\* Adopting, rejecting and losing clients keeps the basic invariant.
LEMMA ConnectionBasic ==
  ASSUME BasicInv, NEW p \in Clients,
         \/ AdoptClient(p) \/ RejectClient(p) \/ LoseConnection(p)
         \/ HandleClientDisconnected(p) \/ HandleClientCloseTimeout(p)
  PROVE  BasicInv'
<1>1. CursorOK(cur) /\ TypeOK /\ p \in Proxies /\ config \in Configs
  BY DEF BasicInv, TypeOK, CursorOK, TestsStoppable, Proxies
<1>2. /\ getName(config, p) \in Names
      /\ \A S : unlist(clients, config, S) \in [Names -> Proxies \cup {Null}]
      /\ getActivePrimarySides(config, locked) \subseteq Dirs
  BY <1>1, NamesOK
<1>3. \A S \in SUBSET Clients : CursorOK(forceLeaveClient(cur, S))
  BY <1>1, ForceLeaveOK
<1>4. CursorOK(cur') => cur' \in CursorType /\ TestsStoppable'
  BY DEF CursorOK, TestsStoppable, Stoppable
<1>5. CASE AdoptClient(p)
  <2>1. CursorOK(cur')
    BY <1>1, <1>5 DEF AdoptClient, CursorOK, CursorType, Stoppable
  <2>2. QED
    BY <1>1, <1>2, <1>4, <1>5, <2>1 DEF AdoptClient, BasicInv, TypeOK
<1>6. CASE RejectClient(p)
  <2>1. CursorOK(cur')
    BY <1>3, <1>6 DEF RejectClient
  <2>2. QED
    BY <1>1, <1>2, <1>4, <1>6, <2>1 DEF RejectClient, BasicInv, TypeOK, saver
<1>7. CASE LoseConnection(p)
  BY <1>1, <1>7 DEF LoseConnection, BasicInv, TypeOK, TestsStoppable, registry, saver
<1>8. CASE HandleClientDisconnected(p)
  <2>1. CursorOK(cur') /\ sides' \subseteq Dirs
    BY <1>1, <1>2, <1>3, <1>8 DEF HandleClientDisconnected, TypeOK
  <2>2. idle' \in BOOLEAN /\ oldClients' \subseteq Clients
    BY <1>1, <1>8 DEF HandleClientDisconnected, TypeOK, removeOldClient
  <2>3. clients' \in [Names -> Proxies \cup {Null}]
    BY <1>2, <1>8 DEF HandleClientDisconnected
  <2>4. QED
    BY <1>1, <1>4, <1>8, <2>1, <2>2, <2>3 DEF HandleClientDisconnected, BasicInv, TypeOK
<1>9. CASE HandleClientCloseTimeout(p)
  BY <1>1, <1>9 DEF HandleClientCloseTimeout, removeOldClient, BasicInv, TypeOK, TestsStoppable
<1>10. QED
  BY <1>5, <1>6, <1>7, <1>8, <1>9

\* Reloading, refusing a configuration and shutting down keep it.
LEMMA AdministrationBasic ==
  ASSUME BasicInv, Administration
  PROVE  BasicInv'
<1>1. CursorOK(cur) /\ TypeOK /\ config \in Configs
  BY DEF BasicInv, TypeOK, CursorOK, TestsStoppable
<1>2. CursorOK(cur') => cur' \in CursorType /\ TestsStoppable'
  BY DEF CursorOK, TestsStoppable, Stoppable
<1>3. ASSUME NEW c \in Configs, NEW S \in SUBSET Clients, closeClients(c, S)
      PROVE  /\ clients' \in [Names -> Proxies \cup {Null}] /\ clientSet' \subseteq Proxies
             /\ oldClients' \subseteq Clients /\ announced' \subseteq Names
             /\ object' = object /\ idle' = idle
  <2>1. clients' \in [Names -> Proxies \cup {Null}]
    BY <1>1, <1>3, NamesOK DEF closeClients
  <2>2. QED
    BY <1>1, <1>3, <2>1 DEF closeClients, TypeOK
<1>4. ASSUME NEW c \in Configs, ReloadConfig(c) PROVE BasicInv'
  <2> DEFINE S == Dropped({n \in Names : isCanonicalName(c, n)})
  <2>1. S \in SUBSET Clients
    BY <1>1 DEF Dropped, TypeOK, Listed, Proxies
  <2>2. closeClients(c, S) /\ cur' = processedCursor(forceLeaveClient(cur, S), c)
    BY <1>4 DEF ReloadConfig
  <2> HIDE DEF S
  <2>3. CursorOK(forceLeaveClient(cur, S))
    BY <1>1, <2>1, ForceLeaveOK
  <2> DEFINE y == forceLeaveClient(cur, S)
  <2> HIDE DEF y
  <2>4. CursorOK(processedCursor(y, c))
    BY <2>3, OptionsOK DEF y
  <2>5. CursorOK(cur')
    BY <2>2, <2>4 DEF y
  <2>6. opts' \in OptsType /\ sides' \subseteq Dirs /\ config' \in Configs
    BY <1>1, <1>4, NamesOK DEF ReloadConfig
  <2>7. gone' = gone /\ locked' = locked /\ saverOn' = saverOn /\ saverTold' = saverTold
    BY <1>4 DEF ReloadConfig, saver
  <2>8. QED
    BY <1>1, <1>2, <1>3, <2>1, <2>2, <2>5, <2>6, <2>7 DEF BasicInv, TypeOK
<1>5. ASSUME NEW c \in Configs, RefuseConfig(c) PROVE BasicInv'
  BY <1>1, <1>5 DEF RefuseConfig, BasicInv, TypeOK, TestsStoppable, registry, saver
<1>6. CASE Disconnect
  <2>1. CASE ~Alone(clients) \/ oldClients # {}
    <3> DEFINE S == Dropped({})
    <3>1. S \in SUBSET Clients
      BY <1>1 DEF Dropped, TypeOK, Listed, Proxies
    <3>2. /\ closeClients(config, S) /\ cur' = forceLeaveClient(cur, S)
          /\ sides' = IF S = {} THEN sides ELSE getActivePrimarySides(config, locked)
      BY <1>6, <2>1 DEF Disconnect
    <3>3. config' = config /\ opts' = opts /\ gone' = gone /\ locked' = locked
          /\ saverOn' = saverOn /\ saverTold' = saverTold
      BY <1>6 DEF Disconnect, saver
    <3> HIDE DEF S
    <3>4. CursorOK(cur')
      BY <1>1, <3>1, <3>2, ForceLeaveOK
    <3>5. sides' \subseteq Dirs
      BY <1>1, <3>2, NamesOK DEF TypeOK
    <3>6. QED
      BY <1>1, <1>2, <1>3, <3>1, <3>2, <3>3, <3>4, <3>5 DEF BasicInv, TypeOK
  <2>2. CASE ~(~Alone(clients) \/ oldClients # {})
    BY <1>1, <1>6, <2>2 DEF Disconnect, BasicInv, TypeOK, TestsStoppable, saver
  <2>3. QED
    BY <2>1, <2>2
<1>7. QED
  BY <1>4, <1>5, <1>6 DEF Administration

\* The screen saver keeps it.
LEMMA SaverBasic ==
  ASSUME BasicInv, ScreensaverActivated \/ ScreensaverDeactivated
  PROVE  BasicInv'
<1>1. CursorOK(cur) /\ TypeOK
  BY DEF BasicInv, TypeOK, CursorOK, TestsStoppable
<1>2. Connected(clients) \ {Primary} \subseteq Clients /\ Primary \in Proxies
  BY <1>1, ConnectedProxies DEF Proxies
<1>3. CursorOK(cur')
  <2>1. CASE ScreensaverActivated
    <3> DEFINE c == [cur EXCEPT !.activeSaver = cur.active]
    <3>1. CursorOK(c)
      BY <1>1 DEF CursorOK, CursorType, Stoppable
    <3>2. cur' = IF c.active = Primary THEN c ELSE switchScreen(c, Primary, Primary, TRUE)
      BY <2>1 DEF ScreensaverActivated
    <3> HIDE DEF c
    <3>3. CursorOK(switchScreen(c, Primary, Primary, TRUE))
      BY <1>2, <3>1, SwitchScreenOK
    <3>4. QED
      BY <3>1, <3>2, <3>3
  <2>2. CASE ScreensaverDeactivated
    <3> DEFINE back == cur.activeSaver
               c(k) == IF back \in {Null, Primary} THEN cur ELSE switchScreen(cur, back, back, k)
    <3>1. PICK k : cur' = [c(k) EXCEPT !.activeSaver = Null]
      BY <2>2 DEF ScreensaverDeactivated
    <3>2. back \in Proxies \cup {Null}
      BY <1>1 DEF CursorOK, CursorType
    <3> HIDE DEF back
    <3>3. CursorOK(c(k))
      BY <1>1, <3>2, SwitchScreenOK
    <3> DEFINE y == c(k)
    <3>4. CursorOK(y) /\ cur' = [y EXCEPT !.activeSaver = Null]
      BY <3>1, <3>3
    <3> HIDE DEF y
    <3>5. QED
      BY <3>4 DEF CursorOK, CursorType, Stoppable
  <2>3. QED
    BY <2>1, <2>2
<1>4. cur' \in CursorType /\ TestsStoppable'
  BY <1>3 DEF CursorOK, TestsStoppable, Stoppable
<1>5. QED
  BY <1>1, <1>2, <1>4
  DEF ScreensaverActivated, ScreensaverDeactivated, BasicInv, TypeOK, registry

\* Every handler keeps the type and the stoppable tests: input goes through
\* InputFollows, the others have a lemma each.
LEMMA BasicNext == BasicInv /\ [Next]_vars => BasicInv'
<1> SUFFICES ASSUME BasicInv, [Next]_vars PROVE BasicInv'
  OBVIOUS
<1>1. CASE Input
  <2>1. CursorOK(cur') /\ UNCHANGED <<config, opts, registry, gone, saver>>
        /\ locked' \in BOOLEAN /\ sides' \subseteq Dirs
    BY <1>1, InputFollows DEF Follows
  <2>2. cur' \in CursorType /\ TestsStoppable'
    BY <2>1 DEF CursorOK, TestsStoppable, Stoppable
  <2>3. QED
    BY <2>1, <2>2 DEF BasicInv, TypeOK, registry, saver
<1>2. CASE ScreensaverActivated \/ ScreensaverDeactivated
  BY <1>2, SaverBasic
<1>3. CASE Connection
  BY <1>3, ConnectionBasic DEF Connection
<1>4. CASE Administration
  BY <1>4, AdministrationBasic
<1>5. CASE UNCHANGED vars
  BY <1>5 DEF BasicInv, TypeOK, TestsStoppable, vars, registry, saver
<1>6. QED
  BY <1>1, <1>2, <1>3, <1>4, <1>5 DEF Next

\* The basic inductive invariant: whatever Server's handlers do, in any order,
\* its state is well formed and stopSwitch can end a test under way.
THEOREM BasicInvariant == Spec => []BasicInv
<1>1. Init => BasicInv
  BY BasicInit
<1>2. BasicInv /\ [Next]_vars => BasicInv'
  BY BasicNext
<1>3. QED
  BY <1>1, <1>2, PTL DEF Spec

\* The server's state is well typed in every run, whatever clients connect,
\* whatever configurations are loaded and however handlers interleave.
THEOREM TypeCorrect == Spec => []TypeOK
<1>1. BasicInv => TypeOK
  BY DEF BasicInv
<1>2. QED
  BY <1>1, BasicInvariant, PTL

\* A wait or a double tap under way always has a target, so Server::stopSwitch
\* never returns early with a timer still running.
THEOREM StoppableTests == Spec => []TestsStoppable
<1>1. BasicInv => TestsStoppable
  BY DEF BasicInv
<1>2. QED
  BY <1>1, BasicInvariant, PTL

----------------------------------------------------------------------------
(* The registry: who is connected, who is closing, who is deleted *)

\* No reload renames a screen.  A reload that takes an alias away does: the
\* client that came under the alias is then looked up under another name.
StableNames == \A c, d \in Configs, p \in Proxies : getName(c, p) = getName(d, p)

\* Every entry of m_clients is filed under its proxy's name and every member
\* of m_clientSet has its entry.
Filed ==
  /\ Primary \in clientSet
  /\ \A n \in Listed(clients) : clients[n] \in clientSet /\ n = getName(config, clients[n])
  /\ \A p \in clientSet : clients[getName(config, p)] = p

RegistryInv == BasicInv /\ Filed /\ OwnedOnce

\* What the inductive invariant says of m_clients is RegistryConsistent.
LEMMA FiledConsistent == ASSUME BasicInv, Filed PROVE RegistryConsistent
<1>1. clientSet \subseteq Proxies /\ config \in Configs
  BY DEF BasicInv, TypeOK
<1>2. \A p \in clientSet : getName(config, p) \in Listed(clients)
  <2> SUFFICES ASSUME NEW p \in clientSet PROVE getName(config, p) \in Listed(clients)
    OBVIOUS
  <2>1. getName(config, p) \in Names
    BY <1>1, NamesOK DEF BasicInv
  <2>2. QED
    BY <1>1, <2>1, ConstantsAssumption DEF Filed, Listed
<1>3. QED
  BY <1>2 DEF Filed, RegistryConsistent, Connected

\* At the start the primary screen alone is filed and owned.
LEMMA RegistryInit == Init => RegistryInv
<1> SUFFICES ASSUME Init PROVE RegistryInv
  OBVIOUS
<1>1. BasicInv
  BY BasicInit
<1>2. getName(config, Primary) = NameOf[Primary] /\ NameOf[Primary] \in Names
  BY ConstantsAssumption DEF Init, getName, Proxies, isScreen
<1>3. Filed
  BY <1>2, ConstantsAssumption DEF Init, Filed, Listed, Proxies
<1>4. OwnedOnce
  BY ConstantsAssumption DEF Init, OwnedOnce
<1>5. QED
  BY <1>1, <1>3, <1>4 DEF RegistryInv

\* Erasing the entries of members S of m_clientSet, under any configuration,
\* leaves exactly the others filed.
LEMMA UnlistFiled ==
  ASSUME StableNames, BasicInv, Filed, NEW c \in Configs, NEW S \in SUBSET (clientSet \cap Clients),
         config' = c, clients' = unlist(clients, c, S), clientSet' = clientSet \ S
  PROVE  Filed'
<1>1. clientSet \subseteq Proxies /\ config \in Configs /\ clients \in [Names -> Proxies \cup {Null}]
  BY DEF BasicInv, TypeOK
<1>2. \A p \in Proxies : getName(c, p) = getName(config, p) /\ getName(c, p) \in Names
  BY <1>1, NamesOK DEF StableNames, BasicInv
<1>3. \A p, q \in clientSet : getName(c, p) = getName(c, q) => p = q
  BY <1>1, <1>2 DEF Filed
<1>4. \A n \in Names : clients'[n] = IF n \in {getName(c, p) : p \in S} THEN Null ELSE clients[n]
  BY DEF unlist
<1>5. \A p \in clientSet' : clients'[getName(c, p)] = p
  BY <1>1, <1>2, <1>3, <1>4 DEF Filed
<1>6. ASSUME NEW n \in Names, clients'[n] # Null
      PROVE  clients'[n] \in clientSet' /\ n = getName(c, clients'[n])
  <2>1. n \notin {getName(c, p) : p \in S} /\ clients'[n] = clients[n]
    BY <1>4, <1>6
  <2>2. clients[n] \in clientSet /\ n = getName(config, clients[n])
    BY <1>6, <2>1 DEF Filed, Listed
  <2>3. QED
    BY <1>1, <1>2, <2>1, <2>2
<1>7. Primary \in clientSet'
  BY ConstantsAssumption DEF Filed
<1>8. \A n \in Listed(clients)' : clients'[n] \in clientSet' /\ n = getName(c, clients'[n])
  BY <1>6 DEF Listed
<1>9. \A n \in Listed(clients)' :
        clients'[n] \in clientSet' /\ n = getName(config', clients'[n])
  BY <1>8
<1>10. \A p \in clientSet' : clients'[getName(config', p)] = p
  BY <1>5
<1>11. QED
  BY <1>7, <1>9, <1>10 DEF Filed

\* closeClients moves members of m_clientSet to m_oldClients.
LEMMA CloseRegistry ==
  ASSUME StableNames, RegistryInv, NEW c \in Configs, NEW S, S = Dropped({}) \/
           S = Dropped({n \in Names : isCanonicalName(c, n)}),
         config' = c, closeClients(c, S), gone' = gone
  PROVE  Filed' /\ OwnedOnce'
<1>1. S \in SUBSET (clientSet \cap Clients)
  <2>1. S \subseteq Connected(clients) \ {Primary}
    BY DEF Dropped, Connected
  <2>2. S \subseteq clientSet \ {Primary} /\ clientSet \subseteq Proxies
    BY <2>1 DEF Connected, RegistryInv, Filed, BasicInv, TypeOK
  <2>3. QED
    BY <2>2 DEF Proxies
<1>2. Filed'
  BY <1>1, UnlistFiled DEF closeClients, RegistryInv
<1>3. OwnedOnce'
  BY <1>1, ConstantsAssumption DEF closeClients, RegistryInv, OwnedOnce
<1>4. QED
  BY <1>2, <1>3

\* Adopting, refusing and losing a client, and its close timer, keep what is
\* filed and owned.
LEMMA ConnectionRegistry ==
  ASSUME StableNames, RegistryInv, NEW p \in Clients,
         \/ AdoptClient(p) \/ RejectClient(p) \/ LoseConnection(p)
         \/ HandleClientDisconnected(p) \/ HandleClientCloseTimeout(p)
  PROVE  Filed' /\ OwnedOnce'
<1>1. /\ BasicInv /\ Filed /\ OwnedOnce /\ TypeOK /\ config \in Configs /\ p \in Proxies
      /\ clientSet \subseteq Proxies /\ p # Primary
  BY ConstantsAssumption DEF RegistryInv, BasicInv, TypeOK, Proxies
<1>2. CASE AdoptClient(p)
  <2> DEFINE n == getName(config, p)
  <2>1. n \in Names /\ p # Null
    BY <1>1, NamesOK, ConstantsAssumption
  <2>2. /\ clients[n] = Null /\ clients' = [clients EXCEPT ![n] = p]
        /\ clientSet' = clientSet \cup {p} /\ config' = config /\ oldClients' = oldClients
        /\ gone' = gone /\ object[p] = "fresh" /\ object' = [object EXCEPT ![p] = "alive"]
    BY <1>2 DEF AdoptClient
  <2> HIDE DEF n
  <2>3. clients' \in [Names -> Proxies \cup {Null}] /\ clients \in [Names -> Proxies \cup {Null}]
    BY <1>1, <2>2 DEF TypeOK
  <2>4. \A m \in Names : clients'[m] = IF m = n THEN p ELSE clients[m]
    BY <2>1, <2>2, <2>3
  <2>5. \A q \in clientSet : getName(config, q) # n /\ getName(config, q) \in Names
    BY <1>1, <2>2, NamesOK, ConstantsAssumption DEF Filed
  <2>6. \A m \in Names : clients'[m] # Null =>
          clients'[m] \in clientSet' /\ m = getName(config, clients'[m])
    BY <1>1, <2>1, <2>2, <2>4 DEF Filed, Listed, n
  <2>7. \A q \in clientSet' : clients'[getName(config, q)] = q
    BY <1>1, <2>1, <2>2, <2>4, <2>5 DEF Filed, n
  <2>8. Primary \in clientSet'
    BY <1>1, <2>2 DEF Filed
  <2>9. Filed'
    BY <2>2, <2>6, <2>7, <2>8 DEF Filed, Listed
  <2>10. p \notin clientSet /\ p \notin oldClients
    BY <1>1, <2>2 DEF OwnedOnce
  <2>11. OwnedOnce'
    BY <1>1, <2>2, <2>10 DEF OwnedOnce, TypeOK
  <2>12. QED
    BY <2>9, <2>11
<1>3. CASE RejectClient(p)
  <2>1. p \notin clientSet /\ p \notin oldClients
    BY <1>1, <1>3 DEF OwnedOnce, RejectClient
  <2>2. OwnedOnce'
    BY <1>1, <1>3, <2>1 DEF RejectClient, OwnedOnce, TypeOK
  <2>3. Filed'
    BY <1>1, <1>3 DEF RejectClient, Filed, Listed
  <2>4. QED
    BY <2>2, <2>3
<1>4. CASE LoseConnection(p)
  <2>1. Filed'
    BY <1>1, <1>4 DEF LoseConnection, Filed, Listed, registry
  <2>2. OwnedOnce'
    BY <1>1, <1>4 DEF LoseConnection, OwnedOnce, registry
  <2>3. QED
    BY <2>1, <2>2
<1>5. CASE HandleClientDisconnected(p)
  <2> DEFINE S == IF p \in clientSet THEN {p} ELSE {}
  <2>1. /\ clients' = unlist(clients, config, S) /\ clientSet' = clientSet \ S
        /\ p \in gone /\ gone' = gone \ {p} /\ object' = [object EXCEPT ![p] = "deleted"]
        /\ config' = config
    BY <1>5 DEF HandleClientDisconnected
  <2>2. oldClients' = oldClients \ {p}
    BY <1>1, <1>5 DEF HandleClientDisconnected, removeOldClient, OwnedOnce
  <2>3. S \in SUBSET (clientSet \cap Clients)
    OBVIOUS
  <2> HIDE DEF S
  <2>4. Filed'
    BY <1>1, <2>1, <2>3, UnlistFiled
  <2>5. clientSet' = clientSet \ {p}
    BY <2>1 DEF S
  <2>6. OwnedOnce'
    BY <1>1, <2>1, <2>2, <2>5 DEF OwnedOnce, TypeOK
  <2>7. QED
    BY <2>4, <2>6
<1>6. CASE HandleClientCloseTimeout(p)
  <2>1. Filed'
    BY <1>1, <1>6 DEF HandleClientCloseTimeout, Filed, Listed
  <2>2. OwnedOnce'
    BY <1>1, <1>6 DEF HandleClientCloseTimeout, removeOldClient, OwnedOnce, TypeOK
  <2>3. QED
    BY <2>1, <2>2
<1>7. QED
  BY <1>2, <1>3, <1>4, <1>5, <1>6

\* Every handler keeps the registry part while names stay what they were.
LEMMA RegistryNext == StableNames /\ RegistryInv /\ [Next]_vars => RegistryInv'
<1> SUFFICES ASSUME StableNames, RegistryInv, [Next]_vars PROVE Filed' /\ OwnedOnce'
  BY BasicNext DEF RegistryInv
<1>2. UNCHANGED <<config, registry, gone>> => Filed' /\ OwnedOnce'
  BY DEF RegistryInv, Filed, OwnedOnce, Listed, registry
<1>3. CASE Input
  BY <1>2, <1>3, InputFollows DEF RegistryInv
<1>4. CASE ScreensaverActivated \/ ScreensaverDeactivated
  BY <1>2, <1>4 DEF ScreensaverActivated, ScreensaverDeactivated
<1>5. CASE Connection
  BY <1>5, ConnectionRegistry DEF Connection
<1>6. CASE Administration
  <2>1. ASSUME NEW c \in Configs, ReloadConfig(c) PROVE Filed' /\ OwnedOnce'
    <3> DEFINE S == Dropped({n \in Names : isCanonicalName(c, n)})
    <3>1. config' = c /\ closeClients(c, S) /\ gone' = gone
      BY <2>1 DEF ReloadConfig
    <3> HIDE DEF S
    <3>2. QED
      BY <3>1, CloseRegistry DEF S
  <2>2. ASSUME NEW c \in Configs, RefuseConfig(c) PROVE Filed' /\ OwnedOnce'
    <3>1. /\ clients' = clients /\ clientSet' = clientSet /\ oldClients' = oldClients
          /\ object' = object /\ gone' = gone /\ config' = c
      BY <2>2 DEF RefuseConfig, registry
    <3>2. clientSet \subseteq Proxies /\ config \in Configs
      BY DEF RegistryInv, BasicInv, TypeOK
    <3>3. \A q \in clientSet : getName(config', q) = getName(config, q)
      BY <3>1, <3>2 DEF StableNames
    <3>4. QED
      BY <3>1, <3>3 DEF RegistryInv, Filed, OwnedOnce, Listed
  <2>3. CASE Disconnect
    <3>1. CASE ~Alone(clients) \/ oldClients # {}
      <4> DEFINE S == Dropped({})
      <4>1. config' = config /\ closeClients(config, S) /\ gone' = gone /\ config \in Configs
        BY <2>3, <3>1 DEF Disconnect, RegistryInv, BasicInv, TypeOK
      <4> HIDE DEF S
      <4>2. QED
        BY <4>1, CloseRegistry DEF S
    <3>2. CASE ~(~Alone(clients) \/ oldClients # {})
      <4>1. UNCHANGED <<config, clients, clientSet, oldClients, object, gone>>
        BY <2>3, <3>2 DEF Disconnect
      <4>2. QED
        BY <4>1 DEF RegistryInv, Filed, OwnedOnce, Listed
    <3>3. QED
      BY <3>1, <3>2
  <2>4. QED
    BY <1>6, <2>1, <2>2, <2>3 DEF Administration
<1>7. CASE UNCHANGED vars
  BY <1>2, <1>7 DEF vars
<1>8. QED
  BY <1>3, <1>4, <1>5, <1>6, <1>7 DEF Next

\* While no reload renames a screen, the inductive invariant of the registry
\* holds throughout.
THEOREM RegistryInvariant == ASSUME StableNames PROVE Spec => []RegistryInv
<1>1. Init => RegistryInv
  BY RegistryInit
<1>2. RegistryInv /\ [Next]_vars => RegistryInv'
  BY RegistryNext, StableNames
<1>3. QED
  BY <1>1, <1>2, PTL DEF Spec

\* m_clients and m_clientSet name the same proxies, each once, for any number
\* of clients and names, through every order of adoptions, losses, reloads that
\* rename nothing, and shutdowns.
THEOREM RegistryStaysConsistent == ASSUME StableNames PROVE Spec => []RegistryConsistent
<1>1. RegistryInv => RegistryConsistent
  BY FiledConsistent DEF RegistryInv
<1>2. Spec => []RegistryInv
  BY RegistryInvariant
<1>3. QED
  BY <1>1, <1>2, PTL

\* No proxy is leaked and none is deleted twice: an adopted proxy is connected
\* or closing until it is deleted, whichever of its disconnection and its timer
\* comes first.
THEOREM ProxiesOwnedOnce == ASSUME StableNames PROVE Spec => []OwnedOnce
<1>1. RegistryInv => OwnedOnce
  BY DEF RegistryInv
<1>2. Spec => []RegistryInv
  BY RegistryInvariant
<1>3. QED
  BY <1>1, <1>2, PTL

----------------------------------------------------------------------------
(* The cursor is on a connected screen *)

\* No configuration switches the delay on.  A wait can outlive its target: only
\* forceLeaveClient of the active screen stops it.
NoDelay == \A c \in Configs : c.delay # "on"

\* The cursor part of the inductive invariant: no wait is pending; the cursor
\* is on the primary screen while the saver runs, and only then is there a
\* screen to return to.
CursorInv ==
  /\ ~opts.delay /\ ~cur.timer
  /\ saverOn => cur.active = Primary
  /\ cur.activeSaver # Null => saverOn
  /\ ActiveConnected
  /\ OneEntered

ScreenInv == RegistryInv /\ CursorInv

\* Letting clients S go (Server::forceLeaveClient): where the cursor was on one
\* of them it is on the primary screen, and the saved screen is forgotten.
LEMMA ForceLeaveActive ==
  ASSUME NEW c, CursorOK(c), NEW S \in SUBSET Clients, c.entered = {c.active},
         c.activeSaver # Null => c.active = Primary
  PROVE  LET x == forceLeaveClient(c, S)
         IN  /\ x.entered = {x.active}
             /\ x.active = IF c.active \in S THEN Primary ELSE c.active
             /\ x.activeSaver = IF c.activeSaver \in S THEN Null ELSE c.activeSaver
<1> DEFINE active == IF c.activeSaver # Null THEN c.activeSaver ELSE c.active
           d == IF active = c.target THEN stopSwitch(c) ELSE c
           e == [d EXCEPT !.pos = Primary, !.active = Primary,
                     !.entered = IF c.activeSaver = Null THEN (@ \ S) \cup {Primary} ELSE @ \ S]
           f == IF active \in S THEN e ELSE [c EXCEPT !.entered = @ \ S]
           g == [f EXCEPT !.activeSaver = IF @ \in S THEN Null ELSE @]
           new == IF c.active \in S THEN Primary ELSE c.active
<1>1. /\ d \in CursorType /\ c \in CursorType /\ d.active = c.active
      /\ d.activeSaver = c.activeSaver /\ d.entered = c.entered
  BY StopSwitchOK DEF CursorOK
<1>2. Primary \notin S
  BY ConstantsAssumption
<1> HIDE DEF d
<1>3. /\ e.active = Primary /\ e.activeSaver = c.activeSaver
      /\ e.entered = IF c.activeSaver = Null THEN (c.entered \ S) \cup {Primary}
                     ELSE c.entered \ S
      /\ e = [e EXCEPT !.activeSaver = @]
  BY <1>1 DEF CursorType
<1>4. active \in S => new = Primary
  BY <1>2
<1>5. active \in S => e.entered = {Primary}
  BY <1>2, <1>3
<1>6. active \notin S => new = c.active /\ {c.active} \ S = {c.active}
  BY <1>2
<1>7. /\ f.active = new /\ f.entered = {new} /\ f.activeSaver = c.activeSaver
  <2>1. CASE active \in S
    <3>1. f = e
      BY <2>1
    <3> HIDE DEF f, e, new, active
    <3>2. QED
      BY <1>3, <1>4, <1>5, <2>1, <3>1
  <2>2. CASE active \notin S
    BY <1>1, <1>6, <2>2 DEF CursorType
  <2>3. QED
    BY <2>1, <2>2
<1>8. f \in CursorType
  <2>1. e \in CursorType
    <3> DEFINE E == IF c.activeSaver = Null THEN (d.entered \ S) \cup {Primary} ELSE d.entered \ S
    <3>1. E \in SUBSET Proxies /\ Primary \in Proxies
      BY <1>1 DEF CursorType, Proxies
    <3> HIDE DEF E
    <3>2. e = [d EXCEPT !.pos = Primary, !.active = Primary, !.entered = E]
      BY DEF E
    <3> HIDE DEF e
    <3>3. QED
      BY <1>1, <3>1, <3>2 DEF CursorType
  <2> HIDE DEF e
  <2>2. [c EXCEPT !.entered = @ \ S] \in CursorType
    BY <1>1 DEF CursorType
  <2>3. QED
    BY <2>1, <2>2
<1> HIDE DEF f, new, active
<1>9. /\ g.active = new /\ g.entered = {new}
      /\ g.activeSaver = IF c.activeSaver \in S THEN Null ELSE c.activeSaver
  BY <1>7, <1>8 DEF CursorType
<1>10. forceLeaveClient(c, S) = g
  BY DEF forceLeaveClient, f, d, active
<1>11. QED
  BY <1>9, <1>10 DEF new

\* The cursor part survives a step in which clients S leave m_clientSet.
LEMMA LeaveKeepsCursor ==
  ASSUME ScreenInv, NEW S \in SUBSET Clients, NEW x, x = forceLeaveClient(cur, S)
  PROVE  /\ CursorOK(x) /\ ~x.timer
         /\ saverOn => x.active = Primary
         /\ x.activeSaver # Null => saverOn
         /\ x.active \in clientSet \ S
         /\ x.activeSaver \in (clientSet \ S) \cup {Null}
         /\ x.entered = {x.active}
<1>1. /\ CursorOK(cur) /\ cur.entered = {cur.active} /\ ~cur.timer
      /\ cur.activeSaver # Null => cur.active = Primary
  BY DEF ScreenInv, CursorInv, OneEntered, RegistryInv, BasicInv, TypeOK, CursorOK, TestsStoppable
<1>2. /\ CursorOK(x) /\ ~x.timer /\ x.entered = {x.active}
      /\ x.active = IF cur.active \in S THEN Primary ELSE cur.active
      /\ x.activeSaver = IF cur.activeSaver \in S THEN Null ELSE cur.activeSaver
  BY <1>1, ForceLeaveOK, ForceLeaveActive
<1>3. Primary \in clientSet \ S
  BY ConstantsAssumption DEF ScreenInv, RegistryInv, Filed
<1>4. QED
  BY <1>2, <1>3 DEF ScreenInv, CursorInv, ActiveConnected

\* A switch whose leave succeeds reaches its screen.
LEMMA SwitchReaches ==
  ASSUME NEW c, CursorOK(c), NEW dst \in Proxies, NEW at \in Proxies
  PROVE  switchScreen(c, dst, at, TRUE).active = dst
<1> DEFINE d == [stopSwitch(c) EXCEPT !.pos = at]
           e == [d EXCEPT !.active = dst, !.entered = (@ \ {d.active}) \cup {dst}]
<1>1. stopSwitch(c) \in CursorType
  BY StopSwitchOK DEF CursorOK
<1>2. d \in CursorType
  BY <1>1 DEF CursorType
<1> HIDE DEF d
<1>3. e.active = dst
  BY <1>2 DEF CursorType
<1>4. switchScreen(c, dst, at, TRUE) = IF d.active # dst THEN e ELSE d
  BY DEF switchScreen, leaves, d
<1>5. QED
  BY <1>3, <1>4

\* At the start the primary screen is active and entered.
LEMMA ScreenInit == NoDelay /\ Init => ScreenInv
<1> SUFFICES ASSUME NoDelay, Init PROVE ScreenInv
  OBVIOUS
<1>1. RegistryInv
  BY RegistryInit
<1>2. CursorInv
  <2>1. ~opts.delay
    BY ConstantsAssumption DEF Init, NoDelay, processedOpts, newOption
  <2>2. QED
    BY <2>1 DEF Init, CursorInv, ActiveConnected, OneEntered
<1>3. QED
  BY <1>1, <1>2 DEF ScreenInv

\* The screen saver keeps the cursor part.
LEMMA SaverCursor ==
  ASSUME ScreenInv, ScreensaverActivated \/ ScreensaverDeactivated
  PROVE  CursorInv'
<1>1. /\ CursorOK(cur) /\ ~cur.timer /\ cur.entered = {cur.active} /\ ~opts.delay
      /\ Primary \in clientSet /\ Primary \in Proxies
      /\ cur.active \in clientSet /\ cur.activeSaver \in clientSet \cup {Null}
      /\ cur.activeSaver # Null => saverOn
      /\ clientSet \subseteq Proxies
  BY DEF ScreenInv, CursorInv, ActiveConnected, OneEntered, RegistryInv, Filed, BasicInv,
         TypeOK, CursorOK, TestsStoppable, Proxies
<1>2. clientSet' = clientSet /\ opts' = opts
  BY DEF ScreensaverActivated, ScreensaverDeactivated, registry
<1>3. CASE ScreensaverActivated
  <2> DEFINE c == [cur EXCEPT !.activeSaver = cur.active]
  <2>1. /\ CursorOK(c) /\ ~c.timer /\ c.entered = {c.active} /\ c.active = cur.active
        /\ c.activeSaver = cur.active
    BY <1>1 DEF CursorOK, CursorType, Stoppable
  <2>2. cur' = IF c.active = Primary THEN c ELSE switchScreen(c, Primary, Primary, TRUE)
    BY <1>3 DEF ScreensaverActivated
  <2> HIDE DEF c
  <2> DEFINE x == switchScreen(c, Primary, Primary, TRUE)
  <2>3. CursorOK(c) /\ Primary \in Proxies
    BY <1>1, <2>1
  <2>4. switchScreen(c, Primary, Primary, TRUE).active = Primary
    BY <2>3, SwitchReaches
  <2>5. /\ ~switchScreen(c, Primary, Primary, TRUE).timer
        /\ switchScreen(c, Primary, Primary, TRUE).activeSaver = c.activeSaver
        /\ c.entered = {c.active} => switchScreen(c, Primary, Primary, TRUE).entered
                                      = {switchScreen(c, Primary, Primary, TRUE).active}
    BY <2>3, SwitchScreenOK
  <2>6. /\ ~x.timer /\ x.activeSaver = c.activeSaver /\ x.active = Primary
        /\ x.entered = {x.active}
    BY <2>1, <2>4, <2>5
  <2> HIDE DEF x
  <2>7. /\ ~cur'.timer /\ cur'.activeSaver = cur.active /\ cur'.active = Primary
        /\ cur'.entered = {cur'.active}
    BY <2>1, <2>2, <2>6 DEF x
  <2>8. saverOn'
    BY <1>3 DEF ScreensaverActivated
  <2>9. QED
    BY <1>1, <1>2, <2>7, <2>8 DEF CursorInv, ActiveConnected, OneEntered
<1>4. CASE ScreensaverDeactivated
  <2> DEFINE back == cur.activeSaver
             c(k) == IF back \in {Null, Primary} THEN cur ELSE switchScreen(cur, back, back, k)
  <2>1. PICK k : cur' = [c(k) EXCEPT !.activeSaver = Null]
    BY <1>4 DEF ScreensaverDeactivated
  <2>2. back \in clientSet \cup {Null} /\ back \in Proxies \cup {Null}
    BY <1>1
  <2> HIDE DEF back
  <2>3. /\ CursorOK(c(k)) /\ ~c(k).timer /\ c(k).entered = {c(k).active}
        /\ c(k).active \in clientSet
    BY <1>1, <2>2, SwitchScreenOK
  <2> DEFINE y == c(k)
  <2>4. /\ CursorOK(y) /\ ~y.timer /\ y.entered = {y.active} /\ y.active \in clientSet
        /\ cur' = [y EXCEPT !.activeSaver = Null]
    BY <2>1, <2>3
  <2> HIDE DEF y
  <2>5. /\ ~cur'.timer /\ cur'.activeSaver = Null /\ cur'.active = y.active
        /\ cur'.entered = y.entered
    BY <2>4 DEF CursorOK, CursorType
  <2>6. ~saverOn'
    BY <1>4 DEF ScreensaverDeactivated
  <2>7. QED
    BY <1>1, <1>2, <2>4, <2>5, <2>6 DEF CursorInv, ActiveConnected, OneEntered
<1>5. QED
  BY <1>3, <1>4

\* So do connections, reloads and shutdowns.
LEMMA ConnectionCursor ==
  ASSUME ScreenInv, NEW p \in Clients,
         \/ AdoptClient(p) \/ RejectClient(p) \/ LoseConnection(p)
         \/ HandleClientDisconnected(p) \/ HandleClientCloseTimeout(p)
  PROVE  CursorInv'
<1>1. /\ cur \in CursorType /\ p \in Proxies /\ CursorInv /\ OwnedOnce
  BY DEF ScreenInv, RegistryInv, BasicInv, TypeOK, Proxies
<1>2. UNCHANGED <<opts, saverOn>>
  BY DEF AdoptClient, RejectClient, LoseConnection, HandleClientDisconnected,
         HandleClientCloseTimeout, saver
<1>3. UNCHANGED <<cur, clientSet>> => CursorInv'
  BY <1>1, <1>2 DEF CursorInv, ActiveConnected, OneEntered
<1>4. CASE AdoptClient(p)
  <2>1. clientSet' = clientSet \cup {p} /\ cur' = [cur EXCEPT !.jump[p] = p]
    BY <1>4 DEF AdoptClient
  <2>2. /\ cur'.active = cur.active /\ cur'.activeSaver = cur.activeSaver
        /\ cur'.timer = cur.timer /\ cur'.entered = cur.entered
    BY <1>1, <2>1 DEF CursorType
  <2>3. QED
    BY <1>1, <1>2, <2>1, <2>2 DEF CursorInv, ActiveConnected, OneEntered
<1>5. CASE RejectClient(p)
  <2>1. cur' = forceLeaveClient(cur, {p}) /\ clientSet' = clientSet
    BY <1>5 DEF RejectClient
  <2>2. /\ ~cur'.timer /\ (saverOn => cur'.active = Primary)
        /\ (cur'.activeSaver # Null => saverOn)
        /\ cur'.active \in clientSet \ {p} /\ cur'.activeSaver \in (clientSet \ {p}) \cup {Null}
        /\ cur'.entered = {cur'.active}
    BY <2>1, LeaveKeepsCursor
  <2>3. QED
    BY <1>1, <1>2, <2>1, <2>2 DEF CursorInv, ActiveConnected, OneEntered
<1>6. CASE LoseConnection(p)
  BY <1>3, <1>6 DEF LoseConnection, registry
<1>7. CASE HandleClientDisconnected(p)
  <2>1. CASE p \in clientSet
    <3>1. cur' = forceLeaveClient(cur, {p}) /\ clientSet' = clientSet \ {p}
      BY <1>7, <2>1 DEF HandleClientDisconnected
    <3>2. /\ ~cur'.timer /\ (saverOn => cur'.active = Primary)
          /\ (cur'.activeSaver # Null => saverOn)
          /\ cur'.active \in clientSet \ {p} /\ cur'.activeSaver \in (clientSet \ {p}) \cup {Null}
          /\ cur'.entered = {cur'.active}
      BY <3>1, LeaveKeepsCursor
    <3>3. QED
      BY <1>1, <1>2, <3>1, <3>2 DEF CursorInv, ActiveConnected, OneEntered
  <2>2. CASE p \notin clientSet
    BY <1>3, <1>7, <2>2 DEF HandleClientDisconnected
  <2>3. QED
    BY <2>1, <2>2
<1>8. CASE HandleClientCloseTimeout(p)
  BY <1>3, <1>8 DEF HandleClientCloseTimeout
<1>9. QED
  BY <1>4, <1>5, <1>6, <1>7, <1>8

\* Reloading, refusing a configuration and shutting down keep the cursor part.
LEMMA AdministrationCursor ==
  ASSUME NoDelay, ScreenInv, Administration
  PROVE  CursorInv'
<1>1. CursorInv /\ TypeOK
  BY DEF ScreenInv, RegistryInv, BasicInv
<1>2. UNCHANGED saverOn
  BY DEF Administration, ReloadConfig, RefuseConfig, Disconnect, saver
<1>3. ASSUME NEW c \in Configs, ReloadConfig(c) PROVE CursorInv'
  <2> DEFINE S == Dropped({n \in Names : isCanonicalName(c, n)})
             y == forceLeaveClient(cur, S)
  <2>1. S \in SUBSET Clients
    BY <1>1 DEF Dropped, TypeOK, Listed, Proxies
  <2>2. clientSet' = clientSet \ S /\ cur' = processedCursor(y, c) /\ opts' = processedOpts(opts, c)
    BY <1>3 DEF ReloadConfig, closeClients
  <2> HIDE DEF S
  <2>3. /\ CursorOK(y) /\ ~y.timer /\ (saverOn => y.active = Primary)
        /\ (y.activeSaver # Null => saverOn)
        /\ y.active \in clientSet \ S /\ y.activeSaver \in (clientSet \ S) \cup {Null}
        /\ y.entered = {y.active}
    BY <2>1, LeaveKeepsCursor
  <2> HIDE DEF y
  <2>4. /\ ~cur'.timer /\ cur'.active = y.active /\ cur'.activeSaver = y.activeSaver
        /\ cur'.entered = y.entered
    BY <2>2, <2>3, OptionsOK
  <2>5. ~opts'.delay
    BY <1>1, <2>2 DEF processedOpts, newOption, NoDelay, CursorInv
  <2>6. QED
    BY <1>2, <2>2, <2>3, <2>4, <2>5 DEF CursorInv, ActiveConnected, OneEntered
<1>4. ASSUME NEW c \in Configs, RefuseConfig(c) PROVE CursorInv'
  BY <1>1, <1>2, <1>4 DEF RefuseConfig, registry, CursorInv, ActiveConnected, OneEntered
<1>5. CASE Disconnect
  <2>1. CASE ~Alone(clients) \/ oldClients # {}
    <3> DEFINE S == Dropped({})
    <3>1. S \in SUBSET Clients
      BY <1>1 DEF Dropped, TypeOK, Listed, Proxies
    <3>2. clientSet' = clientSet \ S /\ cur' = forceLeaveClient(cur, S) /\ opts' = opts
      BY <1>5, <2>1 DEF Disconnect, closeClients
    <3> HIDE DEF S
    <3>3. /\ ~cur'.timer /\ (saverOn => cur'.active = Primary)
          /\ (cur'.activeSaver # Null => saverOn)
          /\ cur'.active \in clientSet \ S /\ cur'.activeSaver \in (clientSet \ S) \cup {Null}
          /\ cur'.entered = {cur'.active}
      BY <3>1, <3>2, LeaveKeepsCursor
    <3>4. QED
      BY <1>1, <1>2, <3>2, <3>3 DEF CursorInv, ActiveConnected, OneEntered
  <2>2. CASE ~(~Alone(clients) \/ oldClients # {})
    BY <1>1, <1>2, <1>5, <2>2 DEF Disconnect, CursorInv, ActiveConnected, OneEntered
  <2>3. QED
    BY <2>1, <2>2
<1>6. QED
  BY <1>3, <1>4, <1>5 DEF Administration

\* Every handler keeps the cursor part, given immediate switching and a screen
\* saver that input ends.
LEMMA ScreenNext ==
  ASSUME StableNames, NoDelay, QuietSaver, ScreenInv, [Next]_vars PROVE ScreenInv'
<1>1. RegistryInv'
  BY RegistryNext DEF ScreenInv
<1>2. CursorInv'
  <2>1. CASE Input
    <3>1. BasicInv /\ CursorInv /\ Connected(clients) = clientSet
      BY FiledConsistent DEF ScreenInv, RegistryInv, RegistryConsistent
    <3>2. /\ Follows(cur, cur', IF saverOn THEN {} ELSE clientSet)
          /\ UNCHANGED <<opts, clientSet, saverOn>>
      BY <2>1, <3>1, InputFollows DEF TimerTarget, CursorInv, Awake, registry, saver, Follows
    <3>3. QED
      BY <3>1, <3>2 DEF Follows, CursorInv, ActiveConnected, OneEntered
  <2>2. CASE ScreensaverActivated \/ ScreensaverDeactivated
    BY <2>2, SaverCursor
  <2>3. CASE Connection
    BY <2>3, ConnectionCursor DEF Connection
  <2>4. CASE Administration
    BY <2>4, AdministrationCursor
  <2>5. CASE UNCHANGED vars
    BY <2>5 DEF vars, registry, saver, ScreenInv, CursorInv, ActiveConnected, OneEntered
  <2>6. QED
    BY <2>1, <2>2, <2>3, <2>4, <2>5 DEF Next
<1>3. QED
  BY <1>1, <1>2 DEF ScreenInv

\* The inductive invariant of the cursor.
THEOREM ScreenInvariant == ASSUME StableNames, NoDelay, QuietSaver PROVE Spec => []ScreenInv
<1>1. Init => ScreenInv
  BY ScreenInit, NoDelay
<1>2. ScreenInv /\ [Next]_vars => ScreenInv'
  BY ScreenNext, StableNames, NoDelay, QuietSaver
<1>3. QED
  BY <1>1, <1>2, PTL DEF Spec

\* With immediate switching the cursor is always on a connected screen, and
\* the screen it returns to after the saver is connected, however losses,
\* reloads and shutdowns interleave with motion and hot keys.
THEOREM CursorStaysConnected ==
  ASSUME StableNames, NoDelay, QuietSaver PROVE Spec => []ActiveConnected
<1>1. ScreenInv => ActiveConnected
  BY DEF ScreenInv, CursorInv
<1>2. Spec => []ScreenInv
  BY ScreenInvariant
<1>3. QED
  BY <1>1, <1>2, PTL

\* Exactly the active screen is entered, also when the primary screen may
\* refuse to give up the cursor.
THEOREM ExactlyOneEntered ==
  ASSUME StableNames, NoDelay, QuietSaver PROVE Spec => []OneEntered
<1>1. ScreenInv => OneEntered
  BY DEF ScreenInv, CursorInv
<1>2. Spec => []ScreenInv
  BY ScreenInvariant
<1>3. QED
  BY <1>1, <1>2, PTL

----------------------------------------------------------------------------
(* The server reports itself idle exactly when nobody is left *)

\* m_clients has one entry exactly if m_clientSet has only the primary screen.
LEMMA AloneMeans ==
  ASSUME TypeOK, NEW k \in Configs, NEW CS \in SUBSET Proxies, NEW cl, Primary \in CS,
         \A n \in Listed(cl) : cl[n] \in CS /\ n = getName(k, cl[n]),
         \A p \in CS : cl[getName(k, p)] = p
  PROVE  Alone(cl) <=> CS = {Primary}
<1>1. \A p \in CS : getName(k, p) \in Listed(cl)
  <2> SUFFICES ASSUME NEW p \in CS PROVE getName(k, p) \in Listed(cl)
    OBVIOUS
  <2>1. getName(k, p) \in Names /\ p # Null
    BY NamesOK, ConstantsAssumption
  <2>2. QED
    BY <2>1 DEF Listed
<1>2. ASSUME Alone(cl) PROVE CS = {Primary}
  <2>1. PICK n \in Names : Listed(cl) = {n}
    BY <1>2 DEF Alone
  <2>2. \A p \in CS : cl[n] = p
    BY <1>1, <2>1
  <2>3. QED
    BY <2>2
<1>3. ASSUME CS = {Primary} PROVE Alone(cl)
  <2>1. Listed(cl) = {getName(k, Primary)}
    BY <1>1, <1>3
  <2>2. QED
    BY <2>1 DEF Alone, Listed
<1>4. QED
  BY <1>2, <1>3

\* IdleReported with m_clientSet in the place of the size of m_clients.
IdleInv == RegistryInv /\ (idle <=> (clientSet = {Primary} /\ oldClients = {}))

\* At the start nobody is connected and the server is idle.
LEMMA IdleInit == Init => IdleInv
BY RegistryInit DEF Init, IdleInv

\* Every handler keeps it: the report is made by whichever handler removes the
\* last client, and taken back by the adoption of a new one.
LEMMA IdleNext ==
  ASSUME StableNames, IdleInv, [Next]_vars PROVE IdleInv'
<1> DEFINE Same(i) == i <=> (clientSet' = {Primary} /\ oldClients' = {})
<1>1. /\ RegistryInv /\ TypeOK /\ Filed /\ OwnedOnce /\ BasicInv /\ config \in Configs
      /\ idle <=> (clientSet = {Primary} /\ oldClients = {})
      /\ clientSet \subseteq Proxies /\ idle \in BOOLEAN
  BY DEF IdleInv, RegistryInv, BasicInv, TypeOK
<1>2. RegistryInv'
  BY <1>1, RegistryNext
<1>3. Alone(clients) <=> clientSet = {Primary}
  BY <1>1, AloneMeans DEF Filed
<1>4. Alone(clients') <=> clientSet' = {Primary}
  <2>1. /\ config' \in Configs /\ clientSet' \in SUBSET Proxies /\ Primary \in clientSet'
        /\ \A n \in Listed(clients') : clients'[n] \in clientSet'
                                      /\ n = getName(config', clients'[n])
        /\ \A p \in clientSet' : clients'[getName(config', p)] = p
    BY <1>2 DEF RegistryInv, BasicInv, TypeOK, Filed
  <2> DEFINE k == config'
             CS == clientSet'
             cl == clients'
  <2>2. /\ k \in Configs /\ CS \in SUBSET Proxies /\ Primary \in CS
        /\ \A n \in Listed(cl) : cl[n] \in CS /\ n = getName(k, cl[n])
        /\ \A p \in CS : cl[getName(k, p)] = p
    BY <2>1
  <2> HIDE DEF k, CS, cl
  <2>3. Alone(cl) <=> CS = {Primary}
    BY <1>1, <2>2, AloneMeans
  <2>4. QED
    BY <2>3 DEF CS, cl
<1>5. ASSUME NEW S, S \subseteq clientSet \ {Primary}, clientSet' = clientSet \ S,
             oldClients' = oldClients \cup S
      PROVE  Same(idle)
  BY <1>1, <1>5 DEF Filed
<1>6. \A K : Dropped(K) \subseteq clientSet \ {Primary}
  BY <1>1 DEF Dropped, Filed
<1>7. Same(idle')
  <2>1. CASE Input
    BY <1>1, <2>1, InputFollows DEF registry
  <2>2. CASE ScreensaverActivated \/ ScreensaverDeactivated
    <3>1. UNCHANGED registry
      BY <2>2 DEF ScreensaverActivated, ScreensaverDeactivated
    <3>2. QED
      BY <1>1, <3>1 DEF registry
  <2>3. ASSUME NEW p \in Clients, AdoptClient(p) PROVE Same(idle')
    <3>1. p \in clientSet' /\ ~idle' /\ p # Primary
      BY <2>3, ConstantsAssumption DEF AdoptClient
    <3>2. QED
      BY <3>1
  <2>4. ASSUME NEW p \in Clients, RejectClient(p) PROVE Same(idle')
    BY <2>4 DEF RejectClient
  <2>5. ASSUME NEW p \in Clients, LoseConnection(p) PROVE Same(idle')
    BY <1>1, <2>5 DEF LoseConnection, registry
  <2>6. ASSUME NEW p \in Clients, HandleClientDisconnected(p) PROVE Same(idle')
    <3>0. p # Primary
      BY ConstantsAssumption
    <3>1. CASE p \in clientSet
      BY <1>1, <1>4, <2>6, <3>0, <3>1 DEF HandleClientDisconnected
    <3>2. CASE p \notin clientSet
      <4>1. /\ p \in oldClients /\ clientSet' = clientSet /\ oldClients' = oldClients \ {p}
            /\ idle' = (idle \/ (p \in oldClients /\ Alone(clients) /\ oldClients' = {}))
        BY <1>1, <2>6, <3>2 DEF HandleClientDisconnected, removeOldClient, OwnedOnce
      <4>2. QED
        BY <1>1, <1>3, <4>1
    <3>3. QED
      BY <3>1, <3>2
  <2>7. ASSUME NEW p \in Clients, HandleClientCloseTimeout(p) PROVE Same(idle')
    <3>1. /\ p \in oldClients /\ clientSet' = clientSet /\ oldClients' = oldClients \ {p}
          /\ idle' = (idle \/ (p \in oldClients /\ Alone(clients) /\ oldClients' = {}))
      BY <2>7 DEF HandleClientCloseTimeout, removeOldClient
    <3>2. QED
      BY <1>1, <1>3, <3>1
  <2>8. ASSUME NEW c \in Configs, ReloadConfig(c) PROVE Same(idle')
    <3> DEFINE S == Dropped({n \in Names : isCanonicalName(c, n)})
    <3>1. clientSet' = clientSet \ S /\ oldClients' = oldClients \cup S /\ idle' = idle
      BY <2>8 DEF ReloadConfig, closeClients
    <3> HIDE DEF S
    <3>2. QED
      BY <1>5, <1>6, <3>1 DEF S
  <2>9. ASSUME NEW c \in Configs, RefuseConfig(c) PROVE Same(idle')
    BY <1>1, <2>9 DEF RefuseConfig, registry
  <2>10. CASE Disconnect
    <3>1. CASE ~Alone(clients) \/ oldClients # {}
      <4>1. /\ clientSet' = clientSet \ Dropped({}) /\ oldClients' = oldClients \cup Dropped({})
            /\ idle' = idle
        BY <2>10, <3>1 DEF Disconnect, closeClients
      <4>2. QED
        BY <1>5, <1>6, <4>1
    <3>2. CASE ~(~Alone(clients) \/ oldClients # {})
      BY <1>3, <2>10, <3>2 DEF Disconnect
    <3>3. QED
      BY <3>1, <3>2
  <2>11. CASE UNCHANGED vars
    BY <1>1, <2>11 DEF vars, registry
  <2>12. QED
    BY <2>1, <2>2, <2>3, <2>4, <2>5, <2>6, <2>7, <2>8, <2>9, <2>10, <2>11
    DEF Next, Connection, Administration
<1>8. QED
  BY <1>2, <1>7 DEF IdleInv

\* SERVER_DISCONNECTED has been sent since the last adoption exactly when only
\* the primary screen is listed and nothing is closing, for any number of
\* clients and whichever of disconnections, close timers, reloads and shutdowns
\* removes the last one.  ServerApp's closeServer waits for that event.
THEOREM IdleAlwaysReported == ASSUME StableNames PROVE Spec => []IdleReported
<1>1. Init => IdleInv
  BY IdleInit
<1>2. IdleInv /\ [Next]_vars => IdleInv'
  BY IdleNext, StableNames
<1>3. IdleInv => IdleReported
  <2> SUFFICES ASSUME IdleInv PROVE IdleReported
    OBVIOUS
  <2>1. Alone(clients) <=> clientSet = {Primary}
    BY AloneMeans DEF IdleInv, RegistryInv, Filed, BasicInv, TypeOK
  <2>2. QED
    BY <2>1 DEF IdleInv, IdleReported
<1>4. QED
  BY <1>1, <1>2, <1>3, PTL DEF Spec

----------------------------------------------------------------------------
(* The lock holds *)

\* With the cursor locked no test ends in a switch (Server::isSwitchOkay): the
\* tests that wait do not accept, and those that do not wait look at the lock.
LEMMA LockedTests ==
  ASSUME locked, NEW c, NEW dst, NEW d, NEW in
  PROVE  ~isSwitchOkay(c, dst, d, in).ok
<1>1. CASE dst = Null
  BY <1>1 DEF isSwitchOkay
<1>2. CASE dst # Null
  <2> DEFINE isNewDirection == d # c.dir
             begun == IF isNewDirection \/ c.target = Null
                        THEN [c EXCEPT !.dir = d, !.target = dst] ELSE c
             secondTap == opts.twoTap /\ ~isNewDirection /\ begun.engaged /\ begun.armed /\ in.quick
             firstTap == opts.twoTap /\ ~secondTap
             tapped == IF firstTap THEN startSwitchTwoTap(begun) ELSE begun
             waiting == opts.delay /\ ~secondTap
             waited == IF waiting /\ (isNewDirection \/ ~tapped.timer)
                         THEN startSwitchWait(tapped, dst) ELSE tapped
             prevented == firstTap \/ waiting
             stopped == \/ config.corners /\ in.corner
                        \/ ~prevented /\ (locked \/ in.held)
                        \/ ~prevented /\ opts.needsMods /\ ~in.mods
  <2>1. prevented \/ stopped
    OBVIOUS
  <2> HIDE DEF begun, secondTap, firstTap, tapped, waiting, waited, prevented, stopped
  <2>2. isSwitchOkay(c, dst, d, in) =
          [cur |-> IF stopped THEN stopSwitch(waited) ELSE waited, ok |-> ~prevented /\ ~stopped]
    BY <1>2 DEF isSwitchOkay, begun, tapped, waited, firstTap, secondTap, waiting, prevented,
                stopped
  <2>3. (~prevented /\ ~stopped) = FALSE
    BY <2>1
  <2>4. isSwitchOkay(c, dst, d, in) =
          [cur |-> IF stopped THEN stopSwitch(waited) ELSE waited, ok |-> FALSE]
    BY <2>2, <2>3
  <2>5. QED
    BY <2>4
<1>3. QED
  BY <1>1, <1>2

\* Cursor state x is well formed and has the active screen of c.
Stays(c, x) == CursorOK(x) /\ x.active = c.active

\* So an attempt to cross an edge leaves the cursor on its screen.
LEMMA LockedStays ==
  ASSUME locked, NEW c, CursorOK(c), NEW dst \in Proxies \cup {Null}, NEW d \in Dirs, NEW in,
         NEW drag, NEW canLeave
  PROVE  Stays(c, tryDirection(c, dst, d, in, drag, canLeave).cur)
<1>1. ~isSwitchOkay(c, dst, d, in).ok
  BY LockedTests
<1>2. tryDirection(c, dst, d, in, drag, canLeave).cur = isSwitchOkay(c, dst, d, in).cur
  BY <1>1 DEF tryDirection
<1>3. QED
  BY <1>2, IsSwitchOkayOK DEF Stays

\* And so do the two attempts of a motion on the primary screen.
LEMMA LockedOffPrimary ==
  ASSUME locked, NEW c, CursorOK(c), NEW h \in Dirs \cup {NoDir}, NEW v \in Dirs \cup {NoDir},
         NEW dh \in Proxies \cup {Null}, NEW dv \in Proxies \cup {Null},
         NEW in, NEW drag, NEW canLeave
  PROVE  Stays(c, offPrimary(c, h, v, dh, dv, in, drag, canLeave))
<1> DEFINE c0 == [c EXCEPT !.pos = Primary]
           a == IF h = NoDir THEN [cur |-> c0, done |-> FALSE]
                ELSE tryDirection(c0, dh, h, in, drag, canLeave)
           b == IF v = NoDir \/ a.done THEN a
                ELSE tryDirection(a.cur, dv, v, in, drag, canLeave)
<1>1. CursorOK(c0) /\ c0.active = c.active
  BY DEF CursorOK, CursorType, Stoppable, Proxies
<1> HIDE DEF c0
<1>2. h # NoDir => Stays(c0, tryDirection(c0, dh, h, in, drag, canLeave).cur)
  BY <1>1, LockedStays
<1>3. Stays(c, a.cur)
  BY <1>1, <1>2 DEF Stays
<1> HIDE DEF a
<1> DEFINE y == a.cur
<1>4. Stays(c, y) /\ CursorOK(y)
  BY <1>3 DEF Stays
<1>5. b.cur = IF v = NoDir \/ a.done THEN y ELSE tryDirection(y, dv, v, in, drag, canLeave).cur
  OBVIOUS
<1> HIDE DEF y
<1>6. v # NoDir => Stays(y, tryDirection(y, dv, v, in, drag, canLeave).cur)
  BY <1>4, LockedStays
<1>7. Stays(c, b.cur)
  BY <1>4, <1>5, <1>6 DEF Stays
<1>8. offPrimary(c, h, v, dh, dv, in, drag, canLeave) = b.cur
  BY DEF offPrimary, a, c0
<1>9. QED
  BY <1>7, <1>8

\* A motion on either kind of screen and an expired wait keep the active screen
\* while the cursor is locked.
LEMMA LockedStep ==
  ASSUME BasicInv, locked, MotionPrimary \/ MotionOffSecondary \/ HandleSwitchWait
  PROVE  cur'.active = cur.active
<1>1. CursorOK(cur) /\ TypeOK
  BY DEF BasicInv, TypeOK, CursorOK, TestsStoppable
<1>2. \A p, d : destinations(p, d) \cup mapToNeighbor(p, d) \subseteq Proxies \cup {Null}
  BY <1>1, NeighborsConnected, ConnectedProxies
<1>3. CASE MotionPrimary
  <2>1. onMouseMovePrimary(cur)
    BY <1>3 DEF MotionPrimary
  <2>2. CASE cur' \in insidePrimary(cur)
    <3>1. PICK tap \in Taps : cur' = noSwitch([cur EXCEPT !.pos = Primary], tap)
      BY <2>2 DEF insidePrimary
    <3> DEFINE d == [cur EXCEPT !.pos = Primary]
    <3>2. CursorOK(d) /\ d.active = cur.active
      BY <1>1 DEF CursorOK, CursorType, Stoppable, Proxies
    <3> HIDE DEF d
    <3>3. noSwitch(d, tap).active = d.active
      BY <3>2, NoSwitchOK
    <3>4. QED
      BY <3>1, <3>2, <3>3 DEF d
  <2>3. ASSUME NEW h \in Horizontal \cup {NoDir}, NEW v \in Vertical \cup {NoDir},
               NEW dh \in destinations(Primary, h), NEW dv \in destinations(Primary, v),
               NEW in, NEW drag, NEW canLeave,
               cur' = offPrimary(cur, h, v, dh, dv, in, drag, canLeave)
        PROVE  cur'.active = cur.active
    <3>1. h \in Dirs \cup {NoDir} /\ v \in Dirs \cup {NoDir}
      BY DEF Dirs
    <3>2. dh \in Proxies \cup {Null} /\ dv \in Proxies \cup {Null}
      BY <1>2
    <3>3. Stays(cur, cur')
      BY <1>1, <2>3, <3>1, <3>2, LockedOffPrimary
    <3>4. QED
      BY <3>3 DEF Stays
  <2>4. QED
    BY <2>1, <2>2, <2>3 DEF onMouseMovePrimary
<1>4. CASE MotionOffSecondary
  <2>1. PICK d \in Dirs, in \in Inputs : \E dst \in mapToNeighbor(cur.active, d) :
          cur' = tryDirection(cur, dst, d, in, FALSE, TRUE).cur
    BY <1>4 DEF MotionOffSecondary, offSecondary
  <2>2. PICK dst \in mapToNeighbor(cur.active, d) :
          cur' = tryDirection(cur, dst, d, in, FALSE, TRUE).cur
    BY <2>1
  <2>3. dst \in Proxies \cup {Null}
    BY <1>2
  <2>4. Stays(cur, cur')
    BY <1>1, <2>2, <2>3, LockedStays
  <2>5. QED
    BY <2>4 DEF Stays
<1>5. CASE HandleSwitchWait
  <2>1. cur' = stopSwitch(cur)
    BY <1>5 DEF HandleSwitchWait
  <2>2. QED
    BY <1>1, <2>1, StopSwitchOK
<1>6. QED
  BY <1>3, <1>4, <1>5

\* While the cursor is locked to its screen no motion and no expired wait moves
\* it to another, for any screens, options and configurations, a wait started
\* before the lock included.
THEOREM LockAlwaysHolds == Spec => LockHolds
<1> DEFINE A == locked /\ cur'.active # cur.active
                  => ~(MotionPrimary \/ MotionOffSecondary \/ HandleSwitchWait)
<1>1. BasicInv /\ [Next]_vars => [A]_vars
  BY LockedStep
<1>2. Spec => [][A]_vars
  BY <1>1, BasicInvariant, PTL DEF Spec
<1>3. QED
  BY <1>2 DEF LockHolds

----------------------------------------------------------------------------
(* The server's positions lie where it says they do *)

\* Cursor state c is well formed, its position lies on the active screen and the
\* jump position of every screen of C lies on that screen.
Placed(c, C) == CursorOK(c) /\ c.pos = c.active /\ \A p \in C : c.jump[p] = p

\* Stopping the tests moves nothing.
LEMMA StopPlaced ==
  ASSUME NEW c, NEW C, Placed(c, C)
  PROVE  Placed(stopSwitch(c), C)
<1>1. CursorOK(stopSwitch(c)) /\ stopSwitch(c).active = c.active /\ stopSwitch(c).jump = c.jump
  BY StopSwitchOK DEF Placed
<1>2. stopSwitch(c).pos = c.pos
  BY DEF Placed, CursorOK, CursorType, stopSwitch, stopSwitchWait, stopSwitchTwoTap
<1>3. QED
  BY <1>1, <1>2 DEF Placed

\* Nor does a motion away from the edge.
LEMMA NoSwitchPlaced ==
  ASSUME NEW c, NEW C, Placed(c, C), NEW tap
  PROVE  Placed(noSwitch(c, tap), C)
<1>1. CursorOK(noSwitch(c, tap)) /\ noSwitch(c, tap).active = c.active
  BY NoSwitchOK DEF Placed
<1>2. noSwitch(c, tap).pos = c.pos /\ noSwitch(c, tap).jump = c.jump
  BY DEF Placed, CursorOK, CursorType, noSwitch, armSwitchTwoTap, stopSwitchWait, stopSwitchTwoTap
<1>3. QED
  BY <1>1, <1>2 DEF Placed

\* A change of options at most puts the position on the active screen.
LEMMA OptionsPlaced ==
  ASSUME NEW c, NEW C, Placed(c, C), NEW k
  PROVE  Placed(stopRelativeMoves(c), C) /\ Placed(processedCursor(c, k), C)
<1>1. ASSUME NEW x, Placed(x, C) PROVE Placed(stopRelativeMoves(x), C)
  BY <1>1 DEF Placed, CursorOK, CursorType, Stoppable, stopRelativeMoves
<1>2. ASSUME NEW x, Placed(x, C) PROVE Placed(stopSwitchWait(x), C)
  BY <1>2 DEF Placed, CursorOK, CursorType, Stoppable, stopSwitchWait
<1>3. ASSUME NEW x, Placed(x, C) PROVE Placed(stopSwitchTwoTap(x), C)
  BY <1>3 DEF Placed, CursorOK, CursorType, Stoppable, stopSwitchTwoTap
<1> DEFINE a == IF k.delay = "absent" THEN c ELSE stopSwitchWait(c)
           b == IF k.twoTap = "absent" THEN a ELSE stopSwitchTwoTap(a)
<1>4. Placed(a, C)
  BY <1>2
<1> HIDE DEF a
<1>5. Placed(b, C)
  BY <1>3, <1>4
<1> HIDE DEF b
<1>6. processedCursor(c, k) =
        IF ~k.global THEN c ELSE IF k.relative = "off" THEN stopRelativeMoves(b) ELSE b
  BY DEF processedCursor, b, a
<1>7. Placed(processedCursor(c, k), C)
  BY <1>1, <1>5, <1>6
<1>8. QED
  BY <1>1, <1>7

\* A switch that cannot be refused takes the position along.
LEMMA SwitchPlaced ==
  ASSUME NEW c, NEW C, Placed(c, C), NEW dst \in Proxies
  PROVE  Placed(switchScreen(c, dst, dst, TRUE), C)
<1> DEFINE s == stopSwitch(c)
           d == [s EXCEPT !.pos = dst]
           e == [d EXCEPT !.active = dst, !.entered = (d.entered \ {d.active}) \cup {dst}]
<1>1. Placed(s, C)
  BY StopPlaced
<1> HIDE DEF s
<1>2. CursorOK(d) /\ d.pos = dst /\ \A p \in C : d.jump[p] = p
  BY <1>1 DEF Placed, CursorOK, CursorType, Stoppable
<1> HIDE DEF d
<1>3. Placed(e, C)
  BY <1>2 DEF Placed, CursorOK, CursorType, Stoppable
<1>4. switchScreen(c, dst, dst, TRUE) = IF d.active # dst THEN e ELSE d
  BY DEF switchScreen, leaves, d, s
<1>5. d.active = dst => Placed(d, C)
  BY <1>2 DEF Placed
<1>6. QED
  BY <1>3, <1>4, <1>5

\* A jump records the position it leaves and enters at the one it recorded.
LEMMA JumpPlaced ==
  ASSUME NEW c, NEW C \in SUBSET Proxies, Placed(c, C), NEW dst \in C
  PROVE  Placed(jumpToScreen(c, dst, TRUE), C)
<1> DEFINE d == [c EXCEPT !.jump[c.active] = c.pos]
<1>1. CursorOK(d) /\ d.active = c.active /\ d.pos = c.pos
  BY DEF Placed, CursorOK, CursorType, Stoppable
<1>2. \A p \in C : d.jump[p] = p
  BY DEF Placed, CursorOK, CursorType
<1>3. jumpToScreen(c, dst, TRUE) = switchScreen(d, dst, d.jump[dst], TRUE)
  BY DEF jumpToScreen
<1> HIDE DEF d
<1>4. Placed(d, C) /\ d.jump[dst] = dst /\ dst \in Proxies
  BY <1>1, <1>2 DEF Placed
<1>5. Placed(switchScreen(d, dst, dst, TRUE), C)
  BY <1>4, SwitchPlaced
<1>6. QED
  BY <1>3, <1>4, <1>5

\* The switch tests move nothing.
LEMMA TestsPlaced ==
  ASSUME NEW c, NEW C, Placed(c, C), NEW dst \in Proxies \cup {Null}, NEW d \in Dirs, NEW in
  PROVE  Placed(isSwitchOkay(c, dst, d, in).cur, C)
<1>1. CASE dst = Null
  <2>1. isSwitchOkay(c, dst, d, in).cur = stopSwitch(c)
    BY <1>1 DEF isSwitchOkay
  <2>2. QED
    BY <2>1, StopPlaced
<1>2. CASE dst # Null
  <2> DEFINE isNewDirection == d # c.dir
             begun == IF isNewDirection \/ c.target = Null
                        THEN [c EXCEPT !.dir = d, !.target = dst] ELSE c
             secondTap == opts.twoTap /\ ~isNewDirection /\ begun.engaged /\ begun.armed /\ in.quick
             firstTap == opts.twoTap /\ ~secondTap
             tapped == IF firstTap THEN startSwitchTwoTap(begun) ELSE begun
             waiting == opts.delay /\ ~secondTap
             waited == IF waiting /\ (isNewDirection \/ ~tapped.timer)
                         THEN startSwitchWait(tapped, dst) ELSE tapped
             prevented == firstTap \/ waiting
             stopped == \/ config.corners /\ in.corner
                        \/ ~prevented /\ (locked \/ in.held)
                        \/ ~prevented /\ opts.needsMods /\ ~in.mods
  <2>1. dst \in Proxies
    BY <1>2
  <2>2. Placed(begun, C) /\ begun.target # Null
    BY <2>1, <1>2, ConstantsAssumption DEF Placed, CursorOK, CursorType, Stoppable
  <2> HIDE DEF begun
  <2>3. Placed(startSwitchTwoTap(begun), C) /\ startSwitchTwoTap(begun).target # Null
    BY <2>2 DEF Placed, CursorOK, CursorType, Stoppable, startSwitchTwoTap
  <2>4. Placed(tapped, C) /\ tapped.target # Null
    BY <2>2, <2>3
  <2> HIDE DEF tapped
  <2>5. Placed(startSwitchWait(tapped, dst), C)
    BY <2>1, <2>4 DEF Placed, CursorOK, CursorType, Stoppable, startSwitchWait
  <2>6. Placed(waited, C)
    BY <2>4, <2>5
  <2> HIDE DEF waited
  <2>7. Placed(stopSwitch(waited), C)
    BY <2>6, StopPlaced
  <2> HIDE DEF firstTap, secondTap, waiting, prevented, stopped
  <2>8. isSwitchOkay(c, dst, d, in) =
          [cur |-> IF stopped THEN stopSwitch(waited) ELSE waited, ok |-> ~prevented /\ ~stopped]
    BY <1>2 DEF isSwitchOkay, begun, tapped, waited, firstTap, secondTap, waiting, prevented,
                stopped
  <2>9. QED
    BY <2>6, <2>7, <2>8
<1>3. QED
  BY <1>1, <1>2

\* One attempt to cross an edge stays placed.
LEMMA TryPlaced ==
  ASSUME NEW c, NEW C, Placed(c, C), NEW dst \in Proxies \cup {Null}, NEW d \in Dirs, NEW in,
         NEW drag
  PROVE  Placed(tryDirection(c, dst, d, in, drag, TRUE).cur, C)
<1> DEFINE r == isSwitchOkay(c, dst, d, in)
           go == r.ok /\ ~(drag /\ c.active = Primary /\ dst # Primary)
           y == r.cur
<1>0. Placed(y, C)
  BY TestsPlaced
<1>a. CursorOK(c)
  BY DEF Placed
<1>b. r.ok => dst \in Proxies
  BY <1>a, IsSwitchOkayOK
<1>1. Placed(y, C) /\ (r.ok => dst \in Proxies)
  BY <1>0, <1>b
<1>2. tryDirection(c, dst, d, in, drag, TRUE).cur = IF go THEN switchScreen(y, dst, dst, TRUE) ELSE y
  BY DEF tryDirection
<1> HIDE DEF r, y
<1>3. dst \in Proxies => Placed(switchScreen(y, dst, dst, TRUE), C)
  BY <1>1, SwitchPlaced
<1>4. QED
  BY <1>1, <1>2, <1>3

\* And so do the two attempts of a motion on the primary screen.
LEMMA OffPrimaryPlaced ==
  ASSUME NEW c, NEW C, Placed(c, C), c.active = Primary,
         NEW h \in Dirs \cup {NoDir}, NEW v \in Dirs \cup {NoDir},
         NEW dh \in Proxies \cup {Null}, NEW dv \in Proxies \cup {Null}, NEW in, NEW drag
  PROVE  Placed(offPrimary(c, h, v, dh, dv, in, drag, TRUE), C)
<1> DEFINE c0 == [c EXCEPT !.pos = Primary]
           a == IF h = NoDir THEN [cur |-> c0, done |-> FALSE]
                ELSE tryDirection(c0, dh, h, in, drag, TRUE)
           b == IF v = NoDir \/ a.done THEN a
                ELSE tryDirection(a.cur, dv, v, in, drag, TRUE)
<1>1. Placed(c0, C)
  BY DEF Placed, CursorOK, CursorType, Stoppable, Proxies
<1> HIDE DEF c0
<1>2. h # NoDir => Placed(tryDirection(c0, dh, h, in, drag, TRUE).cur, C)
  BY <1>1, TryPlaced
<1>3. Placed(a.cur, C)
  BY <1>1, <1>2
<1> HIDE DEF a
<1> DEFINE y == a.cur
<1>4. Placed(y, C)
  BY <1>3
<1>5. b.cur = IF v = NoDir \/ a.done THEN y ELSE tryDirection(y, dv, v, in, drag, TRUE).cur
  OBVIOUS
<1> HIDE DEF y
<1>6. v # NoDir => Placed(tryDirection(y, dv, v, in, drag, TRUE).cur, C)
  BY <1>4, TryPlaced
<1>7. Placed(b.cur, C)
  BY <1>4, <1>5, <1>6
<1>8. offPrimary(c, h, v, dh, dv, in, drag, TRUE) = b.cur
  BY DEF offPrimary, a, c0
<1>9. QED
  BY <1>7, <1>8

\* Letting clients go puts the cursor on the primary screen or leaves it.
LEMMA LeavePlaced ==
  ASSUME NEW c, NEW C, Placed(c, C), NEW S \in SUBSET Clients
  PROVE  Placed(forceLeaveClient(c, S), C)
<1> DEFINE active == IF c.activeSaver # Null THEN c.activeSaver ELSE c.active
           d == IF active = c.target THEN stopSwitch(c) ELSE c
           e == [d EXCEPT !.pos = Primary, !.active = Primary,
                     !.entered = IF c.activeSaver = Null THEN (@ \ S) \cup {Primary} ELSE @ \ S]
           f == IF active \in S THEN e ELSE [c EXCEPT !.entered = @ \ S]
           g == [f EXCEPT !.activeSaver = IF @ \in S THEN Null ELSE @]
<1>1. Placed(d, C)
  BY StopPlaced
<1> HIDE DEF d
<1>2. Placed(e, C)
  <2> DEFINE E == IF c.activeSaver = Null THEN (d.entered \ S) \cup {Primary} ELSE d.entered \ S
  <2>1. E \in SUBSET Proxies /\ Primary \in Proxies
    BY <1>1 DEF Placed, CursorOK, CursorType, Proxies
  <2> HIDE DEF E
  <2>2. e = [d EXCEPT !.pos = Primary, !.active = Primary, !.entered = E]
    BY DEF E
  <2> HIDE DEF e
  <2>3. QED
    BY <1>1, <2>1, <2>2 DEF Placed, CursorOK, CursorType, Stoppable
<1> HIDE DEF e
<1>3. Placed([c EXCEPT !.entered = @ \ S], C)
  BY DEF Placed, CursorOK, CursorType, Stoppable
<1>4. Placed(f, C)
  BY <1>2, <1>3
<1> HIDE DEF f
<1>5. Placed(g, C)
  BY <1>4 DEF Placed, CursorOK, CursorType, Stoppable
<1>6. forceLeaveClient(c, S) = g
  BY DEF forceLeaveClient, f, e, d
<1>7. QED
  BY <1>5, <1>6

\* The primary screen never refuses to give up the cursor.
Obliging == CanLeave = {TRUE}

\* A motion on the primary screen stays placed.
LEMMA MovePrimaryPlaced ==
  ASSUME Obliging, TypeOK, NEW c, NEW C, Placed(c, C), onMouseMovePrimary(c)
  PROVE  Placed(cur', C)
<1>1. c.active = Primary
  BY DEF onMouseMovePrimary
<1>2. CASE cur' \in insidePrimary(c)
  <2> DEFINE d == [c EXCEPT !.pos = Primary]
  <2>1. Placed(d, C)
    BY <1>1 DEF Placed, CursorOK, CursorType, Stoppable, Proxies
  <2>2. PICK tap \in Taps : cur' = noSwitch(d, tap)
    BY <1>2 DEF insidePrimary
  <2> HIDE DEF d
  <2>3. Placed(noSwitch(d, tap), C)
    BY <2>1, NoSwitchPlaced
  <2>4. QED
    BY <2>2, <2>3
<1>3. ASSUME NEW h \in Horizontal \cup {NoDir}, NEW v \in Vertical \cup {NoDir},
             NEW dh \in destinations(Primary, h), NEW dv \in destinations(Primary, v),
             NEW in, NEW drag, NEW canLeave \in CanLeave,
             cur' = offPrimary(c, h, v, dh, dv, in, drag, canLeave)
      PROVE  Placed(cur', C)
  <2>1. dh \in Proxies \cup {Null} /\ dv \in Proxies \cup {Null}
    BY NeighborsConnected, ConnectedProxies
  <2>2. h \in Dirs \cup {NoDir} /\ v \in Dirs \cup {NoDir}
    BY DEF Dirs
  <2>3. cur' = offPrimary(c, h, v, dh, dv, in, drag, TRUE)
    BY <1>3 DEF Obliging
  <2>4. QED
    BY <1>1, <2>1, <2>2, <2>3, OffPrimaryPlaced
<1>4. QED
  BY <1>2, <1>3 DEF onMouseMovePrimary

\* Every mouse and hot key event stays placed, no wait being under way.
LEMMA InputPlaced ==
  ASSUME Obliging, BasicInv, ~cur.timer, Input, Connected(clients) = clientSet,
         Placed(cur, clientSet)
  PROVE  Placed(cur', clientSet)
<1>1. TypeOK /\ clientSet \in SUBSET Proxies
  BY DEF BasicInv, TypeOK
<1>2. ASSUME NEW c, Placed(c, clientSet), cur' \in insideSecondary(c)
      PROVE  Placed(cur', clientSet)
  <2>1. cur' = c \/ \E tap \in Taps : cur' = noSwitch(c, tap)
    BY <1>2 DEF insideSecondary
  <2>2. QED
    BY <1>2, <2>1, NoSwitchPlaced
<1>3. ASSUME NEW dst \in clientSet, NEW canLeave \in CanLeave,
             cur' = jumpToScreen(cur, dst, canLeave)
      PROVE  Placed(cur', clientSet)
  <2>1. cur' = jumpToScreen(cur, dst, TRUE)
    BY <1>3 DEF Obliging
  <2>2. QED
    BY <1>1, <2>1, JumpPlaced
<1>4. CASE MotionPrimary
  BY <1>1, <1>4, MovePrimaryPlaced DEF MotionPrimary
<1>5. CASE MotionInsideSecondary
  BY <1>2, <1>5 DEF MotionInsideSecondary
<1>6. CASE MotionOffSecondary
  <2>1. PICK d \in Dirs, in \in Inputs : \E dst \in mapToNeighbor(cur.active, d) :
          cur' = tryDirection(cur, dst, d, in, FALSE, TRUE).cur
    BY <1>6 DEF MotionOffSecondary, offSecondary
  <2>2. PICK dst \in mapToNeighbor(cur.active, d) :
          cur' = tryDirection(cur, dst, d, in, FALSE, TRUE).cur
    BY <2>1
  <2>3. dst \in Proxies \cup {Null}
    BY <1>1, NeighborsConnected, ConnectedProxies
  <2>4. QED
    BY <2>2, <2>3, TryPlaced
<1>7. CASE HandleSwitchToScreen
  BY <1>3, <1>7 DEF HandleSwitchToScreen
<1>8. CASE HandleToggleScreen
  <2>1. \A n \in Listed(clients) : clients[n] \in clientSet
    BY DEF Connected
  <2>2. QED
    BY <1>3, <1>8, <2>1 DEF HandleToggleScreen
<1>9. CASE HandleSwitchInDirection
  <2>1. \A d : getNeighbor(cur.active, d) \ {Null} \subseteq clientSet
    BY NeighborsConnected
  <2>2. QED
    BY <1>3, <1>9, <2>1 DEF HandleSwitchInDirection
<1>10. CASE HandleSwitchWait
  BY <1>10 DEF HandleSwitchWait
<1>11. CASE HandleLockCursorToScreen
  <2>1. Placed(stopRelativeMoves(cur), clientSet)
    BY OptionsPlaced
  <2>2. QED
    BY <1>11, <2>1 DEF HandleLockCursorToScreen
<1>12. CASE HandleShapeChanged
  <2>1. PICK p \in clientSet \ {Primary} :
          cur' = [cur EXCEPT !.jump[p] = p, !.pos = IF cur.active = p THEN p ELSE @]
    BY <1>12 DEF HandleShapeChanged
  <2>2. p \in Proxies /\ cur \in CursorType /\ cur.pos = cur.active
    BY <1>1 DEF Placed, CursorOK
  <2> DEFINE J == [cur.jump EXCEPT ![p] = p]
  <2>3. /\ cur' = [cur EXCEPT !.jump = J] /\ J \in [Proxies -> Proxies]
        /\ \A q \in clientSet : J[q] = q
    BY <1>1, <2>1, <2>2 DEF CursorType, Placed
  <2> HIDE DEF J
  <2>4. QED
    BY <2>2, <2>3 DEF Placed, CursorOK, CursorType, Stoppable
<1>13. CASE HandlePrimaryShapeChanged
  <2> DEFINE c == [cur EXCEPT !.jump[Primary] = Primary]
  <2>1. Placed(c, clientSet)
    BY DEF Placed, CursorOK, CursorType, Stoppable, Proxies
  <2>2. onMouseMovePrimary(c) \/ cur' \in insideSecondary(c) \/ offSecondary(c)
    BY <1>13 DEF HandlePrimaryShapeChanged
  <2> HIDE DEF c
  <2>3. ASSUME offSecondary(c) PROVE Placed(cur', clientSet)
    <3>1. PICK d \in Dirs, in \in Inputs : \E dst \in mapToNeighbor(c.active, d) :
            cur' = tryDirection(c, dst, d, in, FALSE, TRUE).cur
      BY <2>3 DEF offSecondary
    <3>2. PICK dst \in mapToNeighbor(c.active, d) :
            cur' = tryDirection(c, dst, d, in, FALSE, TRUE).cur
      BY <3>1
    <3>3. dst \in Proxies \cup {Null}
      BY <1>1, NeighborsConnected, ConnectedProxies
    <3>4. QED
      BY <2>1, <3>2, <3>3, TryPlaced
  <2>4. QED
    BY <1>1, <1>2, <2>1, <2>2, <2>3, MovePrimaryPlaced
<1>14. QED
  BY <1>4, <1>5, <1>6, <1>7, <1>8, <1>9, <1>10, <1>11, <1>12, <1>13 DEF Input

\* Cursor and jump positions stay placed through every handler.
LEMMA PlacedNext ==
  ASSUME Obliging, ScreenInv, Placed(cur, clientSet), [Next]_vars
  PROVE  Placed(cur', clientSet')
<1>1. /\ BasicInv /\ TypeOK /\ ~cur.timer /\ Connected(clients) = clientSet
      /\ clientSet \subseteq Proxies /\ Primary \in Proxies /\ CursorInv
  BY FiledConsistent DEF ScreenInv, RegistryInv, RegistryConsistent, CursorInv, BasicInv, TypeOK,
                         Proxies
<1>2. \A C : C \subseteq clientSet /\ Placed(cur', clientSet) => Placed(cur', C)
  BY DEF Placed
<1>3. \A S \in SUBSET Clients : Placed(forceLeaveClient(cur, S), clientSet)
  BY LeavePlaced
<1>4. \A K : Dropped(K) \in SUBSET Clients
  BY <1>1 DEF Dropped, TypeOK, Listed, Proxies
<1>5. CASE Input
  <2>1. clientSet' = clientSet
    BY <1>1, <1>5, InputFollows DEF registry
  <2>2. QED
    BY <1>1, <1>5, <2>1, InputPlaced
<1>6. CASE ScreensaverActivated
  <2> DEFINE c == [cur EXCEPT !.activeSaver = cur.active]
  <2>1. Placed(c, clientSet)
    BY DEF Placed, CursorOK, CursorType, Stoppable
  <2>2. /\ cur' = IF c.active = Primary THEN c ELSE switchScreen(c, Primary, Primary, TRUE)
        /\ clientSet' = clientSet
    BY <1>6 DEF ScreensaverActivated, registry
  <2> HIDE DEF c
  <2>3. Placed(switchScreen(c, Primary, Primary, TRUE), clientSet)
    BY <1>1, <2>1, SwitchPlaced
  <2>4. QED
    BY <2>1, <2>2, <2>3
<1>7. CASE ScreensaverDeactivated
  <2> DEFINE back == cur.activeSaver
             y == IF back \in {Null, Primary} THEN cur ELSE switchScreen(cur, back, back, TRUE)
  <2>1. cur' = [y EXCEPT !.activeSaver = Null] /\ clientSet' = clientSet
    BY <1>7 DEF ScreensaverDeactivated, Obliging, registry
  <2>2. back \in Proxies \cup {Null}
    BY <1>1 DEF TypeOK, CursorType
  <2> HIDE DEF back
  <2>3. back \in Proxies => Placed(switchScreen(cur, back, back, TRUE), clientSet)
    BY SwitchPlaced
  <2>4. Placed(y, clientSet)
    BY <2>2, <2>3
  <2> HIDE DEF y
  <2>5. QED
    BY <2>1, <2>4 DEF Placed, CursorOK, CursorType, Stoppable
<1>8. ASSUME NEW p \in Clients, AdoptClient(p) PROVE Placed(cur', clientSet')
  <2>1. cur' = [cur EXCEPT !.jump[p] = p] /\ clientSet' = clientSet \cup {p} /\ p \in Proxies
    BY <1>8 DEF AdoptClient, Proxies
  <2> DEFINE J == [cur.jump EXCEPT ![p] = p]
  <2>2. /\ cur' = [cur EXCEPT !.jump = J] /\ J \in [Proxies -> Proxies]
        /\ \A q \in clientSet' : J[q] = q
    BY <1>1, <2>1 DEF TypeOK, CursorType, Placed
  <2> HIDE DEF J
  <2>3. QED
    BY <2>2 DEF Placed, CursorOK, CursorType, Stoppable
<1>9. ASSUME NEW p \in Clients, RejectClient(p) PROVE Placed(cur', clientSet')
  BY <1>3, <1>9 DEF RejectClient
<1>10. ASSUME NEW p \in Clients, LoseConnection(p) PROVE Placed(cur', clientSet')
  BY <1>10 DEF LoseConnection, registry
<1>11. ASSUME NEW p \in Clients, HandleClientDisconnected(p) PROVE Placed(cur', clientSet')
  <2>1. clientSet' \subseteq clientSet /\ (cur' = cur \/ cur' = forceLeaveClient(cur, {p}))
    BY <1>11 DEF HandleClientDisconnected
  <2>2. QED
    BY <1>2, <1>3, <2>1
<1>12. ASSUME NEW p \in Clients, HandleClientCloseTimeout(p) PROVE Placed(cur', clientSet')
  BY <1>12 DEF HandleClientCloseTimeout
<1>13. ASSUME NEW c \in Configs, ReloadConfig(c) PROVE Placed(cur', clientSet')
  <2> DEFINE S == Dropped({n \in Names : isCanonicalName(c, n)})
             y == forceLeaveClient(cur, S)
  <2>1. clientSet' \subseteq clientSet /\ cur' = processedCursor(y, c)
    BY <1>13 DEF ReloadConfig, closeClients
  <2>2. Placed(y, clientSet)
    BY <1>3, <1>4
  <2> HIDE DEF y
  <2>3. Placed(processedCursor(y, c), clientSet)
    BY <2>2, OptionsPlaced
  <2>4. QED
    BY <1>2, <2>1, <2>3
<1>14. ASSUME NEW c \in Configs, RefuseConfig(c) PROVE Placed(cur', clientSet')
  BY <1>14 DEF RefuseConfig, registry
<1>15. CASE Disconnect
  <2>1. clientSet' \subseteq clientSet /\ (cur' = cur \/ cur' = forceLeaveClient(cur, Dropped({})))
    BY <1>15 DEF Disconnect, closeClients
  <2>2. QED
    BY <1>2, <1>3, <1>4, <2>1
<1>16. CASE UNCHANGED vars
  BY <1>16 DEF vars, registry
<1>17. QED
  BY <1>5, <1>6, <1>7, <1>8, <1>9, <1>10, <1>11, <1>12, <1>13, <1>14, <1>15, <1>16
  DEF Next, Connection, Administration

----------------------------------------------------------------------------
(* What the server has told others matches what it is *)

\* No configuration lacks the primary screen.  One that does is refused, but is
\* in *m_config already, and the sides watched are those of the one before it.
NoneRefused == \A c \in Configs : isScreen(c, NameOf[Primary])

\* The names announced are those listed, through every handler: an adoption
\* adds the same name to both, a removal takes the same names from both.
LEMMA AnnouncedNext ==
  ASSUME BasicInv, AnnouncedConnected, [Next]_vars PROVE AnnouncedConnected'
<1>1. TypeOK /\ clients \in [Names -> Proxies \cup {Null}] /\ config \in Configs
  BY DEF BasicInv, TypeOK
<1>2. UNCHANGED <<clients, announced>> => AnnouncedConnected'
  BY DEF AnnouncedConnected, Listed
<1>3. ASSUME NEW c, NEW S, clients' = unlist(clients, c, S),
             announced' = announced \ {getName(c, p) : p \in S}
      PROVE  AnnouncedConnected'
  <2> DEFINE erased == {getName(c, p) : p \in S}
  <2>1. \A n \in Names : clients'[n] = IF n \in erased THEN Null ELSE clients[n]
    BY <1>3 DEF unlist
  <2> HIDE DEF erased
  <2>2. announced' = announced \ erased
    BY <1>3 DEF erased
  <2>3. QED
    BY <2>1, <2>2 DEF AnnouncedConnected, Listed
<1>4. CASE Input
  BY <1>2, <1>4, InputFollows DEF registry
<1>5. CASE ScreensaverActivated \/ ScreensaverDeactivated
  BY <1>2, <1>5 DEF ScreensaverActivated, ScreensaverDeactivated, registry
<1>6. ASSUME NEW p \in Clients, AdoptClient(p) PROVE AnnouncedConnected'
  <2> DEFINE n == getName(config, p)
  <2>1. n \in Names /\ p # Null /\ p # Primary
    BY <1>1, NamesOK, ConstantsAssumption DEF Proxies
  <2>2. clients' = [clients EXCEPT ![n] = p] /\ announced' = announced \cup {n}
    BY <1>6 DEF AdoptClient
  <2> HIDE DEF n
  <2>3. \A m \in Names : clients'[m] = IF m = n THEN p ELSE clients[m]
    BY <1>1, <2>1, <2>2
  <2>4. QED
    BY <2>1, <2>2, <2>3 DEF AnnouncedConnected, Listed
<1>7. ASSUME NEW p \in Clients, RejectClient(p) \/ LoseConnection(p) \/ HandleClientCloseTimeout(p)
      PROVE  AnnouncedConnected'
  BY <1>2, <1>7 DEF RejectClient, LoseConnection, HandleClientCloseTimeout, registry
<1>8. ASSUME NEW p \in Clients, HandleClientDisconnected(p) PROVE AnnouncedConnected'
  BY <1>3, <1>8 DEF HandleClientDisconnected
<1>9. ASSUME NEW c \in Configs, ReloadConfig(c) \/ RefuseConfig(c) PROVE AnnouncedConnected'
  BY <1>2, <1>3, <1>9 DEF ReloadConfig, RefuseConfig, closeClients, registry
<1>10. CASE Disconnect
  BY <1>2, <1>3, <1>10 DEF Disconnect, closeClients
<1>11. CASE UNCHANGED vars
  BY <1>2, <1>11 DEF vars, registry
<1>12. QED
  BY <1>4, <1>5, <1>6, <1>7, <1>8, <1>9, <1>10, <1>11 DEF Next, Connection, Administration

\* The primary screen is told its sides by every handler that can change them.
LEMMA SidesNext ==
  ASSUME NoneRefused, TypeOK, SidesCurrent, [Next]_vars PROVE SidesCurrent'
<1> DEFINE Told == sides' = getActivePrimarySides(config', locked')
<1>1. Told => SidesCurrent'
  BY DEF SidesCurrent, getActivePrimarySides
<1>2. UNCHANGED <<config, locked, sides>> => SidesCurrent'
  BY DEF SidesCurrent
<1>3. CASE Input
  <2>1. HandleLockCursorToScreen => Told
    BY DEF HandleLockCursorToScreen
  <2>2. ~HandleLockCursorToScreen => Moved
    BY <1>3 DEF Input, MotionPrimary, MotionInsideSecondary, MotionOffSecondary,
                HandleSwitchToScreen, HandleToggleScreen, HandleSwitchInDirection,
                HandleSwitchWait, HandleShapeChanged, HandlePrimaryShapeChanged
  <2>3. Moved => UNCHANGED <<config, locked, sides>>
    BY DEF Moved
  <2>4. QED
    BY <1>1, <1>2, <2>1, <2>2, <2>3
<1>4. CASE ScreensaverActivated \/ ScreensaverDeactivated
  BY <1>2, <1>4 DEF ScreensaverActivated, ScreensaverDeactivated
<1>5. CASE Connection
  <2>1. PICK p \in Clients : \/ AdoptClient(p) \/ RejectClient(p) \/ LoseConnection(p)
                             \/ HandleClientDisconnected(p) \/ HandleClientCloseTimeout(p)
    BY <1>5 DEF Connection
  <2>2. CASE AdoptClient(p) \/ RejectClient(p)
    BY <1>1, <2>2 DEF AdoptClient, RejectClient
  <2>3. CASE LoseConnection(p) \/ HandleClientCloseTimeout(p)
    BY <1>2, <2>3 DEF LoseConnection, HandleClientCloseTimeout
  <2>4. CASE HandleClientDisconnected(p)
    <3>1. config' = config /\ locked' = locked /\ (Told \/ sides' = sides)
      BY <2>4 DEF HandleClientDisconnected
    <3>2. QED
      BY <1>1, <1>2, <3>1
  <2>5. QED
    BY <2>1, <2>2, <2>3, <2>4
<1>6. CASE Administration
  <2>1. ASSUME NEW c \in Configs, ReloadConfig(c) PROVE Told
    BY <2>1 DEF ReloadConfig
  <2>2. ASSUME NEW c \in Configs, RefuseConfig(c) PROVE FALSE
    BY <2>2 DEF RefuseConfig, NoneRefused
  <2>3. CASE Disconnect
    <3>1. config' = config /\ locked' = locked /\ (Told \/ sides' = sides)
      BY <2>3 DEF Disconnect
    <3>2. QED
      BY <1>1, <1>2, <3>1
  <2>4. QED
    BY <1>1, <1>6, <2>1, <2>2, <2>3 DEF Administration
<1>7. CASE UNCHANGED vars
  BY <1>2, <1>7 DEF vars
<1>8. QED
  BY <1>3, <1>4, <1>5, <1>6, <1>7 DEF Next

\* Only connected or closing clients have been told of the screen saver, and no
\* connected one is left with it when the primary's has stopped.
SaverPart == SaverReleased /\ saverTold \subseteq clientSet \cup oldClients

\* A client that is adopted was never told before, and one that connects is told
\* only while the saver runs.
LEMMA SaverNext ==
  ASSUME ScreenInv, SaverPart, [Next]_vars PROVE SaverPart'
<1>1. /\ BasicInv /\ TypeOK /\ OwnedOnce /\ Connected(clients) = clientSet
      /\ cur.activeSaver # Null => saverOn
  BY FiledConsistent DEF ScreenInv, RegistryInv, RegistryConsistent, CursorInv, BasicInv
<1>2. UNCHANGED <<clientSet, oldClients, saverOn, saverTold>> => SaverPart'
  BY DEF SaverPart, SaverReleased
<1>3. ASSUME NEW S, S \subseteq clientSet, clientSet' = clientSet \ S,
             oldClients' = oldClients \cup S, UNCHANGED <<saverOn, saverTold>>
      PROVE  SaverPart'
  BY <1>3 DEF SaverPart, SaverReleased
<1>4. \A K : Dropped(K) \subseteq clientSet
  BY <1>1 DEF Dropped, Connected
<1>5. CASE Input
  BY <1>1, <1>2, <1>5, InputFollows DEF registry, saver
<1>6. CASE ScreensaverActivated
  <2>1. /\ saverOn' /\ saverTold' = clientSet \ {Primary} /\ clientSet' = clientSet
        /\ oldClients' = oldClients
    BY <1>1, <1>6 DEF ScreensaverActivated, registry
  <2>2. QED
    BY <2>1 DEF SaverPart, SaverReleased
<1>7. CASE ScreensaverDeactivated
  <2>1. /\ saverTold' = saverTold \ clientSet /\ clientSet' = clientSet
        /\ oldClients' = oldClients
    BY <1>1, <1>7 DEF ScreensaverDeactivated, registry
  <2>2. QED
    BY <2>1 DEF SaverPart, SaverReleased
<1>8. ASSUME NEW p \in Clients, AdoptClient(p) PROVE SaverPart'
  <2>1. /\ clientSet' = clientSet \cup {p} /\ oldClients' = oldClients /\ saverOn' = saverOn
        /\ saverTold' = IF cur.activeSaver # Null THEN saverTold \cup {p} ELSE saverTold
        /\ object[p] = "fresh"
    BY <1>8 DEF AdoptClient
  <2>2. p \notin saverTold
    <3>1. p # Primary /\ p \notin (clientSet \ {Primary}) \cup oldClients
      BY <1>1, <2>1, ConstantsAssumption DEF OwnedOnce
    <3>2. QED
      BY <3>1 DEF SaverPart
  <2>3. ~saverOn => saverTold' = saverTold
    BY <1>1, <2>1
  <2>4. saverTold' \subseteq saverTold \cup {p}
    BY <2>1
  <2>5. QED
    BY <2>1, <2>2, <2>3, <2>4 DEF SaverPart, SaverReleased
<1>9. ASSUME NEW p \in Clients, RejectClient(p) PROVE SaverPart'
  BY <1>9 DEF RejectClient, SaverPart, SaverReleased, saver
<1>10. ASSUME NEW p \in Clients, LoseConnection(p) PROVE SaverPart'
  BY <1>2, <1>10 DEF LoseConnection, registry, saver
<1>11. ASSUME NEW p \in Clients, HandleClientDisconnected(p) \/ HandleClientCloseTimeout(p)
       PROVE  SaverPart'
  <2>1. /\ clientSet' \subseteq clientSet /\ clientSet \ {p} \subseteq clientSet'
        /\ oldClients \ {p} \subseteq oldClients'
        /\ saverTold' = saverTold \ {p} /\ saverOn' = saverOn
    BY <1>11 DEF HandleClientDisconnected, HandleClientCloseTimeout, removeOldClient
  <2>2. QED
    BY <2>1 DEF SaverPart, SaverReleased
<1>12. ASSUME NEW c \in Configs, ReloadConfig(c) PROVE SaverPart'
  BY <1>3, <1>4, <1>12 DEF ReloadConfig, closeClients, saver
<1>13. ASSUME NEW c \in Configs, RefuseConfig(c) PROVE SaverPart'
  BY <1>2, <1>13 DEF RefuseConfig, registry, saver
<1>14. CASE Disconnect
  BY <1>2, <1>3, <1>4, <1>14 DEF Disconnect, closeClients, saver
<1>15. CASE UNCHANGED vars
  BY <1>2, <1>15 DEF vars, registry, saver
<1>16. QED
  BY <1>5, <1>6, <1>7, <1>8, <1>9, <1>10, <1>11, <1>12, <1>13, <1>14, <1>15
  DEF Next, Connection, Administration

\* The inductive invariant: ScreensInformed with what its parts need.
InformedInv ==
  ScreenInv /\ AnnouncedConnected /\ SaverPart /\ SidesCurrent /\ Placed(cur, clientSet)

\* At the start nothing has been announced and the positions are in place.
LEMMA InformedInit == NoDelay /\ Init => InformedInv
<1> SUFFICES ASSUME NoDelay, Init PROVE InformedInv
  OBVIOUS
<1>1. ScreenInv
  BY ScreenInit
<1>2. AnnouncedConnected /\ SaverPart /\ SidesCurrent
  BY DEF Init, AnnouncedConnected, Listed, SaverPart, SaverReleased, SidesCurrent
<1>3. Placed(cur, clientSet)
  <2>1. CursorOK(cur)
    BY <1>1 DEF ScreenInv, RegistryInv, BasicInv, TypeOK, CursorOK, TestsStoppable
  <2>2. QED
    BY <2>1 DEF Init, Placed, Proxies
<1>4. QED
  BY <1>1, <1>2, <1>3 DEF InformedInv

\* What the server has told the program, the primary screen and the clients --
\* who is connected, which sides to watch, whether the saver runs -- and the
\* positions it will send them stay true, for any number of clients and any
\* configurations with the primary screen, where switching is immediate, input
\* ends the saver and the primary screen gives up the cursor when asked.
THEOREM ScreensStayInformed ==
  ASSUME StableNames, NoDelay, NoneRefused, QuietSaver, ~LeaveMayFail
  PROVE  Spec => []ScreensInformed
<1>1. Init => InformedInv
  BY InformedInit, NoDelay
<1>2. InformedInv /\ [Next]_vars => InformedInv'
  <2> SUFFICES ASSUME InformedInv, [Next]_vars PROVE InformedInv'
    OBVIOUS
  <2>1. ScreenInv'
    BY ScreenNext, StableNames, NoDelay, QuietSaver DEF InformedInv
  <2>2. AnnouncedConnected'
    BY AnnouncedNext DEF InformedInv, ScreenInv, RegistryInv
  <2>3. SidesCurrent'
    BY SidesNext, NoneRefused DEF InformedInv, ScreenInv, RegistryInv, BasicInv
  <2>4. SaverPart'
    BY SaverNext DEF InformedInv
  <2>5. Placed(cur', clientSet')
    <3>1. Obliging
      BY DEF Obliging, CanLeave
    <3>2. QED
      BY <3>1, PlacedNext DEF InformedInv
  <2>6. QED
    BY <2>1, <2>2, <2>3, <2>4, <2>5 DEF InformedInv
<1>3. InformedInv => ScreensInformed
  BY DEF InformedInv, ScreensInformed, SaverPart, Placed, JumpInOwnSpace
<1>4. QED
  BY <1>1, <1>2, <1>3, PTL DEF Spec

----------------------------------------------------------------------------
(* The screen saver, whoever leaves *)

\* A forced leave keeps the saved screen or forgets it (Server::forceLeaveClient).
LEMMA LeaveSaved ==
  ASSUME NEW c, CursorOK(c), NEW S \in SUBSET Clients
  PROVE  forceLeaveClient(c, S).activeSaver \in {c.activeSaver, Null}
<1> DEFINE active == IF c.activeSaver # Null THEN c.activeSaver ELSE c.active
           d == IF active = c.target THEN stopSwitch(c) ELSE c
           e == [d EXCEPT !.pos = Primary, !.active = Primary,
                     !.entered = IF c.activeSaver = Null THEN (@ \ S) \cup {Primary} ELSE @ \ S]
           f == IF active \in S THEN e ELSE [c EXCEPT !.entered = @ \ S]
           g == [f EXCEPT !.activeSaver = IF @ \in S THEN Null ELSE @]
<1>1. d \in CursorType /\ d.activeSaver = c.activeSaver
  BY DEF CursorOK, CursorType, stopSwitch, stopSwitchWait, stopSwitchTwoTap
<1> HIDE DEF d
<1>2. e.activeSaver = c.activeSaver /\ DOMAIN e = DOMAIN d
  BY <1>1 DEF CursorType
<1>3. "activeSaver" \in DOMAIN d /\ c \in CursorType
  BY <1>1 DEF CursorOK, CursorType
<1> HIDE DEF e
<1>4. f.activeSaver = c.activeSaver /\ "activeSaver" \in DOMAIN f
  BY <1>2, <1>3 DEF CursorType
<1> HIDE DEF f
<1>5. g.activeSaver \in {c.activeSaver, Null}
  BY <1>4
<1>6. forceLeaveClient(c, S) = g
  BY DEF forceLeaveClient, f, e, d
<1>7. QED
  BY <1>5, <1>6

\* A client that connects is told while a saved screen is remembered, and no
\* handler but onScreensaver makes the server remember one.
LEMMA RememberedNext ==
  ASSUME RegistryInv, SaverRemembered, [Next]_vars PROVE SaverRemembered'
<1>1. /\ TypeOK /\ BasicInv /\ OwnedOnce /\ CursorOK(cur) /\ Connected(clients) = clientSet
  BY FiledConsistent DEF RegistryInv, RegistryConsistent, BasicInv, TypeOK, CursorOK, TestsStoppable
<1>2. ASSUME cur'.activeSaver \in {cur.activeSaver, Null}, clientSet' \subseteq clientSet, saverOn' = saverOn,
             clientSet' \cap saverTold \subseteq saverTold'
      PROVE  SaverRemembered'
  BY <1>2 DEF SaverRemembered, SaverFollowed
<1>3. \A K : Dropped(K) \in SUBSET Clients
  <2>1. \A K : Dropped(K) \subseteq clientSet \ {Primary}
    BY <1>1 DEF Dropped, Connected
  <2>2. QED
    BY <1>1, <2>1 DEF TypeOK, Proxies
<1>4. CASE Input
  BY <1>1, <1>2, <1>4, InputFollows DEF registry, saver, Follows
<1>5. CASE ScreensaverActivated
  BY <1>1, <1>5 DEF ScreensaverActivated, registry, SaverRemembered, SaverFollowed
<1>6. CASE ScreensaverDeactivated
  BY <1>6 DEF ScreensaverDeactivated, SaverRemembered, SaverFollowed
<1>7. ASSUME NEW p \in Clients, AdoptClient(p) PROVE SaverRemembered'
  <2>1. /\ clientSet' = clientSet \cup {p} /\ cur' = [cur EXCEPT !.jump[p] = p] /\ saverOn' = saverOn
        /\ saverTold' = IF cur.activeSaver # Null THEN saverTold \cup {p} ELSE saverTold
    BY <1>7 DEF AdoptClient
  <2>2. cur'.activeSaver = cur.activeSaver
    BY <1>1, <2>1 DEF CursorOK, CursorType
  <2>3. QED
    BY <2>1, <2>2 DEF SaverRemembered, SaverFollowed
<1>8. ASSUME NEW p \in Clients, RejectClient(p) PROVE SaverRemembered'
  BY <1>1, <1>2, <1>8, LeaveSaved DEF RejectClient, saver
<1>9. ASSUME NEW p \in Clients, LoseConnection(p) PROVE SaverRemembered'
  BY <1>2, <1>9 DEF LoseConnection, registry, saver
<1>10. ASSUME NEW p \in Clients, HandleClientDisconnected(p) PROVE SaverRemembered'
  <2>1. clientSet' = clientSet \ {p} /\ saverTold' = saverTold \ {p} /\ saverOn' = saverOn
    BY <1>10 DEF HandleClientDisconnected
  <2>2. cur' = cur \/ cur' = forceLeaveClient(cur, {p})
    BY <1>10 DEF HandleClientDisconnected
  <2>3. QED
    BY <1>1, <1>2, <2>1, <2>2, LeaveSaved
<1>11. ASSUME NEW p \in Clients, HandleClientCloseTimeout(p) PROVE SaverRemembered'
  <2>1. p \notin clientSet
    BY <1>1, <1>11 DEF HandleClientCloseTimeout, OwnedOnce
  <2>2. QED
    BY <1>2, <1>11, <2>1 DEF HandleClientCloseTimeout
<1>12. ASSUME NEW c \in Configs, ReloadConfig(c) PROVE SaverRemembered'
  <2>1. PICK S \in SUBSET Clients : /\ clientSet' = clientSet \ S /\ UNCHANGED <<saverOn, saverTold>>
                                    /\ cur' = processedCursor(forceLeaveClient(cur, S), c)
    BY <1>3, <1>12 DEF ReloadConfig, closeClients, saver
  <2>2. cur'.activeSaver = forceLeaveClient(cur, S).activeSaver
    BY <1>1, <2>1, ForceLeaveOK, OptionsOK
  <2>3. QED
    BY <1>1, <1>2, <2>1, <2>2, LeaveSaved
<1>13. ASSUME NEW c \in Configs, RefuseConfig(c) PROVE SaverRemembered'
  BY <1>2, <1>13 DEF RefuseConfig, registry, saver
<1>14. CASE Disconnect
  <2>1. UNCHANGED <<saverOn, saverTold>>
    BY <1>14 DEF Disconnect, saver
  <2>2. \/ cur' = cur /\ clientSet' = clientSet
        \/ \E S \in SUBSET Clients : clientSet' = clientSet \ S /\ cur' = forceLeaveClient(cur, S)
    BY <1>3, <1>14 DEF Disconnect, closeClients
  <2>3. QED
    BY <1>1, <1>2, <2>1, <2>2, LeaveSaved
<1>15. CASE UNCHANGED vars
  BY <1>2, <1>15 DEF vars, registry, saver
<1>16. QED
  BY <1>4, <1>5, <1>6, <1>7, <1>8, <1>9, <1>10, <1>11, <1>12, <1>13, <1>14, <1>15
  DEF Next, Connection, Administration

\* As long as the server remembers which screen the saver took the cursor from,
\* every connected client has been told of the saver: with any delays, lost
\* connections, reloads, refusals, shutdowns and input while the saver runs.
THEOREM SaverReachesAll ==
  ASSUME StableNames
  PROVE  Spec => []SaverRemembered
<1> DEFINE I == RegistryInv /\ SaverRemembered
<1>1. Init => I
  BY RegistryInit DEF Init, SaverRemembered, SaverFollowed
<1>2. I /\ [Next]_vars => I'
  BY RegistryNext, RememberedNext, StableNames
<1>3. QED
  BY <1>1, <1>2, PTL DEF Spec

=============================================================================
