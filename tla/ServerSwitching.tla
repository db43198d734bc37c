-------------------------- MODULE ServerSwitching --------------------------
(***************************************************************************)
(* The server's screens (src/lib/server/Server.cpp): which client proxies  *)
(* it has adopted, which screen has the cursor, and everything that moves  *)
(* the cursor or takes a screen away -- mouse motion, hot keys, the delay  *)
(* and double-tap tests, the screen saver, connections coming and going,   *)
(* a configuration reload and a shutdown.                                  *)
(*                                                                         *)
(* All of it runs on one event loop, so a step is one event handler, run   *)
(* to its end.  Handlers interleave in every order the queue permits.  A   *)
(* coordinate is abstracted to the screen in whose coordinate space it     *)
(* lies.                                                                   *)
(***************************************************************************)
EXTENDS Naturals, FiniteSets

CONSTANTS
  Clients,        \* the client proxies, one object for each connection
  Primary,        \* the proxy of the server's own screen
  Null,           \* nullptr, and the empty screen name
  Names,          \* screen names and aliases
  NameOf,         \* the name each proxy announced when it connected
  Configs,        \* the configurations that can be loaded
  QuietSaver,     \* TRUE: input and display changes end the screen saver first
  LeaveMayFail,   \* TRUE: the platform may refuse to give up the cursor
  Departures      \* TRUE: connections may be lost, and closed by a shutdown

Proxies == Clients \cup {Primary}
Horizontal == {"left", "right"}
Vertical == {"top", "bottom"}
Dirs == Horizontal \cup Vertical
NoDir == "none"

(***************************************************************************)
(* A configuration: canon maps a name to its canonical name (Null if it is *)
(* no screen), link gives the screens found along a side (Null where a     *)
(* part of the side has no neighbour) and corners says whether some corner *)
(* is locked.  A global option is "absent", "off" or "on"; global is FALSE *)
(* if the configuration has no global options at all.                      *)
(***************************************************************************)
OptionValue == {"absent", "off", "on"}
ConfigType == [canon : [Names -> Names \cup {Null}],
               link : [Names -> [Dirs -> SUBSET (Names \cup {Null})]],
               corners : BOOLEAN,
               global : BOOLEAN,
               delay : OptionValue, twoTap : OptionValue, relative : OptionValue,
               needsMods : BOOLEAN]

(***************************************************************************)
(* The proxies are distinct objects, every proxy has a name, the primary's *)
(* name is its own canonical name and configurations are well formed.      *)
(***************************************************************************)
ASSUME ConstantsAssumption ==
  /\ Primary \notin Clients
  /\ Null \notin Proxies
  /\ Null \notin Names
  /\ NameOf \in [Proxies -> Names]
  /\ Configs \subseteq ConfigType
  /\ \A c \in Configs : c.canon[NameOf[Primary]] \in {NameOf[Primary], Null}
  /\ QuietSaver \in BOOLEAN
  /\ LeaveMayFail \in BOOLEAN
  /\ Departures \in BOOLEAN

VARIABLES
  config,      \* *m_config, the configuration in force
  opts,        \* the global options Server keeps a copy of
  clients,     \* m_clients, by canonical name (Null: no entry)
  clientSet,   \* m_clientSet
  oldClients,  \* m_oldClients: being closed, a 5 s timer running
  object,      \* has the proxy been handed over, has it been deleted
  gone,        \* proxies with a CLIENT_PROXY_DISCONNECTED event queued
  cur,         \* cursor state of Server, and what it told the screens
  locked,      \* m_lockedToScreen
  sides,       \* sides the primary screen was told to watch (reconfigure)
  saverOn,     \* the screen saver runs on the primary screen
  saverTold,   \* clients last told that the screen saver is active
  announced,   \* screens reported connected to the rest of the program
  idle         \* SERVER_DISCONNECTED sent since the last client came

registry == <<clients, clientSet, oldClients, object, announced, idle>>
saver == <<saverOn, saverTold>>
vars == <<config, opts, registry, gone, cur, locked, sides, saver>>

(***************************************************************************)
(* cur: the active screen m_active, the space of (m_x, m_y), the screen to *)
(* return to after the saver m_activeSaver, the switch tests m_switchDir,  *)
(* m_switchScreen, the wait timer and the space of (m_switchWaitX, Y), the *)
(* double tap flags; the jump position each proxy holds and the set of     *)
(* screens that were entered and not left.                                 *)
(***************************************************************************)
CursorType == [active : Proxies, pos : Proxies,
               activeSaver : Proxies \cup {Null},
               dir : Dirs \cup {NoDir}, target : Proxies \cup {Null},
               timer : BOOLEAN, waitAt : Proxies,
               engaged : BOOLEAN, armed : BOOLEAN,
               jump : [Proxies -> Proxies], entered : SUBSET Proxies]

OptsType == [delay : BOOLEAN, twoTap : BOOLEAN, relative : BOOLEAN, needsMods : BOOLEAN]

TypeOK ==
  /\ config \in Configs
  /\ opts \in OptsType
  /\ clients \in [Names -> Proxies \cup {Null}]
  /\ clientSet \subseteq Proxies
  /\ oldClients \subseteq Clients
  /\ object \in [Clients -> {"fresh", "alive", "deleted"}]
  /\ gone \subseteq Clients
  /\ cur \in CursorType
  /\ locked \in BOOLEAN
  /\ sides \subseteq Dirs
  /\ saverOn \in BOOLEAN
  /\ saverTold \subseteq Clients
  /\ announced \subseteq Names
  /\ idle \in BOOLEAN

----------------------------------------------------------------------------
(* Names and neighbours *)

isScreen(c, n) == c.canon[n] # Null

isCanonicalName(c, n) == c.canon[n] = n

\* Server::getName under configuration c.
getName(c, p) == IF isScreen(c, NameOf[p]) THEN c.canon[NameOf[p]] ELSE NameOf[p]

Listed(cl) == {n \in Names : cl[n] # Null}

Connected(cl) == {cl[n] : n \in Listed(cl)}

\* Only the primary screen is listed: m_clients.size() == 1.
Alone(cl) == \E n \in Names : Listed(cl) = {n}

hasAnyNeighbor(c, p, d) == c.link[getName(c, p)][d] \ {Null} # {}

getActivePrimarySides(c, lock) ==
  IF lock THEN {} ELSE {d \in Dirs : hasAnyNeighbor(c, Primary, d)}

Across(S, d) == UNION {config.link[n][d] : n \in S}

\* The names a search towards d can pass when it may pass those in S.
Passed(n, d, S) ==
  LET f[k \in Nat] == IF k = 0 THEN {n} ELSE f[k - 1] \cup (Across(f[k - 1], d) \cap S)
  IN  f[Cardinality(Names)]

\* Screens getNeighbor can return: the first connected one, unconnected
\* ones being skipped; Null where the row of screens ends.
getNeighbor(p, d) ==
  LET found == Across(Passed(getName(config, p), d, Names \ Listed(clients)), d)
  IN  {clients[n] : n \in found \cap Listed(clients)} \cup (found \cap {Null})

\* Screens mapToNeighbor can return: a fast motion crosses whole screens and
\* stops at the last one that exists.
mapToNeighbor(p, d) ==
  LET found == Across(Passed(getName(config, p), d, Names), d)
  IN  {clients[n] : n \in found \cap Listed(clients)} \cup (getNeighbor(p, d) \cap {Null})

----------------------------------------------------------------------------
(* Cursor operations: each maps a cursor state to the next *)

stopSwitchTwoTap(c) == [c EXCEPT !.engaged = FALSE, !.armed = FALSE]

startSwitchTwoTap(c) == [c EXCEPT !.engaged = TRUE, !.armed = FALSE]

stopSwitchWait(c) == [c EXCEPT !.timer = FALSE]

startSwitchWait(c, at) == [c EXCEPT !.timer = TRUE, !.waitAt = at]

\* Mutants of stopSwitch: the wait, or the tap, survives it.
stopSwitchKeepsWait(c) ==
  IF c.target = Null THEN c
  ELSE stopSwitchTwoTap([c EXCEPT !.target = Null, !.dir = NoDir])

stopSwitchKeepsTap(c) ==
  IF c.target = Null THEN c
  ELSE stopSwitchWait([c EXCEPT !.target = Null, !.dir = NoDir])

stopSwitch(c) ==
  IF c.target = Null THEN c
  ELSE stopSwitchWait(stopSwitchTwoTap([c EXCEPT !.target = Null, !.dir = NoDir]))

\* tap: what the clock and the deltas say about the tap under way.
armSwitchTwoTap(c, tap) ==
  IF ~c.engaged THEN c
  ELSE IF tap = "late" THEN stopSwitchTwoTap(c)
  ELSE [c EXCEPT !.armed = @ \/ (tap = "back" /\ c.dir # NoDir)]

noSwitch(c, tap) == stopSwitchWait(armSwitchTwoTap(c, tap))

\* m_active->leave() can only fail on the primary screen.
leaves(c, canLeave) == c.active # Primary \/ canLeave

\* Mutant of switchScreen: goes on although the screen cannot be left.
switchScreenRegardless(c, dst, at, canLeave) ==
  LET d == [stopSwitch(c) EXCEPT !.pos = at]
      left == IF leaves(d, canLeave) THEN {d.active} ELSE {}
  IN  IF d.active # dst
        THEN [d EXCEPT !.active = dst, !.entered = (@ \ left) \cup {dst}]
        ELSE d

switchScreen(c, dst, at, canLeave) ==
  LET d == [stopSwitch(c) EXCEPT !.pos = at]
  IN  IF d.active # dst /\ leaves(d, canLeave)
        THEN [d EXCEPT !.active = dst, !.entered = (@ \ {d.active}) \cup {dst}]
        ELSE d

\* Mutant of jumpToScreen: the position is recorded after the switch.
jumpToScreenRecordsLate(c, dst, canLeave) ==
  LET d == switchScreen(c, dst, c.jump[dst], canLeave)
  IN  [d EXCEPT !.jump[c.active] = d.pos]

jumpToScreen(c, dst, canLeave) ==
  LET d == [c EXCEPT !.jump[c.active] = c.pos]
  IN  switchScreen(d, dst, d.jump[dst], canLeave)

stopRelativeMoves(c) ==
  IF opts.relative /\ c.active # Primary THEN [c EXCEPT !.pos = c.active] ELSE c

\* Mutants of forceLeaveClient: the saved screen is not forgotten, the primary
\* screen is not entered, no screen is active afterwards.
forceLeaveClientKeepsSaved(c, S) ==
  LET active == IF c.activeSaver # Null THEN c.activeSaver ELSE c.active
      d == IF active = c.target THEN stopSwitch(c) ELSE c
      e == [d EXCEPT !.pos = Primary, !.active = Primary,
                     !.entered = IF c.activeSaver = Null THEN (@ \ S) \cup {Primary} ELSE @ \ S]
  IN  IF active \in S THEN e ELSE [c EXCEPT !.entered = @ \ S]

forceLeaveClientNoEnter(c, S) ==
  LET active == IF c.activeSaver # Null THEN c.activeSaver ELSE c.active
      e == [c EXCEPT !.pos = Primary, !.active = Primary]
      f == IF active \in S THEN e ELSE c
  IN  [f EXCEPT !.activeSaver = IF @ \in S THEN Null ELSE @, !.entered = @ \ S]

forceLeaveClientNoActive(c, S) ==
  [c EXCEPT !.active = IF @ \in S THEN Null ELSE @]

\* forceLeaveClient for each client of S in turn (the order is immaterial).
forceLeaveClient(c, S) ==
  LET active == IF c.activeSaver # Null THEN c.activeSaver ELSE c.active
      d == IF active = c.target THEN stopSwitch(c) ELSE c
      e == [d EXCEPT !.pos = Primary, !.active = Primary,
                     !.entered = IF c.activeSaver = Null THEN (@ \ S) \cup {Primary} ELSE @ \ S]
      f == IF active \in S THEN e ELSE [c EXCEPT !.entered = @ \ S]
  IN  [f EXCEPT !.activeSaver = IF @ \in S THEN Null ELSE @]

----------------------------------------------------------------------------
(* The switch tests *)

Either(matters) == IF matters THEN BOOLEAN ELSE {FALSE}

\* What the tests can find out, where they look: is the cursor in a locked
\* corner, does the primary screen hold it (a button is down), are the needed
\* modifiers down, does this tap follow the first one fast enough?
Inputs == [corner : Either(config.corners), held : BOOLEAN,
           mods : Either(opts.needsMods), quick : Either(opts.twoTap)]

\* Server::isSwitchOkay: the cursor state it leaves and its verdict.
isSwitchOkay(c, dst, d, in) ==
  IF dst = Null THEN [cur |-> stopSwitch(c), ok |-> FALSE]
  ELSE
    LET isNewDirection == d # c.dir
        begun == IF isNewDirection \/ c.target = Null
                THEN [c EXCEPT !.dir = d, !.target = dst] ELSE c
        secondTap == opts.twoTap /\ ~isNewDirection /\ begun.engaged /\ begun.armed /\ in.quick
        firstTap == opts.twoTap /\ ~secondTap
        tapped == IF firstTap THEN startSwitchTwoTap(begun) ELSE begun
        waiting == opts.delay /\ ~secondTap
        waited == IF waiting /\ (isNewDirection \/ ~tapped.timer) THEN startSwitchWait(tapped, dst) ELSE tapped
        prevented == firstTap \/ waiting
        stopped == \/ config.corners /\ in.corner
                   \/ ~prevented /\ (locked \/ in.held)
                   \/ ~prevented /\ opts.needsMods /\ ~in.mods
    IN  [cur |-> IF stopped THEN stopSwitch(waited) ELSE waited, ok |-> ~prevented /\ ~stopped]

\* One side tried by a motion that left the screen towards d: a drag whose
\* files are not announced yet keeps the cursor on the primary screen.
tryDirection(c, dst, d, in, drag, canLeave) ==
  LET r == isSwitchOkay(c, dst, d, in)
      go == r.ok /\ ~(drag /\ c.active = Primary /\ dst # Primary)
  IN  [cur |-> IF go THEN switchScreen(r.cur, dst, dst, canLeave) ELSE r.cur, done |-> r.ok]

CanLeave == IF LeaveMayFail THEN BOOLEAN ELSE {TRUE}

Taps == {"late", "back", "none"}

\* Input and its consequences are held back while the saver runs if QuietSaver.
Awake == QuietSaver => ~saverOn

Moved == UNCHANGED <<config, opts, registry, gone, locked, sides, saver>>

----------------------------------------------------------------------------
(* Mouse, hot keys and the wait timer *)

\* onMouseMovePrimary away from every edge.
insidePrimary(c) == {noSwitch([c EXCEPT !.pos = Primary], tap) : tap \in Taps}

\* onMouseMovePrimary at an edge, or in a corner: first the horizontal side
\* then, unless that one was accepted, the vertical side.
offPrimary(c, h, v, dh, dv, in, drag, canLeave) ==
  LET c0 == [c EXCEPT !.pos = Primary]
      a == IF h = NoDir THEN [cur |-> c0, done |-> FALSE]
           ELSE tryDirection(c0, dh, h, in, drag, canLeave)
      b == IF v = NoDir \/ a.done THEN a
           ELSE tryDirection(a.cur, dv, v, in, drag, canLeave)
  IN  b.cur

\* mapToNeighbor, or nothing where the position is not beyond that side.
destinations(p, d) == IF d = NoDir THEN {Null} ELSE mapToNeighbor(p, d)

\* onMouseMovePrimary from cursor state c; a stale event does nothing.
onMouseMovePrimary(c) ==
  /\ c.active = Primary
  /\ \/ cur' \in insidePrimary(c)
     \/ \E h \in Horizontal \cup {NoDir}, v \in Vertical \cup {NoDir} :
          /\ h # NoDir \/ v # NoDir
          /\ \E dh \in destinations(Primary, h), dv \in destinations(Primary, v),
                in \in Inputs, drag \in BOOLEAN, canLeave \in CanLeave :
               cur' = offPrimary(c, h, v, dh, dv, in, drag, canLeave)

\* onMouseMoveSecondary staying on the active screen: away from the border
\* that is being waited on the tests stop.  Relative moves are only relayed.
insideSecondary(c) ==
  {c} \cup (IF c.target # Null /\ c.dir # NoDir /\ ~(opts.relative /\ locked)
              THEN {noSwitch(c, tap) : tap \in Taps} ELSE {})

\* onMouseMoveSecondary finding the position beyond side d of the active screen.
offSecondary(c) ==
  /\ ~(opts.relative /\ locked)
  /\ \E d \in Dirs, in \in Inputs : \E dst \in mapToNeighbor(c.active, d) :
       cur' = tryDirection(c, dst, d, in, FALSE, TRUE).cur

MotionPrimary ==
  /\ Awake
  /\ onMouseMovePrimary(cur)
  /\ Moved

MotionInsideSecondary ==
  /\ Awake
  /\ cur.active # Primary
  /\ cur' \in insideSecondary(cur)
  /\ Moved

MotionOffSecondary ==
  /\ Awake
  /\ cur.active # Primary
  /\ offSecondary(cur)
  /\ Moved

HandleSwitchToScreen ==
  /\ Awake
  /\ \E dst \in Connected(clients), canLeave \in CanLeave :
       cur' = jumpToScreen(cur, dst, canLeave)
  /\ Moved

\* The next screen of m_clients after the active one, in some fixed order.
HandleToggleScreen ==
  /\ Awake
  /\ clients[getName(config, cur.active)] # Null
  /\ \E n \in Listed(clients), canLeave \in CanLeave :
       /\ n = getName(config, cur.active) => Alone(clients)
       /\ cur' = jumpToScreen(cur, clients[n], canLeave)
  /\ Moved

HandleSwitchInDirection ==
  /\ Awake
  /\ \E d \in Dirs, canLeave \in CanLeave : \E dst \in getNeighbor(cur.active, d) \ {Null} :
       cur' = jumpToScreen(cur, dst, canLeave)
  /\ Moved

\* Mutant of HandleSwitchWait: the lock is not looked at.
HandleSwitchWaitUnlocked ==
  /\ cur.timer
  /\ gone = {}
  /\ \E canLeave \in CanLeave : cur' = switchScreen(cur, cur.target, cur.waitAt, canLeave)
  /\ Moved

\* The queue looks at timers only when no event is waiting.
HandleSwitchWait ==
  /\ cur.timer
  /\ gone = {}
  /\ \E held \in BOOLEAN, canLeave \in CanLeave :
       cur' = IF locked \/ held THEN stopSwitch(cur)
              ELSE switchScreen(cur, cur.target, cur.waitAt, canLeave)
  /\ Moved

\* Mutant of HandleLockCursorToScreen: reconfigures before it unlocks.
HandleLockCursorToScreenSwapped ==
  /\ locked' = ~locked
  /\ sides' = getActivePrimarySides(config, locked)
  /\ cur' = IF locked' THEN cur ELSE stopRelativeMoves(cur)
  /\ UNCHANGED <<config, opts, registry, gone, saver>>

HandleLockCursorToScreen ==
  /\ locked' = ~locked
  /\ sides' = getActivePrimarySides(config, locked')
  /\ cur' = IF locked' THEN cur ELSE stopRelativeMoves(cur)
  /\ UNCHANGED <<config, opts, registry, gone, saver>>

\* handle_shape_changed of a client: its jump position becomes its cursor's.
HandleShapeChanged ==
  /\ \E p \in clientSet \ {Primary} :
       cur' = [cur EXCEPT !.jump[p] = p, !.pos = IF cur.active = p THEN p ELSE @]
  /\ Moved

\* handle_shape_changed of the primary screen: the same, then a motion at the
\* current position, or one of no distance on the active client, whose screen
\* that position may have left meanwhile.
HandlePrimaryShapeChanged ==
  /\ Awake
  /\ LET c == [cur EXCEPT !.jump[Primary] = Primary]
     IN  \/ onMouseMovePrimary(c)
         \/ c.active # Primary /\ (cur' \in insideSecondary(c) \/ offSecondary(c))
  /\ Moved

----------------------------------------------------------------------------
(* The screen saver *)

\* Mutant of ScreensaverActivated: only the active client is told.
ScreensaverActivatedActiveOnly ==
  /\ ~saverOn
  /\ saverOn' = TRUE
  /\ saverTold' = {cur.active} \ {Primary}
  /\ LET c == [cur EXCEPT !.activeSaver = cur.active]
     IN  cur' = IF c.active = Primary THEN c ELSE switchScreen(c, Primary, Primary, TRUE)
  /\ UNCHANGED <<config, opts, registry, gone, locked, sides>>

ScreensaverActivated ==
  /\ ~saverOn
  /\ saverOn' = TRUE
  /\ saverTold' = Connected(clients) \ {Primary}
  /\ LET c == [cur EXCEPT !.activeSaver = cur.active]
     IN  cur' = IF c.active = Primary THEN c ELSE switchScreen(c, Primary, Primary, TRUE)
  /\ UNCHANGED <<config, opts, registry, gone, locked, sides>>

\* Mutant of ScreensaverDeactivated: only the active client is told.
ScreensaverDeactivatedActiveOnly ==
  /\ saverOn
  /\ saverOn' = FALSE
  /\ saverTold' = saverTold \ {cur.activeSaver}
  /\ cur' = [cur EXCEPT !.activeSaver = Null]
  /\ UNCHANGED <<config, opts, registry, gone, locked, sides>>

\* The saved position is clamped to the screen, so it lies in its space.
ScreensaverDeactivated ==
  /\ saverOn
  /\ saverOn' = FALSE
  /\ saverTold' = saverTold \ Connected(clients)
  /\ \E canLeave \in CanLeave :
       LET c == IF cur.activeSaver \in {Null, Primary} THEN cur
                ELSE switchScreen(cur, cur.activeSaver, cur.activeSaver, canLeave)
       IN  cur' = [c EXCEPT !.activeSaver = Null]
  /\ UNCHANGED <<config, opts, registry, gone, locked, sides>>

----------------------------------------------------------------------------
(* Connections *)

\* Mutant of unlist: the entry of m_clients is forgotten.
unlistForgotten(cl, c, S) == cl

\* m_clients.erase(getName(client)) for each client of S.
unlist(cl, c, S) == [n \in Names |-> IF n \in {getName(c, p) : p \in S} THEN Null ELSE cl[n]]

\* adoptClient of a client whose name is known and free.
AdoptClient(p) ==
  LET n == getName(config, p) IN
  /\ object[p] = "fresh"
  /\ isScreen(config, NameOf[p])
  /\ clients[n] = Null
  /\ object' = [object EXCEPT ![p] = "alive"]
  /\ clients' = [clients EXCEPT ![n] = p]
  /\ clientSet' = clientSet \cup {p}
  /\ cur' = [cur EXCEPT !.jump[p] = p]
  /\ sides' = getActivePrimarySides(config, locked)
  /\ saverTold' = IF cur.activeSaver # Null THEN saverTold \cup {p} ELSE saverTold
  /\ announced' = announced \cup {n}
  /\ idle' = FALSE
  /\ UNCHANGED <<config, opts, oldClients, gone, locked, saverOn>>

\* adoptClient of a client that is unknown or already connected: it is
\* moved to the closing list.
RejectClient(p) ==
  /\ object[p] = "fresh"
  /\ ~isScreen(config, NameOf[p]) \/ clients[getName(config, p)] # Null
  /\ object' = [object EXCEPT ![p] = "alive"]
  /\ oldClients' = oldClients \cup {p}
  /\ cur' = forceLeaveClient(cur, {p})
  /\ sides' = getActivePrimarySides(config, locked)
  /\ idle' = FALSE
  /\ UNCHANGED <<config, opts, clients, clientSet, announced, gone, locked, saver>>

\* The connection of p is lost: a network error, a client that quit, a
\* missed keep-alive.  ClientProxy queues one event and stops listening.
LoseConnection(p) ==
  /\ Departures \/ p \in oldClients
  /\ object[p] = "alive"
  /\ p \notin gone
  /\ gone' = gone \cup {p}
  /\ UNCHANGED <<config, opts, registry, cur, locked, sides, saver>>

\* Mutants of removeOldClient: reports idle while a client is connected, or
\* never does.
removeOldClientHasty(p, cl) ==
  /\ oldClients' = oldClients \ {p}
  /\ idle' = (idle \/ (p \in oldClients /\ oldClients' = {}))

removeOldClientSilent(p, cl) ==
  /\ oldClients' = oldClients \ {p}
  /\ idle' = idle

\* removeOldClient: the last closing client reports the server idle.
removeOldClient(p, cl) ==
  /\ oldClients' = oldClients \ {p}
  /\ idle' = (idle \/ (p \in oldClients /\ Alone(cl) /\ oldClients' = {}))

HandleClientDisconnected(p) ==
  LET removed == p \in clientSet
      S == IF removed THEN {p} ELSE {}
  IN
  /\ p \in gone
  /\ gone' = gone \ {p}
  /\ clients' = unlist(clients, config, S)
  /\ clientSet' = clientSet \ S
  /\ announced' = announced \ {getName(config, q) : q \in S}
  /\ IF removed
       THEN /\ idle' = (idle \/ (Alone(clients') /\ oldClients = {}))
            /\ cur' = forceLeaveClient(cur, S)
            /\ sides' = getActivePrimarySides(config, locked)
            /\ UNCHANGED oldClients
       ELSE /\ removeOldClient(p, clients)
            /\ UNCHANGED <<cur, sides>>
  /\ object' = [object EXCEPT ![p] = "deleted"]
  /\ saverTold' = saverTold \ {p}
  /\ UNCHANGED <<config, opts, locked, saverOn>>

\* Mutants of HandleClientCloseTimeout: the timer overtakes a queued event, or
\* is ignored because the client is not connected any more.
HandleClientCloseTimeoutEarly(p) ==
  /\ p \in oldClients
  /\ removeOldClient(p, clients)
  /\ object' = [object EXCEPT ![p] = "deleted"]
  /\ saverTold' = saverTold \ {p}
  /\ UNCHANGED <<config, opts, clients, clientSet, announced, gone, cur, locked, sides, saverOn>>

HandleClientCloseTimeoutIgnored(p) ==
  /\ p \in oldClients \cap clientSet
  /\ HandleClientCloseTimeoutEarly(p)

HandleClientCloseTimeout(p) ==
  /\ p \in oldClients
  /\ gone = {}
  /\ removeOldClient(p, clients)
  /\ object' = [object EXCEPT ![p] = "deleted"]
  /\ saverTold' = saverTold \ {p}
  /\ UNCHANGED <<config, opts, clients, clientSet, announced, gone, cur, locked, sides, saverOn>>

\* Mutants of closeClients: no SERVER_SCREEN_DISCONNECTED, no closing list.
closeClientsSilent(c, S) ==
  /\ clients' = unlist(clients, c, S)
  /\ clientSet' = clientSet \ S
  /\ oldClients' = oldClients \cup S
  /\ UNCHANGED <<object, idle, announced>>

closeClientsLeak(c, S) ==
  /\ clients' = unlist(clients, c, S)
  /\ clientSet' = clientSet \ S
  /\ announced' = announced \ {getName(c, p) : p \in S}
  /\ UNCHANGED <<object, idle, oldClients>>

\* closeClients: every client of S is flushed and moves to the closing
\* list.  Names are looked up in configuration c.
closeClients(c, S) ==
  /\ clients' = unlist(clients, c, S)
  /\ clientSet' = clientSet \ S
  /\ oldClients' = oldClients \cup S
  /\ announced' = announced \ {getName(c, p) : p \in S}
  /\ UNCHANGED <<object, idle>>

\* The clients closeClients drops; kept is the set of names that remain canonical.
Dropped(kept) == {clients[n] : n \in Listed(clients) \ kept} \ {Primary}

\* Server::processOptions, the options and the cursor state it leaves.
newOption(old, value) == IF value = "absent" THEN old ELSE value = "on"

processedOpts(o, c) ==
  IF ~c.global THEN o
  ELSE [delay |-> newOption(o.delay, c.delay), twoTap |-> newOption(o.twoTap, c.twoTap),
        relative |-> newOption(o.relative, c.relative), needsMods |-> c.needsMods]

processedCursor(x, c) ==
  IF ~c.global THEN x
  ELSE LET a == IF c.delay = "absent" THEN x ELSE stopSwitchWait(x)
           b == IF c.twoTap = "absent" THEN a ELSE stopSwitchTwoTap(a)
       IN  IF c.relative = "off" THEN stopRelativeMoves(b) ELSE b

\* ServerApp reads the file into *m_config, then Server::setConfig accepts it.
ReloadConfig(c) ==
  /\ isScreen(c, NameOf[Primary])
  /\ config' = c
  /\ LET S == Dropped({n \in Names : isCanonicalName(c, n)})
     IN  /\ closeClients(c, S)
         /\ cur' = processedCursor(forceLeaveClient(cur, S), c)
  /\ opts' = processedOpts(opts, c)
  /\ sides' = getActivePrimarySides(c, locked)
  /\ UNCHANGED <<gone, locked, saver>>

\* The same file without the primary screen: setConfig refuses it.
RefuseConfig(c) ==
  /\ ~isScreen(c, NameOf[Primary])
  /\ config' = c
  /\ UNCHANGED <<opts, registry, gone, cur, locked, sides, saver>>

\* Server::disconnect: a shutdown or a forced reconnection.
Disconnect ==
  /\ Departures
  /\ IF ~Alone(clients) \/ oldClients # {}
       THEN LET S == Dropped({})
            IN  /\ closeClients(config, S)
                /\ cur' = forceLeaveClient(cur, S)
                /\ sides' = IF S = {} THEN sides ELSE getActivePrimarySides(config, locked)
       ELSE /\ idle' = TRUE
            /\ UNCHANGED <<clients, clientSet, oldClients, object, announced, cur, sides>>
  /\ UNCHANGED <<config, opts, gone, locked, saver>>

----------------------------------------------------------------------------
Init ==
  /\ config \in {c \in Configs : isScreen(c, NameOf[Primary])}
  /\ opts = processedOpts([delay |-> FALSE, twoTap |-> FALSE, relative |-> FALSE,
                           needsMods |-> FALSE], config)
  /\ clients = [n \in Names |-> IF n = NameOf[Primary] THEN Primary ELSE Null]
  /\ clientSet = {Primary}
  /\ oldClients = {}
  /\ object = [p \in Clients |-> "fresh"]
  /\ gone = {}
  /\ cur = [active |-> Primary, pos |-> Primary, activeSaver |-> Null,
            dir |-> NoDir, target |-> Null, timer |-> FALSE, waitAt |-> Primary,
            engaged |-> FALSE, armed |-> FALSE,
            jump |-> [p \in Proxies |-> p], entered |-> {Primary}]
  /\ locked \in BOOLEAN
  /\ sides = getActivePrimarySides(config, FALSE)
  /\ saverOn = FALSE
  /\ saverTold = {}
  /\ announced = {}
  /\ idle = TRUE

Input ==
  \/ MotionPrimary
  \/ MotionInsideSecondary
  \/ MotionOffSecondary
  \/ HandleSwitchToScreen
  \/ HandleToggleScreen
  \/ HandleSwitchInDirection
  \/ HandleSwitchWait
  \/ HandleLockCursorToScreen
  \/ HandleShapeChanged
  \/ HandlePrimaryShapeChanged

Connection ==
  \E p \in Clients :
    \/ AdoptClient(p)
    \/ RejectClient(p)
    \/ LoseConnection(p)
    \/ HandleClientDisconnected(p)
    \/ HandleClientCloseTimeout(p)

Administration ==
  \/ \E c \in Configs : ReloadConfig(c) \/ RefuseConfig(c)
  \/ Disconnect

Next ==
  \/ Input
  \/ ScreensaverActivated
  \/ ScreensaverDeactivated
  \/ Connection
  \/ Administration

Spec == Init /\ [][Next]_vars

(***************************************************************************)
(* The event loop runs: a queued event is dispatched and an expired timer  *)
(* is noticed once the queue is empty.  Nothing is assumed of users,       *)
(* clients or the network.                                                 *)
(***************************************************************************)
Fairness ==
  \A p \in Clients : WF_vars(HandleClientDisconnected(p)) /\ WF_vars(HandleClientCloseTimeout(p))

FairSpec == Spec /\ Fairness

----------------------------------------------------------------------------
(* Properties *)

\* m_clients and m_clientSet name the same proxies and no proxy is listed
\* under two names, through adoption, reload, removal and shutdown
\* (Server::addClient, removeClient, closeClient).
RegistryConsistent ==
  /\ Connected(clients) = clientSet
  /\ \A m, n \in Listed(clients) : clients[m] = clients[n] => m = n

\* An adopted proxy is in exactly one of m_clientSet and m_oldClients until it
\* is deleted, and in neither afterwards: none is leaked, none deleted twice
\* (handle_client_disconnected and handle_client_close_timeout).
OwnedOnce ==
  /\ clientSet \cap oldClients = {}
  /\ {p \in Clients : object[p] = "alive"} = (clientSet \ {Primary}) \cup oldClients
  /\ gone \subseteq clientSet \cup oldClients

\* The screen with the cursor, and the one the cursor returns to after the
\* screen saver, are connected: m_active and m_activeSaver never point to a
\* proxy the server has let go (Server::forceLeaveClient).
ActiveConnected ==
  /\ cur.active \in clientSet
  /\ cur.activeSaver \in clientSet \cup {Null}

\* Exactly the active screen has been entered and not left: the assertions on
\* m_entered of Screen::enter and Screen::leave hold at every switch.
OneEntered == cur.entered = {cur.active}

\* A switch that waits for its timer waits for a connected screen, so
\* handle_switch_wait_event never switches to a deleted proxy.  This is what
\* forceLeaveClient says it does, but it stops the wait only for a client that
\* has the cursor.
WaitTargetConnected == cur.timer => cur.target \in clientSet

\* A test that is under way can be stopped: stopSwitch returns early without
\* m_switchScreen, so no timer or tap may be pending without it.
Stoppable(c) == c.timer \/ c.engaged \/ c.dir # NoDir => c.target # Null

TestsStoppable == Stoppable(cur)

\* The jump position kept for a screen is a position of that screen, so
\* jumpToScreen enters it inside its shape.
JumpInOwnSpace == \A p \in clientSet : cur.jump[p] = p

\* The screens reported connected (SERVER_CONNECTED less
\* SERVER_SCREEN_DISCONNECTED) are the ones in m_clients.
AnnouncedConnected == announced = {n \in Listed(clients) : clients[n] # Primary}

\* SERVER_DISCONNECTED has been sent exactly when nobody but the primary
\* screen is connected or closing, which is what closeServer waits for.
IdleReported == idle <=> (Alone(clients) /\ oldClients = {})

\* No connected client is left with its screen saver on when the primary's
\* has stopped (Server::onScreensaver).
SaverReleased == ~saverOn => saverTold \cap clientSet = {}

\* While the saver runs on the primary screen it runs on every client, those
\* that connected in the meantime included.  This is what adoptClient says it
\* does, but it looks at m_activeSaver, which forceLeaveClient clears.
SaverFollowed == saverOn => clientSet \ {Primary} \subseteq saverTold

\* As long as the server remembers which screen the saver took the cursor from,
\* every connected client has been told of the saver, whoever came, left, was
\* closed or refused meanwhile (Server::onScreensaver, adoptClient,
\* forceLeaveClient).
SaverRemembered == cur.activeSaver # Null => SaverFollowed

\* Unless the cursor is locked the primary screen watches exactly the sides
\* that have a neighbour in the configuration in force.
SidesCurrent == ~locked => sides = getActivePrimarySides(config, FALSE)

\* Delays, double taps and refused leaves (handle_switch_wait_event, switchScreen)
\* leave every test stoppable and exactly the active screen entered: see the parts.
DelayedInv == TestsStoppable /\ OneEntered

\* What the server has told others matches what it is: see the parts.
\* About every handler that announces clients, switch sides or the screen saver.
ScreensInformed == AnnouncedConnected /\ SaverReleased /\ SidesCurrent /\ JumpInOwnSpace

\* While the cursor is locked to its screen no motion and no expired wait
\* moves it to another (isSwitchOkay, handle_switch_wait_event).
LockHolds ==
  [][locked /\ cur'.active # cur.active
       => ~(MotionPrimary \/ MotionOffSecondary \/ HandleSwitchWait)]_vars

\* A client being closed is deleted, by its disconnection or by the timer.
ClosingEnds == \A p \in Clients : p \in oldClients ~> object[p] = "deleted"

=============================================================================
