------------------------------ MODULE KeyRelay ------------------------------
(***************************************************************************)
(* The keyboard's way from the server to the clients: which screen a key   *)
(* goes to (Server::onKeyDown and its kin), how a client translates it     *)
(* (ServerProxy::translateKey) and which of its own keys it presses and    *)
(* releases to make the same key (KeyState, KeyMap::mapKey).               *)
(*                                                                         *)
(* A key of the server is its button: two modifiers and one other key,     *)
(* whose character depends on shift.  A client's layout gives for every    *)
(* character (KeyID) the entries that make it: a local button, the         *)
(* modifiers it is sensitive to and those it requires.  Locking modifiers, *)
(* keyboard groups, dead keys and composed characters are left out: a      *)
(* modifier is held or not, and no modifier is sensitive to another.       *)
(***************************************************************************)
EXTENDS Integers, Sequences, FiniteSets

CONSTANTS
  Clients,     \* the client screens
  Server,      \* the server's own screen
  Locals,      \* the buttons of a client's keyboard
  Layout,      \* KeyID -> sequence of entries (m_keyIDMap)
  Tables,      \* the modifier translations a configuration may ask for
  Broadcasts,  \* the sets of screens keys may be broadcast to
  MaxWire      \* bound on the messages on their way to each client

Mods == {"shift", "ctrl"}
Keys == Mods \cup {"a"}
NoLocal == "none"
NoMods == {}
Identity == [m \in Mods |-> m]
Items == UNION {{Layout[id][i] : i \in DOMAIN Layout[id]} : id \in DOMAIN Layout}

\* The layout names local buttons, and every modifier has a key of its own.
ASSUME ConstantsAssumption ==
  /\ Server \notin Clients /\ NoLocal \notin Locals
  /\ DOMAIN Layout \subseteq Mods \cup {"a", "A"}
  /\ \A it \in Items : it.button \in Locals /\ it.required \subseteq it.sensitive
                       /\ it.sensitive \subseteq Mods /\ it.generates \subseteq Mods
  /\ \A m \in Mods : \E it \in Items : it.generates = {m}
  /\ Tables \subseteq [Mods -> Mods] /\ Broadcasts \subseteq SUBSET Clients
  /\ MaxWire \in Nat

VARIABLES
  active,    \* m_active
  online,    \* the connected clients
  held,      \* the keys the user holds down
  hot,       \* a hot key is down whose action holds shift and a mouse button
  bcast,     \* m_keyboardBroadcasting and its screens; {} when off
  wire,      \* messages on their way to each client
  ks,        \* each client: its KeyState, what it has pressed, and whether
             \*   the cursor is on it
  excused    \* history: clients something outside the rules happened to

vars == <<active, online, held, hot, bcast, wire, ks, excused>>

\* A KeyState: syntheticKeys, serverKeys, activeModifiers and mask; down is
\* what the system has been made to believe is pressed.
Fresh == [syn |-> [l \in Locals |-> 0], server |-> [k \in Keys |-> NoLocal],
          mods |-> {}, mask |-> NoMods, down |-> {}, entered |-> FALSE, table |-> Identity]

Init ==
  /\ active = Server /\ online = Clients
  /\ held = {} /\ hot = FALSE /\ bcast = {}
  /\ wire = [c \in Clients |-> <<>>]
  /\ ks = [c \in Clients |-> Fresh]
  /\ excused = {}

-----------------------------------------------------------------------------
(* KeyMap: which local keys make a character.  A KeyState goes in, and the *)
(* one after the keystrokes comes out.                                     *)

First(S) == CHOOSE i \in S : \A j \in S : i <= j
Flip(S, T) == (S \ T) \cup (T \ S)
Buttons(mods) == {p[2] : p \in mods}

\* findBestKey: the first exact entry, else the one with fewest changes.
findBestKey(entries, desired) ==
  LET exact == {i \in DOMAIN entries : /\ entries[i].required \subseteq desired
                                       /\ entries[i].required = entries[i].sensitive \cap desired}
      change(i) == Cardinality(Flip(entries[i].required, desired) \cap entries[i].sensitive)
  IN IF exact # {} THEN exact ELSE {i \in DOMAIN entries : \A j \in DOMAIN entries : change(i) <= change(j)}

\* mapCommandKey: the right button rather than the right character.
findCommandKey(entries, desired) ==
  {i \in DOMAIN entries :
     /\ entries[i].required \cap desired \cap {"shift"} = entries[i].sensitive \cap desired \cap {"shift"}
     /\ entries[i].required \ {"shift"} \subseteq desired}

isCommand(id, desired) == id \notin Mods /\ "ctrl" \in desired

\* keyForModifier: a key for modifier m that is not the given button.
ModifierKeys(m, button) == {it \in Items : m \in it.generates /\ it.button # button}
keyForModifier(m, button) == (CHOOSE it \in ModifierKeys(m, button) : TRUE).button

\* keysForModifierState: every modifier of sensitive that is not as required
\* is pressed, or all its keys are released.
flips(s, required, sensitive) == Flip(s.mask, required) \cap sensitive
canMatch(s, button, required, sensitive) ==
  \A m \in flips(s, required, sensitive) : ModifierKeys(m, button) # {}
keysForModifierState(s, button, required, sensitive) ==
  LET change == flips(s, required, sensitive)
      off == {p \in s.mods : p[1] \in change \ required}
      on == {<<m, keyForModifier(m, button)>> : m \in change \cap required}
  IN [s EXCEPT !.mods = (@ \ off) \cup on, !.mask = Flip(@, change),
               !.down = (@ \ Buttons(off)) \cup Buttons(on)]

\* Mutant: modifiers released for a key are not pressed again
keysOnlyReleased(s, button, want) ==
  LET off == {p \in s.mods : p[2] # button /\ p[2] \notin Buttons(want)}
  IN [s EXCEPT !.mods = @ \ off, !.mask = @ \ {p[1] : p \in off}, !.down = @ \ Buttons(off)]

\* keysToRestoreModifiers: the modifier keys that were down before are down
\* again, the others up, but for the key itself.
keysToRestoreModifiers(s, button, want) ==
  LET off == {p \in s.mods : p[2] # button /\ p[2] \notin Buttons(want)}
      on == {p \in want : p[2] # button /\ p[2] \notin Buttons(s.mods)}
      left == s.mods \ off
      gone == {p[1] : p \in off} \ {p[1] : p \in left}
  IN [s EXCEPT !.mods = left \cup on, !.mask = (@ \ gone) \cup {p[1] : p \in on},
               !.down = (@ \ Buttons(off)) \cup Buttons(on)]

\* mapKey: the entry for a character under the desired modifiers, the
\* modifiers it needs, and the key pressed (old = NoLocal) or repeated: then
\* the key it was pressed as is released first.
findItems(id, desired) ==
  IF id \notin DOMAIN Layout THEN {}
  ELSE LET entries == Layout[id]
           found == IF isCommand(id, desired) THEN findCommandKey(entries, desired)
                    ELSE findBestKey(entries, desired)
       IN IF found = {} THEN {} ELSE {entries[First(found)]}
matched(s, it, id, desired) ==
  LET sensitive == IF isCommand(id, desired) THEN {} ELSE it.sensitive
      rest == Mods \ (sensitive \cup it.generates)
      s1 == keysForModifierState(s, it.button, it.required, sensitive)
  IN IF canMatch(s, it.button, it.required, sensitive) /\ canMatch(s1, it.button, desired, rest)
     THEN {keysForModifierState(s1, it.button, desired, rest)} ELSE {}
mapKey(s, id, desired, old) ==
  {[item |-> it,
    after |-> LET p == IF old = NoLocal
                       THEN [m EXCEPT !.down = @ \cup {it.button}, !.mask = @ \cup it.generates,
                                      !.mods = @ \cup (it.generates \X {it.button})]
                       ELSE [m EXCEPT !.down = (@ \ {old}) \cup {it.button}]
              IN keysToRestoreModifiers(p, it.button, s.mods)] :
     it \in findItems(id, desired), m \in UNION {matched(s, i, id, desired) : i \in findItems(id, desired)}}

-----------------------------------------------------------------------------
(* KeyState.                                                               *)

\* Mutant: modifier keys pressed on the way are not counted
updateReleasedOnly(s, button, old) ==
  [s EXCEPT !.syn = [l \in Locals |->
     IF l \in Buttons(old) \ (Buttons(s.mods) \cup {button}) THEN 0 ELSE @[l]]]

\* updateModifierKeyState: modifier keys other than the button that went
\* down or up on the way.
updateModifierKeyState(s, button, old) ==
  [s EXCEPT !.syn = [l \in Locals |->
     CASE l \in Buttons(old) \ (Buttons(s.mods) \cup {button}) -> 0
       [] l \in Buttons(s.mods) \ (Buttons(old) \cup {button}) -> 1
       [] OTHER -> @[l]]]

\* fakeKeyRepeat: a repeated key may be another one than was pressed.
fakeKeyRepeat(s, id, mask, k) ==
  LET old == s.server[k]
      moved(r) == [updateModifierKeyState([r.after EXCEPT !.syn[old] = @ - 1], r.item.button, s.mods)
                     EXCEPT !.syn[r.item.button] = @ + 1, !.server[k] = r.item.button]
  IN IF old = NoLocal \/ mapKey(s, id, mask, old) = {} THEN s
     ELSE LET r == CHOOSE r \in mapKey(s, id, mask, old) : TRUE
          IN IF r.item.button = old THEN r.after ELSE moved(r)

\* fakeKeyDown: a key that is down already is a repeat.
fakeKeyDown(s, id, mask, k) ==
  IF s.server[k] # NoLocal THEN fakeKeyRepeat(s, id, mask, k)
  ELSE IF mapKey(s, id, mask, NoLocal) = {} THEN s
  ELSE LET r == CHOOSE r \in mapKey(s, id, mask, NoLocal) : TRUE
           l == r.item.button
       IN [updateModifierKeyState(r.after, l, s.mods) EXCEPT !.syn[l] = @ + 1, !.server[k] = l]

\* The keys that only set or clear modifiers, and restore nothing.
fakeModifiers(s, required, mask) ==
  updateModifierKeyState(keysForModifierState(s, NoLocal, required, mask), NoLocal, s.mods)

\* Mutant: the modifier of the released key stays active
fakeKeyUpActive(s, k) ==
  LET l == s.server[k] IN
  IF l = NoLocal THEN s
  ELSE [s EXCEPT !.syn[l] = @ - 1, !.server[k] = NoLocal, !.down = @ \ {l}]

\* fakeKeyUp: what is released is what was pressed for the server's key.
fakeKeyUp(s, k) ==
  LET l == s.server[k]
      left == {p \in s.mods : p[2] # l}
      gone == {p[1] : p \in s.mods} \ {p[1] : p \in left}
  IN IF l = NoLocal THEN s
     ELSE [s EXCEPT !.syn[l] = @ - 1, !.server[k] = NoLocal, !.mods = left,
                    !.mask = @ \ gone, !.down = @ \ {l}]

pollActiveModifiers(down) == UNION {it.generates : it \in {i \in Items : i.button \in down}}

\* Mutant: only the keys the server asked for are released
fakeServerKeysUp(s) ==
  LET up == {s.server[k] : k \in Keys} \cap Locals IN
  [s EXCEPT !.down = @ \ up, !.syn = [l \in Locals |-> IF l \in up THEN 0 ELSE @[l]],
            !.server = Fresh.server, !.mods = {}, !.mask = pollActiveModifiers(s.down \ up)]

\* fakeAllKeysUp: every key that counts as pressed is released.
fakeAllKeysUp(s) ==
  LET up == {l \in Locals : s.syn[l] > 0} IN
  [s EXCEPT !.down = @ \ up, !.syn = [l \in Locals |-> IF l \in up THEN 0 ELSE @[l]],
            !.server = Fresh.server, !.mods = {}, !.mask = pollActiveModifiers(s.down \ up)]

\* updateKeyState: everything is forgotten, the modifiers are polled.
updateKeyState(s) ==
  LET mask == pollActiveModifiers(s.down) IN
  [s EXCEPT !.syn = Fresh.syn, !.server = Fresh.server, !.mask = mask,
            !.mods = UNION {(it.generates \cap mask) \X {it.button} : it \in Items}]

-----------------------------------------------------------------------------
(* The server.                                                             *)

Msg(t, id, k, mask) == [t |-> t, id |-> id, k |-> k, mask |-> mask]
mask == held \cap Mods
KeyIDOf(k) == IF k = "a" /\ "shift" \in held THEN "A" ELSE k

\* The screens a key press or release is for: the active one, or those the
\* keyboard is broadcast to.  The server's own screen ignores it.
Targets == (IF bcast = {} THEN {active} ELSE bcast) \cap online

Send(to, m) ==
  /\ \A c \in to : Len(wire[c]) < MaxWire
  /\ wire' = [c \in Clients |-> IF c \in to THEN Append(wire[c], m) ELSE wire[c]]

\* onKeyDown, onKeyUp.  Keys are reported while the cursor is on a client.
KeyDown(k) ==
  /\ k \notin held
  /\ held' = held \cup {k}
  /\ IF active = Server THEN UNCHANGED <<wire, excused>>
     ELSE Send(Targets, Msg("down", KeyIDOf(k), k, mask)) /\ excused' = excused \cup (Targets \ {active})
  /\ UNCHANGED <<active, online, hot, bcast, ks>>

KeyUp(k) ==
  /\ k \in held
  /\ held' = held \ {k}
  /\ IF active = Server THEN UNCHANGED wire
     ELSE Send(Targets, Msg("up", KeyIDOf(k), k, mask))
  /\ UNCHANGED <<active, online, hot, bcast, ks, excused>>

\* onKeyRepeat is for the active screen alone.
KeyRepeat(k) ==
  /\ k \in held /\ active # Server
  /\ Send({active}, Msg("repeat", KeyIDOf(k), k, mask))
  /\ UNCHANGED <<active, online, held, hot, bcast, ks, excused>>

\* A hot key's mouse action first sets its modifiers, and clears them when
\* the hot key is released (MouseButtonAction::perform).
HotKey ==
  /\ hot' = ~hot
  /\ Send(Targets, Msg(IF hot THEN "clear" ELSE "set", "none", "none", {"shift"}))
  /\ excused' = excused \cup (Targets \ {active})
  /\ UNCHANGED <<active, online, held, bcast, ks>>

SetBroadcast(B) ==
  /\ bcast' = IF bcast = {} THEN B ELSE {}
  /\ UNCHANGED <<active, online, held, hot, wire, ks, excused>>

\* Mutant: the screen that is left is not told
SwitchScreenSilently(s) ==
  /\ s \in (online \cup {Server}) \ {active}
  /\ \A c \in {s} \cap Clients : Len(wire[c]) < MaxWire
  /\ wire' = [c \in Clients |-> IF c = s THEN Append(wire[c], Msg("enter", "none", "none", {})) ELSE wire[c]]
  /\ active' = s
  /\ UNCHANGED <<online, held, hot, bcast, ks, excused>>

\* switchScreen: leave the one, enter the other.
SwitchScreen(s) ==
  /\ s \in (online \cup {Server}) \ {active}
  /\ \A c \in {active, s} \cap Clients : Len(wire[c]) < MaxWire
  /\ wire' = [c \in Clients |-> CASE c = active -> Append(wire[c], Msg("leave", "none", "none", {}))
                                  [] c = s -> Append(wire[c], Msg("enter", "none", "none", {}))
                                  [] OTHER -> wire[c]]
  /\ active' = s
  /\ UNCHANGED <<online, held, hot, bcast, ks, excused>>

\* The configuration changes, and a client is sent new options.
SendOptions(c, table) ==
  /\ c \in online
  /\ Send({c}, [t |-> "options", table |-> table])
  /\ UNCHANGED <<active, online, held, hot, bcast, ks, excused>>

-----------------------------------------------------------------------------
(* A client.                                                               *)

translateKey(s, id) == IF id \in Mods THEN s.table[id] ELSE id
translateModifierMask(s, m) == {s.table[x] : x \in m}

received(s, m) ==
  CASE m.t = "down"   -> fakeKeyDown(s, translateKey(s, m.id), translateModifierMask(s, m.mask), m.k)
    [] m.t = "repeat" -> fakeKeyRepeat(s, translateKey(s, m.id), translateModifierMask(s, m.mask), m.k)
    [] m.t = "up"     -> fakeKeyUp(s, m.k)
    [] m.t = "set"    -> fakeModifiers(s, translateModifierMask(s, m.mask), translateModifierMask(s, m.mask))
    [] m.t = "clear"  -> LET off == translateModifierMask(s, m.mask) IN fakeModifiers(s, s.mask \ off, off)
    [] m.t = "enter"  -> [s EXCEPT !.entered = TRUE]
    [] m.t = "leave"  -> [fakeAllKeysUp(s) EXCEPT !.entered = FALSE]
    [] m.t = "options" -> [s EXCEPT !.table = m.table]

\* Modifiers set, cleared or given another meaning behind the back of a key
\* that is held are outside the rules, as are keys broadcast to a screen the
\* cursor is not on and a keyboard that changes under a key that is down.
Behind(s, t) ==
  \/ t \in {"set", "clear"} /\ \E k \in Keys : s.server[k] # NoLocal
  \/ t = "options" /\ s.down # {}

\* A message arrives.
Receive(c) ==
  LET s == received(ks[c], Head(wire[c])) IN
  /\ wire[c] # <<>>
  /\ wire' = [wire EXCEPT ![c] = Tail(@)]
  /\ ks' = [ks EXCEPT ![c] = s]
  /\ excused' = IF Behind(ks[c], Head(wire[c]).t) THEN excused \cup {c} ELSE excused
  /\ UNCHANGED <<active, online, held, hot, bcast>>

\* The keyboard of the client changes (XWindowsScreen::refreshKeyboard).
RefreshKeyboard(c) ==
  /\ ks' = [ks EXCEPT ![c] = updateKeyState(@)]
  /\ excused' = IF ks[c].down # {} THEN excused \cup {c} ELSE excused
  /\ UNCHANGED <<active, online, held, hot, bcast, wire>>

\* Mutant: the cursor stays on the screen that is gone
DisconnectStay(c) ==
  /\ c \in online
  /\ online' = online \ {c}
  /\ wire' = [wire EXCEPT ![c] = <<>>]
  /\ ks' = [ks EXCEPT ![c] = IF @.entered THEN [fakeAllKeysUp(@) EXCEPT !.entered = FALSE] ELSE @]
  /\ UNCHANGED <<active, held, hot, bcast, excused>>

\* The connection is lost with what is on it.  Screen::disable leaves the
\* screen if the cursor was on it.
Disconnect(c) ==
  /\ c \in online
  /\ online' = online \ {c}
  /\ active' = IF active = c THEN Server ELSE active
  /\ wire' = [wire EXCEPT ![c] = <<>>]
  /\ ks' = [ks EXCEPT ![c] = IF @.entered THEN [fakeAllKeysUp(@) EXCEPT !.entered = FALSE] ELSE @]
  /\ UNCHANGED <<held, hot, bcast, excused>>

\* Screen::enable, with a new proxy.
Connect(c) ==
  /\ c \in Clients \ online
  /\ online' = online \cup {c}
  /\ ks' = [ks EXCEPT ![c] = [updateKeyState(@) EXCEPT !.table = Identity]]
  /\ UNCHANGED <<active, held, hot, bcast, wire, excused>>

-----------------------------------------------------------------------------
Next ==
  \/ \E k \in Keys : KeyDown(k) \/ KeyUp(k) \/ KeyRepeat(k)
  \/ HotKey
  \/ \E B \in Broadcasts : SetBroadcast(B)
  \/ \E s \in Clients \cup {Server} : SwitchScreen(s)
  \/ \E c \in Clients : Receive(c) \/ RefreshKeyboard(c) \/ Disconnect(c) \/ Connect(c)
  \/ \E c \in Clients, table \in Tables : SendOptions(c, table)

Spec == Init /\ [][Next]_vars

-----------------------------------------------------------------------------
(* Properties, of the clients nothing outside the rules has happened to.   *)

Regular == Clients \ excused

\* Every part of the state has its shape (KeyState.h:206).
TypeOK ==
  /\ active \in online \cup {Server} /\ online \subseteq Clients
  /\ held \subseteq Keys /\ hot \in BOOLEAN /\ bcast \subseteq Clients
  /\ \A c \in Clients :
       /\ ks[c].syn \in [Locals -> Int] /\ ks[c].server \in [Keys -> Locals \cup {NoLocal}]
       /\ ks[c].mods \subseteq Mods \X Locals /\ ks[c].mask \subseteq Mods
       /\ ks[c].down \subseteq Locals /\ ks[c].table \in [Mods -> Mods]
       /\ Len(wire[c]) <= MaxWire
  /\ excused \subseteq Clients

\* No key stays down on a screen the cursor has left, in whatever order keys
\* went down, repeated and changed their modifiers there (Screen::leave,
\* KeyState::fakeAllKeysUp).
LeftReleased == \A c \in Regular : ~ks[c].entered => ks[c].down = {}

\* The key a server's key was pressed as is down until the server's key is
\* released: no other key's modifiers release it for good (KeyMap::
\* keysToRestoreModifiers, KeyState::fakeKeyRepeat).
TakenIsDown ==
  \A c \in Regular : \A k \in Keys : ks[c].server[k] # NoLocal => ks[c].server[k] \in ks[c].down

\* The client's idea of its modifiers is the one its system has
\* (KeyState's m_mask against pollActiveModifiers).
MaskTracks == \A c \in Regular : ks[c].mask = pollActiveModifiers(ks[c].down)

\* What the client has pressed it counts as pressed: fakeAllKeysUp releases
\* only that (KeyState::m_syntheticKeys).
DownIsCounted == \A c \in Regular : \A l \in ks[c].down : ks[c].syn[l] > 0

(* What a client believes of its keys agrees with what it pressed: see the parts.
   About KeyState. *)
KeyStateInv == TypeOK /\ TakenIsDown /\ MaskTracks /\ DownIsCounted

\* When the user has let go of everything and every message has arrived, no
\* key is down on any client, whichever screens the keys went down on.
ReleasedWhenIdle ==
  held = {} /\ ~hot => \A c \in Regular : wire[c] = <<>> => ks[c].down = {}

(* No key stays down on a screen that was left, or once the user holds none (see
   the parts).  About Screen::leave, KeyState::fakeAllKeysUp and Server::onKeyUp. *)
NothingLeftDown == LeftReleased /\ ReleasedWhenIdle
=============================================================================
