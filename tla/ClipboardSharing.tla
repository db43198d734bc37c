-------------------------- MODULE ClipboardSharing --------------------------
(***************************************************************************)
(* One clipboard shared by the server's screen and its clients: who owns   *)
(* it, what the server holds of it, and what each screen shows             *)
(* (Server.cpp, PrimaryClient.cpp, ClientProxy1_6.cpp, Client.cpp,         *)
(* ServerProxy.cpp).  The two clipboards of the program are handled alike  *)
(* and independently.                                                      *)
(*                                                                         *)
(* A step is one event handler of the server's or of a client's loop.      *)
(* Grabs, enters and leaves are written to the stream at once; clipboard   *)
(* data goes through the sender's own event queue first (StreamChunker),   *)
(* so a grab can overtake it.  A content is a number, 0 the empty one.     *)
(*                                                                         *)
(* The chunks of one transfer are one message, which arrives with the last *)
(* of them.  The server puts the chunks of all its clients together in one *)
(* buffer and counts them against one size, both static: of two uploads    *)
(* that are on their way at the same time either may be lost, or be stored *)
(* with what the other sent (crossed, spoiled).                            *)
(***************************************************************************)
EXTENDS Naturals, Sequences, Filtering

CONSTANTS
  Clients,      \* the client screens
  Server,       \* the server's own screen
  MaxSwitches,  \* bound on screen switches
  MaxCopies,    \* bound on local copies, each with a content of its own
  MaxLosses,    \* bound on lost connections
  Size,         \* size of each content: "small", "limit" or "big"
  Files,        \* the contents that are lists of files
  LocalUse      \* TRUE: screens without the cursor may copy too

Screens == Clients \cup {Server}
Contents == 0 .. MaxCopies
Seqs == 0 .. MaxSwitches

\* The screens are distinct and the empty content is small.
ASSUME ConstantsAssumption ==
  /\ Server \notin Clients
  /\ MaxSwitches \in Nat /\ MaxCopies \in Nat /\ MaxLosses \in Nat
  /\ Size \in [Contents -> {"small", "limit", "big"}]
  /\ Size[0] = "small"
  /\ Files \subseteq Contents \ {0}
  /\ LocalUse \in BOOLEAN

VARIABLES
  clip,       \* m_clipboards[id]: owner, seq, raw (m_clipboard), data
  active,     \* m_active
  seqNum,     \* m_seqNum
  primarySeq, \* sequence number of the server's screen
  dirty,      \* dirty flag of each proxy
  cache,      \* m_clipboard of each ClientProxy: last sent or received
  local,      \* what each screen's own clipboard contains
  packed,     \* the server's screen holds a file package as it came
  client,     \* per client: active, seq, own (m_ownClipboard), timed, online
  toClient,   \* stream from the server to each client
  toServer,   \* stream from each client to the server
  events,     \* the server's event queue
  tasks,      \* each client's event queue
  crossed,    \* clients whose next upload may have met another client's
  spoiled,    \* clients one of whose uploads was lost or mixed with another's
  copies,     \* copies made so far
  losses      \* connections lost so far

wires == <<toClient, toServer, events, tasks>>
mixing == <<crossed, spoiled>>
vars == <<clip, active, seqNum, primarySeq, dirty, cache, local, packed, client, wires, mixing, copies,
          losses>>

ClientType == [active : BOOLEAN, seq : Seqs, own : BOOLEAN, timed : BOOLEAN, online : BOOLEAN]

DownMessages == [kind : {"enter"}, seq : Seqs] \cup [kind : {"leave", "grab"}]
                  \cup [kind : {"data"}, data : Contents]
UpMessages == [kind : {"grab"}, seq : Seqs] \cup [kind : {"data"}, data : Contents, seq : Seqs]
Events == [kind : {"grabbed"}, from : Screens, seq : Seqs]
            \cup [kind : {"changed"}, from : Clients, seq : Seqs]
            \cup [kind : {"send"}, to : Clients, data : Contents]
Tasks == [kind : {"grabbed"}] \cup [kind : {"send"}, data : Contents, seq : Seqs]

TypeOK ==
  /\ clip \in [owner : Screens, seq : Seqs, raw : Contents, data : Contents]
  /\ active \in Screens
  /\ seqNum \in Seqs
  /\ primarySeq \in Seqs
  /\ dirty \in [Screens -> BOOLEAN]
  /\ cache \in [Clients -> Contents]
  /\ local \in [Screens -> Contents]
  /\ packed \in BOOLEAN
  /\ client \in [Clients -> ClientType]
  /\ toClient \in [Clients -> Seq(DownMessages)]
  /\ toServer \in [Clients -> Seq(UpMessages)]
  /\ events \in Seq(Events)
  /\ tasks \in [Clients -> Seq(Tasks)]
  /\ crossed \subseteq Clients /\ spoiled \subseteq Clients
  /\ copies \in 0 .. MaxCopies
  /\ losses \in 0 .. MaxLosses

----------------------------------------------------------------------------
(* The server's operations on its state s: the fields a handler changes *)

Now == [clip |-> clip, dirty |-> dirty, cache |-> cache, local |-> local,
        packed |-> packed, toClient |-> toClient, events |-> events]

Become(s) ==
  /\ clip' = s.clip
  /\ dirty' = s.dirty
  /\ cache' = s.cache
  /\ local' = s.local
  /\ packed' = s.packed
  /\ toClient' = s.toClient

\* The server refuses what is over the limit, a client what reaches it.
serverRefuses(d) == Size[d] = "big"
clientRefuses(d) == Size[d] # "small"

\* Packaging a list of files, and extracting the package, can fail.
Outcomes == IF Files = {} THEN {TRUE} ELSE BOOLEAN
works(d, ok) == d \notin Files \/ ok

tell(s, c, m) == [s EXCEPT !.toClient[c] = Append(@, m)]

\* setClipboard of PrimaryClient and ClientProxy1_6: only if dirty.
setClipboard(s, p, d) ==
  IF ~s.dirty[p] THEN s
  ELSE IF p = Server THEN [s EXCEPT !.dirty[Server] = FALSE, !.local[Server] = d, !.packed = d \in Files]
  ELSE [s EXCEPT !.dirty[p] = FALSE, !.cache[p] = d,
                 !.events = Append(@, [kind |-> "send", to |-> p, data |-> d])]

Online == {c \in Clients : client[c].online} \cup {Server}

\* Mutant of onClipboardChanged: the limit is not checked.
onClipboardChangedUnlimited(s, sender, q, ok) ==
  LET d == IF sender = Server THEN s.local[Server] ELSE s.cache[sender]
      u == [s EXCEPT !.clip.data = d,
                     !.dirty = [p \in Screens |-> IF p \in Online THEN p # sender ELSE @[p]]]
  IN  IF q < s.clip.seq \/ d = s.clip.data THEN s ELSE setClipboard(u, active, d)

\* Server::onClipboardChanged.  Files of the server are packaged first; a
\* package for the server's screen is extracted.
onClipboardChanged(s, sender, q, ok) ==
  LET d == IF sender = Server THEN s.local[Server] ELSE s.cache[sender]
      r == [s EXCEPT !.clip.raw = d]
      u == [r EXCEPT !.clip.data = d,
                     !.dirty = [p \in Screens |-> IF p \in Online THEN p # sender ELSE @[p]]]
  IN  CASE q < s.clip.seq -> s
        [] q >= s.clip.seq /\ (\/ sender = Server /\ ~works(d, ok)
                               \/ serverRefuses(d)
                               \/ d = s.clip.data) -> r
        [] OTHER -> IF active # Server THEN setClipboard(u, active, d)
                    ELSE IF sender = Server \/ ~works(d, ok) THEN u
                    ELSE [setClipboard(u, Server, d) EXCEPT !.packed = FALSE]

\* Every screen but g is told that somebody else has the clipboard.
grabAll(s, g) ==
  [s EXCEPT !.dirty = [p \in Screens |-> IF p \in Online THEN p # g ELSE @[p]],
            !.local[Server] = IF g = Server THEN @ ELSE 0,
            !.packed = @ /\ g = Server,
            !.toClient = [c \in Clients |->
               IF c # g /\ client[c].online THEN Append(@[c], [kind |-> "grab"]) ELSE @[c]]]

\* Mutants of handleGrabbed: the sequence number is not recorded, or nobody is
\* told.
handleGrabbedUnrecorded(s, g, q) ==
  IF g # Server /\ q < s.clip.seq THEN s
  ELSE grabAll([s EXCEPT !.clip.owner = g, !.clip.raw = 0, !.clip.data = 0], g)

handleGrabbedUntold(s, g, q) ==
  IF g # Server /\ q < s.clip.seq THEN s
  ELSE [s EXCEPT !.clip = [owner |-> g, seq |-> q, raw |-> 0, data |-> 0]]

\* Server::handle_clipboard_grabbed.
handleGrabbed(s, g, q) ==
  IF g # Server /\ q < s.clip.seq THEN s
  ELSE grabAll([s EXCEPT !.clip = [owner |-> g, seq |-> q, raw |-> 0, data |-> 0]], g)

----------------------------------------------------------------------------
(* The server *)

\* Server::switchScreen: leave, publish the primary's clipboard, enter, hand
\* over the clipboard.
SwitchScreen ==
  /\ seqNum < MaxSwitches
  /\ seqNum' = seqNum + 1
  /\ active' \in Online \ {active}
  /\ \E ok \in Outcomes :
     LET left == IF active # Server THEN tell(Now, active, [kind |-> "leave"])
                 ELSE IF clip.owner = Server THEN onClipboardChanged(Now, Server, clip.seq, ok)
                 ELSE Now
         in == IF active' = Server THEN left
               ELSE tell(left, active', [kind |-> "enter", seq |-> seqNum'])
         s == IF serverRefuses(in.clip.raw) THEN in ELSE setClipboard(in, active', in.clip.data)
     IN  Become(s) /\ events' = s.events
  /\ primarySeq' = IF active' = Server THEN seqNum' ELSE primarySeq
  /\ UNCHANGED <<client, toServer, tasks, mixing, copies, losses>>

\* A program on the server takes the clipboard: the platform queues the event.
CopyOnServer ==
  /\ LocalUse \/ active = Server
  /\ copies < MaxCopies
  /\ copies' = copies + 1
  /\ local' = [local EXCEPT ![Server] = copies']
  /\ packed' = FALSE
  /\ events' = Append(events, [kind |-> "grabbed", from |-> Server, seq |-> primarySeq])
  /\ UNCHANGED <<clip, active, seqNum, primarySeq, dirty, cache, client, toClient, toServer,
                 tasks, mixing, losses>>

\* The clients with chunks on the way.
Uploading == {c \in Clients : \E i \in DOMAIN toServer[c] : toServer[c][i].kind = "data"}

\* Mutant of recvClipboard: an upload is stored under the sequence number of the cursor.
recvClipboardRenumbered(c, m) ==
  /\ cache' = [cache EXCEPT ![c] = m.data]
  /\ events' = Append(events, [kind |-> "changed", from |-> c, seq |-> seqNum])
  /\ UNCHANGED mixing

Stored(c, x, q) ==
  /\ cache' = [cache EXCEPT ![c] = x]
  /\ events' = Append(events, [kind |-> "changed", from |-> c, seq |-> q])

\* ClientProxy1_6::recvClipboard.  When chunks of another client came between, the size does not
\* match and nothing is stored, or it does and what is stored is something else.
recvClipboard(c, m) ==
  LET others == Uploading \ {c}
      met == c \in crossed \/ others # {}
  IN
  /\ crossed' = (crossed \ {c}) \cup others
  /\ \/ Stored(c, m.data, m.seq) /\ UNCHANGED spoiled
     \/ met /\ spoiled' = spoiled \cup {c} /\ UNCHANGED <<cache, events>>
     \/ /\ met /\ spoiled' = spoiled \cup {c}
        /\ \E x \in 1 .. copies : ~clientRefuses(x) /\ Stored(c, x, m.seq)

\* ClientProxy1_6::recvGrabClipboard.
recvGrabClipboard(c, m) ==
  /\ events' = Append(events, [kind |-> "grabbed", from |-> c, seq |-> m.seq])
  /\ UNCHANGED <<cache, mixing>>

\* ClientProxy1_6 parses a message.
Receive(c) ==
  /\ toServer[c] # <<>>
  /\ LET m == Head(toServer[c]) IN IF m.kind = "grab" THEN recvGrabClipboard(c, m) ELSE recvClipboard(c, m)
  /\ toServer' = [toServer EXCEPT ![c] = Tail(@)]
  /\ UNCHANGED <<clip, active, seqNum, primarySeq, dirty, local, packed, client, toClient,
                 tasks, copies, losses>>

\* The server's loop dispatches its next event.
Dispatch ==
  /\ events # <<>>
  /\ \E ok \in Outcomes :
     LET e == Head(events)
         now == [Now EXCEPT !.events = Tail(events)]
         s == CASE e.kind = "send" -> tell(now, e.to, [kind |-> "data", data |-> e.data])
                [] e.kind = "grabbed" -> handleGrabbed(now, e.from, e.seq)
                [] e.kind = "changed" -> onClipboardChanged(now, e.from, e.seq, ok)
     IN  Become(s) /\ events' = s.events
  /\ UNCHANGED <<active, seqNum, primarySeq, client, toServer, tasks, mixing, copies, losses>>

----------------------------------------------------------------------------
(* A client *)

\* Mutants of sendClipboard: nothing is sent, or without a sequence number.
sendClipboardNever(c, ok) == <<>>

sendClipboardUnstamped(c, ok) == <<[kind |-> "send", data |-> local[c]]>>

\* Client::sendClipboard: the transfer is queued, unless the files cannot be
\* packaged or the content is too big.
sendClipboard(c, ok) ==
  IF ~works(local[c], ok) \/ clientRefuses(local[c]) THEN <<>>
  ELSE <<[kind |-> "send", data |-> local[c], seq |-> client[c].seq]>>

\* ServerProxy parses a message.
ObeyEnter(c) ==
  /\ toClient[c] # <<>> /\ Head(toClient[c]).kind = "enter"
  /\ client' = [client EXCEPT ![c].active = TRUE, ![c].seq = Head(toClient[c]).seq]
  /\ toClient' = [toClient EXCEPT ![c] = Tail(@)]
  /\ UNCHANGED <<local, tasks>>

\* Client::leave: an owned clipboard is sent once for each grab
\* (m_timeClipboard, m_sentClipboard).
ObeyLeave(c) ==
  /\ toClient[c] # <<>> /\ Head(toClient[c]).kind = "leave"
  /\ LET sending == client[c].own /\ ~client[c].timed
     IN  /\ client' = [client EXCEPT ![c].active = FALSE, ![c].timed = @ \/ sending]
         /\ \E ok \in Outcomes :
              tasks' = IF sending THEN [tasks EXCEPT ![c] = @ \o sendClipboard(c, ok)] ELSE tasks
  /\ toClient' = [toClient EXCEPT ![c] = Tail(@)]
  /\ UNCHANGED local

\* Client::grabClipboard, whatever sequence number came with it.
ObeyGrab(c) ==
  /\ toClient[c] # <<>> /\ Head(toClient[c]).kind = "grab"
  /\ client' = [client EXCEPT ![c].own = FALSE]
  /\ local' = [local EXCEPT ![c] = 0]
  /\ toClient' = [toClient EXCEPT ![c] = Tail(@)]
  /\ UNCHANGED tasks

\* Client::setClipboard: nothing changes if a package cannot be extracted.
ObeyData(c) ==
  /\ toClient[c] # <<>> /\ Head(toClient[c]).kind = "data"
  /\ LET d == Head(toClient[c]).data
     IN  \E ok \in Outcomes :
           IF works(d, ok)
             THEN client' = [client EXCEPT ![c].own = FALSE] /\ local' = [local EXCEPT ![c] = d]
             ELSE UNCHANGED <<client, local>>
  /\ toClient' = [toClient EXCEPT ![c] = Tail(@)]
  /\ UNCHANGED tasks

Obey(c) ==
  /\ ObeyEnter(c) \/ ObeyLeave(c) \/ ObeyGrab(c) \/ ObeyData(c)
  /\ UNCHANGED <<clip, active, seqNum, primarySeq, dirty, cache, packed, toServer, events,
                 mixing, copies, losses>>

\* A program on the client takes the clipboard.
CopyOnClient(c) ==
  /\ client[c].online
  /\ LocalUse \/ client[c].active
  /\ copies < MaxCopies
  /\ copies' = copies + 1
  /\ local' = [local EXCEPT ![c] = copies']
  /\ tasks' = [tasks EXCEPT ![c] = Append(@, [kind |-> "grabbed"])]
  /\ UNCHANGED <<clip, active, seqNum, primarySeq, dirty, cache, packed, client, toClient,
                 toServer, events, mixing, losses>>

\* The client's loop dispatches its next event: Client::handle_clipboard_grabbed,
\* or a queued transfer.
Work(c) ==
  /\ tasks[c] # <<>>
  /\ LET t == Head(tasks[c])
         rest == Tail(tasks[c])
     IN  IF t.kind = "send"
           THEN /\ toServer' = [toServer EXCEPT
                     ![c] = Append(@, [kind |-> "data", data |-> t.data, seq |-> t.seq])]
                /\ tasks' = [tasks EXCEPT ![c] = rest]
                /\ UNCHANGED client
           ELSE /\ toServer' = [toServer EXCEPT
                     ![c] = Append(@, [kind |-> "grab", seq |-> client[c].seq])]
                /\ client' = [client EXCEPT ![c].own = TRUE, ![c].timed = ~client[c].active]
                /\ \E ok \in Outcomes :
                     tasks' = [tasks EXCEPT ![c] = IF client[c].active THEN rest
                                                   ELSE rest \o sendClipboard(c, ok)]
  /\ UNCHANGED <<clip, active, seqNum, primarySeq, dirty, cache, local, packed, toClient,
                 events, mixing, copies, losses>>

----------------------------------------------------------------------------
(* Connections *)

\* What is left in the queue of the server's events when a proxy goes.
EventsOfOthers(c) == {e \in Events : IF e.kind = "send" THEN e.to # c ELSE e.from # c}

\* The connection of c is lost, on both sides at once; the proxy's queued
\* events are dropped, Server::forceLeaveClient brings the cursor back.  The
\* chunks that arrived stay in the buffer.  (Client keeps m_active, which
\* nobody looks at before it is entered again.)
Lose(c) ==
  /\ losses < MaxLosses
  /\ losses' = losses + 1
  /\ client[c].online
  /\ client' = [client EXCEPT ![c] = [active |-> FALSE, seq |-> 0, own |-> FALSE,
                                      timed |-> FALSE, online |-> FALSE]]
  /\ active' = IF active = c THEN Server ELSE active
  /\ primarySeq' = IF active = c THEN seqNum ELSE primarySeq
  /\ events' = Kept(events, EventsOfOthers(c))
  /\ toClient' = [toClient EXCEPT ![c] = <<>>]
  /\ toServer' = [toServer EXCEPT ![c] = <<>>]
  /\ tasks' = [tasks EXCEPT ![c] = <<>>]
  /\ crossed' = (crossed \ {c}) \cup (IF c \in Uploading THEN Uploading \ {c} ELSE {})
  /\ UNCHANGED <<clip, seqNum, dirty, cache, local, packed, spoiled, copies>>

\* The client connects again: a new proxy, all of whose clipboards are dirty,
\* and a client that takes its screen's clipboard (Screen::enableSecondary).
Reconnect(c) ==
  /\ ~client[c].online
  /\ client' = [client EXCEPT ![c].online = TRUE]
  /\ dirty' = [dirty EXCEPT ![c] = TRUE]
  /\ cache' = [cache EXCEPT ![c] = 0]
  /\ local' = [local EXCEPT ![c] = 0]
  /\ UNCHANGED <<clip, active, seqNum, primarySeq, packed, wires, mixing, copies, losses>>

----------------------------------------------------------------------------
Init ==
  /\ clip = [owner |-> Server, seq |-> 0, raw |-> 0, data |-> 0]
  /\ active = Server
  /\ seqNum = 0
  /\ primarySeq = 0
  /\ dirty = [p \in Screens |-> p # Server]
  /\ cache = [c \in Clients |-> 0]
  /\ local = [p \in Screens |-> 0]
  /\ packed = FALSE
  /\ client = [c \in Clients |-> [active |-> FALSE, seq |-> 0, own |-> FALSE, timed |-> FALSE,
                                  online |-> TRUE]]
  /\ toClient = [c \in Clients |-> <<>>]
  /\ toServer = [c \in Clients |-> <<>>]
  /\ events = <<>>
  /\ crossed = {} /\ spoiled = {}
  /\ tasks = [c \in Clients |-> <<>>]
  /\ copies = 0
  /\ losses = 0

Next ==
  \/ SwitchScreen
  \/ CopyOnServer
  \/ Dispatch
  \/ \E c \in Clients :
       \/ Receive(c)
       \/ Obey(c)
       \/ CopyOnClient(c)
       \/ Work(c)
       \/ Lose(c)
       \/ Reconnect(c)

Spec == Init /\ [][Next]_vars

----------------------------------------------------------------------------
(* Properties *)

Quiet == events = <<>> /\ \A c \in Clients : toClient[c] = <<>> /\ toServer[c] = <<>> /\ tasks[c] = <<>>

\* An update that passes the sequence test comes from the clipboard's owner
\* (the assertion in Server::onClipboardChanged).
UpdateFromOwner ==
  events # <<>> /\ Head(events).kind = "changed" /\ Head(events).seq >= clip.seq
    => Head(events).from = clip.owner

\* The state is well formed, and an update the server is about to accept comes
\* from the clipboard's owner (see the parts).  About handle_clipboard_grabbed
\* and onClipboardChanged.
OwnershipInv == TypeOK /\ UpdateFromOwner

\* Once everything is delivered, a screen that is neither dirty nor the owner
\* shows what the server holds, unless that is a package it may have failed to
\* extract: the dirty flags never forget a screen.
DirtyCovers ==
  Quiet => \A p \in Online :
             dirty[p] \/ clip.owner = p \/ local[p] = clip.data \/ clip.data \in Files

\* Once everything is delivered, a client that owns the clipboard and does not
\* have the cursor has got it to the server (Client::leave,
\* handle_clipboard_grabbed), or what the server holds is a package that it may
\* have failed to extract.  A client whose upload met another's in the server's
\* one buffer is excepted: its update was dropped or replaced, and it is not
\* sent again.
OwnerPublished ==
  Quiet => \A c \in Clients \ spoiled : clip.owner = c /\ client[c].own /\ active # c =>
             \/ clip.data = local[c] \/ clip.data \in Files
             \/ clientRefuses(local[c]) \/ local[c] \in Files

\* The server's screen is never given a package instead of the files in it.
PackageExtracted == ~packed

\* Nothing over the server's limit is ever on its way to a client, although the
\* server keeps it (m_clipboard) until the next grab.
NothingOversized ==
  \A c \in Clients : \A i \in DOMAIN toClient[c] :
    toClient[c][i].kind = "data" => ~serverRefuses(toClient[c][i].data)

\* Once everything is delivered, the client the server takes for the owner
\* takes itself for the owner, so that it sends the clipboard when it is left.
OwnerAware ==
  Quiet => \A c \in Clients : clip.owner = c /\ client[c].online => client[c].own

=============================================================================
