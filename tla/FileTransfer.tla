---------------------------- MODULE FileTransfer ----------------------------
(***************************************************************************)
(* A file dragged off the server's screen and dropped on a client          *)
(* (Server.cpp, StreamChunker.cpp, FileChunk.cpp, ClientProxy1_6.cpp,      *)
(* ServerProxy.cpp, Client.cpp, DropHelper.cpp).                           *)
(*                                                                         *)
(* Four kinds of thread take part: the server's event loop, the thread     *)
(* that asks the platform which file is dragged, one thread for every      *)
(* file sent, and at the client the event loop and one thread for every    *)
(* file written.  The senders share two static flags and hand their chunks *)
(* to the server's loop as events; the loop gives each chunk to the screen *)
(* that is active when it gets there.                                      *)
(*                                                                         *)
(* A transfer is a number, its content the sequence of its pieces          *)
(* <<transfer, index>>, each as large as a chunk.  The server's screen is  *)
(* the Windows one, which forgets the file's name only when the left       *)
(* button is pressed again, and a client fakes no drag of its own          *)
(* (Windows, X11).                                                         *)
(***************************************************************************)
EXTENDS Naturals, Sequences, FiniteSets

CONSTANTS
  Clients,   \* the client screens
  Server,    \* the server's own screen
  Files,     \* the files a user may drag
  Pieces,    \* the number of chunks of each file's content
  None,      \* no file, no screen, no transfer
  MaxDrags,  \* bound on drags
  MaxSends,  \* bound on sending threads
  MaxMoves,  \* bound on switches between screens and lost connections
  MaxQueue   \* bound on the server's events and on each wire

Screens == Clients \cup {Server}
Transfers == 1 .. MaxSends

\* The screens are distinct and None is no file and no screen.
ASSUME ConstantsAssumption ==
  /\ Server \notin Clients
  /\ None \notin Screens \cup Files \cup Transfers
  /\ Pieces \in [Files -> Nat]
  /\ MaxDrags \in Nat /\ MaxSends \in Nat /\ MaxMoves \in Nat /\ MaxQueue \in Nat

VARIABLES
  active,     \* m_active
  online,     \* the connected clients
  held,       \* the file under the user's finger, or None
  dragging,   \* m_draggingStarted of the server's screen
  name,       \* m_draggingFilename of the server's screen
  waitInfo,   \* m_waitDragInfoThread
  info,       \* m_sendDragInfoThread: at, to (its newScreen), file
  current,    \* m_sendFileThread
  thread,     \* the sending threads: at, file, sent and target
  chunking,   \* StreamChunker::s_isChunkingFile
  interrupt,  \* StreamChunker::s_interruptFile
  events,     \* FILE_CHUNK_SENDING events of the server's queue
  wire,       \* what is on its way to each client
  recv,       \* each client: m_expectedFileSize, m_receivedFileData,
              \*   m_dragFileList, completions queued and writers running
  written,    \* what each client has written: <<name, content>>
  disturbed,  \* history: transfers something else came between
  expected,   \* history: undisturbed transfers that must arrive
  left,       \* history: the interrupt was meant for a sender past its last look at it
  drags, moves

history == <<disturbed, expected, left>>
flags == <<chunking, interrupt>>
drag == <<held, dragging, name, waitInfo, info, drags>>
senders == <<current, thread, flags>>
vars == <<active, online, drag, senders, events, wire, recv, written, history, moves>>

Chunk(m, t, d) == [msg |-> "chunk", mark |-> m, t |-> t, data |-> d]
DragInfo(f) == [msg |-> "info", file |-> f]
NoInfo == [at |-> "none", to |-> None, file |-> None]
NoThread == [at |-> "none", file |-> None, sent |-> 0, target |-> None]
Used == {t \in Transfers : thread[t].at # "none"}
Whole(t) == [i \in 1 .. Pieces[thread[t].file] |-> <<t, i>>]

Threads == [at : {"none", "open", "check", "chunk", "end", "close", "idle", "gone"},
            file : Files \cup {None}, sent : Nat, target : Clients \cup {None}]
Receivers == [expected : Nat, data : Seq(Transfers \X Nat), list : Files \cup {None},
              done : Nat, writers : Nat]
Infos == [at : {"none", "ask", "send"}, to : Screens \cup {None}, file : Files \cup {None}]

\* Every part of the state has its shape (members of Server.h:454, Client.h:205).
TypeOK ==
  /\ active \in Screens /\ online \subseteq Clients
  /\ held \in Files \cup {None} /\ name \in Files \cup {None}
  /\ dragging \in BOOLEAN /\ waitInfo \in BOOLEAN /\ info \in Infos
  /\ current \in Transfers \cup {None} /\ thread \in [Transfers -> Threads]
  /\ chunking \in BOOLEAN /\ interrupt \in BOOLEAN
  /\ recv \in [Clients -> Receivers]
  /\ disturbed \subseteq Transfers /\ expected \subseteq Used /\ left \in BOOLEAN
  /\ drags \in 0 .. MaxDrags /\ moves \in 0 .. MaxMoves

Init ==
  /\ active = Server /\ online = Clients
  /\ held = None /\ dragging = FALSE /\ name = None
  /\ waitInfo = TRUE /\ info = NoInfo
  /\ current = None /\ thread = [t \in Transfers |-> NoThread]
  /\ chunking = FALSE /\ interrupt = FALSE
  /\ events = <<>> /\ wire = [c \in Clients |-> <<>>]
  /\ recv = [c \in Clients |-> [expected |-> 0, data |-> <<>>, list |-> None, done |-> 0, writers |-> 0]]
  /\ written = [c \in Clients |-> {}]
  /\ disturbed = {} /\ expected = {} /\ left = FALSE /\ drags = 0 /\ moves = 0

-----------------------------------------------------------------------------
(* History: when another transfer begins, the cursor moves to another      *)
(* screen or a connection is lost, the transfers under way are disturbed.  *)

Queues == {events} \cup {wire[c] : c \in Clients}
UnderWay(t) ==
  /\ t \in Used
  /\ \/ thread[t].at # "gone"
     \/ \E q \in Queues : \E i \in DOMAIN q : q[i].msg = "chunk" /\ q[i].t = t
     \/ \E c \in Clients : recv[c].done + recv[c].writers > 0
Disturb ==
  /\ disturbed' = disturbed \cup {t \in Transfers : UnderWay(t)}
  /\ expected' = expected \ disturbed'

\* The senders that will look at the interrupt again.
Heeding == {t \in Transfers : \/ thread[t].at \in {"open", "check"}
                              \/ thread[t].at = "chunk" /\ thread[t].sent + 1 < Pieces[thread[t].file]}

-----------------------------------------------------------------------------
(* The drag, on the server's screen.                                       *)

\* The left button is pressed: the screen forgets the name (onMouseButton), onMouseDown resets the flag.
Press == name' = None /\ waitInfo' = TRUE

\* The user presses the button on a file and moves, and the screen notices a drag.
Drag(f) ==
  /\ active = Server /\ held = None /\ drags < MaxDrags
  /\ Press
  /\ held' = f /\ dragging' = TRUE
  /\ drags' = drags + 1
  /\ UNCHANGED <<active, online, info, senders, events, wire, recv, written, history, moves>>

\* The left button is pressed on nothing, on whichever screen, and released.
Click ==
  /\ held = None /\ name # None
  /\ Press
  /\ UNCHANGED <<active, online, held, dragging, info, drags, senders, events, wire, recv, written,
                 history, moves>>

\* The cursor meets the edge to c: a drag first starts the thread that
\* collects its information, and the cursor stays; the thread is asked once.
PushEdge(c) ==
  /\ active = Server /\ c \in online /\ moves < MaxMoves
  /\ IF dragging /\ waitInfo
     THEN /\ info.at = "none"
          /\ info' = [at |-> "ask", to |-> c, file |-> None]
          /\ UNCHANGED <<active, waitInfo, moves, history>>
     ELSE /\ active' = c /\ waitInfo' = TRUE
          /\ moves' = moves + 1 /\ Disturb
          /\ UNCHANGED <<info, left>>
  /\ UNCHANGED <<online, held, dragging, name, drags, senders, events, wire, recv, written>>

\* getDraggingFilename: the screen ends a drag that goes on and finds the name out from it, or
\* does not in half a second, or the name is not valid; otherwise it says what it knows.
NamesFound == IF dragging THEN {held, None} ELSE {name}

\* The thread asks the screen for the file's name.
AskName ==
  /\ info.at = "ask"
  /\ dragging' = FALSE
  /\ name' \in NamesFound
  /\ info' = [info EXCEPT !.at = "send", !.file = name']
  /\ UNCHANGED <<active, online, held, waitInfo, drags, senders, events, wire, recv, written, history, moves>>

\* The thread tells the screen it was started for, whatever became of it,
\* lets the cursor cross and ends.
SendDragInfo ==
  /\ info.at = "send"
  /\ info.to \in online => Len(wire[info.to]) < MaxQueue
  /\ wire' = IF info.file # None /\ info.to \in online
             THEN [wire EXCEPT ![info.to] = Append(@, DragInfo(info.file))] ELSE wire
  /\ waitInfo' = FALSE /\ info' = NoInfo
  /\ UNCHANGED <<active, online, held, dragging, name, drags, senders, events, recv, written, history, moves>>

\* interruptFile
Interrupted == interrupt \/ chunking

\* sendFileToClient: the sender before this one is told to stop, and a new one starts, with a
\* pointer to the screen's name (f as it is now).
sendFileToClient(f) ==
  \E t \in Transfers \ Used :
    /\ \A u \in Transfers \ Used : t <= u
    /\ thread' = [thread EXCEPT ![t] = [at |-> "open", file |-> f, sent |-> 0, target |-> active]]
    /\ current' = t
    /\ interrupt' = IF current # None THEN Interrupted ELSE interrupt
    /\ left' = (left \/ (interrupt' /\ ~interrupt /\ Heeding' = {}))
    /\ LET busy == {u \in Transfers : UnderWay(u)} IN
         disturbed' = disturbed \cup busy \cup (IF busy = {} THEN {} ELSE {t})
    /\ expected' = expected \ disturbed'
    /\ UNCHANGED chunking

\* A button is released off the server's screen: the file is sent whose name the screen knows.
DropAt(f) == IF active # Server /\ f # None THEN sendFileToClient(f) ELSE UNCHANGED <<senders, history>>

\* The left button is released; the screen has ended the drag before.
MouseUp ==
  /\ held # None
  /\ held' = None /\ dragging' = FALSE
  /\ DropAt(name)
  /\ UNCHANGED <<active, online, name, waitInfo, info, drags, events, wire, recv, written, moves>>

\* Another button is released, and sends the file again: clearDraggingFilename clears nothing.
OtherMouseUp ==
  /\ active # Server /\ (dragging \/ name # None)
  /\ dragging' = FALSE
  /\ name' \in NamesFound
  /\ DropAt(name')
  /\ UNCHANGED <<active, online, held, waitInfo, info, drags, events, wire, recv, written, moves>>

-----------------------------------------------------------------------------
(* StreamChunker::sendFile, in a thread of its own.                        *)

Step(t, from, to) == thread[t].at = from /\ thread' = [thread EXCEPT ![t].at = to]

\* The file is opened and its size announced: the one the screen's name is by now, or, if the
\* name has moved to other memory, perhaps still the one it was.
SendStart(t) ==
  /\ thread[t].at = "open" /\ name # None /\ Len(events) < MaxQueue
  /\ \E f \in {name, thread[t].file} :
       /\ thread' = [thread EXCEPT ![t].at = "check", ![t].file = f]
       /\ events' = Append(events, Chunk("start", t, Pieces[f]))
  /\ chunking' = TRUE
  /\ expected' = IF left \/ t \in disturbed \/ recv[thread[t].target].list = None
                 THEN expected ELSE expected \cup {t}
  /\ UNCHANGED <<active, online, drag, current, interrupt, wire, recv, written, disturbed, left, moves>>

\* The file cannot be opened, or there is no name any more: the thread ends, its flag stays.
OpenFails(t) ==
  /\ Step(t, "open", "gone")
  /\ chunking' = TRUE /\ current' = None
  /\ UNCHANGED <<active, online, drag, interrupt, events, wire, recv, written, history, moves>>

\* Mutant: the sender that sees the interrupt leaves it to others as well
CheckInterruptKept(t) ==
  /\ Step(t, "check", IF interrupt THEN "end" ELSE "chunk")
  /\ UNCHANGED <<active, online, drag, current, flags, events, wire, recv, written, history, moves>>

\* The thread that sees the interrupt first takes it.
CheckInterrupt(t) ==
  /\ Step(t, "check", IF interrupt THEN "end" ELSE "chunk")
  /\ interrupt' = FALSE /\ left' = (left /\ ~interrupt)
  /\ UNCHANGED <<active, online, drag, current, chunking, events, wire, recv, written, disturbed,
                 expected, moves>>


\* An empty file has one chunk, and it is empty.
SendChunk(t) ==
  LET size == Pieces[thread[t].file]
      n == IF thread[t].sent + 1 > size THEN size - thread[t].sent ELSE 1
      sent == thread[t].sent + n
  IN /\ thread[t].at = "chunk"
     /\ thread' = [thread EXCEPT ![t].sent = sent, ![t].at = IF sent = size THEN "end" ELSE "check"]
     /\ Len(events) < MaxQueue
     /\ events' = Append(events, Chunk("data", t, [i \in 1 .. n |-> <<t, sent>>]))
     /\ UNCHANGED <<active, online, drag, current, flags, wire, recv, written, history, moves>>

SendEnd(t) ==
  /\ thread[t].at = "end" /\ thread' = [thread EXCEPT ![t].at = "close", ![t].sent = 0]
  /\ Len(events) < MaxQueue
  /\ events' = Append(events, Chunk("end", t, <<>>))
  /\ UNCHANGED <<active, online, drag, current, flags, wire, recv, written, history, moves>>

CloseFile(t) ==
  /\ Step(t, "close", "idle")
  /\ chunking' = FALSE
  /\ UNCHANGED <<active, online, drag, current, interrupt, events, wire, recv, written, history, moves>>

\* send_file_thread forgets the current thread, its own or a later one.
EndThread(t) ==
  /\ Step(t, "idle", "gone")
  /\ current' = None
  /\ UNCHANGED <<active, online, drag, flags, events, wire, recv, written, history, moves>>

-----------------------------------------------------------------------------
(* The server's loop and the screens.                                      *)

\* A chunk goes to the active screen; the server's own ignores it.
HandleChunk ==
  /\ events # <<>>
  /\ active \in online => Len(wire[active]) < MaxQueue
  /\ events' = Tail(events)
  /\ wire' = IF active \in online THEN [wire EXCEPT ![active] = Append(@, Head(events))] ELSE wire
  /\ UNCHANGED <<active, online, drag, senders, recv, written, history, moves>>

\* onMouseMoveSecondary jumps to another screen and stops the sender.
Jump(s) ==
  /\ active # Server /\ s \in (online \cup {Server}) \ {active} /\ moves < MaxMoves
  /\ active' = s /\ moves' = moves + 1
  /\ interrupt' = IF current # None THEN Interrupted ELSE interrupt
  /\ left' = (left \/ (interrupt' /\ ~interrupt /\ Heeding = {}))
  /\ current' = None
  /\ Disturb
  /\ UNCHANGED <<online, drag, thread, chunking, events, wire, recv, written>>

\* Any other switch (a hot key) leaves the sender alone.
Switch(s) ==
  /\ active # Server /\ s \in (online \cup {Server}) \ {active} /\ moves < MaxMoves
  /\ active' = s /\ moves' = moves + 1 /\ Disturb
  /\ UNCHANGED <<left, online, drag, senders, events, wire, recv, written>>

\* A connection is lost with what is on it; the cursor comes home.
Disconnect(c) ==
  /\ c \in online /\ moves < MaxMoves
  /\ online' = online \ {c} /\ moves' = moves + 1
  /\ active' = IF active = c THEN Server ELSE active
  /\ wire' = [wire EXCEPT ![c] = <<>>]
  /\ Disturb
  /\ UNCHANGED <<left, drag, senders, events, recv, written>>

\* The client comes back with what it had received.
Reconnect(c) ==
  /\ c \in Clients \ online
  /\ online' = online \cup {c}
  /\ UNCHANGED <<active, drag, senders, events, wire, recv, written, history, moves>>

-----------------------------------------------------------------------------
(* The client.                                                             *)

\* Mutant: a start that does not clear what came before
assembleAppends(r, m) ==
  CASE m.mark = "start" -> [r EXCEPT !.expected = Len(r.data) + m.data]
    [] m.mark = "data"  -> [r EXCEPT !.data = @ \o m.data]
    [] m.mark = "end"   -> IF r.expected = Len(r.data) THEN [r EXCEPT !.done = @ + 1] ELSE r

\* FileChunk::assemble: what a message makes of the received data, and
\* whether the transfer is complete.
assemble(r, m) ==
  CASE m.mark = "start" -> [r EXCEPT !.expected = m.data, !.data = <<>>]
    [] m.mark = "data"  -> [r EXCEPT !.data = @ \o m.data]
    [] m.mark = "end"   -> IF r.expected = Len(r.data) THEN [r EXCEPT !.done = @ + 1] ELSE r

\* parseDragInfo replaces the list of dragged files.
Receive(c) ==
  /\ wire[c] # <<>>
  /\ LET m == Head(wire[c]) IN
       recv' = [recv EXCEPT ![c] = IF m.msg = "info" THEN [@ EXCEPT !.list = m.file] ELSE assemble(@, m)]
  /\ wire' = [wire EXCEPT ![c] = Tail(@)]
  /\ UNCHANGED <<active, online, drag, senders, events, written, history, moves>>

\* onFileReceiveCompleted, later: the sizes are compared once more.
ReceiveCompleted(c) ==
  /\ recv[c].done > 0
  /\ recv' = [recv EXCEPT ![c].done = @ - 1,
                          ![c].writers = IF recv[c].expected = Len(recv[c].data) THEN @ + 1 ELSE @]
  /\ UNCHANGED <<active, online, drag, senders, events, wire, written, history, moves>>

\* write_to_drop_dir_thread: what is there is written under the first name of the list, and the
\* list is cleared; without a list nothing is written.
WriteToDropDir(c) ==
  /\ recv[c].writers > 0
  /\ written' = IF recv[c].list = None THEN written
                ELSE [written EXCEPT ![c] = @ \cup {<<recv[c].list, recv[c].data>>}]
  /\ recv' = [recv EXCEPT ![c].writers = @ - 1, ![c].list = None]
  /\ UNCHANGED <<active, online, drag, senders, events, wire, history, moves>>

\* There is no directory to write to, and the list stays; or the file in it cannot be opened.
WriteFails(c) ==
  /\ recv[c].writers > 0
  /\ \E list \in {recv[c].list, None} : recv' = [recv EXCEPT ![c].writers = @ - 1, ![c].list = list]
  /\ disturbed' = disturbed \cup {recv[c].data[i][1] : i \in DOMAIN recv[c].data}
  /\ expected' = expected \ disturbed'
  /\ UNCHANGED <<active, online, drag, senders, events, wire, written, left, moves>>

-----------------------------------------------------------------------------
Sender(t) == SendStart(t) \/ CheckInterrupt(t) \/ SendChunk(t) \/ SendEnd(t) \/ CloseFile(t) \/ EndThread(t)
InfoThread == AskName \/ SendDragInfo
Client(c) == Receive(c) \/ ReceiveCompleted(c) \/ WriteToDropDir(c) \/ WriteFails(c)

Next ==
  \/ \E f \in Files : Drag(f)
  \/ \E c \in Clients : PushEdge(c)
  \/ InfoThread
  \/ Click \/ MouseUp \/ OtherMouseUp
  \/ \E t \in Transfers : Sender(t) \/ OpenFails(t)
  \/ HandleChunk
  \/ \E s \in Screens : Jump(s) \/ Switch(s)
  \/ \E c \in Clients : Disconnect(c) \/ Reconnect(c) \/ Client(c)

Spec == Init /\ [][Next]_vars

-----------------------------------------------------------------------------
(* Properties.                                                             *)

Of(content) == {content[i][1] : i \in DOMAIN content}

\* What a client writes of a transfer that nothing came between is that
\* transfer's file, all of it and nothing else, on the screen it was dropped
\* on: whatever earlier transfers left behind at the sender (the static flags
\* of StreamChunker.cpp:37) and at the receiver (Client's m_receivedFileData).
UndisturbedWhole ==
  \A c \in Clients : \A w \in written[c] : \A t \in Of(w[2]) \ disturbed :
    w[2] = Whole(t) /\ thread[t].target = c

(* The state is well formed, and a transfer nothing came between is written whole
   (see the parts).  About StreamChunker::sendFile and FileChunk::assemble. *)
TransferInv == TypeOK /\ UndisturbedWhole


\* The static flags do not outlive the senders: when no sender runs, nothing
\* is left to interrupt the next one (StreamChunker.cpp:105, :154).  A sender
\* interrupted after its last check, or one that cannot open its file, leaves
\* a flag behind: a known limit.
FlagsReset == (\A t \in Transfers : thread[t].at \in {"none", "gone"}) => ~interrupt /\ ~chunking

\* A file is sent for the drag that carried it, once (Server.cpp:1725 "always
\* clear dragging filename"): as many senders as drags.  A later click of a
\* button other than the left one sends it again: a known limit.
SentOncePerDrag == Cardinality(Used) <= drags

\* The thread that collects the drag's information keeps the screen it is for
\* (Server.cpp:1836): it is still connected when the thread gets to it.  A
\* client that leaves first makes it a dangling pointer: a known limit.
InfoTargetConnected == info.at = "send" => info.to \in online

\* What is written is always one whole file (DropHelper.cpp:46).  Chunks of
\* two transfers that meet in one client's buffer make a file of the right
\* size and of mixed content: a known limit.
WrittenWhole == \A c \in Clients : \A w \in written[c] : \E t \in Used : w[2] = Whole(t)

=============================================================================
