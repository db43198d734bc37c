---------------------------- MODULE EventChannel ----------------------------
(***************************************************************************)
(* What an event queue promises to those who post to it: every event is    *)
(* handed to the program once, the events of one sender in the order in    *)
(* which it posted them, until one of them tells the program to quit or    *)
(* everything that is queued is discarded.  Nothing is promised about the  *)
(* order of events of different senders.                                   *)
(***************************************************************************)
EXTENDS Naturals, Sequences

CONSTANTS
  Senders,   \* who posts
  Events,    \* what is posted: records with a field from, the sender
  IsQuit(_), \* the events that end the loop
  NoEvent    \* the program is not handling an event

VARIABLES
  posted,    \* what each sender posted that was not handed over yet
  handling   \* the event the program is given

cvars == <<posted, handling>>

Init == posted = [s \in Senders |-> <<>>] /\ handling = NoEvent

Post(e) ==
  /\ posted' = [posted EXCEPT ![e.from] = Append(@, e)]
  /\ UNCHANGED handling

Hand(s) ==
  /\ ~IsQuit(handling)
  /\ posted[s] # <<>>
  /\ handling' = Head(posted[s])
  /\ posted' = [posted EXCEPT ![s] = Tail(@)]

\* The program is done with the event, or turns to a timer.
Finish == ~IsQuit(handling) /\ handling' = NoEvent /\ UNCHANGED posted

Discard == posted' = [s \in Senders |-> <<>>] /\ UNCHANGED handling

Next == (\E e \in Events : Post(e)) \/ (\E s \in Senders : Hand(s)) \/ Finish \/ Discard

Spec == Init /\ [][Next]_cvars /\ WF_cvars(\E s \in Senders : Hand(s))
=============================================================================
