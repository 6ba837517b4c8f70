-------------------------------- MODULE Chat --------------------------------
(***************************************************************************)
(* The message history of Project 02's src/saichat.c and the window on it. *)
(* The background thread adds messages, the main thread scrolls, each      *)
(* under the chat's mutex, so a step is a critical section with the        *)
(* repainting at its end.  Messages are numbered as they come in, and the  *)
(* text of a message is its number.                                        *)
(***************************************************************************)
EXTENDS Integers

CONSTANTS MaxHistory,    \* MAX_MSG_HISTORY
          Rows,          \* the rows inside the window's box, winSizeY - 2
          Wrap,          \* the number of values of a size_t
          MaxMessages,   \* bound: the messages that come in
          NULL           \* an empty row, an empty slot

ASSUME ChatAssumption == /\ {MaxHistory, Rows, MaxMessages} \subseteq Nat \ {0}
                         /\ Rows <= MaxHistory
                         /\ Wrap \in Nat /\ MaxHistory + MaxMessages < Wrap

VARIABLES msgCount, offset,   \* as in struct Chat
          messages,           \* the ring of messages, by slot
          chatWin,            \* what is painted on each row, the last one at the bottom
          scrolled            \* history: a key has moved the offset

vars == <<msgCount, offset, messages, chatWin, scrolled>>

Slot   == 0 .. MaxHistory - 1
Row    == 1 .. Rows
Number == 0 .. MaxMessages - 1

\* chat_create
Init == /\ msgCount = 0
        /\ offset = 0
        /\ messages = [s \in Slot |-> NULL]
        /\ chatWin = [i \in Row |-> NULL]
        /\ scrolled = FALSE

\* The number of the message that the bottom row shows, and of the one on row i.
Bottom(off) == IF off > 0 THEN off - 1 ELSE 0
NumberOn(i, off) == Bottom(off) - (Rows - i)

\* update_message_window
Repaint == chatWin' = [i \in Row |-> IF NumberOn(i, offset') < 0 THEN NULL
                                     ELSE messages'[NumberOn(i, offset') % MaxHistory]]

-----------------------------------------------------------------------------
(* The background thread receives a message.                               *)

\* Slip: the difference is taken as a signed number.
MovesSigned(n) == offset < n - MaxHistory \/ offset = n

\* Whether the offset moves when the n-th message has come in.
Moves(n) == offset < (n - MaxHistory) % Wrap \/ offset = n

Receive == /\ msgCount < MaxMessages
           /\ messages' = [messages EXCEPT ![msgCount % MaxHistory] = msgCount]
           /\ msgCount' = msgCount + 1
           /\ offset' = IF Moves(msgCount + 1) THEN offset + 1 ELSE offset
           /\ Repaint
           /\ UNCHANGED scrolled

-----------------------------------------------------------------------------
(* The main thread handles the arrow keys.                                 *)

Scroll(off) == /\ offset' = off
               /\ scrolled' = (scrolled \/ off # offset)
               /\ UNCHANGED <<msgCount, messages>>
               /\ Repaint

KeyUp == Scroll(IF offset > 0 THEN offset - 1 ELSE offset)

\* Slip: one row too far.
KeyDownTooFar == Scroll(IF msgCount > 0 /\ offset <= msgCount THEN offset + 1 ELSE offset)

KeyDown == Scroll(IF msgCount > 0 /\ offset < msgCount THEN offset + 1 ELSE offset)

Next == Receive \/ KeyUp \/ KeyDown

Spec == Init /\ [][Next]_vars

-----------------------------------------------------------------------------
(* Properties                                                              *)

\* Types; the offset never gets beyond the messages there are, whatever the comparison of
\* wrapped numbers in background_thread yields, and each slot holds the newest message
\* that belongs into it.
TypeOK == /\ msgCount \in 0 .. MaxMessages
          /\ offset \in 0 .. msgCount
          /\ chatWin \in [Row -> Number \cup {NULL}]
          /\ scrolled \in BOOLEAN
          /\ DOMAIN messages = Slot
          /\ \A s \in Slot : \/ messages[s] = NULL /\ s >= msgCount
                             \/ /\ messages[s] \in Number /\ messages[s] % MaxHistory = s
                                /\ messages[s] \in msgCount - MaxHistory .. msgCount - 1

\* The messages on the window are those above the offset, in their order, as long as the
\* history still holds them.
ShowsHistory ==
  \A i \in Row : LET n == NumberOn(i, offset)
                 IN  n \in Number /\ n < msgCount /\ n >= msgCount - MaxHistory => chatWin[i] = n

\* The window shows the newest messages if the user leaves the keys alone, until the
\* history is full, thanks to the difference that wraps, and again once the bottom row's
\* message is overwritten, since their slots are those of the ones it means to show (a
\* window as high as the history has no message for its top row yet, and needs one more).
\* In between, while StandsStill, the offset does not move at all, although the comment of
\* background_thread (saichat.c:288-291) has it move whenever it tracks the most recent
\* message: nothing is claimed of the window there.
StandsStill == MaxHistory .. 2 * MaxHistory - (IF Rows = MaxHistory THEN 1 ELSE 2)
FollowsNewest ==
  ~scrolled /\ msgCount \notin StandsStill =>
    \A i \in Row : LET n == msgCount - 1 - (Rows - i)
                   IN  chatWin[i] = IF n < 0 THEN NULL ELSE n

WindowOK == ShowsHistory /\ FollowsNewest
=============================================================================
