----------------------------- MODULE ChatProofs -----------------------------
(***************************************************************************)
(* TypeOK, ShowsHistory and WindowOK of Chat are invariants, for histories *)
(* and windows of any size.                                                *)
(***************************************************************************)
EXTENDS Chat, Induction

-----------------------------------------------------------------------------

\* What the proofs use of the constants.
LEMMA Sizes == /\ MaxHistory \in Nat \ {0} /\ Rows \in Nat \ {0} /\ MaxMessages \in Nat \ {0}
  BY ChatAssumption

\* The last conjunct of TypeOK, for n messages in ring m.
Holds(m, n, s) == \/ m[s] = NULL /\ s >= n
                  \/ /\ m[s] \in Number /\ m[s] % MaxHistory = s
                     /\ m[s] \in n - MaxHistory .. n - 1

\* Painting yields messages and empty rows, since every row's number has a slot.
LEMMA RepaintTyped ==
  ASSUME Repaint, offset' \in Nat, \A s \in Slot : messages'[s] \in Number \cup {NULL}
  PROVE  chatWin' \in [Row -> Number \cup {NULL}]
<1> DEFINE N(i) == NumberOn(i, offset')
           Painted(i) == IF N(i) < 0 THEN NULL ELSE messages'[N(i) % MaxHistory]
<1>1. ASSUME NEW i \in Row
      PROVE  Painted(i) \in Number \cup {NULL}
  <2>1. Bottom(offset') \in Int BY DEF Bottom
  <2>2. N(i) \in Int BY <2>1, Sizes DEF Row, NumberOn
  <2>3. CASE N(i) < 0 BY <2>3
  <2>4. CASE ~ (N(i) < 0)
    <3>1. N(i) \in Nat BY <2>2, <2>4
    <3>2. N(i) % MaxHistory \in Slot
      <4> HIDE DEF N
      <4> QED BY <3>1, Sizes, ModDef DEF Slot
    <3> QED BY <2>4, <3>2
  <2> QED BY <2>3, <2>4
<1>2. chatWin' = [i \in Row |-> Painted(i)] BY DEF Repaint
<1> HIDE DEF Painted
<1> QED BY <1>1, <1>2

-----------------------------------------------------------------------------

\* At first there is no message.
LEMMA InitTyped == Init => TypeOK
<1> SUFFICES ASSUME Init PROVE TypeOK
  OBVIOUS
<1>1. /\ msgCount = 0 /\ offset = 0 /\ scrolled = FALSE
      /\ messages = [s \in Slot |-> NULL] /\ chatWin = [i \in Row |-> NULL]
  BY DEF Init
<1>2. \A s \in Slot : messages[s] = NULL /\ s >= msgCount BY <1>1, Sizes DEF Slot
<1>3. chatWin \in [Row -> Number \cup {NULL}] BY <1>1
<1>4. msgCount \in 0 .. MaxMessages /\ offset \in 0 .. msgCount BY <1>1, Sizes
<1>5. DOMAIN messages = Slot BY <1>1
<1>6. scrolled \in BOOLEAN BY <1>1
<1> QED BY <1>2, <1>3, <1>4, <1>5, <1>6 DEF TypeOK

\* Whether the offset moves or not, it stays within the messages; the new one replaces
\* the one that is a whole history older, and no other.
LEMMA ReceiveTyped == TypeOK /\ Receive => TypeOK'
<1> SUFFICES ASSUME TypeOK, Receive PROVE TypeOK'
  OBVIOUS
<1> DEFINE slot == msgCount % MaxHistory
<1>1. /\ msgCount \in Nat /\ msgCount < MaxMessages /\ msgCount' = msgCount + 1
      /\ offset \in 0 .. msgCount /\ offset' \in {offset, offset + 1}
      /\ scrolled' \in BOOLEAN
      /\ messages' = [messages EXCEPT ![slot] = msgCount] /\ DOMAIN messages = Slot
  BY DEF TypeOK, Receive
<1>2. msgCount' \in 0 .. MaxMessages /\ offset' \in 0 .. msgCount' BY <1>1, Sizes
<1>3. slot \in Slot BY <1>1, Sizes, ModDef DEF Slot
<1>4. DOMAIN messages' = Slot BY <1>1
<1>5. \A s \in Slot : Holds(messages', msgCount', s)
  <2> SUFFICES ASSUME NEW s \in Slot PROVE Holds(messages', msgCount', s)
    OBVIOUS
  <2>1. s \in 0 .. MaxHistory - 1 BY DEF Slot
  <2>2. CASE s = slot
    <3>1. messages'[s] = msgCount BY <1>1, <2>2
    <3>2. msgCount \in Number BY <1>1, Sizes DEF Number
    <3>3. msgCount \in msgCount' - MaxHistory .. msgCount' - 1 BY <1>1, Sizes
    <3> QED BY <2>2, <3>1, <3>2, <3>3 DEF Holds
  <2>3. CASE s # slot
    <3>1. messages'[s] = messages[s] BY <1>1, <2>3
    <3>2. Holds(messages, msgCount, s) BY DEF TypeOK, Holds
    <3>3. CASE messages[s] = NULL /\ s >= msgCount
      <4>1. s # msgCount
        <5> SUFFICES ASSUME s = msgCount PROVE FALSE
          OBVIOUS
        <5>1. s % MaxHistory = s BY <2>1, Sizes, ModSmall
        <5> QED BY <2>3, <5>1
      <4>2. s >= msgCount' BY <1>1, <2>1, <3>3, <4>1, Sizes
      <4> QED BY <3>1, <3>3, <4>2 DEF Holds
    <3>4. CASE /\ messages[s] \in Number /\ messages[s] % MaxHistory = s
               /\ messages[s] \in msgCount - MaxHistory .. msgCount - 1
      <4>1. messages[s] # msgCount - MaxHistory
        <5> SUFFICES ASSUME messages[s] = msgCount - MaxHistory PROVE FALSE
          OBVIOUS
        <5>1. msgCount - MaxHistory \in Nat BY <3>4, Sizes DEF Number
        <5>2. (msgCount - MaxHistory) % MaxHistory = slot BY <1>1, <5>1, Sizes, ModBack
        <5> QED BY <2>3, <3>4, <5>2
      <4>2. messages[s] \in msgCount' - MaxHistory .. msgCount' - 1
        BY <1>1, <3>4, <4>1, Sizes DEF Number
      <4> QED BY <3>1, <3>4, <4>2 DEF Holds
    <3> QED BY <3>2, <3>3, <3>4 DEF Holds
  <2> QED BY <2>2, <2>3
<1>6. chatWin' \in [Row -> Number \cup {NULL}]
  <2>1. \A s \in Slot : messages'[s] \in Number \cup {NULL} BY <1>5 DEF Holds
  <2>2. offset' \in Nat BY <1>1
  <2>3. Repaint BY DEF Receive
  <2> QED BY <2>1, <2>2, <2>3, RepaintTyped
<1> QED BY <1>1, <1>2, <1>4, <1>5, <1>6 DEF TypeOK, Holds

\* A key leaves the messages alone and keeps the offset within them.
LEMMA ScrollTyped ==
  ASSUME TypeOK, NEW off \in 0 .. msgCount, Scroll(off)
  PROVE  TypeOK'
<1>1. /\ msgCount' = msgCount /\ messages' = messages /\ offset' = off
      /\ scrolled' \in BOOLEAN
  BY DEF Scroll, TypeOK
<1>2. \A s \in Slot : messages'[s] \in Number \cup {NULL} BY <1>1 DEF TypeOK
<1>3. msgCount \in Nat BY DEF TypeOK
<1>4. chatWin' \in [Row -> Number \cup {NULL}]
  BY <1>1, <1>2, <1>3, RepaintTyped DEF Scroll
<1> QED BY <1>1, <1>4 DEF TypeOK

\* The offset is never beyond the messages that have come in, and each slot of the ring
\* holds the newest message that belongs there.
THEOREM ChatTypeCorrect == Spec => []TypeOK
<1>1. TypeOK /\ [Next]_vars => TypeOK'
  <2> SUFFICES ASSUME TypeOK, [Next]_vars PROVE TypeOK'
    OBVIOUS
  <2>1. msgCount \in Nat /\ offset \in 0 .. msgCount BY DEF TypeOK
  <2>2. CASE Receive BY <2>2, ReceiveTyped
  <2>3. CASE KeyUp
    <3> DEFINE off == IF offset > 0 THEN offset - 1 ELSE offset
    <3>1. off \in 0 .. msgCount BY <2>1
    <3>2. Scroll(off) BY <2>3 DEF KeyUp
    <3> HIDE DEF off
    <3> QED BY <3>1, <3>2, ScrollTyped
  <2>4. CASE KeyDown
    <3> DEFINE off == IF msgCount > 0 /\ offset < msgCount THEN offset + 1 ELSE offset
    <3>1. off \in 0 .. msgCount BY <2>1
    <3>2. Scroll(off) BY <2>4 DEF KeyDown
    <3> HIDE DEF off
    <3> QED BY <3>1, <3>2, ScrollTyped
  <2>5. CASE UNCHANGED vars BY <2>5 DEF vars, TypeOK
  <2> QED BY <2>2, <2>3, <2>4, <2>5 DEF Next
<1> QED BY InitTyped, <1>1, PTL DEF Spec

-----------------------------------------------------------------------------

\* Two numbers less than k apart that share a slot are the same.
LEMMA SameSlot ==
  ASSUME NEW k \in Nat \ {0}, NEW m \in Nat, NEW n \in Nat,
         m % k = n % k, m - n < k, n - m < k
  PROVE  m = n
<1> DEFINE d == (n \div k) - (m \div k)
           r == m - n
<1>1. m = k * (m \div k) + (m % k) /\ m \div k \in Nat /\ m % k \in 0 .. k - 1 BY ModDef
<1>2. n = k * (n \div k) + (n % k) /\ n \div k \in Nat /\ n % k \in 0 .. k - 1 BY ModDef
<1>3. d \in Int /\ r \in Int /\ - k < r /\ r < k BY <1>1, <1>2
<1>4. k * d = k * (n \div k) - k * (m \div k) BY <1>1, <1>2
<1>5. k * d + r = 0 BY <1>1, <1>2, <1>4
<1>6. r = 0
  <2> HIDE DEF d, r
  <2> QED BY <1>3, <1>5, Gap
<1> QED BY <1>6

\* The window shows the state: each change is painted in the same critical section.
Painted == \A i \in Row : chatWin[i] = IF NumberOn(i, offset) < 0 THEN NULL
                                       ELSE messages[NumberOn(i, offset) % MaxHistory]

\* The empty window is that of no messages.
LEMMA InitPainted == Init => Painted
<1> SUFFICES ASSUME Init, NEW i \in Row PROVE
      chatWin[i] = IF NumberOn(i, offset) < 0 THEN NULL
                   ELSE messages[NumberOn(i, offset) % MaxHistory]
  BY DEF Painted
<1>1. chatWin[i] = NULL BY DEF Init
<1>2. CASE NumberOn(i, offset) < 0 BY <1>1, <1>2
<1>3. CASE ~ (NumberOn(i, offset) < 0)
  <2>1. NumberOn(i, offset) = 0 BY <1>3, Sizes DEF Init, NumberOn, Bottom, Row
  <2>2. 0 % MaxHistory = 0 BY Sizes, ModSmall
  <2>3. messages[0] = NULL BY Sizes DEF Init, Slot
  <2> QED BY <1>1, <1>3, <2>1, <2>2, <2>3
<1> QED BY <1>2, <1>3

\* Every action ends with the repainting.
LEMMA StepPainted == Painted /\ [Next]_vars => Painted'
<1> SUFFICES ASSUME Painted, [Next]_vars PROVE Painted'
  OBVIOUS
<1>1. CASE UNCHANGED vars BY <1>1 DEF vars, Painted, NumberOn, Bottom
<1>2. CASE Next
  <2>1. Repaint BY <1>2 DEF Next, Receive, KeyUp, KeyDown, Scroll
  <2> QED BY <2>1 DEF Repaint, Painted, NumberOn, Bottom
<1> QED BY <1>1, <1>2

\* A message that the history still holds is on the row that should show it.
LEMMA PaintedShows == TypeOK /\ Painted => ShowsHistory
<1> SUFFICES ASSUME TypeOK, Painted, NEW i \in Row, NEW n, n = NumberOn(i, offset),
                    n \in Number, n < msgCount, n >= msgCount - MaxHistory
             PROVE  chatWin[i] = n
  BY Zenon DEF ShowsHistory
<1> DEFINE s == n % MaxHistory
<1>1. n \in Nat /\ msgCount \in Nat BY DEF Number, TypeOK
<1>2. s \in Slot BY <1>1, Sizes, ModDef DEF Slot
<1>3. chatWin[i] = messages[s] BY <1>1 DEF Painted
<1>4. s < msgCount
  <2>1. n \div MaxHistory \in Nat /\ n = MaxHistory * (n \div MaxHistory) + s
    BY <1>1, Sizes, ModDef
  <2>2. MaxHistory * (n \div MaxHistory) >= 0 BY <2>1, Sizes
  <2>3. s \in Nat BY <1>2, Sizes DEF Slot
  <2> DEFINE p == MaxHistory * (n \div MaxHistory)
  <2>4. p \in Nat BY <2>1, <2>2, Sizes
  <2>5. n = p + s BY <2>1
  <2> HIDE DEF s, p
  <2> QED BY <1>1, <2>3, <2>4, <2>5
<1>5. /\ messages[s] \in Number /\ messages[s] % MaxHistory = s
      /\ messages[s] \in msgCount - MaxHistory .. msgCount - 1
  <2>1. s \in Nat BY <1>2, Sizes DEF Slot
  <2>2. ~ (s >= msgCount) BY <1>1, <1>4, <2>1
  <2> HIDE DEF s
  <2> QED BY <1>2, <2>2 DEF TypeOK
<1>6. messages[s] = n
  <2> DEFINE m == messages[s]
  <2>1. m \in Nat BY <1>5 DEF Number
  <2>2. m - n < MaxHistory /\ n - m < MaxHistory
    <3>1. m >= msgCount - MaxHistory /\ m <= msgCount - 1 BY <1>1, <1>5, Sizes
    <3> HIDE DEF m
    <3> QED BY <1>1, <2>1, <3>1, Sizes
  <2>3. m % MaxHistory = n % MaxHistory BY <1>5
  <2> HIDE DEF m
  <2>4. m = n BY <1>1, <2>1, <2>2, <2>3, Sizes, SameSlot
  <2> QED BY <2>4 DEF m
<1> QED BY <1>3, <1>6

\* The window shows the messages above the offset, in their order, as long as the ring
\* has not written over them.
THEOREM WindowShowsHistory == Spec => []ShowsHistory
<1>1. Spec => []TypeOK BY ChatTypeCorrect
<1>2. Spec => []Painted BY InitPainted, StepPainted, PTL DEF Spec
<1> QED BY <1>1, <1>2, PaintedShows, PTL

-----------------------------------------------------------------------------
(* The newest messages.                                                    *)

\* A difference below zero wraps to a number no offset reaches.
LEMMA WrapsHigh ==
  ASSUME NEW n \in 0 .. MaxMessages
  PROVE  /\ n >= MaxHistory => (n - MaxHistory) % Wrap = n - MaxHistory
         /\ n < MaxHistory => (n - MaxHistory) % Wrap > n
<1>1. Wrap \in Nat \ {0} /\ MaxHistory + MaxMessages < Wrap
  BY Sizes, ChatAssumption
<1>2. CASE n >= MaxHistory
  <2> DEFINE d == n - MaxHistory
  <2>1. d \in 0 .. Wrap - 1
    BY <1>1, <1>2, Sizes
  <2> HIDE DEF d
  <2>2. d % Wrap = d
    BY <1>1, <2>1, ModSmall
  <2>3. (n - MaxHistory) % Wrap = n - MaxHistory
    BY <2>2 DEF d
  <2> QED BY <1>2, <2>3, Sizes
<1>3. CASE n < MaxHistory
  <2> DEFINE d == n - MaxHistory
             e == d + Wrap
  <2>1. d \in Int /\ e \in 0 .. Wrap - 1 /\ e > n /\ e = d + Wrap
    BY <1>1, <1>3, Sizes
  <2> HIDE DEF d, e
  <2>2. d % Wrap = e
    BY <1>1, <2>1
  <2>3. (n - MaxHistory) % Wrap = e
    BY <2>2 DEF d
  <2> QED BY <1>3, <2>1, <2>3, Sizes
<1> QED BY <1>2, <1>3, Sizes

\* The offset that the messages alone lead to: up to MaxHistory - 1, where it stays for
\* the next MaxHistory messages.
Unscrolled(n) == IF n < MaxHistory THEN n
                 ELSE IF n < 2 * MaxHistory THEN MaxHistory - 1 ELSE n - MaxHistory

\* Left alone, the offset is the one the number of messages leads to.
LeftAlone == ~scrolled => offset = Unscrolled(msgCount)

LEMMA StepLeftAlone == TypeOK /\ LeftAlone /\ [Next]_vars => LeftAlone'
<1> SUFFICES ASSUME TypeOK, LeftAlone, [Next]_vars PROVE LeftAlone'
  OBVIOUS
<1>1. CASE UNCHANGED vars
  BY <1>1 DEF vars, LeftAlone
<1>2. ASSUME NEW off, Scroll(off) PROVE LeftAlone'
  BY <1>2 DEF Scroll, LeftAlone
<1>3. CASE Receive
  <2> DEFINE n == msgCount + 1
  <2>1. /\ msgCount \in Nat /\ n \in 0 .. MaxMessages /\ offset \in 0 .. msgCount
        /\ msgCount' = n /\ scrolled' = scrolled
        /\ offset' = IF Moves(n) THEN offset + 1 ELSE offset
    BY <1>3, Sizes DEF Receive, TypeOK
  <2>2. CASE scrolled
    BY <2>1, <2>2 DEF LeftAlone
  <2>3. CASE ~scrolled
    <3> DEFINE d == (n - MaxHistory) % Wrap
    <3>1. offset = Unscrolled(msgCount)
      BY <2>3 DEF LeftAlone
    <3>2. (n >= MaxHistory => d = n - MaxHistory) /\ (n < MaxHistory => d > n)
      BY <2>1, WrapsHigh
    <3>3. Moves(n) <=> offset < d
      BY <2>1 DEF Moves
    <3> HIDE DEF d
    <3>4. offset' = Unscrolled(msgCount + 1)
      <4>1. CASE n < MaxHistory
        <5>1. offset = msgCount /\ d > n
          BY <2>1, <3>1, <3>2, <4>1, Sizes DEF Unscrolled
        <5>2. (d \in Int) => offset' = msgCount + 1
          BY <2>1, <3>3, <5>1
        <5>3. d \in Int
          BY <2>1, Sizes, ChatAssumption DEF d
        <5> QED BY <2>1, <4>1, <5>2, <5>3 DEF Unscrolled
      <4>2. CASE n >= MaxHistory /\ n < 2 * MaxHistory
        <5>1. offset = MaxHistory - 1 /\ d = n - MaxHistory
          BY <2>1, <3>1, <3>2, <4>2, Sizes DEF Unscrolled
        <5>2. offset' = offset
          BY <2>1, <3>3, <4>2, <5>1, Sizes
        <5> QED BY <2>1, <4>2, <5>1, <5>2, Sizes DEF Unscrolled
      <4>3. CASE n >= 2 * MaxHistory
        <5>1. offset = n - MaxHistory - 1 /\ d = n - MaxHistory
          BY <2>1, <3>1, <3>2, <4>3, Sizes DEF Unscrolled
        <5>2. offset' = offset + 1
          BY <2>1, <3>3, <4>3, <5>1, Sizes
        <5> QED BY <2>1, <4>3, <5>1, <5>2, Sizes DEF Unscrolled
      <4> QED BY <2>1, <4>1, <4>2, <4>3, Sizes
    <3> QED BY <2>1, <3>4 DEF LeftAlone
  <2> QED BY <2>2, <2>3
<1> QED BY <1>1, <1>2, <1>3 DEF Next, KeyUp, KeyDown

\* A slot below the count that holds the newest message that belongs into it.
LEMMA NewestShown ==
  ASSUME TypeOK, Painted, NEW i \in Row, NEW n \in Nat,
         n < msgCount, n >= msgCount - MaxHistory,
         NumberOn(i, offset) \in {n, n - MaxHistory}, NumberOn(i, offset) >= 0
  PROVE  chatWin[i] = n
<1> DEFINE k == NumberOn(i, offset)
           s == k % MaxHistory
<1>1. msgCount \in Nat /\ msgCount <= MaxMessages
  BY Sizes DEF TypeOK
<1>2. k \in Nat /\ (k = n \/ k = n - MaxHistory) /\ chatWin[i] = messages[s]
  BY Sizes DEF Painted
<1> HIDE DEF k
<1>3. s = n % MaxHistory
  <2>1. CASE k = n
    BY <2>1
  <2>2. CASE k = n - MaxHistory
    BY <1>2, <2>2, Sizes, ModBack
  <2> QED BY <1>2, <2>1, <2>2
<1>4. s \in Slot /\ s \in Nat /\ s <= n
  <2>1. n \div MaxHistory \in Nat /\ n = MaxHistory * (n \div MaxHistory) + (n % MaxHistory)
        /\ n % MaxHistory \in 0 .. MaxHistory - 1
    BY Sizes, ModDef
  <2> DEFINE p == MaxHistory * (n \div MaxHistory)
             r == n % MaxHistory
  <2>2. p \in Nat
    BY <2>1, Sizes
  <2>3. n = p + r /\ r \in 0 .. MaxHistory - 1
    BY <2>1
  <2> HIDE DEF p, r
  <2>4. r \in Nat /\ r <= n
    BY <2>2, <2>3, Sizes
  <2> QED BY <1>3, <2>3, <2>4 DEF r, Slot
<1> HIDE DEF s
<1>5. /\ messages[s] \in Number /\ messages[s] % MaxHistory = s
      /\ messages[s] \in msgCount - MaxHistory .. msgCount - 1
  <2>1. ~ (s >= msgCount)
    BY <1>1, <1>4
  <2> QED BY <1>4, <2>1 DEF TypeOK
<1>6. messages[s] = n
  <2> DEFINE m == messages[s]
  <2>1. m \in Nat
    BY <1>5 DEF Number
  <2>2. m >= msgCount - MaxHistory /\ m <= msgCount - 1
    BY <1>1, <1>5, Sizes
  <2>3. m % MaxHistory = n % MaxHistory
    BY <1>3, <1>5
  <2> HIDE DEF m
  <2>4. m - n < MaxHistory /\ n - m < MaxHistory
    BY <1>1, <2>1, <2>2, Sizes
  <2>5. m = n
    BY <2>1, <2>3, <2>4, Sizes, SameSlot
  <2> QED BY <2>5 DEF m
<1> QED BY <1>2, <1>6

LEMMA LeftAloneFollows == TypeOK /\ Painted /\ LeftAlone => FollowsNewest
<1> SUFFICES ASSUME TypeOK, Painted, ~scrolled, offset = Unscrolled(msgCount),
                    msgCount \notin StandsStill, NEW i \in Row
             PROVE  LET n == msgCount - 1 - (Rows - i)
                    IN  chatWin[i] = IF n < 0 THEN NULL ELSE n
  BY DEF LeftAlone, FollowsNewest
<1> DEFINE n == msgCount - 1 - (Rows - i)
<1>1. /\ msgCount \in Nat /\ i \in 1 .. Rows /\ Rows <= MaxHistory
      /\ Rows \in Nat /\ MaxHistory \in Nat \ {0} /\ n \in Int
  BY Sizes, ChatAssumption DEF TypeOK, Row
<1>2. n < msgCount /\ n >= msgCount - MaxHistory
  BY <1>1
<1>3. CASE msgCount = 0
  <2>1. n < 0 /\ Bottom(offset) = 0
    BY <1>1, <1>3 DEF Unscrolled, Bottom
  <2>2. CASE i = Rows
    <3>1. NumberOn(i, offset) = 0
      BY <1>1, <2>1, <2>2 DEF NumberOn
    <3>2. 0 % MaxHistory = 0
      BY Sizes, ModSmall
    <3>3. messages[0] = NULL
      <4>1. 0 \in Slot
        BY Sizes DEF Slot
      <4>2. \/ messages[0] = NULL
            \/ messages[0] \in msgCount - MaxHistory .. msgCount - 1 /\ messages[0] \in Number
        BY <4>1 DEF TypeOK
      <4> QED BY <1>1, <1>3, <4>2 DEF Number
    <3> QED BY <2>1, <3>1, <3>2, <3>3 DEF Painted
  <2>3. CASE i # Rows
    <3>1. NumberOn(i, offset) < 0
      BY <1>1, <2>1, <2>3 DEF NumberOn
    <3> QED BY <2>1, <3>1 DEF Painted
  <2> QED BY <2>2, <2>3
<1>4. CASE msgCount > 0 /\ msgCount < MaxHistory
  <2>1. NumberOn(i, offset) = n
    BY <1>1, <1>4 DEF Unscrolled, NumberOn, Bottom
  <2>2. CASE n < 0
    BY <2>1, <2>2 DEF Painted
  <2>3. CASE n >= 0
    <3>1. n \in Nat
      BY <1>1, <2>3
    <3> HIDE DEF n
    <3>2. chatWin[i] = n
      BY <1>2, <2>1, <2>3, <3>1, NewestShown
    <3> QED BY <2>3, <3>1, <3>2 DEF n
  <2> QED BY <1>1, <2>2, <2>3
<1>5. CASE msgCount >= MaxHistory
  <2>1. n \in Nat
    BY <1>1, <1>5
  <2>2. CASE MaxHistory = 1 /\ msgCount = 1
    <3>1. NumberOn(i, offset) = n /\ n >= 0
      BY <1>1, <2>2 DEF Unscrolled, NumberOn, Bottom
    <3> HIDE DEF n
    <3>2. chatWin[i] = n
      BY <1>2, <2>1, <3>1, NewestShown
    <3> QED BY <2>1, <3>2 DEF n
  <2>3. CASE ~ (MaxHistory = 1 /\ msgCount = 1)
    <3>1. /\ msgCount > 2 * MaxHistory - 2
          /\ Rows = MaxHistory => msgCount > 2 * MaxHistory - 1
      BY <1>1, <1>5 DEF StandsStill
    <3>2. offset = msgCount - MaxHistory /\ offset > 0
      BY <1>1, <1>5, <2>3, <3>1 DEF Unscrolled
    <3>3. NumberOn(i, offset) = n - MaxHistory
      BY <1>1, <3>2 DEF NumberOn, Bottom
    <3>4. n - MaxHistory >= 0
      <4>1. CASE Rows = MaxHistory
        BY <1>1, <3>1, <4>1
      <4>2. CASE Rows < MaxHistory
        BY <1>1, <3>1, <4>2
      <4> QED BY <1>1, <4>1, <4>2
    <3> HIDE DEF n
    <3>5. chatWin[i] = n
      BY <1>2, <2>1, <3>3, <3>4, NewestShown
    <3> QED BY <2>1, <3>5 DEF n
  <2> QED BY <2>2, <2>3
<1> QED BY <1>1, <1>3, <1>4, <1>5

\* For histories and windows of any size: the window shows what the history holds above
\* the offset, and the newest messages while no key is pressed, but for the time after the
\* history has filled up during which it StandsStill, of which nothing is said.
THEOREM WindowCorrect == Spec => []WindowOK
<1>1. Init => LeftAlone
  <2> SUFFICES ASSUME Init PROVE LeftAlone
    OBVIOUS
  <2> QED BY Sizes DEF Init, LeftAlone, Unscrolled
<1>2. Spec => []LeftAlone
  <2>1. Spec => []TypeOK
    BY ChatTypeCorrect
  <2> QED BY <1>1, <2>1, StepLeftAlone, PTL DEF Spec
<1>3. TypeOK /\ Painted /\ LeftAlone => FollowsNewest
  BY LeftAloneFollows
<1>4. Spec => []Painted
  BY InitPainted, StepPainted, PTL DEF Spec
<1>5. ShowsHistory /\ FollowsNewest => WindowOK
  BY DEF WindowOK
<1> QED BY <1>2, <1>3, <1>4, <1>5, ChatTypeCorrect, WindowShowsHistory, PTL
=============================================================================
