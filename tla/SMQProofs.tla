------------------------------ MODULE SMQProofs ------------------------------
(***************************************************************************)
(* Proofs about SMQ, for any number of clients and messages, any number of *)
(* requests that are given up on, and a server that answers when it likes. *)
(***************************************************************************)
EXTENDS SMQ, SequenceTheorems, TLAPS

-----------------------------------------------------------------------------
(* The stages of the threads.                                              *)

\* A thread has an exchange under way exactly while it performs it, and only an answer
\* carries a message.
ExchangeInv ==
  \A c \in Client :
    /\ put[c].state = "sent" => put[c].req \in Request
    /\ pusher[c] # "perform" => put[c] = NoExchange
    /\ puller[c] # "perform" => get[c] = NoExchange
    /\ get[c].reply # NULL => get[c].state = "answered"

\* What main has done by the time it gets to a stage of the shutdown.
StageInv ==
  \A c \in Client :
    /\ main[c] \in {"join", "join_back", "deleted"} => ~inOpen[c]
    /\ main[c] \in {"join_back", "deleted"} => pusher[c] = "exited" /\ puller[c] = "exited"
    /\ main[c] = "deleted" => back[c] = "exited" /\ outgoing[c] = << >> /\ incoming[c] = << >>

ThreadInv == TypeOK /\ ExchangeInv /\ StageInv

LEMMA InitThreadInv == Init => ThreadInv
<1> SUFFICES ASSUME Init PROVE ThreadInv
  OBVIOUS
<1>1. NoExchange \in Exchange
  BY DEF NoExchange, Exchange
<1>2. << >> \in Seq(Message) /\ << >> \in Seq(Request)
  OBVIOUS
<1>3. TypeOK
  BY <1>1, <1>2, BoundAssumption DEF Init, TypeOK
<1> QED BY <1>3 DEF Init, ThreadInv, ExchangeInv, StageInv, NoExchange

\* The records that the steps build, and the pieces of a sequence.
LEMMA NoneType == NoExchange \in Exchange /\ NoExchange.state = "none" /\ NoExchange.reply = NULL
BY DEF NoExchange, Exchange

LEMMA SentType ==
  ASSUME NEW r \in Request \cup {NULL}
  PROVE  /\ Sent(r) \in Exchange
         /\ Sent(r).state = "sent" /\ Sent(r).req = r /\ Sent(r).reply = NULL
BY DEF Sent, Exchange

LEMMA PubType ==
  ASSUME NEW m \in Message
  PROVE  Pub(m) \in Request /\ Pub(m).kind = "pub" /\ Pub(m).msg = m
BY DEF Pub, Request

LEMMA RequestType ==
  /\ Sub \in Request /\ Unsub \in Request
  /\ Sub.kind # "pub" /\ Unsub.kind # "pub"
  /\ \A r \in Request : r.kind = "pub" => r.msg \in Message
BY DEF Sub, Unsub, Request

LEMMA EmptyType == << >> \in Seq(Message) /\ << >> \in Seq(Request)
OBVIOUS

\* The user and the main thread.
LEMMA MainKeepsThreadInv ==
  ASSUME ThreadInv, NEW c \in Client,
         \/ \E m \in Message : Publish(c, m)
         \/ Subscribe(c) \/ Unsubscribe(c) \/ StopRunning(c) \/ MainStep(c)
  PROVE  ThreadInv'
<1> USE DEF ThreadInv, Goto, client, server, users
<1>1. ASSUME NEW r \in Request, Queue(c, r) PROVE outgoing' \in [Client -> Seq(Request)]
  BY <1>1 DEF TypeOK, Queue
<1>2. ASSUME NEW m \in Message, Publish(c, m) PROVE ThreadInv'
  <2>1. outgoing' \in [Client -> Seq(Request)]
    BY <1>1, <1>2, PubType DEF Publish
  <2>2. published' \in [Client -> Seq(Message)]
    BY <1>2 DEF TypeOK, Publish
  <2>3. TypeOK'
    BY <1>2, <2>1, <2>2 DEF TypeOK, Publish
  <2>4. ExchangeInv' /\ StageInv'
    BY <1>2 DEF TypeOK, Publish, Queue, ExchangeInv, StageInv
  <2> QED BY <2>3, <2>4
<1>3. ASSUME NEW r \in Request, Subscription(c, r) PROVE ThreadInv'
  <2>1. outgoing' \in [Client -> Seq(Request)]
    BY <1>1, <1>3 DEF Subscription
  <2>2. queries' \in [Client -> 0 .. MaxQueries]
    BY <1>3, BoundAssumption DEF TypeOK, Subscription
  <2>3. TypeOK'
    BY <1>3, <2>1, <2>2 DEF TypeOK, Subscription
  <2>4. ExchangeInv' /\ StageInv'
    BY <1>3 DEF TypeOK, Subscription, Queue, ExchangeInv, StageInv
  <2> QED BY <2>3, <2>4
<1>4. CASE StopRunning(c) \/ CloseOutgoing(c) \/ CloseIncoming(c) \/ JoinThreads(c)
  <2>1. TypeOK'
    BY <1>4 DEF TypeOK, StopRunning, CloseOutgoing, CloseIncoming, JoinThreads
  <2>2. ExchangeInv'
    BY <1>4 DEF StopRunning, CloseOutgoing, CloseIncoming, JoinThreads, ExchangeInv
  <2>3. StageInv'
    <3>1. UNCHANGED <<back, pusher, puller, outgoing, incoming>>
      BY <1>4 DEF StopRunning, CloseOutgoing, CloseIncoming, JoinThreads
    <3>2. CASE StopRunning(c) \/ CloseOutgoing(c)
      BY <3>1, <3>2 DEF TypeOK, StopRunning, CloseOutgoing, StageInv
    <3>3. CASE CloseIncoming(c)
      BY <3>1, <3>3 DEF TypeOK, CloseIncoming, StageInv
    <3>4. CASE JoinThreads(c)
      BY <3>1, <3>4 DEF TypeOK, JoinThreads, StageInv
    <3> QED BY <1>4, <3>2, <3>3, <3>4
  <2> QED BY <2>1, <2>2, <2>3
<1>5. CASE Delete(c)
  <2>1. outgoing' \in [Client -> Seq(Request)] /\ incoming' \in [Client -> Seq(Message)]
    BY <1>5, EmptyType DEF TypeOK, Delete
  <2>2. TypeOK'
    BY <1>5, <2>1 DEF TypeOK, Delete
  <2>3. ExchangeInv' /\ StageInv'
    BY <1>5 DEF TypeOK, Delete, ExchangeInv, StageInv
  <2> QED BY <2>2, <2>3
<1> QED BY <1>2, <1>3, <1>4, <1>5, RequestType DEF Subscribe, Unsubscribe, MainStep

\* The background thread.
LEMMA BackKeepsThreadInv ==
  ASSUME ThreadInv, NEW c \in Client, BackStep(c) PROVE ThreadInv'
<1> USE DEF ThreadInv, Goto, client, server, users
<1>1. CASE Retrieve(c)
  <2>1. Head(incoming[c]) \in Message /\ Tail(incoming[c]) \in Seq(Message)
    BY <1>1 DEF TypeOK, Retrieve
  <2>2. received' \in [Client -> Seq(Message)] /\ incoming' \in [Client -> Seq(Message)]
    BY <1>1, <2>1 DEF TypeOK, Retrieve
  <2>3. TypeOK'
    BY <1>1, <2>2 DEF TypeOK, Retrieve
  <2>4. ExchangeInv' /\ StageInv'
    BY <1>1 DEF TypeOK, Retrieve, ExchangeInv, StageInv
  <2> QED BY <2>3, <2>4
<1>2. CASE BackCheck(c) \/ RetrieveNull(c)
  <2>1. TypeOK'
    BY <1>2 DEF TypeOK, BackCheck, RetrieveNull
  <2>2. ExchangeInv'
    BY <1>2 DEF BackCheck, RetrieveNull, ExchangeInv
  <2>3. StageInv'
    BY <1>2 DEF TypeOK, BackCheck, RetrieveNull, StageInv
  <2> QED BY <2>1, <2>2, <2>3
<1> QED BY <1>1, <1>2 DEF BackStep

\* smq_pusher.
LEMMA PusherKeepsThreadInv ==
  ASSUME ThreadInv, NEW c \in Client, PusherStep(c) PROVE ThreadInv'
<1> USE DEF ThreadInv, Goto, client, server, users
<1>1. CASE PusherCheck(c) \/ PusherPopNull(c)
  <2>1. TypeOK'
    BY <1>1 DEF TypeOK, PusherCheck, PusherPopNull
  <2>2. ExchangeInv'
    BY <1>1 DEF TypeOK, PusherCheck, PusherPopNull, ExchangeInv
  <2>3. StageInv'
    BY <1>1 DEF TypeOK, PusherCheck, PusherPopNull, StageInv
  <2> QED BY <2>1, <2>2, <2>3
<1>2. CASE PusherPop(c)
  <2> DEFINE r == Head(outgoing[c])
  <2>1. r \in Request /\ Tail(outgoing[c]) \in Seq(Request)
    BY <1>2 DEF TypeOK, PusherPop
  <2>2. Sent(r) \in Exchange /\ Sent(r).req = r
    BY <2>1, SentType
  <2>3. outgoing' \in [Client -> Seq(Request)] /\ put' \in [Client -> Exchange]
    BY <1>2, <2>1, <2>2 DEF TypeOK, PusherPop
  <2>4. TypeOK'
    BY <1>2, <2>3 DEF TypeOK, PusherPop
  <2>5. ExchangeInv'
    BY <1>2, <2>1, <2>2 DEF TypeOK, PusherPop, ExchangeInv
  <2>6. StageInv'
    BY <1>2 DEF TypeOK, PusherPop, StageInv
  <2> QED BY <2>4, <2>5, <2>6
<1>3. CASE PutAnswered(c) \/ PutTimesOut(c)
  <2>1. put' = [put EXCEPT ![c] = NoExchange] /\ pusher' = [pusher EXCEPT ![c] = "check"]
    BY <1>3 DEF PutAnswered, PutTimesOut
  <2>2. put' \in [Client -> Exchange]
    BY <2>1, NoneType DEF TypeOK
  <2>3. orphanPuts' \subseteq Client \X Request
    <3>1. put[c].state = "sent" => <<c, put[c].req>> \in Client \X Request
      BY DEF ExchangeInv
    <3>2. \/ orphanPuts' = orphanPuts
          \/ put[c].state = "sent" /\ orphanPuts' = orphanPuts \cup {<<c, put[c].req>>}
      BY <1>3 DEF PutAnswered, PutTimesOut
    <3>3. orphanPuts \subseteq Client \X Request
      BY DEF TypeOK
    <3> QED BY <3>1, <3>2, <3>3
  <2>4. TypeOK'
    BY <1>3, <2>2, <2>3 DEF TypeOK, PutAnswered, PutTimesOut
  <2>5. ExchangeInv'
    <3>1. UNCHANGED <<get, puller>>
      BY <1>3 DEF PutAnswered, PutTimesOut
    <3> QED BY <2>1, <3>1, NoneType DEF TypeOK, ExchangeInv
  <2>6. StageInv'
    <3>1. UNCHANGED <<main, back, puller, outgoing, incoming, inOpen>> /\ pusher[c] = "perform"
      BY <1>3 DEF PutAnswered, PutTimesOut
    <3> QED BY <2>1, <3>1 DEF TypeOK, StageInv
  <2> QED BY <2>4, <2>5, <2>6
<1> QED BY <1>1, <1>2, <1>3 DEF PusherStep

\* smq_puller.
LEMMA PullerKeepsThreadInv ==
  ASSUME ThreadInv, NEW c \in Client, PullerStep(c) PROVE ThreadInv'
<1> USE DEF ThreadInv, Goto, client, server, users
<1>1. UNCHANGED <<put, pusher, main, back, outgoing, inOpen>> /\ puller[c] # "exited"
  BY DEF PullerStep, PullerCheck, GetAnswered, GetTimesOut
<1>2. ASSUME get' \in [Client -> Exchange], puller'[c] # "perform" => get'[c] = NoExchange,
             get'[c].reply = NULL,
             \A d \in Client \ {c} : get'[d] = get[d] /\ puller'[d] = puller[d]
      PROVE  ExchangeInv'
  BY <1>1, <1>2 DEF ExchangeInv
<1>3. CASE PullerCheck(c)
  <2>1. Sent(NULL) \in Exchange /\ Sent(NULL).reply = NULL
    BY SentType
  <2>2. get' \in [Client -> Exchange]
    <3>1. get' = get \/ get' = [get EXCEPT ![c] = Sent(NULL)]
      BY <1>3 DEF PullerCheck
    <3>2. get \in [Client -> Exchange]
      BY DEF TypeOK
    <3> QED BY <2>1, <3>1, <3>2
  <2>3. TypeOK'
    BY <1>3, <2>2 DEF TypeOK, PullerCheck
  <2>4. /\ puller'[c] # "perform" => get'[c] = NoExchange
        /\ get'[c].reply = NULL
        /\ \A d \in Client \ {c} : get'[d] = get[d] /\ puller'[d] = puller[d]
    <3>1. get \in [Client -> Exchange] /\ DOMAIN puller = Client /\ puller[c] = "check"
      BY <1>3 DEF TypeOK, PullerCheck
    <3>2. get[c] = NoExchange /\ NoExchange.reply = NULL
      BY <3>1, NoneType DEF ExchangeInv
    <3>3. \/ /\ puller' = [puller EXCEPT ![c] = "perform"]
             /\ get' = [get EXCEPT ![c] = Sent(NULL)]
          \/ puller' = [puller EXCEPT ![c] = "exited"] /\ get' = get
      BY <1>3 DEF PullerCheck
    <3> QED BY <2>1, <3>1, <3>2, <3>3
  <2>5. StageInv'
    BY <1>3 DEF TypeOK, PullerCheck, StageInv
  <2> QED BY <1>2, <2>2, <2>3, <2>4, <2>5
<1>4. CASE GetAnswered(c) \/ GetTimesOut(c)
  <2>1. get' = [get EXCEPT ![c] = NoExchange] /\ puller' = [puller EXCEPT ![c] = "check"]
    BY <1>4 DEF GetAnswered, GetTimesOut
  <2>2. get' \in [Client -> Exchange]
    BY <2>1, NoneType DEF TypeOK
  <2>3. incoming' \in [Client -> Seq(Message)]
    <3>1. get[c].reply \in Message \cup {NULL}
      BY DEF TypeOK, Exchange
    <3>2. \/ incoming' = incoming
          \/ /\ get[c].reply # NULL
             /\ incoming' = [incoming EXCEPT ![c] = Append(@, get[c].reply)]
      BY <1>4 DEF GetAnswered, GetTimesOut
    <3>3. incoming \in [Client -> Seq(Message)]
      BY DEF TypeOK
    <3>4. get[c].reply # NULL => Append(incoming[c], get[c].reply) \in Seq(Message)
      BY <3>1, <3>3
    <3> QED BY <3>2, <3>3, <3>4
  <2>4. orphanGets' \in [Client -> 0 .. MaxOrphans]
    <3>1. \/ orphanGets' = orphanGets
          \/ orphanGets[c] < MaxOrphans /\ orphanGets' = [orphanGets EXCEPT ![c] = @ + 1]
      BY <1>4 DEF GetAnswered, GetTimesOut
    <3>2. orphanGets \in [Client -> 0 .. MaxOrphans]
      BY DEF TypeOK
    <3> QED BY <3>1, <3>2, BoundAssumption
  <2>5. TypeOK'
    BY <1>4, <2>2, <2>3, <2>4 DEF TypeOK, GetAnswered, GetTimesOut
  <2>6. ExchangeInv'
    <3>1. get'[c].reply = NULL /\ get'[c] = NoExchange
      BY <2>1, NoneType DEF TypeOK
    <3>2. \A d \in Client \ {c} : get'[d] = get[d] /\ puller'[d] = puller[d]
      BY <2>1 DEF TypeOK
    <3> QED BY <1>2, <2>2, <3>1, <3>2
  <2>7. StageInv'
    <3>1. \A d \in Client \ {c} : incoming'[d] = incoming[d]
      BY <1>4 DEF TypeOK, GetAnswered, GetTimesOut
    <3>2. main[c] \notin {"join_back", "deleted"}
      BY <1>4 DEF StageInv, GetAnswered, GetTimesOut
    <3> QED BY <1>1, <2>1, <3>1, <3>2 DEF TypeOK, StageInv
  <2> QED BY <2>5, <2>6, <2>7
<1> QED BY <1>3, <1>4 DEF PullerStep

\* What a request does to the server.
LEMMA HandleTypes ==
  ASSUME TypeOK, NEW c \in Client, NEW r \in Request, NEW w \in BOOLEAN, Handle(c, r, w)
  PROVE  /\ queues' \in [Client -> Seq(Message)]
         /\ subscribed' \subseteq Client /\ known' \subseteq Client
         /\ accepted' \subseteq Message \X Client \X BOOLEAN
<1>1. r.kind = "pub" => r.msg \in Message
  BY RequestType
<1>2. queues' \in [Client -> Seq(Message)]
  <2>1. CASE UNCHANGED queues
    BY <2>1 DEF TypeOK
  <2>2. CASE r.kind = "pub" /\ queues' = [d \in Client |-> IF d \in subscribed
                                              THEN Append(queues[d], r.msg) ELSE queues[d]]
    <3>1. \A d \in Client : queues[d] \in Seq(Message) /\ Append(queues[d], r.msg) \in Seq(Message)
      BY <1>1, <2>2 DEF TypeOK
    <3> QED BY <2>2, <3>1
  <2> QED BY <2>1, <2>2 DEF Handle
<1>3. subscribed' \subseteq Client /\ known' \subseteq Client
  BY DEF TypeOK, Handle
<1>4. accepted' \subseteq Message \X Client \X BOOLEAN
  <2>1. CASE UNCHANGED accepted
    BY <2>1 DEF TypeOK
  <2>2. CASE r.kind = "pub" /\ accepted' = accepted \cup ({r.msg} \X subscribed \X {w})
    <3>1. {r.msg} \X subscribed \X {w} \subseteq Message \X Client \X BOOLEAN
      BY <1>1, <2>2 DEF TypeOK
    <3>2. accepted \subseteq Message \X Client \X BOOLEAN
      BY DEF TypeOK
    <3> QED BY <2>2, <3>1, <3>2
  <2> QED BY <2>1, <2>2 DEF Handle
<1> QED BY <1>2, <1>3, <1>4

\* The server.
LEMMA ServerKeepsThreadInv ==
  ASSUME ThreadInv, NEW c \in Client, ServePut(c) \/ ServeGet(c) \/ ServeOrphanGet(c)
  PROVE  ThreadInv'
<1> USE DEF ThreadInv, client, server, users
<1>1. CASE ServePut(c)
  <2>1. put[c].req \in Request
    BY <1>1 DEF ServePut, ExchangeInv
  <2>2. put' \in [Client -> Exchange]
    <3>1. put \in [Client -> Exchange] /\ put' = [put EXCEPT ![c].state = "answered"]
      BY <1>1 DEF TypeOK, ServePut
    <3>2. [put[c] EXCEPT !.state = "answered"] \in Exchange
      BY <3>1 DEF Exchange
    <3> QED BY <3>1, <3>2
  <2>3. TypeOK'
    BY <1>1, <2>1, <2>2, HandleTypes DEF TypeOK, ServePut
  <2>4. ExchangeInv'
    BY <1>1, NoneType DEF TypeOK, ServePut, ExchangeInv
  <2>5. StageInv'
    BY <1>1 DEF ServePut, StageInv
  <2> QED BY <2>3, <2>4, <2>5
<1>2. CASE ServeGet(c)
  <2>1. queues[c] # << >> => Head(queues[c]) \in Message /\ Tail(queues[c]) \in Seq(Message)
    BY DEF TypeOK
  <2>2. queues' \in [Client -> Seq(Message)]
    BY <1>2, <2>1 DEF TypeOK, ServeGet
  <2>3. get' \in [Client -> Exchange]
    <3>1. \/ get' = [get EXCEPT ![c].state = "answered"]
          \/ /\ queues[c] # << >>
             /\ get' = [get EXCEPT ![c].state = "answered", ![c].reply = Head(queues[c])]
      BY <1>2 DEF ServeGet
    <3>2. get \in [Client -> Exchange]
      BY DEF TypeOK
    <3> QED BY <2>1, <3>1, <3>2 DEF Exchange
  <2>4. TypeOK'
    BY <1>2, <2>2, <2>3 DEF TypeOK, ServeGet
  <2>5. ExchangeInv'
    <3>1. get[c] # NoExchange
      BY <1>2, NoneType DEF ServeGet
    <3>2. get'[c].state = "answered" /\ \A d \in Client \ {c} : get'[d] = get[d]
      BY <1>2 DEF TypeOK, ServeGet, Exchange
    <3> QED BY <1>2, <3>1, <3>2 DEF ServeGet, ExchangeInv
  <2>6. StageInv'
    BY <1>2 DEF ServeGet, StageInv
  <2> QED BY <2>4, <2>5, <2>6
<1>3. CASE ServeOrphanGet(c)
  <2>1. queues[c] \in Seq(Message) /\ (queues[c] # << >> => Tail(queues[c]) \in Seq(Message))
    BY DEF TypeOK
  <2>2. queues' \in [Client -> Seq(Message)]
    BY <1>3, <2>1 DEF TypeOK, ServeOrphanGet
  <2>3. orphanGets' \in [Client -> 0 .. MaxOrphans]
    BY <1>3, BoundAssumption DEF TypeOK, ServeOrphanGet
  <2>4. TypeOK'
    BY <1>3, <2>2, <2>3 DEF TypeOK, ServeOrphanGet
  <2>5. ExchangeInv' /\ StageInv'
    BY <1>3 DEF ServeOrphanGet, ExchangeInv, StageInv
  <2> QED BY <2>4, <2>5
<1> QED BY <1>1, <1>2, <1>3

\* The server, with a request that its client has given up on.
LEMMA OrphanKeepsThreadInv ==
  ASSUME ThreadInv, NEW o \in orphanPuts, ServeOrphanPut(o) PROVE ThreadInv'
<1> USE DEF ThreadInv, client, server, users
<1>1. o[1] \in Client /\ o[2] \in Request
  BY DEF TypeOK
<1>2. TypeOK'
  BY <1>1, HandleTypes DEF TypeOK, ServeOrphanPut
<1>3. ExchangeInv' /\ StageInv'
  BY DEF ServeOrphanPut, ExchangeInv, StageInv
<1> QED BY <1>2, <1>3

\* Every step.
LEMMA NextKeepsThreadInv == ThreadInv /\ [Next]_vars => ThreadInv'
<1>1. ThreadInv /\ Next => ThreadInv'
  BY MainKeepsThreadInv, BackKeepsThreadInv, PusherKeepsThreadInv, PullerKeepsThreadInv,
     ServerKeepsThreadInv, OrphanKeepsThreadInv DEF Next
<1>2. ASSUME ThreadInv, UNCHANGED vars
      PROVE  ThreadInv'
  <2>1. TypeOK'
    BY <1>2 DEF vars, client, server, users, ThreadInv, TypeOK
  <2>2. ExchangeInv' /\ StageInv'
    BY <1>2 DEF vars, client, ThreadInv, ExchangeInv, StageInv
  <2> QED BY <2>1, <2>2 DEF ThreadInv
<1> QED BY <1>1, <1>2

\* The stages of the threads of every client fit together.
THEOREM ThreadsCorrect == SafeSpec => []ThreadInv
BY InitThreadInv, NextKeepsThreadInv, PTL DEF SafeSpec

\* Every variable of the clients and the server stays within its type.
THEOREM SMQTypeCorrect == SafeSpec => []TypeOK
BY ThreadsCorrect, PTL DEF ThreadInv

\* For any number of clients: when smq_delete has freed an SMQ, its threads have ended,
\* no exchange is under way, and its queues are empty.
THEOREM NothingAfterDelete == SafeSpec => []DeletedUnused
<1>1. ThreadInv => DeletedUnused
  BY DEF ThreadInv, ExchangeInv, StageInv, DeletedUnused
<1> QED BY <1>1, ThreadsCorrect, PTL

-----------------------------------------------------------------------------
(* Sequences that lose a part of themselves.                               *)

\* t is what is left of s when some of its elements are taken out.
LeftOf(t, s) == \E f \in [DOMAIN t -> DOMAIN s] :
                  /\ \A i \in DOMAIN t : t[i] = s[f[i]]
                  /\ \A i, j \in DOMAIN t : i < j => f[i] < f[j]

LEMMA LeftOfSame == ASSUME NEW S, NEW s \in Seq(S) PROVE LeftOf(s, s)
<1>1. [i \in DOMAIN s |-> i] \in [DOMAIN s -> DOMAIN s]
  OBVIOUS
<1> QED BY <1>1 DEF LeftOf

LEMMA LeftOfMiddle ==
  ASSUME NEW S, NEW u \in Seq(S), NEW v \in Seq(S), NEW w \in Seq(S)
  PROVE  LeftOf(u \o w, (u \o v) \o w)
<1> DEFINE t == u \o w
           s == (u \o v) \o w
           f == [i \in 1 .. Len(u) + Len(w) |-> IF i <= Len(u) THEN i ELSE i + Len(v)]
<1>1. /\ u \o v \in Seq(S) /\ Len(u \o v) = Len(u) + Len(v)
      /\ \A i \in 1 .. Len(u) + Len(v) : (u \o v)[i] = IF i <= Len(u) THEN u[i] ELSE v[i - Len(u)]
  BY ConcatProperties
<1>2. /\ t \in Seq(S) /\ Len(t) = Len(u) + Len(w)
      /\ \A i \in 1 .. Len(u) + Len(w) : t[i] = IF i <= Len(u) THEN u[i] ELSE w[i - Len(u)]
  BY ConcatProperties
<1>3. /\ s \in Seq(S) /\ Len(s) = Len(u) + Len(v) + Len(w)
      /\ \A i \in 1 .. Len(u) + Len(v) + Len(w) :
           s[i] = IF i <= Len(u) + Len(v) THEN (u \o v)[i] ELSE w[i - (Len(u) + Len(v))]
  BY <1>1, ConcatProperties
<1>4. Len(u) \in Nat /\ Len(v) \in Nat /\ Len(w) \in Nat
  BY LenProperties
<1>5. DOMAIN t = 1 .. Len(u) + Len(w) /\ DOMAIN s = 1 .. Len(u) + Len(v) + Len(w)
  BY <1>2, <1>3, LenProperties
<1> HIDE DEF t, s
<1>6. f \in [DOMAIN t -> DOMAIN s]
  BY <1>4, <1>5
<1>7. \A i, j \in DOMAIN t : i < j => f[i] < f[j]
  BY <1>4, <1>5
<1>8. \A i \in DOMAIN t : t[i] = s[f[i]]
  <2> SUFFICES ASSUME NEW i \in 1 .. Len(u) + Len(w) PROVE t[i] = s[f[i]]
    BY <1>5
  <2>1. CASE i <= Len(u)
    <3>1. i \in 1 .. Len(u) + Len(v) /\ i \in 1 .. Len(u) + Len(v) + Len(w) /\ f[i] = i
      BY <1>4, <2>1
    <3> QED BY <1>1, <1>2, <1>3, <1>4, <2>1, <3>1
  <2>2. CASE i > Len(u)
    <3>1. /\ f[i] = i + Len(v) /\ f[i] \in 1 .. Len(u) + Len(v) + Len(w)
          /\ f[i] > Len(u) + Len(v) /\ f[i] - (Len(u) + Len(v)) = i - Len(u)
      BY <1>4, <2>2
    <3>2. t[i] = w[i - Len(u)]
      BY <1>2, <1>4, <2>2
    <3>3. PICK k : k = f[i]
      OBVIOUS
    <3>4. s[k] = w[k - (Len(u) + Len(v))]
      <4>1. k \in 1 .. Len(u) + Len(v) + Len(w) /\ ~ (k <= Len(u) + Len(v))
        BY <1>4, <3>1, <3>3
      <4> QED BY <1>3, <4>1
    <3> QED BY <3>1, <3>2, <3>3, <3>4
  <2> QED BY <1>4, <2>1, <2>2
<1> QED BY <1>6, <1>7, <1>8 DEF LeftOf, t, s

\* A sequence begins with its head.
LEMMA HeadFirst ==
  ASSUME NEW S, NEW s \in Seq(S), s # << >>
  PROVE  /\ Head(s) \in S /\ Tail(s) \in Seq(S) /\ <<Head(s)>> \in Seq(S)
         /\ s = <<Head(s)>> \o Tail(s)
<1>1. /\ Head(s) \in S /\ Tail(s) \in Seq(S) /\ Len(Tail(s)) = Len(s) - 1
      /\ \A i \in 1 .. Len(Tail(s)) : Tail(s)[i] = s[i + 1]
  BY HeadTailProperties
<1>2. <<Head(s)>> \in Seq(S) /\ Len(<<Head(s)>>) = 1 /\ <<Head(s)>>[1] = Head(s)
  BY <1>1
<1>3. Len(s) \in Nat /\ Head(s) = s[1] /\ Len(s) # 0
  BY LenProperties, EmptySeq
<1> DEFINE h == <<Head(s)>>
           l == Tail(s)
<1>4. h \in Seq(S) /\ Len(h) = 1 /\ h[1] = s[1] /\ l \in Seq(S)
  BY <1>1, <1>2, <1>3
<1>5. Len(l) = Len(s) - 1 /\ \A i \in 1 .. Len(l) : l[i] = s[i + 1]
  BY <1>1
<1> HIDE DEF h, l
<1>6. /\ h \o l \in Seq(S) /\ Len(h \o l) = Len(h) + Len(l)
      /\ \A i \in 1 .. Len(h) + Len(l) : (h \o l)[i] = IF i <= Len(h) THEN h[i] ELSE l[i - Len(h)]
  BY <1>4, ConcatProperties
<1>7. \A i \in 1 .. Len(s) : (h \o l)[i] = s[i]
  <2> SUFFICES ASSUME NEW i \in 1 .. Len(s) PROVE (h \o l)[i] = s[i]
    OBVIOUS
  <2>1. CASE i = 1
    BY <1>3, <1>4, <1>5, <1>6, <2>1
  <2>2. CASE i > 1
    <3>1. i - 1 \in 1 .. Len(l) /\ (i - 1) + 1 = i /\ i \in 1 .. 1 + Len(l) /\ ~ (i <= 1)
      BY <1>3, <1>5, <2>2
    <3> QED BY <1>4, <1>5, <1>6, <3>1
  <2>3. i = 1 \/ i > 1
    <3>1. Len(s) \in Nat
      BY <1>3
    <3> QED BY <3>1
  <2> QED BY <2>1, <2>2, <2>3
<1>8. s = h \o l
  <2>1. Len(h \o l) = Len(s)
    BY <1>3, <1>4, <1>5, <1>6
  <2> QED BY <1>6, <1>7, <2>1, SeqEqual
<1> QED BY <1>1, <1>2, <1>8 DEF h, l

LEMMA LeftOfTail ==
  ASSUME NEW S, NEW u \in Seq(S), NEW s \in Seq(S), s # << >>
  PROVE  LeftOf(u \o Tail(s), u \o s)
<1>1. Tail(s) \in Seq(S) /\ <<Head(s)>> \in Seq(S) /\ s = <<Head(s)>> \o Tail(s)
  BY HeadFirst
<1> DEFINE h == <<Head(s)>>
<1> HIDE DEF h
<1>2. u \o (h \o Tail(s)) = (u \o h) \o Tail(s)
  BY <1>1, ConcatAssociative DEF h
<1>3. LeftOf(u \o Tail(s), (u \o h) \o Tail(s))
  BY <1>1, LeftOfMiddle DEF h
<1> QED BY <1>1, <1>2, <1>3 DEF h

\* An element that goes from the head of one sequence to the end of the one before it.
LEMMA MoveHead ==
  ASSUME NEW S, NEW u \in Seq(S), NEW s \in Seq(S), s # << >>
  PROVE  /\ Append(u, Head(s)) \o Tail(s) = u \o s
         /\ (u \o <<Head(s)>>) \o Tail(s) = u \o s
<1>1. /\ Head(s) \in S /\ Tail(s) \in Seq(S) /\ <<Head(s)>> \in Seq(S)
      /\ s = <<Head(s)>> \o Tail(s)
  BY HeadFirst
<1> DEFINE h == <<Head(s)>>
<1>2. Append(u, Head(s)) = u \o h
  BY <1>1, AppendIsConcat
<1> HIDE DEF h
<1>3. (u \o h) \o Tail(s) = u \o (h \o Tail(s))
  BY <1>1, ConcatAssociative DEF h
<1> QED BY <1>1, <1>2, <1>3 DEF h

LEMMA AppendToLast ==
  ASSUME NEW S, NEW u \in Seq(S), NEW s \in Seq(S), NEW e \in S
  PROVE  u \o Append(s, e) = Append(u \o s, e)
<1> DEFINE h == <<e>>
<1>1. h \in Seq(S) /\ u \o s \in Seq(S)
  BY ConcatProperties
<1>2. Append(s, e) = s \o h /\ Append(u \o s, e) = (u \o s) \o h
  BY <1>1, AppendIsConcat
<1> HIDE DEF h
<1>3. u \o (s \o h) = (u \o s) \o h
  BY <1>1, ConcatAssociative
<1> QED BY <1>2, <1>3

-----------------------------------------------------------------------------
(* What became of the messages.                                            *)

\* The requests of a client that the server may still serve while the client waits.
Line(c) == (IF put[c].state = "sent" THEN <<put[c].req>> ELSE << >>) \o outgoing[c]

\* The order in which the author of two messages published them.
Before(pub, m, n) == \E k, l \in DOMAIN pub[Author[m]] :
                        k < l /\ pub[Author[m]][k] = m /\ pub[Author[m]][l] = n

IsPublished(pub, m) == \E k \in DOMAIN pub[Author[m]] : pub[Author[m]][k] = m
NotServed(acc, m)   == \A d \in Client, w \in BOOLEAN : <<m, d, w>> \notin acc

\* A client publishes a message once.
PublishInv == \A c \in Client : IsInjective(published[c])

\* A publication still in the line was never served, is not among those the client has
\* given up on, and comes after what was served of its author and was waited for.  The
\* line is in the order of publication.
LineInv ==
  \A c \in Client : \A i \in DOMAIN Line(c) : Line(c)[i].kind = "pub" =>
    LET m == Line(c)[i].msg
    IN  /\ Author[m] = c /\ IsPublished(published, m) /\ NotServed(accepted, m)
        /\ <<c, Line(c)[i]>> \notin orphanPuts
        /\ \A j \in DOMAIN Line(c) : i < j /\ Line(c)[j].kind = "pub" => Before(published, m, Line(c)[j].msg)
        /\ \A n \in Message : \A d \in Client :
             Author[n] = c /\ <<n, d, TRUE>> \in accepted => Before(published, n, m)

\* A publication that was given up is served at most once.
OrphanInv == \A o \in orphanPuts : o[2].kind = "pub" =>
               LET m == o[2].msg IN Author[m] = o[1] /\ IsPublished(published, m) /\ NotServed(accepted, m)

\* Only what was published is served, and only what was served is on its way.
ServedInv == /\ \A a \in accepted : IsPublished(published, a[1])
             /\ \A c \in Client : \A i \in DOMAIN Trail(c) : ~ NotServed(accepted, Trail(c)[i])

HistoryInv == PublishInv /\ LineInv /\ OrphanInv /\ ServedInv
Safe       == AtMostOnce /\ AuthorOrder

\* AuthorOrder, said with Before.
LEMMA AuthorOrderIs ==
  AuthorOrder <=>
    \A c \in Client : \A i, j \in DOMAIN Trail(c) :
      /\ i < j /\ Author[Trail(c)[i]] = Author[Trail(c)[j]]
      /\ <<Trail(c)[i], c, TRUE>> \in accepted /\ <<Trail(c)[j], c, TRUE>> \in accepted
      => Before(published, Trail(c)[i], Trail(c)[j])
BY DEF AuthorOrder, Before

\* The sequences of a client.
Reply(c) == IF get[c].reply = NULL THEN << >> ELSE <<get[c].reply>>

LEMMA TrailType ==
  ASSUME TypeOK, NEW c \in Client
  PROVE  /\ received[c] \in Seq(Message) /\ incoming[c] \in Seq(Message)
         /\ Reply(c) \in Seq(Message) /\ queues[c] \in Seq(Message)
         /\ Trail(c) = ((received[c] \o incoming[c]) \o Reply(c)) \o queues[c]
         /\ Trail(c) \in Seq(Message) /\ DOMAIN Trail(c) = 1 .. Len(Trail(c))
         /\ Len(Trail(c)) \in Nat
         /\ \A i \in DOMAIN Trail(c) : Trail(c)[i] \in Message
<1>1. received[c] \in Seq(Message) /\ incoming[c] \in Seq(Message) /\ queues[c] \in Seq(Message)
  BY DEF TypeOK
<1>2. Reply(c) \in Seq(Message)
  <2>1. get[c].reply \in Message \cup {NULL}
    BY DEF TypeOK, Exchange
  <2> QED BY <2>1 DEF Reply
<1>3. Trail(c) = ((received[c] \o incoming[c]) \o Reply(c)) \o queues[c]
  BY DEF Trail, Reply
<1>4. Trail(c) \in Seq(Message)
  <2>1. received[c] \o incoming[c] \in Seq(Message)
    BY <1>1, ConcatProperties
  <2>2. (received[c] \o incoming[c]) \o Reply(c) \in Seq(Message)
    BY <1>2, <2>1, ConcatProperties
  <2> QED BY <1>1, <1>3, <2>2, ConcatProperties
<1>5. DOMAIN Trail(c) = 1 .. Len(Trail(c)) /\ Len(Trail(c)) \in Nat
  BY <1>4, LenProperties
<1> QED BY <1>1, <1>2, <1>3, <1>4, <1>5, ElementOfSeq

LEMMA TrailDomain == \A d \in Client : TypeOK => DOMAIN Trail(d) \subseteq Nat
<1> SUFFICES ASSUME NEW d \in Client, TypeOK PROVE DOMAIN Trail(d) \subseteq Nat
  OBVIOUS
<1>1. DOMAIN Trail(d) = 1 .. Len(Trail(d)) /\ Len(Trail(d)) \in Nat
  BY TrailType
<1> QED BY <1>1

First(c) == IF put[c].state = "sent" THEN <<put[c].req>> ELSE << >>

LEMMA LineType ==
  ASSUME ThreadInv, NEW c \in Client
  PROVE  /\ First(c) \in Seq(Request) /\ outgoing[c] \in Seq(Request)
         /\ Line(c) = First(c) \o outgoing[c]
         /\ Line(c) \in Seq(Request) /\ DOMAIN Line(c) = 1 .. Len(Line(c))
         /\ Len(Line(c)) \in Nat
         /\ \A i \in DOMAIN Line(c) : Line(c)[i] \in Request
<1>1. First(c) \in Seq(Request) /\ outgoing[c] \in Seq(Request)
  BY DEF First, ThreadInv, TypeOK, ExchangeInv
<1>2. Line(c) = First(c) \o outgoing[c]
  BY DEF First, Line
<1>3. Line(c) \in Seq(Request)
  BY <1>1, <1>2, ConcatProperties
<1>4. DOMAIN Line(c) = 1 .. Len(Line(c)) /\ Len(Line(c)) \in Nat
  BY <1>3, LenProperties
<1> QED BY <1>1, <1>2, <1>3, <1>4, ElementOfSeq

\* A message comes before another one of its author only.
LEMMA BeforeIsStrict ==
  ASSUME TypeOK, PublishInv, NEW m \in Message, Before(published, m, m) PROVE FALSE
<1>1. Author[m] \in Client
  BY AuthorAssumption
<1>2. IsInjective(published[Author[m]]) /\ DOMAIN published[Author[m]] \subseteq Nat
  <2>1. published[Author[m]] \in Seq(Message)
    BY <1>1 DEF TypeOK
  <2>2. DOMAIN published[Author[m]] = 1 .. Len(published[Author[m]])
    BY <2>1, LenProperties
  <2> QED BY <1>1, <2>2 DEF PublishInv
<1> QED BY <1>2 DEF Before, IsInjective

\* What LineInv says of one publication in the line.
InLine(c, m, r) ==
  /\ Author[m] = c /\ IsPublished(published, m) /\ NotServed(accepted, m)
  /\ <<c, r>> \notin orphanPuts
  /\ \A n \in Message : \A d \in Client :
       Author[n] = c /\ <<n, d, TRUE>> \in accepted => Before(published, n, m)

LEMMA LineInvIs ==
  LineInv <=>
    \A c \in Client : \A i \in DOMAIN Line(c) : Line(c)[i].kind = "pub" =>
      /\ InLine(c, Line(c)[i].msg, Line(c)[i])
      /\ \A j \in DOMAIN Line(c) : i < j /\ Line(c)[j].kind = "pub" =>
           Before(published, Line(c)[i].msg, Line(c)[j].msg)
BY DEF LineInv, InLine

\* The same of the next state.
LEMMA LineInvIsNext ==
  LineInv' <=>
    \A c \in Client : \A i \in DOMAIN Line(c)' : Line(c)'[i].kind = "pub" =>
      /\ InLine(c, Line(c)[i].msg, Line(c)[i])'
      /\ \A j \in DOMAIN Line(c)' : i < j /\ Line(c)'[j].kind = "pub" =>
           Before(published', Line(c)'[i].msg, Line(c)'[j].msg)
BY DEF LineInv, InLine

-----------------------------------------------------------------------------
(* Steps that only lose requests or messages.                              *)

LinesShrink  == \A c \in Client : LeftOf(Line(c)', Line(c))
TrailsShrink == \A c \in Client : LeftOf(Trail(c)', Trail(c))

LEMMA LosingKeepsHistory ==
  ASSUME ThreadInv, ThreadInv', HistoryInv, Safe, LinesShrink, TrailsShrink,
         UNCHANGED <<accepted, published>>,
         \A o \in orphanPuts' \ orphanPuts : o[2].kind = "pub" =>
           /\ Author[o[2].msg] = o[1]
           /\ IsPublished(published, o[2].msg) /\ NotServed(accepted, o[2].msg)
           /\ \A c \in Client : \A i \in DOMAIN Line(c)' : <<c, Line(c)'[i]>> # o
  PROVE  HistoryInv' /\ Safe'
<1>1. PublishInv'
  BY DEF HistoryInv, PublishInv
<1>2. published' = published /\ accepted' = accepted
  OBVIOUS
<1>3. LineInv'
  <2>1. ASSUME NEW c \in Client, NEW i \in DOMAIN Line(c)', Line(c)'[i].kind = "pub"
        PROVE  /\ InLine(c, Line(c)[i].msg, Line(c)[i])'
               /\ \A j \in DOMAIN Line(c)' : i < j /\ Line(c)'[j].kind = "pub" =>
                    Before(published', Line(c)'[i].msg, Line(c)'[j].msg)
    <3>1. PICK f \in [DOMAIN Line(c)' -> DOMAIN Line(c)] :
            /\ \A k \in DOMAIN Line(c)' : Line(c)'[k] = Line(c)[f[k]]
            /\ \A k, j \in DOMAIN Line(c)' : k < j => f[k] < f[j]
      BY DEF LinesShrink, LeftOf
    <3>2. PICK k \in DOMAIN Line(c) : k = f[i]
      BY <3>1
    <3>3. Line(c)'[i] = Line(c)[k]
      BY <3>1, <3>2
    <3>4. InLine(c, Line(c)[k].msg, Line(c)[k])
      BY <2>1, <3>3, LineInvIs DEF HistoryInv
    <3>5. \A j \in DOMAIN Line(c) : k < j /\ Line(c)[j].kind = "pub" =>
            Before(published, Line(c)[k].msg, Line(c)[j].msg)
      BY <2>1, <3>3, LineInvIs DEF HistoryInv
    <3>6. <<c, Line(c)'[i]>> \notin orphanPuts'
      <4>1. <<c, Line(c)'[i]>> \notin orphanPuts /\ Line(c)'[i].kind = "pub"
        BY <2>1, <3>3, <3>4 DEF InLine
      <4> QED BY <4>1
    <3>7. InLine(c, Line(c)[i].msg, Line(c)[i])'
      BY <1>2, <3>3, <3>4, <3>6 DEF InLine
    <3>8. \A j \in DOMAIN Line(c)' : i < j /\ Line(c)'[j].kind = "pub" =>
            Before(published', Line(c)'[i].msg, Line(c)'[j].msg)
      BY <1>2, <3>1, <3>2, <3>3, <3>5
    <3> QED BY <3>7, <3>8
  <2> QED BY <2>1, LineInvIsNext
<1>4. OrphanInv'
  BY <1>2 DEF HistoryInv, OrphanInv
<1>5. \A c \in Client : \A i, j \in DOMAIN Trail(c)' :
        \E k, l \in DOMAIN Trail(c) : /\ Trail(c)'[i] = Trail(c)[k] /\ Trail(c)'[j] = Trail(c)[l]
                                      /\ i < j => k < l
                                      /\ i # j => k # l
  <2> SUFFICES ASSUME NEW c \in Client, NEW i \in DOMAIN Trail(c)', NEW j \in DOMAIN Trail(c)'
               PROVE  \E k, l \in DOMAIN Trail(c) :
                        /\ Trail(c)'[i] = Trail(c)[k] /\ Trail(c)'[j] = Trail(c)[l]
                        /\ i < j => k < l
                        /\ i # j => k # l
    OBVIOUS
  <2>1. PICK f \in [DOMAIN Trail(c)' -> DOMAIN Trail(c)] :
          /\ \A k \in DOMAIN Trail(c)' : Trail(c)'[k] = Trail(c)[f[k]]
          /\ \A k, l \in DOMAIN Trail(c)' : k < l => f[k] < f[l]
    BY DEF TrailsShrink, LeftOf
  <2>2. DOMAIN Trail(c) \subseteq Nat
    BY TrailDomain DEF ThreadInv
  <2>3. (\A d \in Client : TypeOK => DOMAIN Trail(d) \subseteq Nat)'
    BY TrailDomain, PTL
  <2>4. i \in Nat /\ j \in Nat
    BY <2>3 DEF ThreadInv
  <2>5. i # j => f[i] # f[j]
    BY <2>1, <2>2, <2>4
  <2> QED BY <2>1, <2>5
<1>6. ServedInv'
  BY <1>2, <1>5 DEF HistoryInv, ServedInv
<1>7. AtMostOnce'
  <2> SUFFICES ASSUME NEW c \in Client, NEW i \in DOMAIN Trail(c)', NEW j \in DOMAIN Trail(c)',
                      Trail(c)'[i] = Trail(c)'[j], i # j
               PROVE  FALSE
    BY DEF AtMostOnce, IsInjective
  <2> QED BY <1>5 DEF Safe, AtMostOnce, IsInjective
<1>8. AuthorOrder'
  <2>1. (AuthorOrder <=>
          \A c \in Client : \A i, j \in DOMAIN Trail(c) :
            /\ i < j /\ Author[Trail(c)[i]] = Author[Trail(c)[j]]
            /\ <<Trail(c)[i], c, TRUE>> \in accepted /\ <<Trail(c)[j], c, TRUE>> \in accepted
            => Before(published, Trail(c)[i], Trail(c)[j]))'
    BY AuthorOrderIs, PTL
  <2>2. ASSUME NEW c \in Client, NEW i \in DOMAIN Trail(c)', NEW j \in DOMAIN Trail(c)',
               i < j, Author[Trail(c)'[i]] = Author[Trail(c)'[j]],
               <<Trail(c)'[i], c, TRUE>> \in accepted', <<Trail(c)'[j], c, TRUE>> \in accepted'
        PROVE  Before(published', Trail(c)'[i], Trail(c)'[j])
    <3>1. PICK k \in DOMAIN Trail(c), l \in DOMAIN Trail(c) :
            Trail(c)'[i] = Trail(c)[k] /\ Trail(c)'[j] = Trail(c)[l] /\ k < l
      BY <1>5, <2>2
    <3>2. Before(published, Trail(c)[k], Trail(c)[l])
      BY <2>2, <3>1, AuthorOrderIs DEF Safe
    <3> QED BY <1>2, <3>1, <3>2
  <2> QED BY <2>1, <2>2
<1> QED BY <1>1, <1>3, <1>4, <1>6, <1>7, <1>8 DEF HistoryInv, Safe

-----------------------------------------------------------------------------
(* Steps that add a request to a line.                                     *)

TrailsStay == \A c \in Client : Trail(c)' = Trail(c)

\* What a publication adds to the history of its author.
Publishes(c, m) == /\ Author[m] = c /\ published' = [published EXCEPT ![c] = Append(@, m)]
                   /\ \A i \in DOMAIN published[c] : published[c][i] # m

LEMMA PublishedGrows ==
  ASSUME TypeOK, PublishInv, NEW c \in Client, NEW m \in Message, Publishes(c, m)
  PROVE  /\ \A x, y \in Message : Before(published, x, y) => Before(published', x, y)
         /\ \A x \in Message : IsPublished(published, x) => IsPublished(published', x)
         /\ \A x \in Message : Author[x] = c /\ IsPublished(published, x)
                                 => Before(published', x, m)
         /\ IsPublished(published', m) /\ ~ IsPublished(published, m)
         /\ PublishInv'
<1> DEFINE p == published[c]
           n == Len(p)
<1>1. /\ p \in Seq(Message) /\ n \in Nat /\ DOMAIN p = 1 .. n
      /\ published \in [Client -> Seq(Message)]
  BY LenProperties DEF TypeOK
<1> HIDE DEF n
<1>2. /\ Append(p, m) \in Seq(Message) /\ Len(Append(p, m)) = n + 1
      /\ \A i \in 1 .. n : Append(p, m)[i] = p[i]
      /\ Append(p, m)[n + 1] = m
  BY <1>1, AppendProperties DEF n
<1>3. DOMAIN Append(p, m) = 1 .. n + 1
  BY <1>2, LenProperties
<1>4. /\ published'[c] = Append(p, m)
      /\ \A d \in Client \ {c} : published'[d] = published[d]
      /\ Author[m] = c
      /\ \A i \in 1 .. n : p[i] # m
  BY <1>1 DEF Publishes
<1> HIDE DEF p
<1>5. ASSUME NEW x \in Message
      PROVE  \A i \in DOMAIN published[Author[x]] : /\ i \in DOMAIN published'[Author[x]]
                                                    /\ published'[Author[x]][i] = published[Author[x]][i]
  <2>1. CASE Author[x] = c
    BY <1>1, <1>2, <1>3, <1>4, <2>1 DEF p
  <2>2. CASE Author[x] # c
    BY <1>4, <2>2, AuthorAssumption
  <2> QED BY <2>1, <2>2
<1>6. \A x, y \in Message : Before(published, x, y) => Before(published', x, y)
  BY <1>5 DEF Before
<1>7. \A x \in Message : IsPublished(published, x) => IsPublished(published', x)
  BY <1>5 DEF IsPublished
<1>8. IsPublished(published', m) /\ ~ IsPublished(published, m)
  BY <1>1, <1>2, <1>3, <1>4 DEF IsPublished, p
<1>9. ASSUME NEW x \in Message, Author[x] = c, IsPublished(published, x)
      PROVE  Before(published', x, m)
  <2>1. PICK k \in 1 .. n : p[k] = x
    BY <1>1, <1>9 DEF IsPublished, p
  <2>2. /\ k \in DOMAIN published'[Author[x]] /\ n + 1 \in DOMAIN published'[Author[x]]
        /\ k < n + 1
        /\ published'[Author[x]][k] = x /\ published'[Author[x]][n + 1] = m
    <3>1. k \in 1 .. n + 1 /\ n + 1 \in 1 .. n + 1 /\ k < n + 1
      BY <1>1
    <3>2. Append(p, m)[k] = x /\ Append(p, m)[n + 1] = m
      BY <1>2, <2>1
    <3>3. published'[Author[x]] = Append(p, m)
      BY <1>4, <1>9
    <3> QED BY <1>3, <3>1, <3>2, <3>3
  <2> QED BY <2>2 DEF Before
<1>10. PublishInv'
  <2>1. ASSUME NEW d \in Client \ {c} PROVE IsInjective(published'[d])
    BY <1>4 DEF PublishInv
  <2>2. IsInjective(p)
    BY DEF PublishInv, p
  <2>3. IsInjective(published'[c])
    <3> SUFFICES ASSUME NEW i \in 1 .. n + 1, NEW j \in 1 .. n + 1,
                        Append(p, m)[i] = Append(p, m)[j]
                 PROVE  i = j
      <4>1. IsInjective(Append(p, m)) => IsInjective(published'[c])
        BY <1>4
      <4> QED BY <1>3, <4>1 DEF IsInjective
    <3>1. CASE i \in 1 .. n /\ j \in 1 .. n
      BY <1>1, <1>2, <2>2, <3>1 DEF IsInjective
    <3>2. CASE i = n + 1 \/ j = n + 1
      BY <1>1, <1>2, <1>4, <3>2
    <3> QED BY <1>1, <3>1, <3>2
  <2> QED BY <2>1, <2>3 DEF PublishInv
<1> QED BY <1>6, <1>7, <1>8, <1>9, <1>10

\* AuthorOrder of the next state, said with Before.
LEMMA AuthorOrderIsNext ==
  AuthorOrder' <=>
    \A c \in Client : \A i, j \in DOMAIN Trail(c)' :
      /\ i < j /\ Author[Trail(c)'[i]] = Author[Trail(c)'[j]]
      /\ <<Trail(c)'[i], c, TRUE>> \in accepted' /\ <<Trail(c)'[j], c, TRUE>> \in accepted'
      => Before(published', Trail(c)'[i], Trail(c)'[j])
BY DEF AuthorOrder, Before

LEMMA AskingKeepsHistory ==
  ASSUME ThreadInv, ThreadInv', HistoryInv, Safe, TrailsStay,
         UNCHANGED <<accepted, orphanPuts>>, NEW c \in Client, NEW r \in Request,
         \/ Line(c)' = Line(c)
         \/ Line(c)' = Append(Line(c), r),
         \A d \in Client \ {c} : Line(d)' = Line(d),
         r.kind = "pub" => Publishes(c, r.msg),
         r.kind # "pub" => published' = published
  PROVE  HistoryInv' /\ Safe'
<1> DEFINE n == Len(Line(c))
<1>1. /\ \A x, y \in Message : Before(published, x, y) => Before(published', x, y)
      /\ \A x \in Message : IsPublished(published, x) => IsPublished(published', x)
      /\ PublishInv'
      /\ r.kind = "pub" =>
           /\ r.msg \in Message /\ Author[r.msg] = c
           /\ \A x \in Message : Author[x] = c /\ IsPublished(published, x)
                                   => Before(published', x, r.msg)
           /\ IsPublished(published', r.msg) /\ ~ IsPublished(published, r.msg)
  <2>1. CASE r.kind = "pub"
    BY <2>1, PublishedGrows, RequestType DEF ThreadInv, HistoryInv, Publishes
  <2>2. CASE r.kind # "pub"
    BY <2>2 DEF HistoryInv, PublishInv
  <2> QED BY <2>1, <2>2
<1>2. \A x : IsPublished(published, x) \/ NotServed(accepted, x)
  BY DEF HistoryInv, ServedInv, NotServed
<1>3. \A d \in Client : \A i \in DOMAIN Line(d) :
        Line(d)[i] \in Request /\ (Line(d)[i].kind = "pub" => Line(d)[i].msg \in Message)
  BY LineType, RequestType
<1>4. ASSUME NEW d \in Client, NEW i \in DOMAIN Line(d), Line(d)[i].kind = "pub",
             Line(d)'[i] = Line(d)[i]
      PROVE  /\ InLine(d, Line(d)[i].msg, Line(d)[i])'
             /\ IsPublished(published, Line(d)[i].msg) /\ Author[Line(d)[i].msg] = d
             /\ \A j \in DOMAIN Line(d) : i < j /\ Line(d)[j].kind = "pub" =>
                  Before(published', Line(d)[i].msg, Line(d)[j].msg)
  <2>1. InLine(d, Line(d)[i].msg, Line(d)[i])
    BY <1>4, LineInvIs DEF HistoryInv
  <2>2. \A j \in DOMAIN Line(d) : i < j /\ Line(d)[j].kind = "pub" =>
           Before(published, Line(d)[i].msg, Line(d)[j].msg)
    BY <1>4, LineInvIs DEF HistoryInv
  <2>3. Line(d)[i].msg \in Message
    BY <1>3, <1>4
  <2>4. accepted' = accepted /\ orphanPuts' = orphanPuts
    OBVIOUS
  <2>5. InLine(d, Line(d)[i].msg, Line(d)[i])'
    BY <1>1, <1>4, <2>1, <2>3, <2>4 DEF InLine
  <2>6. \A j \in DOMAIN Line(d) : i < j /\ Line(d)[j].kind = "pub" =>
           Before(published', Line(d)[i].msg, Line(d)[j].msg)
    BY <1>1, <1>3, <2>2, <2>3
  <2>7. IsPublished(published, Line(d)[i].msg) /\ Author[Line(d)[i].msg] = d
    BY <2>1 DEF InLine
  <2> QED BY <2>5, <2>6, <2>7
<1>5. LineInv'
  <2> SUFFICES ASSUME NEW d \in Client, NEW i \in DOMAIN Line(d)', Line(d)'[i].kind = "pub"
               PROVE  /\ InLine(d, Line(d)[i].msg, Line(d)[i])'
                      /\ \A j \in DOMAIN Line(d)' : i < j /\ Line(d)'[j].kind = "pub" =>
                           Before(published', Line(d)'[i].msg, Line(d)'[j].msg)
    BY LineInvIsNext
  <2>1. CASE Line(d)' = Line(d)
    BY <1>4, <2>1
  <2>2. CASE d = c /\ Line(c)' = Append(Line(c), r)
    <3>1. Line(c) \in Seq(Request) /\ DOMAIN Line(c) = 1 .. n /\ n \in Nat
      BY LineType
    <3> HIDE DEF n
    <3>2. /\ DOMAIN Line(c)' = 1 .. n + 1
          /\ \A k \in 1 .. n : Line(c)'[k] = Line(c)[k]
          /\ Line(c)'[n + 1] = r
      BY <2>2, <3>1, AppendProperties, LenProperties DEF n
    <3>3. CASE i \in 1 .. n
      <4>1. Line(c)'[i] = Line(c)[i] /\ i \in DOMAIN Line(c)
        BY <3>1, <3>2, <3>3
      <4>2. /\ InLine(d, Line(d)[i].msg, Line(d)[i])'
            /\ IsPublished(published, Line(d)[i].msg) /\ Author[Line(d)[i].msg] = d
            /\ \A j \in DOMAIN Line(d) : i < j /\ Line(d)[j].kind = "pub" =>
                  Before(published', Line(d)[i].msg, Line(d)[j].msg)
        BY <1>4, <2>2, <4>1
      <4>3. Line(d)[i].msg \in Message
        BY <1>3, <2>2, <4>1
      <4>4. ASSUME NEW j \in DOMAIN Line(d)', i < j, Line(d)'[j].kind = "pub"
            PROVE  Before(published', Line(d)'[i].msg, Line(d)'[j].msg)
        <5>1. CASE j \in 1 .. n
          BY <2>2, <3>1, <3>2, <4>1, <4>2, <4>4, <5>1
        <5>2. CASE j = n + 1
          BY <1>1, <2>2, <3>2, <4>1, <4>2, <4>3, <4>4, <5>2
        <5> QED BY <2>2, <3>1, <3>2, <5>1, <5>2
      <4> QED BY <4>2, <4>4
    <3>4. CASE i = n + 1
      <4>1. Line(d)'[i] = r /\ r.kind = "pub" /\ d = c
        BY <2>2, <3>2, <3>4
      <4>2. NotServed(accepted, r.msg)
        BY <1>1, <1>2, <4>1
      <4>3. <<c, r>> \notin orphanPuts
        BY <1>1, <4>1 DEF HistoryInv, OrphanInv
      <4>4. \A x \in Message : \A e \in Client :
              Author[x] = c /\ <<x, e, TRUE>> \in accepted => Before(published', x, r.msg)
        BY <1>1, <1>2, <4>1 DEF NotServed
      <4>5. accepted' = accepted /\ orphanPuts' = orphanPuts
        OBVIOUS
      <4>6. InLine(d, Line(d)[i].msg, Line(d)[i])'
        BY <1>1, <4>1, <4>2, <4>3, <4>4, <4>5 DEF InLine
      <4>7. \A j \in DOMAIN Line(d)' : ~ (i < j)
        BY <2>2, <3>1, <3>2, <3>4
      <4> QED BY <4>6, <4>7
    <3> QED BY <2>2, <3>1, <3>2, <3>3, <3>4
  <2> QED BY <2>1, <2>2
<1>6. OrphanInv'
  <2>1. \A o \in orphanPuts : o[2].kind = "pub" => o[2].msg \in Message
    BY RequestType DEF ThreadInv, TypeOK
  <2> QED BY <1>1, <2>1 DEF HistoryInv, OrphanInv
<1>7. ServedInv'
  <2>1. \A a \in accepted : a[1] \in Message
    BY DEF ThreadInv, TypeOK
  <2> QED BY <1>1, <2>1 DEF HistoryInv, ServedInv, TrailsStay
<1>8. AtMostOnce'
  BY DEF Safe, AtMostOnce, TrailsStay
<1>9. AuthorOrder'
  <2>1. \A d \in Client : \A i \in DOMAIN Trail(d) : Trail(d)[i] \in Message
    BY TrailType DEF ThreadInv
  <2> QED BY <1>1, <2>1, AuthorOrderIs, AuthorOrderIsNext DEF Safe, TrailsStay
<1> QED BY <1>1, <1>5, <1>6, <1>7, <1>8, <1>9 DEF HistoryInv, Safe

-----------------------------------------------------------------------------
(* Steps in which the server takes a publication.                          *)

LEMMA ServingKeepsHistory ==
  ASSUME ThreadInv, ThreadInv', HistoryInv, Safe, LinesShrink, published' = published,
         NEW m \in Message, NEW w \in BOOLEAN,
         accepted' = accepted \cup ({m} \X subscribed \X {w}),
         \A c \in Client : Trail(c)' = IF c \in subscribed THEN Append(Trail(c), m) ELSE Trail(c),
         IsPublished(published, m), NotServed(accepted, m),
         orphanPuts' \subseteq orphanPuts,
         \A o \in orphanPuts' : o[2].kind = "pub" => o[2].msg # m,
         \A c \in Client : \A i \in DOMAIN Line(c)' :
           Line(c)'[i].kind = "pub" => Line(c)'[i].msg # m,
         w => \A c \in Client : \A i \in DOMAIN Line(c)' :
                Author[m] = c /\ Line(c)'[i].kind = "pub" =>
                  Before(published, m, Line(c)'[i].msg),
         w => \A n \in Message : \A d \in Client :
                Author[n] = Author[m] /\ <<n, d, TRUE>> \in accepted => Before(published, n, m)
  PROVE  HistoryInv' /\ Safe'
<1>1. PublishInv'
  BY DEF HistoryInv, PublishInv
<1>2. /\ subscribed \subseteq Client
      /\ accepted \subseteq Message \X Client \X BOOLEAN
  BY DEF ThreadInv, TypeOK
<1>3. \A x, d, b : <<x, d, b>> \in accepted' <=>
                     <<x, d, b>> \in accepted \/ (x = m /\ d \in subscribed /\ b = w)
  OBVIOUS
<1>4. \A x : x # m /\ NotServed(accepted, x) => NotServed(accepted', x)
  BY <1>3 DEF NotServed
<1>5. LineInv'
  <2> SUFFICES ASSUME NEW c \in Client, NEW i \in DOMAIN Line(c)', Line(c)'[i].kind = "pub"
               PROVE  /\ InLine(c, Line(c)[i].msg, Line(c)[i])'
                      /\ \A j \in DOMAIN Line(c)' : i < j /\ Line(c)'[j].kind = "pub" =>
                           Before(published', Line(c)'[i].msg, Line(c)'[j].msg)
    BY LineInvIsNext
  <2>1. PICK f \in [DOMAIN Line(c)' -> DOMAIN Line(c)] :
          /\ \A k \in DOMAIN Line(c)' : Line(c)'[k] = Line(c)[f[k]]
          /\ \A k, j \in DOMAIN Line(c)' : k < j => f[k] < f[j]
    BY DEF LinesShrink, LeftOf
  <2>2. PICK k \in DOMAIN Line(c) : k = f[i]
    BY <2>1
  <2>3. PICK x : x = Line(c)'[i].msg
    OBVIOUS
  <2>4. Line(c)'[i] = Line(c)[k] /\ Line(c)[k].kind = "pub" /\ x = Line(c)[k].msg /\ x # m
    BY <2>1, <2>2, <2>3
  <2>5. /\ InLine(c, x, Line(c)[k])
        /\ \A j \in DOMAIN Line(c) : k < j /\ Line(c)[j].kind = "pub" =>
             Before(published, x, Line(c)[j].msg)
    BY <2>4, LineInvIs DEF HistoryInv
  <2>6. Author[x] = c /\ IsPublished(published', x) /\ NotServed(accepted', x)
    BY <1>4, <2>4, <2>5 DEF InLine
  <2>7. <<c, Line(c)'[i]>> \notin orphanPuts'
    BY <2>4, <2>5 DEF InLine
  <2>8. ASSUME NEW n \in Message, NEW d \in Client, Author[n] = c, <<n, d, TRUE>> \in accepted'
        PROVE  Before(published', n, x)
    <3>1. CASE <<n, d, TRUE>> \in accepted
      BY <2>5, <2>8, <3>1 DEF InLine
    <3>2. CASE n = m /\ w
      BY <2>3, <2>8, <3>2
    <3> QED BY <1>3, <2>8, <3>1, <3>2
  <2>9. InLine(c, Line(c)[i].msg, Line(c)[i])'
    BY <2>3, <2>6, <2>7, <2>8 DEF InLine
  <2>10. \A j \in DOMAIN Line(c)' : i < j /\ Line(c)'[j].kind = "pub" =>
           Before(published', Line(c)'[i].msg, Line(c)'[j].msg)
    BY <2>1, <2>2, <2>3, <2>5
  <2> QED BY <2>9, <2>10
<1>6. OrphanInv'
  BY <1>4 DEF HistoryInv, OrphanInv
<1>7. /\ \A c \in Client : /\ Trail(c) \in Seq(Message) /\ DOMAIN Trail(c) = 1 .. Len(Trail(c))
                           /\ Len(Trail(c)) \in Nat
                           /\ \A i \in DOMAIN Trail(c) : Trail(c)[i] \in Message /\ Trail(c)[i] # m
  <2> SUFFICES ASSUME NEW c \in Client
               PROVE  /\ Trail(c) \in Seq(Message) /\ DOMAIN Trail(c) = 1 .. Len(Trail(c))
                      /\ Len(Trail(c)) \in Nat
                      /\ \A i \in DOMAIN Trail(c) : Trail(c)[i] \in Message /\ Trail(c)[i] # m
    OBVIOUS
  <2>1. \A i \in DOMAIN Trail(c) : Trail(c)[i] # m
    BY DEF HistoryInv, ServedInv
  <2> QED BY <2>1, TrailType DEF ThreadInv
<1>8. ASSUME NEW c \in subscribed
      PROVE  /\ DOMAIN Trail(c)' = 1 .. Len(Trail(c)) + 1
             /\ \A i \in DOMAIN Trail(c) : Trail(c)'[i] = Trail(c)[i]
             /\ Trail(c)'[Len(Trail(c)) + 1] = m
  <2>1. c \in Client /\ Trail(c)' = Append(Trail(c), m)
    BY <1>2
  <2>2. Trail(c) \in Seq(Message) /\ DOMAIN Trail(c) = 1 .. Len(Trail(c))
    BY <1>7, <2>1
  <2>3. /\ Append(Trail(c), m) \in Seq(Message)
        /\ Len(Append(Trail(c), m)) = Len(Trail(c)) + 1
        /\ \A i \in 1 .. Len(Trail(c)) : Append(Trail(c), m)[i] = Trail(c)[i]
        /\ Append(Trail(c), m)[Len(Trail(c)) + 1] = m
    BY <2>2, AppendProperties
  <2>4. DOMAIN Append(Trail(c), m) = 1 .. Len(Append(Trail(c), m))
    BY <2>3, LenProperties
  <2> QED BY <2>1, <2>2, <2>3, <2>4
<1>9. \A c \in Client : \A i \in DOMAIN Trail(c)' :
        \/ i \in DOMAIN Trail(c) /\ Trail(c)'[i] = Trail(c)[i] /\ Trail(c)'[i] # m
        \/ c \in subscribed /\ i = Len(Trail(c)) + 1 /\ Trail(c)'[i] = m
  <2> SUFFICES ASSUME NEW c \in Client, NEW i \in DOMAIN Trail(c)'
               PROVE  \/ i \in DOMAIN Trail(c) /\ Trail(c)'[i] = Trail(c)[i] /\ Trail(c)'[i] # m
                      \/ c \in subscribed /\ i = Len(Trail(c)) + 1 /\ Trail(c)'[i] = m
    OBVIOUS
  <2>1. CASE c \in subscribed
    BY <1>7, <1>8, <2>1
  <2>2. CASE c \notin subscribed
    BY <1>7, <2>2
  <2> QED BY <2>1, <2>2
<1>10. ServedInv'
  <2>1. \A a \in accepted' : IsPublished(published', a[1])
    BY DEF HistoryInv, ServedInv
  <2>2. \A x : ~ NotServed(accepted, x) => ~ NotServed(accepted', x)
    BY <1>3 DEF NotServed
  <2>3. \A c \in subscribed : ~ NotServed(accepted', m)
    BY <1>2, <1>3 DEF NotServed
  <2> QED BY <1>9, <2>1, <2>2, <2>3 DEF HistoryInv, ServedInv
<1>11. AtMostOnce'
  <2> SUFFICES ASSUME NEW c \in Client, NEW i \in DOMAIN Trail(c)', NEW j \in DOMAIN Trail(c)',
                      Trail(c)'[i] = Trail(c)'[j]
               PROVE  i = j
    BY DEF AtMostOnce, IsInjective
  <2> QED BY <1>9 DEF Safe, AtMostOnce, IsInjective
<1>12. AuthorOrder'
  <2> SUFFICES ASSUME NEW c \in Client, NEW i \in DOMAIN Trail(c)', NEW j \in DOMAIN Trail(c)',
                      i < j, Author[Trail(c)'[i]] = Author[Trail(c)'[j]],
                      <<Trail(c)'[i], c, TRUE>> \in accepted', <<Trail(c)'[j], c, TRUE>> \in accepted'
               PROVE  Before(published', Trail(c)'[i], Trail(c)'[j])
    BY AuthorOrderIsNext
  <2>1. i \in DOMAIN Trail(c) /\ Trail(c)'[i] = Trail(c)[i] /\ Trail(c)'[i] # m
    <3>1. \A k \in DOMAIN Trail(c)' : k \in Nat /\ k <= Len(Trail(c)) + 1 /\ Len(Trail(c)) \in Nat
      BY <1>7, <1>9
    <3>2. i # Len(Trail(c)) + 1
      BY <3>1
    <3> QED BY <1>9, <3>2
  <2>2. <<Trail(c)[i], c, TRUE>> \in accepted /\ Trail(c)[i] \in Message
    BY <1>3, <1>7, <2>1
  <2>3. CASE j \in DOMAIN Trail(c) /\ Trail(c)'[j] = Trail(c)[j] /\ Trail(c)'[j] # m
    <3>1. <<Trail(c)[j], c, TRUE>> \in accepted
      BY <1>3, <2>3
    <3> QED BY <2>1, <2>2, <2>3, <3>1, AuthorOrderIs DEF Safe
  <2>4. CASE c \in subscribed /\ j = Len(Trail(c)) + 1 /\ Trail(c)'[j] = m
    <3>1. w
      BY <1>3, <2>4 DEF NotServed
    <3> QED BY <2>1, <2>2, <2>4, <3>1
  <2> QED BY <1>9, <2>3, <2>4
<1> QED BY <1>1, <1>5, <1>6, <1>10, <1>11, <1>12 DEF HistoryInv, Safe

-----------------------------------------------------------------------------
(* What the actions do to the lines and the trails.                        *)

LEMMA TrailSame ==
  \A c \in Client : received'[c] = received[c] /\ incoming'[c] = incoming[c]
                    /\ get'[c].reply = get[c].reply /\ queues'[c] = queues[c]
                    => Trail(c)' = Trail(c)
BY DEF Trail

LEMMA LineSame ==
  \A c \in Client : put'[c] = put[c] /\ outgoing'[c] = outgoing[c] => Line(c)' = Line(c)
BY DEF Line

LEMMA StayShrink ==
  ASSUME ThreadInv
  PROVE  /\ \A c \in Client : Trail(c)' = Trail(c) => LeftOf(Trail(c)', Trail(c))
         /\ \A c \in Client : Line(c)' = Line(c) => LeftOf(Line(c)', Line(c))
BY TrailType, LineType, LeftOfSame DEF ThreadInv

\* The background thread takes the first message of the incoming queue.
LEMMA RetrieveTrail ==
  ASSUME ThreadInv, NEW c \in Client, Retrieve(c) PROVE TrailsStay
<1>1. /\ received \in [Client -> Seq(Message)] /\ incoming \in [Client -> Seq(Message)]
      /\ get' = get /\ queues' = queues
      /\ received' = [received EXCEPT ![c] = Append(@, Head(incoming[c]))]
      /\ incoming' = [incoming EXCEPT ![c] = Tail(@)]
  BY DEF ThreadInv, TypeOK, Retrieve, server
<1>2. \A d \in Client \ {c} : Trail(d)' = Trail(d)
  BY <1>1, TrailSame
<1>3. /\ received[c] \in Seq(Message) /\ incoming[c] \in Seq(Message) /\ incoming[c] # << >>
      /\ Trail(c) = ((received[c] \o incoming[c]) \o Reply(c)) \o queues[c]
  BY TrailType DEF ThreadInv, Retrieve
<1>4. Append(received[c], Head(incoming[c])) \o Tail(incoming[c]) = received[c] \o incoming[c]
  BY <1>3, MoveHead
<1>5. /\ received'[c] = Append(received[c], Head(incoming[c]))
      /\ incoming'[c] = Tail(incoming[c]) /\ Reply(c)' = Reply(c)
  BY <1>1 DEF Reply
<1>6. Trail(c)' = ((received'[c] \o incoming'[c]) \o Reply(c)') \o queues'[c]
  BY DEF Trail, Reply
<1> QED BY <1>1, <1>2, <1>3, <1>4, <1>5, <1>6 DEF TrailsStay

\* The server answers a GET with the first message of the queue.
LEMMA ServeGetTrail ==
  ASSUME ThreadInv, NEW c \in Client, ServeGet(c) PROVE TrailsStay
<1> USE DEF ServeGet, client, users
<1>1. \A d \in Client \ {c} : Trail(d)' = Trail(d)
  BY TrailSame DEF ThreadInv, TypeOK
<1>2. get[c].reply = NULL /\ get[c] \in Exchange
  BY DEF ThreadInv, ExchangeInv, TypeOK
<1>3. CASE UNCHANGED queues /\ get' = [get EXCEPT ![c].state = "answered"]
  <2>1. get'[c].reply = get[c].reply
    BY <1>2, <1>3 DEF ThreadInv, TypeOK, Exchange
  <2> QED BY <1>1, <1>3, <2>1, TrailSame DEF TrailsStay
<1>4. CASE /\ queues[c] # << >>
           /\ get' = [get EXCEPT ![c].state = "answered", ![c].reply = Head(queues[c])]
           /\ queues' = [queues EXCEPT ![c] = Tail(@)]
  <2> DEFINE u == received[c] \o incoming[c]
             q == queues[c]
  <2>1. /\ u \in Seq(Message) /\ queues[c] \in Seq(Message) /\ q \in Seq(Message)
        /\ q # << >> /\ q = queues[c] /\ Trail(c) = (u \o Reply(c)) \o queues[c]
    BY <1>4, TrailType, ConcatProperties DEF ThreadInv
  <2>2. Head(queues[c]) \in Message
    BY <1>4, <2>1
  <2>3. get'[c].reply = Head(queues[c]) /\ queues'[c] = Tail(queues[c])
    BY <1>2, <1>4 DEF ThreadInv, TypeOK, Exchange
  <2>4. Reply(c) = << >> /\ Reply(c)' = <<Head(queues[c])>>
    BY <1>2, <2>2, <2>3, NullAssumption DEF Reply
  <2>5. Trail(c)' = (u \o Reply(c)') \o queues'[c]
    BY DEF Trail, Reply
  <2> HIDE DEF u, q
  <2>6. Trail(c) = u \o queues[c]
    BY <2>1, <2>4, ConcatEmptySeq
  <2>7. (u \o <<Head(q)>>) \o Tail(q) = u \o q
    <3>1. u \in Seq(Message) /\ q \in Seq(Message) /\ q # << >>
      BY <2>1
    <3> QED BY <3>1, MoveHead
  <2>8. (u \o Reply(c)') \o queues'[c] = u \o queues[c]
    BY <2>1, <2>3, <2>4, <2>7
  <2> QED BY <1>1, <2>5, <2>6, <2>8 DEF TrailsStay
<1> QED BY <1>3, <1>4

\* The puller gives up on an answer, or passes it on.
LEMMA GetEndsTrail ==
  ASSUME ThreadInv, NEW c \in Client, GetAnswered(c) \/ GetTimesOut(c)
  PROVE  /\ TrailsShrink
         /\ \A d \in Client \ {c} : Trail(d)' = Trail(d)
         /\ inOpen[c] /\ GetAnswered(c) => Trail(c)' = Trail(c)
<1> DEFINE u == received[c] \o incoming[c]
           q == queues[c]
<1>1. /\ received[c] \in Seq(Message) /\ incoming[c] \in Seq(Message)
      /\ u \in Seq(Message) /\ q \in Seq(Message) /\ Reply(c) \in Seq(Message)
      /\ Trail(c) = (u \o Reply(c)) \o q
  BY TrailType, ConcatProperties DEF ThreadInv
<1>2. Reply(c)' = << >>
  <2>1. get'[c].reply = NULL
    BY NoneType DEF GetAnswered, GetTimesOut, ThreadInv, TypeOK
  <2> QED BY <2>1 DEF Reply
<1>3. /\ \A d \in Client : received'[d] = received[d] /\ queues'[d] = queues[d]
      /\ \A d \in Client \ {c} : incoming'[d] = incoming[d] /\ get'[d] = get[d]
  BY DEF GetAnswered, GetTimesOut, ThreadInv, TypeOK, client, server, users
<1>4. \A d \in Client \ {c} : Trail(d)' = Trail(d)
  BY <1>3, TrailSame
<1>5. Trail(c)' = (received[c] \o incoming'[c]) \o q
  <2>1. Trail(c)' = ((received[c] \o incoming'[c]) \o << >>) \o q
    BY <1>2, <1>3 DEF Trail, Reply
  <2>2. incoming'[c] \in Seq(Message)
    <3>1. ThreadInv'
      BY PullerKeepsThreadInv DEF PullerStep
    <3> QED BY <3>1 DEF ThreadInv, TypeOK
  <2>3. received[c] \o incoming'[c] \in Seq(Message)
    BY <1>1, <2>2, ConcatProperties
  <2> QED BY <2>1, <2>3, ConcatEmptySeq
<1>6. CASE incoming'[c] = incoming[c]
  <2>1. Trail(c)' = u \o q
    BY <1>5, <1>6
  <2> HIDE DEF u, q
  <2>2. LeftOf(u \o q, (u \o Reply(c)) \o q)
    BY <1>1, LeftOfMiddle
  <2>3. TrailsShrink
    BY <1>1, <1>4, <2>1, <2>2, StayShrink DEF TrailsShrink
  <2>4. ASSUME inOpen[c], GetAnswered(c) PROVE Trail(c)' = Trail(c)
    <3>1. Reply(c) = << >>
      <4>1. CASE get[c].reply = NULL
        BY <4>1 DEF Reply
      <4>2. CASE get[c].reply # NULL
        <5>1. incoming[c] = Append(incoming[c], get[c].reply) /\ get[c].reply \in Message
          BY <1>6, <2>4, <4>2 DEF GetAnswered, ThreadInv, TypeOK, Exchange
        <5>2. Len(incoming[c]) = Len(incoming[c]) + 1 /\ Len(incoming[c]) \in Nat
          BY <1>1, <5>1, AppendProperties, LenProperties
        <5> QED BY <5>2
      <4> QED BY <4>1, <4>2
    <3> QED BY <1>1, <2>1, <3>1, ConcatEmptySeq
  <2> QED BY <1>4, <2>3, <2>4
<1>7. CASE get[c].reply # NULL /\ incoming'[c] = Append(incoming[c], get[c].reply)
  <2> DEFINE x == get[c].reply
  <2>1. x \in Message /\ Reply(c) = <<x>>
    BY <1>7 DEF ThreadInv, TypeOK, Exchange, Reply
  <2>2. received[c] \o Append(incoming[c], x) = Append(u, x)
    <3> DEFINE r == received[c]
               i == incoming[c]
    <3>1. r \in Seq(Message) /\ i \in Seq(Message) /\ x \in Message /\ u = r \o i
      BY <1>1, <2>1
    <3> HIDE DEF r, i, x, u
    <3>2. r \o Append(i, x) = Append(r \o i, x)
      BY <3>1, AppendToLast
    <3> QED BY <3>1, <3>2 DEF r, i
  <2>3. Append(u, x) = u \o <<x>>
    BY <1>1, <2>1, AppendIsConcat
  <2>4. Trail(c)' = Trail(c)
    BY <1>1, <1>5, <1>7, <2>1, <2>2, <2>3
  <2> QED BY <1>4, <2>4, StayShrink DEF TrailsShrink
<1>8. incoming'[c] = incoming[c]
      \/ (get[c].reply # NULL /\ incoming'[c] = Append(incoming[c], get[c].reply))
  BY DEF GetAnswered, GetTimesOut, ThreadInv, TypeOK, client
<1> QED BY <1>6, <1>7, <1>8

\* The handler of a GET that was given up pops a message.
LEMMA OrphanGetTrail ==
  ASSUME ThreadInv, NEW c \in Client, ServeOrphanGet(c)
  PROVE  TrailsShrink /\ \A d \in Client \ {c} : Trail(d)' = Trail(d)
<1> USE DEF ServeOrphanGet, client, users
<1>1. \A d \in Client \ {c} : Trail(d)' = Trail(d)
  BY TrailSame DEF ThreadInv, TypeOK
<1>2. CASE queues'[c] = queues[c]
  BY <1>1, <1>2, TrailSame, StayShrink DEF TrailsShrink
<1>3. CASE queues[c] # << >> /\ queues'[c] = Tail(queues[c])
  <2> DEFINE u == (received[c] \o incoming[c]) \o Reply(c)
  <2>1. u \in Seq(Message) /\ queues[c] \in Seq(Message) /\ Trail(c) = u \o queues[c]
    BY TrailType, ConcatProperties DEF ThreadInv
  <2>2. Trail(c)' = u \o queues'[c]
    BY DEF Trail, Reply
  <2> HIDE DEF u
  <2>3. LeftOf(Trail(c)', Trail(c))
    BY <1>3, <2>1, <2>2, LeftOfTail
  <2> QED BY <1>1, <2>3, StayShrink DEF TrailsShrink
<1> QED BY <1>2, <1>3 DEF ThreadInv, TypeOK

\* smq_delete frees what is left in the two queues.
LEMMA DeleteLosses ==
  ASSUME ThreadInv, NEW c \in Client, Delete(c)
  PROVE  /\ LinesShrink /\ TrailsShrink
         /\ \A d \in Client \ {c} : Trail(d)' = Trail(d)
<1> USE DEF Delete, server, users
<1>1. \A d \in Client \ {c} : Trail(d)' = Trail(d) /\ Line(d)' = Line(d)
  BY TrailSame, LineSame DEF ThreadInv, TypeOK
<1>2. LeftOf(Trail(c)', Trail(c))
  <2>1. /\ received[c] \in Seq(Message) /\ incoming[c] \in Seq(Message)
        /\ Reply(c) \in Seq(Message) /\ queues[c] \in Seq(Message)
        /\ Trail(c) = ((received[c] \o incoming[c]) \o Reply(c)) \o queues[c]
    BY TrailType DEF ThreadInv
  <2> DEFINE r == received[c]
             i == incoming[c]
             p == Reply(c)
             q == queues[c]
             w == p \o q
  <2>2. Trail(c)' = ((r \o << >>) \o Reply(c)) \o queues[c]
    BY DEF Trail, Reply, ThreadInv, TypeOK
  <2>3. w \in Seq(Message) /\ r \o i \in Seq(Message) /\ r \o << >> = r
    BY <2>1, ConcatProperties, ConcatEmptySeq
  <2>4. r \in Seq(Message) /\ i \in Seq(Message) /\ p \in Seq(Message) /\ q \in Seq(Message)
    BY <2>1
  <2>5. Trail(c) = ((r \o i) \o p) \o q /\ Trail(c)' = (r \o p) \o q
    BY <2>1, <2>2, <2>3
  <2> HIDE DEF r, i, p, q
  <2>6. ((r \o i) \o p) \o q = (r \o i) \o w
    <3> DEFINE v == r \o i
    <3>1. v \in Seq(Message)
      BY <2>3
    <3> HIDE DEF v
    <3>2. p \in Seq(Message) /\ q \in Seq(Message)
      BY <2>4
    <3>3. (v \o p) \o q = v \o (p \o q)
      BY <3>1, <3>2, ConcatAssociative
    <3> QED BY <3>3 DEF v
  <2>7. (r \o p) \o q = r \o w
    <3>1. r \in Seq(Message) /\ p \in Seq(Message) /\ q \in Seq(Message)
      BY <2>4
    <3>2. (r \o p) \o q = r \o (p \o q)
      BY <3>1, ConcatAssociative
    <3> QED BY <3>2
  <2> HIDE DEF w
  <2>8. LeftOf(r \o w, (r \o i) \o w)
    BY <2>3, <2>4, LeftOfMiddle
  <2> QED BY <2>5, <2>6, <2>7, <2>8
<1>3. LeftOf(Line(c)', Line(c))
  <2>1. First(c) \in Seq(Request) /\ outgoing[c] \in Seq(Request) /\ Line(c) = First(c) \o outgoing[c]
    BY LineType
  <2>2. Line(c)' = First(c) \o << >>
    BY DEF Line, First, ThreadInv, TypeOK
  <2> DEFINE w == << >>
  <2>3. w \in Seq(Request) /\ (First(c) \o outgoing[c]) \o w = Line(c)
    <3>1. First(c) \o outgoing[c] \in Seq(Request)
      BY <2>1, ConcatProperties
    <3> QED BY <2>1, <3>1, ConcatEmptySeq
  <2> HIDE DEF w
  <2>4. LeftOf(First(c) \o w, (First(c) \o outgoing[c]) \o w)
    BY <2>1, <2>3, LeftOfMiddle
  <2> QED BY <2>2, <2>3, <2>4 DEF w
<1> QED BY <1>1, <1>2, <1>3, StayShrink DEF LinesShrink, TrailsShrink

\* A request leaves the line: it was served, or its client gives up on it.
LEMMA HeadLeaves ==
  ASSUME ThreadInv, NEW c \in Client, put[c].state = "sent", put'[c].state # "sent",
         outgoing' = outgoing
  PROVE  /\ LeftOf(Line(c)', Line(c))
         /\ 1 \in DOMAIN Line(c) /\ Line(c)[1] = put[c].req
         /\ \A i \in DOMAIN Line(c)' : /\ i + 1 \in DOMAIN Line(c) /\ 1 < i + 1
                                       /\ Line(c)'[i] = Line(c)[i + 1]
<1> DEFINE h == <<put[c].req>>
           o == outgoing[c]
<1>1. put[c].req \in Request /\ o \in Seq(Request)
  BY DEF ThreadInv, TypeOK, ExchangeInv
<1>2. h \in Seq(Request) /\ Len(h) = 1 /\ h[1] = put[c].req
  BY <1>1
<1>3. Line(c) = h \o o
  BY DEF Line
<1>4. Line(c)' = << >> \o o
  BY DEF Line
<1> HIDE DEF h, o
<1>5. Line(c)' = o /\ DOMAIN o = 1 .. Len(o) /\ Len(o) \in Nat
  BY <1>1, <1>4, ConcatEmptySeq, LenProperties
<1>6. /\ h \o o \in Seq(Request) /\ Len(h \o o) = 1 + Len(o)
      /\ \A i \in 1 .. 1 + Len(o) : (h \o o)[i] = IF i <= 1 THEN h[i] ELSE o[i - 1]
  <2>1. /\ h \o o \in Seq(Request) /\ Len(h \o o) = Len(h) + Len(o)
        /\ \A i \in 1 .. Len(h) + Len(o) :
             (h \o o)[i] = IF i <= Len(h) THEN h[i] ELSE o[i - Len(h)]
    <3>1. h \in Seq(Request) /\ o \in Seq(Request)
      BY <1>1, <1>2
    <3> QED BY <3>1, ConcatProperties
  <2> QED BY <1>2, <2>1
<1>7. DOMAIN (h \o o) = 1 .. 1 + Len(o)
  BY <1>6, LenProperties
<1>8. LeftOf(o, h \o o)
  <2> DEFINE e == << >>
  <2>1. e \in Seq(Request) /\ e \o o = o /\ e \o h = h
    BY <1>1, <1>2, ConcatEmptySeq
  <2> HIDE DEF e
  <2>2. LeftOf(e \o o, (e \o h) \o o)
    BY <1>1, <1>2, <2>1, LeftOfMiddle
  <2> QED BY <2>1, <2>2
<1>9. \A i \in 1 .. Len(o) : (h \o o)[i + 1] = o[i]
  <2> SUFFICES ASSUME NEW i \in 1 .. Len(o) PROVE (h \o o)[i + 1] = o[i]
    OBVIOUS
  <2>1. i + 1 \in 1 .. 1 + Len(o) /\ ~ (i + 1 <= 1) /\ (i + 1) - 1 = i
    BY <1>5
  <2> QED BY <1>6, <2>1
<1>10. 1 \in DOMAIN Line(c) /\ Line(c)[1] = put[c].req
  BY <1>2, <1>3, <1>5, <1>6, <1>7
<1>11. \A i \in DOMAIN o : i + 1 \in DOMAIN (h \o o) /\ 1 < i + 1 /\ o[i] = (h \o o)[i + 1]
  BY <1>5, <1>7, <1>9
<1> QED BY <1>3, <1>5, <1>8, <1>10, <1>11

\* The requests that publish one message are equal.
LEMMA OneRequest ==
  ASSUME NEW r \in Request, NEW s \in Request, r.kind = "pub", s.kind = "pub", r.msg = s.msg
  PROVE  r = s
BY DEF Request, Sub, Unsub

\* What LineInv says of a publication at the head of the line.
LEMMA HeadInLine ==
  ASSUME ThreadInv, HistoryInv, NEW c \in Client, put[c].state = "sent", put'[c].state # "sent",
         outgoing' = outgoing, put[c].req.kind = "pub"
  PROVE  /\ put[c].req \in Request /\ put[c].req.msg \in Message
         /\ InLine(c, put[c].req.msg, put[c].req)
         /\ \A i \in DOMAIN Line(c)' : Line(c)'[i].kind = "pub" =>
              /\ Before(published, put[c].req.msg, Line(c)'[i].msg)
              /\ Line(c)'[i].msg # put[c].req.msg
<1> DEFINE r == put[c].req
<1>1. r \in Request /\ r.msg \in Message
  BY RequestType DEF ThreadInv, ExchangeInv
<1>2. /\ 1 \in DOMAIN Line(c) /\ Line(c)[1] = r
      /\ \A i \in DOMAIN Line(c)' : /\ i + 1 \in DOMAIN Line(c) /\ 1 < i + 1
                                    /\ Line(c)'[i] = Line(c)[i + 1]
  BY HeadLeaves
<1> HIDE DEF r
<1>3. /\ InLine(c, r.msg, r)
      /\ \A j \in DOMAIN Line(c) : 1 < j /\ Line(c)[j].kind = "pub" =>
           Before(published, r.msg, Line(c)[j].msg)
  <2>1. r.kind = "pub"
    BY DEF r
  <2> QED BY <1>2, <2>1, LineInvIs DEF HistoryInv
<1>4. \A i \in DOMAIN Line(c)' : Line(c)'[i].kind = "pub" =>
        Before(published, r.msg, Line(c)'[i].msg)
  BY <1>2, <1>3
<1>5. \A i \in DOMAIN Line(c)' : Line(c)'[i].kind = "pub" => Line(c)'[i].msg # r.msg
  BY <1>1, <1>4, BeforeIsStrict DEF HistoryInv, ThreadInv
<1> QED BY <1>1, <1>3, <1>4, <1>5 DEF r

-----------------------------------------------------------------------------
(* HistoryInv and Safe are preserved, action by action.                    *)

\* Steps that move threads, and nothing that is on its way.
LEMMA QuietKeepsHistory ==
  ASSUME ThreadInv, ThreadInv', HistoryInv, Safe,
         UNCHANGED <<outgoing, incoming, received, queues, accepted, published, orphanPuts, put>>,
         \A c \in Client : get'[c].reply = get[c].reply
  PROVE  HistoryInv' /\ Safe'
<1>1. TrailsShrink /\ LinesShrink
  BY TrailSame, LineSame, StayShrink DEF TrailsShrink, LinesShrink
<1> QED BY <1>1, LosingKeepsHistory

\* The user, the main thread.
LEMMA QueueLine ==
  ASSUME ThreadInv, NEW c \in Client, NEW r \in Request, Queue(c, r), put' = put
  PROVE  /\ Line(c)' = Line(c) \/ Line(c)' = Append(Line(c), r)
         /\ \A d \in Client \ {c} : Line(d)' = Line(d)
<1>1. outgoing \in [Client -> Seq(Request)]
  BY DEF ThreadInv, TypeOK
<1>2. \A d \in Client \ {c} : Line(d)' = Line(d)
  BY <1>1, LineSame DEF Queue
<1>3. CASE outgoing'[c] = outgoing[c]
  BY <1>2, <1>3, LineSame
<1>4. CASE outgoing'[c] = Append(outgoing[c], r)
  <2> DEFINE f == First(c)
             o == outgoing[c]
  <2>1. f \in Seq(Request) /\ o \in Seq(Request) /\ Line(c) = f \o o
    BY LineType
  <2>2. Line(c)' = f \o Append(o, r)
    BY <1>4 DEF Line, First
  <2> HIDE DEF f, o
  <2>3. f \o Append(o, r) = Append(f \o o, r)
    BY <2>1, AppendToLast
  <2> QED BY <1>2, <2>1, <2>2, <2>3
<1>5. outgoing'[c] = outgoing[c] \/ outgoing'[c] = Append(outgoing[c], r)
  BY <1>1 DEF Queue
<1> QED BY <1>3, <1>4, <1>5

LEMMA PublishKeepsHistory ==
  ASSUME ThreadInv, ThreadInv', HistoryInv, Safe,
         NEW c \in Client, NEW m \in Message, Publish(c, m)
  PROVE  HistoryInv' /\ Safe'
<1> DEFINE r == Pub(m)
<1>1. r \in Request /\ r.kind = "pub" /\ r.msg = m
  BY PubType
<1>2. Queue(c, r) /\ put' = put /\ UNCHANGED <<received, incoming, get, queues, accepted, orphanPuts>>
  BY DEF Publish, server
<1>3. Publishes(c, m)
  BY DEF Publish, Publishes
<1> HIDE DEF r
<1>4. TrailsStay
  BY <1>2, TrailSame DEF TrailsStay
<1>5. /\ Line(c)' = Line(c) \/ Line(c)' = Append(Line(c), r)
      /\ \A d \in Client \ {c} : Line(d)' = Line(d)
  BY <1>1, <1>2, QueueLine
<1> QED BY <1>1, <1>2, <1>3, <1>4, <1>5, AskingKeepsHistory

LEMMA SubscriptionKeepsHistory ==
  ASSUME ThreadInv, ThreadInv', HistoryInv, Safe,
         NEW c \in Client, NEW r \in {Sub, Unsub}, Subscription(c, r)
  PROVE  HistoryInv' /\ Safe'
<1>1. r \in Request /\ r.kind # "pub"
  BY RequestType
<1>2. /\ Queue(c, r) /\ put' = put /\ published' = published
      /\ UNCHANGED <<received, incoming, get, queues, accepted, orphanPuts>>
  BY DEF Subscription, server
<1>3. TrailsStay
  BY <1>2, TrailSame DEF TrailsStay
<1>4. /\ Line(c)' = Line(c) \/ Line(c)' = Append(Line(c), r)
      /\ \A d \in Client \ {c} : Line(d)' = Line(d)
  BY <1>1, <1>2, QueueLine
<1> QED BY <1>1, <1>2, <1>3, <1>4, AskingKeepsHistory

LEMMA MainKeepsHistory ==
  ASSUME ThreadInv, ThreadInv', HistoryInv, Safe, NEW c \in Client,
         \/ \E m \in Message : Publish(c, m)
         \/ Subscribe(c) \/ Unsubscribe(c) \/ StopRunning(c) \/ MainStep(c)
  PROVE  HistoryInv' /\ Safe'
<1>1. CASE StopRunning(c) \/ CloseOutgoing(c) \/ CloseIncoming(c) \/ JoinThreads(c)
  <2>1. /\ UNCHANGED <<outgoing, incoming, received, queues, accepted, published, orphanPuts, put>>
        /\ get' = get
    BY <1>1 DEF StopRunning, CloseOutgoing, CloseIncoming, JoinThreads, client, server, users
  <2> QED BY <2>1, QuietKeepsHistory
<1>2. CASE Delete(c)
  <2>1. LinesShrink /\ TrailsShrink
    BY <1>2, DeleteLosses
  <2>2. UNCHANGED <<accepted, published, orphanPuts>>
    BY <1>2 DEF Delete, server, users
  <2> QED BY <2>1, <2>2, LosingKeepsHistory
<1> QED BY <1>1, <1>2, PublishKeepsHistory, SubscriptionKeepsHistory
        DEF Subscribe, Unsubscribe, MainStep

\* The background thread.
LEMMA BackKeepsHistory ==
  ASSUME ThreadInv, ThreadInv', HistoryInv, Safe, NEW c \in Client, BackStep(c)
  PROVE  HistoryInv' /\ Safe'
<1>1. CASE Retrieve(c)
  <2>1. UNCHANGED <<outgoing, accepted, published, orphanPuts, put>>
    BY <1>1 DEF Retrieve, server
  <2>2. TrailsShrink
    BY <1>1, RetrieveTrail, StayShrink DEF TrailsStay, TrailsShrink
  <2>3. LinesShrink
    BY <2>1, LineSame, StayShrink DEF LinesShrink
  <2> QED BY <2>1, <2>2, <2>3, LosingKeepsHistory
<1>2. CASE BackCheck(c) \/ RetrieveNull(c)
  <2>1. /\ UNCHANGED <<outgoing, incoming, received, queues, accepted, published, orphanPuts, put>>
        /\ get' = get
    BY <1>2 DEF BackCheck, RetrieveNull, client, server, users
  <2> QED BY <2>1, QuietKeepsHistory
<1> QED BY <1>1, <1>2 DEF BackStep

\* The pusher.
LEMMA PusherKeepsHistory ==
  ASSUME ThreadInv, ThreadInv', HistoryInv, Safe, NEW c \in Client, PusherStep(c)
  PROVE  HistoryInv' /\ Safe'
<1>1. CASE PusherCheck(c) \/ PusherPopNull(c)
  <2>1. /\ UNCHANGED <<outgoing, incoming, received, queues, accepted, published, orphanPuts, put>>
        /\ get' = get
    BY <1>1 DEF PusherCheck, PusherPopNull, client, server, users
  <2> QED BY <2>1, QuietKeepsHistory
<1>2. CASE PusherPop(c) \/ PutAnswered(c) \/ PutTimesOut(c)
  <2>1. /\ UNCHANGED <<incoming, received, queues, accepted, published>> /\ get' = get
    BY <1>2 DEF PusherPop, PutAnswered, PutTimesOut, client, server, users
  <2>2. TrailsShrink
    BY <2>1, TrailSame, StayShrink DEF TrailsShrink
  <2>3. put \in [Client -> Exchange] /\ outgoing \in [Client -> Seq(Request)]
    BY DEF ThreadInv, TypeOK
  <2>4. \A d \in Client \ {c} : Line(d)' = Line(d)
    <3>1. \A d \in Client \ {c} : put'[d] = put[d] /\ outgoing'[d] = outgoing[d]
      BY <1>2, <2>3 DEF PusherPop, PutAnswered, PutTimesOut, client
    <3> QED BY <3>1, LineSame
  <2>5. ASSUME Line(c)' = Line(c), orphanPuts' = orphanPuts PROVE HistoryInv' /\ Safe'
    <3>1. LinesShrink
      BY <2>4, <2>5, StayShrink DEF LinesShrink
    <3> QED BY <2>1, <2>2, <2>5, <3>1, LosingKeepsHistory
  <2>6. CASE PusherPop(c)
    <3> DEFINE o == outgoing[c]
               e == << >>
    <3>1. o \in Seq(Request) /\ o # << >> /\ e \in Seq(Request)
      BY <2>3, <2>6 DEF PusherPop
    <3>2. put[c].state = "none"
      BY <2>6, NoneType DEF PusherPop, ThreadInv, ExchangeInv
    <3>3. Line(c) = e \o o
      BY <3>2 DEF Line
    <3>4. Head(o) \in Request
      BY <3>1, HeadFirst
    <3>5. put'[c] = Sent(Head(o)) /\ outgoing'[c] = Tail(o)
      BY <2>3, <2>6 DEF PusherPop
    <3>6. Line(c)' = <<Head(o)>> \o Tail(o)
      <4>1. put'[c].state = "sent" /\ put'[c].req = Head(o)
        BY <3>4, <3>5, SentType
      <4> QED BY <3>5, <4>1 DEF Line
    <3> HIDE DEF o, e
    <3>7. Line(c)' = Line(c)
      <4>1. o = <<Head(o)>> \o Tail(o) /\ e \o o = o
        <5>1. o \in Seq(Request) /\ o # << >>
          BY <3>1
        <5>2. o = <<Head(o)>> \o Tail(o)
          BY <5>1, HeadFirst
        <5>3. e \o o = o
          BY <5>1, ConcatEmptySeq DEF e
        <5> QED BY <5>2, <5>3
      <4> QED BY <3>3, <3>6, <4>1
    <3>8. orphanPuts' = orphanPuts
      BY <2>6 DEF PusherPop, server
    <3> QED BY <2>5, <3>7, <3>8
  <2>7. CASE ~ PusherPop(c) /\ put[c].state # "sent"
    <3>1. put'[c] = NoExchange /\ outgoing' = outgoing
      BY <1>2, <2>3, <2>7 DEF PutAnswered, PutTimesOut, client
    <3>2. Line(c)' = Line(c)
      BY <2>7, <3>1, NoneType DEF Line
    <3>3. orphanPuts' = orphanPuts
      BY <1>2, <2>7 DEF PutAnswered, PutTimesOut, server
    <3> QED BY <2>5, <3>2, <3>3
  <2>8. CASE PutTimesOut(c) /\ put[c].state = "sent"
    <3> DEFINE r == put[c].req
    <3>1. put'[c].state # "sent" /\ outgoing' = outgoing
      BY <2>3, <2>8, NoneType DEF PutTimesOut, client
    <3>2. LeftOf(Line(c)', Line(c))
      BY <2>8, <3>1, HeadLeaves
    <3>3. LinesShrink
      BY <2>4, <3>2, StayShrink DEF LinesShrink
    <3>4. orphanPuts' \subseteq orphanPuts \cup {<<c, r>>}
      BY <2>8 DEF PutTimesOut
    <3>5. ASSUME r.kind = "pub"
          PROVE  /\ Author[r.msg] = c /\ IsPublished(published, r.msg) /\ NotServed(accepted, r.msg)
                 /\ \A d \in Client : \A i \in DOMAIN Line(d)' : <<d, Line(d)'[i]>> # <<c, r>>
      <4>1. /\ InLine(c, r.msg, r)
            /\ \A i \in DOMAIN Line(c)' : Line(c)'[i].kind = "pub" => Line(c)'[i].msg # r.msg
        BY <2>8, <3>1, <3>5, HeadInLine
      <4>2. \A d \in Client : \A i \in DOMAIN Line(d)' : <<d, Line(d)'[i]>> # <<c, r>>
        BY <3>5, <4>1
      <4> QED BY <4>1, <4>2 DEF InLine
    <3> HIDE DEF r
    <3>6. \A o \in orphanPuts' \ orphanPuts : o[2].kind = "pub" =>
            /\ Author[o[2].msg] = o[1]
            /\ IsPublished(published, o[2].msg) /\ NotServed(accepted, o[2].msg)
            /\ \A d \in Client : \A i \in DOMAIN Line(d)' : <<d, Line(d)'[i]>> # o
      <4> SUFFICES ASSUME NEW o \in orphanPuts' \ orphanPuts, o[2].kind = "pub"
                   PROVE  /\ Author[o[2].msg] = o[1]
                          /\ IsPublished(published, o[2].msg) /\ NotServed(accepted, o[2].msg)
                          /\ \A d \in Client : \A i \in DOMAIN Line(d)' : <<d, Line(d)'[i]>> # o
        OBVIOUS
      <4>1. o = <<c, r>> /\ o[1] = c /\ o[2] = r
        BY <3>4
      <4> QED BY <3>5, <4>1
    <3> QED BY <2>1, <2>2, <3>3, <3>6, LosingKeepsHistory
  <2> QED BY <1>2, <2>6, <2>7, <2>8 DEF PutAnswered
<1> QED BY <1>1, <1>2 DEF PusherStep

\* The puller.
LEMMA PullerKeepsHistory ==
  ASSUME ThreadInv, ThreadInv', HistoryInv, Safe, NEW c \in Client, PullerStep(c)
  PROVE  HistoryInv' /\ Safe'
<1>1. CASE PullerCheck(c)
  <2>1. UNCHANGED <<outgoing, incoming, received, queues, accepted, published, orphanPuts, put>>
    BY <1>1 DEF PullerCheck, client, server, users
  <2>2. get \in [Client -> Exchange] /\ get[c] = NoExchange
    BY <1>1 DEF PullerCheck, ThreadInv, TypeOK, ExchangeInv
  <2>3. get'[c].reply = NULL /\ \A d \in Client \ {c} : get'[d] = get[d]
    <3>1. get' = get \/ get' = [get EXCEPT ![c] = Sent(NULL)]
      BY <1>1 DEF PullerCheck
    <3>2. Sent(NULL).reply = NULL
      BY SentType
    <3> QED BY <2>2, <3>1, <3>2, NoneType
  <2>4. \A d \in Client : get'[d].reply = get[d].reply
    BY <2>2, <2>3, NoneType
  <2> QED BY <2>1, <2>4, QuietKeepsHistory
<1>2. CASE GetAnswered(c) \/ GetTimesOut(c)
  <2>1. UNCHANGED <<outgoing, accepted, published, orphanPuts, put>>
    BY <1>2 DEF GetAnswered, GetTimesOut, client, server, users
  <2>2. TrailsShrink
    BY <1>2, GetEndsTrail
  <2>3. LinesShrink
    BY <2>1, LineSame, StayShrink DEF LinesShrink
  <2> QED BY <2>1, <2>2, <2>3, LosingKeepsHistory
<1> QED BY <1>1, <1>2 DEF PullerStep

\* The server queues a message for its subscribers, or changes who they are.
LEMMA HandleTrail ==
  ASSUME ThreadInv, NEW c \in Client, NEW r \in Request, NEW w \in BOOLEAN, Handle(c, r, w),
         received' = received, incoming' = incoming,
         \A d \in Client : get'[d].reply = get[d].reply
  PROVE  /\ r.kind # "pub" => TrailsStay /\ accepted' = accepted
         /\ r.kind = "pub" =>
              /\ \A d \in Client :
                   Trail(d)' = IF d \in subscribed THEN Append(Trail(d), r.msg) ELSE Trail(d)
              /\ accepted' = accepted \cup ({r.msg} \X subscribed \X {w})
<1>1. ASSUME r.kind # "pub" PROVE TrailsStay /\ accepted' = accepted
  <2>1. queues' = queues /\ accepted' = accepted
    BY <1>1 DEF Handle
  <2> QED BY <2>1, TrailSame DEF TrailsStay
<1>2. ASSUME r.kind = "pub" PROVE accepted' = accepted \cup ({r.msg} \X subscribed \X {w})
  BY <1>2 DEF Handle
<1>3. ASSUME r.kind = "pub", NEW d \in Client
      PROVE  Trail(d)' = IF d \in subscribed THEN Append(Trail(d), r.msg) ELSE Trail(d)
  <2>1. r.msg \in Message
    BY <1>3, RequestType
  <2>2. queues'[d] = IF d \in subscribed THEN Append(queues[d], r.msg) ELSE queues[d]
    BY <1>3 DEF Handle
  <2> DEFINE u == (received[d] \o incoming[d]) \o Reply(d)
             q == queues[d]
  <2>3. u \in Seq(Message) /\ q \in Seq(Message) /\ Trail(d) = u \o q
    <3>1. received[d] \o incoming[d] \in Seq(Message)
      BY TrailType, ConcatProperties DEF ThreadInv
    <3> QED BY <3>1, TrailType, ConcatProperties DEF ThreadInv
  <2>4. Trail(d)' = u \o queues'[d]
    BY DEF Trail, Reply
  <2> HIDE DEF u
  <2>5. CASE d \notin subscribed
    BY <2>2, <2>3, <2>4, <2>5
  <2>6. CASE d \in subscribed
    <3>1. Trail(d)' = u \o Append(q, r.msg)
      BY <2>2, <2>4, <2>6
    <3> HIDE DEF q
    <3>2. u \o Append(q, r.msg) = Append(u \o q, r.msg)
      <4>1. u \in Seq(Message) /\ q \in Seq(Message)
        BY <2>3
      <4> QED BY <2>1, <4>1, AppendToLast
    <3> QED BY <2>3, <2>6, <3>1, <3>2
  <2> QED BY <2>5, <2>6
<1> QED BY <1>1, <1>2, <1>3

LEMMA ServePutKeepsHistory ==
  ASSUME ThreadInv, ThreadInv', HistoryInv, Safe, NEW c \in Client, ServePut(c)
  PROVE  HistoryInv' /\ Safe'
<1> DEFINE r == put[c].req
<1>1. r \in Request /\ Handle(c, r, TRUE)
  BY DEF ServePut, ThreadInv, ExchangeInv
<1>2. /\ UNCHANGED <<outgoing, incoming, received, published, orphanPuts>> /\ get' = get
      /\ put[c].state = "sent" /\ put' = [put EXCEPT ![c].state = "answered"]
  BY DEF ServePut, client, users
<1>3. put \in [Client -> Exchange]
  BY DEF ThreadInv, TypeOK
<1>4. put'[c].state # "sent" /\ \A d \in Client \ {c} : put'[d] = put[d]
  BY <1>2, <1>3 DEF Exchange
<1>5. LinesShrink
  <2>1. LeftOf(Line(c)', Line(c))
    BY <1>2, <1>4, HeadLeaves
  <2>2. \A d \in Client \ {c} : Line(d)' = Line(d)
    BY <1>2, <1>4, LineSame
  <2> QED BY <2>1, <2>2, StayShrink DEF LinesShrink
<1>6. /\ r.kind # "pub" => TrailsStay /\ accepted' = accepted
      /\ r.kind = "pub" =>
           /\ \A d \in Client :
                Trail(d)' = IF d \in subscribed THEN Append(Trail(d), r.msg) ELSE Trail(d)
           /\ accepted' = accepted \cup ({r.msg} \X subscribed \X {TRUE})
  BY <1>1, <1>2, HandleTrail
<1>7. CASE r.kind # "pub"
  <2>1. TrailsShrink
    BY <1>6, <1>7, StayShrink DEF TrailsStay, TrailsShrink
  <2> QED BY <1>2, <1>5, <1>6, <1>7, <2>1, LosingKeepsHistory
<1>8. CASE r.kind = "pub"
  <2>1. /\ r.msg \in Message /\ InLine(c, r.msg, r)
        /\ \A i \in DOMAIN Line(c)' : Line(c)'[i].kind = "pub" =>
             /\ Before(published, r.msg, Line(c)'[i].msg)
             /\ Line(c)'[i].msg # r.msg
    BY <1>2, <1>4, <1>8, HeadInLine
  <2> HIDE DEF r
  <2> DEFINE m == r.msg
  <2>2. m \in Message /\ Author[m] = c /\ IsPublished(published, m) /\ NotServed(accepted, m)
    BY <2>1 DEF InLine
  <2>3. \A o \in orphanPuts' : o[2].kind = "pub" => o[2].msg # m
    <3> SUFFICES ASSUME NEW o \in orphanPuts, o[2].kind = "pub", o[2].msg = m PROVE FALSE
      BY <1>2
    <3>1. o = <<o[1], o[2]>> /\ o[2] \in Request
      BY DEF ThreadInv, TypeOK
    <3>2. o[1] = c
      BY <2>2 DEF HistoryInv, OrphanInv
    <3>3. o[2] = r
      BY <1>1, <1>8, <3>1, OneRequest
    <3>4. <<c, r>> \notin orphanPuts
      BY <2>1 DEF InLine
    <3> QED BY <3>1, <3>2, <3>3, <3>4
  <2>4. ASSUME NEW d \in Client, NEW i \in DOMAIN Line(d)', Line(d)'[i].kind = "pub"
        PROVE  Line(d)'[i].msg # m
    <3>1. CASE d = c
      BY <2>1, <2>4, <3>1
    <3>2. CASE d # c
      <4>1. Line(d)' = Line(d)
        BY <1>2, <1>4, <3>2, LineSame
      <4>2. Author[Line(d)[i].msg] = d
        BY <2>4, <4>1, LineInvIs DEF HistoryInv, InLine
      <4> QED BY <2>2, <3>2, <4>1, <4>2
    <3> QED BY <3>1, <3>2
  <2>5. \A d \in Client : \A i \in DOMAIN Line(d)' :
          Author[m] = d /\ Line(d)'[i].kind = "pub" => Before(published, m, Line(d)'[i].msg)
    BY <2>1, <2>2
  <2>6. \A n \in Message : \A d \in Client :
          Author[n] = Author[m] /\ <<n, d, TRUE>> \in accepted => Before(published, n, m)
    BY <2>1, <2>2 DEF InLine
  <2>7. /\ \A d \in Client : Trail(d)' = IF d \in subscribed THEN Append(Trail(d), m) ELSE Trail(d)
        /\ accepted' = accepted \cup ({m} \X subscribed \X {TRUE})
        /\ published' = published /\ orphanPuts' \subseteq orphanPuts
    BY <1>2, <1>6, <1>8
  <2> HIDE DEF m
  <2> QED BY <1>5, <2>2, <2>3, <2>4, <2>5, <2>6, <2>7, ServingKeepsHistory
<1> QED BY <1>7, <1>8

LEMMA ServeOrphanKeepsHistory ==
  ASSUME ThreadInv, ThreadInv', HistoryInv, Safe, NEW o \in orphanPuts, ServeOrphanPut(o)
  PROVE  HistoryInv' /\ Safe'
<1> DEFINE c == o[1]
           r == o[2]
<1>1. c \in Client /\ r \in Request /\ o = <<c, r>> /\ Handle(c, r, FALSE)
  <2>1. orphanPuts \subseteq Client \X Request
    BY DEF ThreadInv, TypeOK
  <2>2. Handle(c, r, FALSE)
    BY DEF ServeOrphanPut
  <2>3. c \in Client /\ r \in Request /\ o = <<c, r>>
    BY <2>1
  <2> QED BY <2>2, <2>3
<1>2. /\ UNCHANGED <<outgoing, incoming, received, published, put>> /\ get' = get
      /\ orphanPuts' = orphanPuts \ {o}
  BY DEF ServeOrphanPut, client, users
<1> HIDE DEF c, r
<1>3. LinesShrink /\ \A d \in Client : Line(d)' = Line(d)
  BY <1>2, LineSame, StayShrink DEF LinesShrink
<1>4. /\ r.kind # "pub" => TrailsStay /\ accepted' = accepted
      /\ r.kind = "pub" =>
           /\ \A d \in Client :
                Trail(d)' = IF d \in subscribed THEN Append(Trail(d), r.msg) ELSE Trail(d)
           /\ accepted' = accepted \cup ({r.msg} \X subscribed \X {FALSE})
  BY <1>1, <1>2, HandleTrail
<1>5. CASE r.kind # "pub"
  <2>1. TrailsShrink
    BY <1>4, <1>5, StayShrink DEF TrailsStay, TrailsShrink
  <2>2. orphanPuts' \ orphanPuts = {}
    BY <1>2
  <2> QED BY <1>2, <1>3, <1>4, <1>5, <2>1, <2>2, LosingKeepsHistory
<1>6. CASE r.kind = "pub"
  <2> DEFINE m == r.msg
  <2>1. m \in Message /\ Author[m] = c /\ IsPublished(published, m) /\ NotServed(accepted, m)
    BY <1>1, <1>6, RequestType DEF HistoryInv, OrphanInv, c, r
  <2>2. \A p \in orphanPuts' : p[2].kind = "pub" => p[2].msg # m
    <3> SUFFICES ASSUME NEW p \in orphanPuts \ {o}, p[2].kind = "pub", p[2].msg = m PROVE FALSE
      BY <1>2
    <3>1. p = <<p[1], p[2]>> /\ p[2] \in Request
      BY DEF ThreadInv, TypeOK
    <3>2. p[1] = c
      BY <2>1 DEF HistoryInv, OrphanInv
    <3>3. p[2] = r
      BY <1>1, <1>6, <3>1, OneRequest
    <3> QED BY <1>1, <3>1, <3>2, <3>3
  <2>3. ASSUME NEW d \in Client, NEW i \in DOMAIN Line(d)', Line(d)'[i].kind = "pub",
               Line(d)'[i].msg = m
        PROVE  FALSE
    <3>1. Line(d)' = Line(d)
      BY <1>3
    <3>2. InLine(d, Line(d)[i].msg, Line(d)[i]) /\ Line(d)[i] \in Request
      BY <2>3, <3>1, LineInvIs, LineType DEF HistoryInv
    <3>3. d = c
      BY <2>1, <2>3, <3>1, <3>2 DEF InLine
    <3>4. Line(d)[i] = r
      BY <1>1, <1>6, <2>3, <3>1, <3>2, OneRequest
    <3> QED BY <1>1, <3>2, <3>3, <3>4 DEF InLine
  <2>4. /\ \A d \in Client : Trail(d)' = IF d \in subscribed THEN Append(Trail(d), m) ELSE Trail(d)
        /\ accepted' = accepted \cup ({m} \X subscribed \X {FALSE})
        /\ published' = published /\ orphanPuts' \subseteq orphanPuts
    BY <1>2, <1>4, <1>6
  <2> HIDE DEF m
  <2> QED BY <1>3, <2>1, <2>2, <2>3, <2>4, ServingKeepsHistory
<1> QED BY <1>5, <1>6

LEMMA ServerKeepsHistory ==
  ASSUME ThreadInv, ThreadInv', HistoryInv, Safe, NEW c \in Client,
         ServeGet(c) \/ ServeOrphanGet(c)
  PROVE  HistoryInv' /\ Safe'
<1>1. UNCHANGED <<outgoing, accepted, published, orphanPuts, put>>
  BY DEF ServeGet, ServeOrphanGet, client, users
<1>2. TrailsShrink
  BY ServeGetTrail, OrphanGetTrail, StayShrink DEF TrailsStay, TrailsShrink
<1>3. LinesShrink
  BY <1>1, LineSame, StayShrink DEF LinesShrink
<1> QED BY <1>1, <1>2, <1>3, LosingKeepsHistory

-----------------------------------------------------------------------------
(* Every step, and the theorems.                                           *)

LEMMA InitHistory == Init => HistoryInv /\ Safe
<1> SUFFICES ASSUME Init PROVE HistoryInv /\ Safe
  OBVIOUS
<1>1. ASSUME NEW c \in Client PROVE Line(c) = << >> /\ Trail(c) = << >> /\ published[c] = << >>
  <2> DEFINE e == << >>
  <2>1. e \in Seq(Message) /\ e \o e = e
    BY ConcatEmptySeq
  <2>2. Line(c) = e \o e
    BY DEF Init, Line, NoExchange
  <2>3. Trail(c) = ((e \o e) \o e) \o e
    BY DEF Init, Trail, NoExchange
  <2>4. published[c] = << >>
    BY DEF Init
  <2> HIDE DEF e
  <2>5. Line(c) = e /\ Trail(c) = e
    BY <2>1, <2>2, <2>3
  <2> QED BY <2>4, <2>5 DEF e
<1>2. \A c \in Client : DOMAIN Line(c) = {} /\ DOMAIN Trail(c) = {} /\ DOMAIN published[c] = {}
  BY <1>1
<1>3. HistoryInv
  BY <1>2 DEF Init, HistoryInv, PublishInv, LineInv, OrphanInv, ServedInv, IsInjective
<1>4. Safe
  BY <1>2 DEF Safe, AtMostOnce, AuthorOrder, IsInjective
<1> QED BY <1>3, <1>4

MessageInv == ThreadInv /\ HistoryInv /\ Safe

LEMMA NextKeepsMessageInv == MessageInv /\ [Next]_vars => MessageInv'
<1> SUFFICES ASSUME MessageInv, [Next]_vars PROVE MessageInv'
  OBVIOUS
<1>1. ThreadInv /\ HistoryInv /\ Safe
  BY DEF MessageInv
<1>2. ThreadInv'
  BY <1>1, NextKeepsThreadInv
<1>3. CASE Next
  <2>1. HistoryInv' /\ Safe'
    BY <1>1, <1>2, <1>3, MainKeepsHistory, BackKeepsHistory, PusherKeepsHistory,
       PullerKeepsHistory, ServePutKeepsHistory, ServerKeepsHistory, ServeOrphanKeepsHistory
       DEF Next
  <2> QED BY <1>2, <2>1 DEF MessageInv
<1>4. CASE UNCHANGED vars
  <2>1. /\ UNCHANGED <<outgoing, incoming, received, queues, accepted, published, orphanPuts, put>>
        /\ \A c \in Client : get'[c].reply = get[c].reply
    BY <1>4 DEF vars, client, server, users
  <2>2. HistoryInv' /\ Safe'
    BY <1>1, <1>2, <2>1, QuietKeepsHistory
  <2> QED BY <1>2, <2>2 DEF MessageInv
<1> QED BY <1>3, <1>4

\* The inductive invariant: what is on its way, with what it relies on.
THEOREM MessagesCorrect == SafeSpec => []MessageInv
<1>1. Init => MessageInv
  BY InitThreadInv, InitHistory DEF MessageInv
<1> QED BY <1>1, NextKeepsMessageInv, PTL DEF SafeSpec

\* For any number of clients and messages, whatever times out: no client is given a
\* message twice.
THEOREM DeliveredOnce == SafeSpec => []AtMostOnce
<1>1. MessageInv => AtMostOnce
  BY DEF MessageInv, Safe
<1> QED BY <1>1, MessagesCorrect, PTL

\* For any number of clients and messages: what an author published is received in the
\* order in which it was published, except what was served after its author gave up.
THEOREM DeliveredInOrder == SafeSpec => []AuthorOrder
<1>1. MessageInv => AuthorOrder
  BY DEF MessageInv, Safe
<1> QED BY <1>1, MessagesCorrect, PTL

-----------------------------------------------------------------------------
(* What takes a message away.                                              *)

LEMMA StaysPrefix == ASSUME NEW S, NEW s \in Seq(S) PROVE IsPrefix(s, s)
BY LenProperties DEF IsPrefix

LEMMA GrowsAtTheEnd ==
  ASSUME NEW S, NEW s \in Seq(S), NEW e \in S PROVE IsPrefix(s, Append(s, e))
<1>1. Len(s) \in Nat /\ DOMAIN s = 1 .. Len(s)
  BY LenProperties
<1>2. /\ Append(s, e) \in Seq(S) /\ Len(Append(s, e)) = Len(s) + 1
      /\ \A i \in 1 .. Len(s) : Append(s, e)[i] = s[i]
  BY AppendProperties
<1>3. SubSeq(s, 1, Len(s)) = s
  BY <1>1
<1> QED BY <1>1, <1>2, <1>3 DEF IsPrefix

LEMMA TrailGrows ==
  ASSUME ThreadInv, [Next]_vars, NEW c \in Client, inOpen[c],
         ~ GetTimesOut(c), ~ ServeOrphanGet(c)
  PROVE  Trail(c)' = Trail(c) \/ \E m \in Message : Trail(c)' = Append(Trail(c), m)
<1>1. ASSUME UNCHANGED <<received, incoming, queues>>, \A d \in Client : get'[d].reply = get[d].reply
      PROVE  Trail(c)' = Trail(c)
  BY <1>1, TrailSame
<1>2. CASE UNCHANGED vars
  BY <1>1, <1>2 DEF vars, client, server, users
<1>3. ASSUME NEW d \in Client,
             \/ \E m \in Message : Publish(d, m)
             \/ Subscribe(d) \/ Unsubscribe(d) \/ StopRunning(d) \/ MainStep(d)
      PROVE  Trail(c)' = Trail(c)
  <2>1. CASE Delete(d)
    <3>1. ~ inOpen[d]
      BY <2>1 DEF Delete, ThreadInv, StageInv
    <3> QED BY <2>1, <3>1, DeleteLosses
  <2>2. CASE ~ Delete(d)
    <3>1. UNCHANGED <<received, incoming, queues, get>>
      BY <1>3, <2>2 DEF Publish, Subscribe, Unsubscribe, Subscription, StopRunning, MainStep,
         CloseOutgoing, CloseIncoming, JoinThreads, client, server, users
    <3> QED BY <1>1, <3>1
  <2> QED BY <2>1, <2>2
<1>4. ASSUME NEW d \in Client, BackStep(d) PROVE Trail(c)' = Trail(c)
  <2>1. CASE Retrieve(d)
    BY <2>1, RetrieveTrail DEF TrailsStay
  <2>2. CASE BackCheck(d) \/ RetrieveNull(d)
    <3>1. UNCHANGED <<received, incoming, queues, get>>
      BY <2>2 DEF BackCheck, RetrieveNull, client, server, users
    <3> QED BY <1>1, <3>1
  <2> QED BY <1>4, <2>1, <2>2 DEF BackStep
<1>5. ASSUME NEW d \in Client, PusherStep(d) PROVE Trail(c)' = Trail(c)
  <2>1. UNCHANGED <<received, incoming, queues, get>>
    BY <1>5 DEF PusherStep, PusherCheck, PusherPop, PusherPopNull, PutAnswered, PutTimesOut,
       client, server, users
  <2> QED BY <1>1, <2>1
<1>6. ASSUME NEW d \in Client, PullerStep(d) PROVE Trail(c)' = Trail(c)
  <2>1. CASE PullerCheck(d)
    <3>1. UNCHANGED <<received, incoming, queues>>
      BY <2>1 DEF PullerCheck, client, server, users
    <3>2. get \in [Client -> Exchange] /\ get[d] = NoExchange
      BY <2>1 DEF PullerCheck, ThreadInv, TypeOK, ExchangeInv
    <3>3. get' = get \/ get' = [get EXCEPT ![d] = Sent(NULL)]
      BY <2>1 DEF PullerCheck
    <3>4. \A e \in Client : get'[e].reply = get[e].reply
      <4>1. Sent(NULL).reply = NULL /\ NoExchange.reply = NULL
        BY SentType, NoneType
      <4> QED BY <3>2, <3>3, <4>1
    <3> QED BY <1>1, <3>1, <3>4
  <2>2. CASE GetAnswered(d) \/ GetTimesOut(d)
    BY <2>2, GetEndsTrail
  <2> QED BY <1>6, <2>1, <2>2 DEF PullerStep
<1>7. ASSUME NEW d \in Client, ServeGet(d) \/ ServeOrphanGet(d) PROVE Trail(c)' = Trail(c)
  BY <1>7, ServeGetTrail, OrphanGetTrail DEF TrailsStay
<1>8. ASSUME NEW d \in Client, NEW r \in Request, NEW w \in BOOLEAN, Handle(d, r, w),
             received' = received, incoming' = incoming, get' = get
      PROVE  Trail(c)' = Trail(c) \/ \E m \in Message : Trail(c)' = Append(Trail(c), m)
  <2>1. r.kind = "pub" => r.msg \in Message
    BY RequestType
  <2>2. /\ r.kind # "pub" => TrailsStay
        /\ r.kind = "pub" => Trail(c)' = IF c \in subscribed THEN Append(Trail(c), r.msg)
                                                             ELSE Trail(c)
    BY <1>8, HandleTrail
  <2> QED BY <2>1, <2>2 DEF TrailsStay
<1>9. ASSUME NEW d \in Client, ServePut(d)
      PROVE  Trail(c)' = Trail(c) \/ \E m \in Message : Trail(c)' = Append(Trail(c), m)
  <2>1. put[d].req \in Request /\ Handle(d, put[d].req, TRUE)
    BY <1>9 DEF ServePut, ThreadInv, ExchangeInv
  <2>2. UNCHANGED <<received, incoming, get>>
    BY <1>9 DEF ServePut, client, users
  <2> QED BY <1>8, <2>1, <2>2
<1>10. ASSUME NEW o \in orphanPuts, ServeOrphanPut(o)
       PROVE  Trail(c)' = Trail(c) \/ \E m \in Message : Trail(c)' = Append(Trail(c), m)
  <2>1. o[1] \in Client /\ o[2] \in Request
    BY DEF ThreadInv, TypeOK
  <2>2. Handle(o[1], o[2], FALSE) /\ UNCHANGED <<received, incoming, get>>
    BY <1>10 DEF ServeOrphanPut, client, users
  <2> QED BY <1>8, <2>1, <2>2
<1> QED BY <1>2, <1>3, <1>4, <1>5, <1>6, <1>7, <1>9, <1>10 DEF Next

\* For any number of clients and messages: a message the server has queued for a client
\* that still takes messages is lost only by a GET that times out or was given up, and
\* nothing overtakes it.
THEOREM NothingElseLoses == SafeSpec => TakenOnlyByTimeouts
<1>1. ThreadInv /\ [Next]_vars =>
        [\A c \in Client : inOpen[c] => \/ GetTimesOut(c) \/ ServeOrphanGet(c)
                                        \/ IsPrefix(Trail(c), Trail(c)')]_vars
  <2> SUFFICES ASSUME ThreadInv, [Next]_vars, NEW c \in Client, inOpen[c],
                      ~ GetTimesOut(c), ~ ServeOrphanGet(c)
               PROVE  IsPrefix(Trail(c), Trail(c)')
    OBVIOUS
  <2>1. Trail(c) \in Seq(Message)
    BY TrailType DEF ThreadInv
  <2>2. Trail(c)' = Trail(c) \/ \E m \in Message : Trail(c)' = Append(Trail(c), m)
    BY TrailGrows
  <2>3. CASE Trail(c)' = Trail(c)
    <3>1. IsPrefix(Trail(c), Trail(c))
      BY <2>1, StaysPrefix
    <3> QED BY <2>3, <3>1
  <2>4. ASSUME NEW m \in Message, Trail(c)' = Append(Trail(c), m)
        PROVE  IsPrefix(Trail(c), Trail(c)')
    BY <2>1, <2>4, GrowsAtTheEnd
  <2> QED BY <2>2, <2>3, <2>4
<1> QED BY <1>1, ThreadsCorrect, PTL DEF SafeSpec, TakenOnlyByTimeouts
=============================================================================
