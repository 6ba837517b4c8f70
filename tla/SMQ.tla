-------------------------------- MODULE SMQ --------------------------------
(***************************************************************************)
(* Project 02: the message queue client (src/client.c), the program on top *)
(* of it (src/saichat.c: a main thread and a background thread) and the    *)
(* server (bin/mq_server.py), talking HTTP.  The two request queues of a   *)
(* client are the queue AtomicQueue promises: a push, a pop or a shutdown  *)
(* is one step.  There is one topic, as in saichat and test_client.        *)
(***************************************************************************)
EXTENDS Naturals, Sequences, FiniteSets, SequencesExt

CONSTANTS Client,      \* clients of the server
          Message,     \* message bodies
          Author,      \* Author[m] is the client that publishes m
          Quitter,     \* bound: the clients whose user ever quits
          MaxQueries,  \* bound: how often a client subscribes or unsubscribes
          MaxOrphans,  \* bound: abandoned exchanges the server may still serve
          NULL

ASSUME AuthorAssumption == Author \in [Message -> Client]
ASSUME BoundAssumption  == MaxQueries \in Nat /\ MaxOrphans \in Nat
ASSUME NullAssumption   == NULL \notin Message

VARIABLES running,    \* SMQ.running of each client
          outgoing,   \* its queue of requests to the server
          incoming,   \* its queue of messages from the server
          outOpen, inOpen,  \* Queue.running of the two
          main, back, pusher, puller,  \* where the four threads of a client are
          put, get,   \* the exchange the pusher, the puller has under way
          subscribed, \* server: the clients with the topic in subscriptions
          known,      \* server: the clients with an entry in queues
          queues,     \* server: the messages waiting for each client
          orphanPuts, \* server: requests whose client has given up on them
          orphanGets, \* server: how many such GETs of each client
          published,  \* history: what each client has published, in order
          received,   \* history: what smq_retrieve has returned
          accepted,   \* history: <<message, client, whether its author still waited>> queued
          queries     \* subscriptions and unsubscriptions requested

client == <<running, outgoing, incoming, outOpen, inOpen>>
server == <<subscribed, known, queues, orphanPuts, orphanGets, accepted>>
users  == <<published, received, queries>>
vars   == <<client, main, back, pusher, puller, put, get, server, users>>

Pub(m) == [kind |-> "pub", msg |-> m]
Sub    == [kind |-> "sub", msg |-> NULL]
Unsub  == [kind |-> "unsub", msg |-> NULL]
Request == [kind : {"pub"}, msg : Message] \cup {Sub, Unsub}

\* An exchange: what was asked, whether the server has answered, and what.
NoExchange == [state |-> "none", req |-> NULL, reply |-> NULL]
Sent(r)    == [state |-> "sent", req |-> r, reply |-> NULL]

Init == /\ running = [c \in Client |-> TRUE]
        /\ outgoing = [c \in Client |-> << >>]
        /\ incoming = [c \in Client |-> << >>]
        /\ outOpen = [c \in Client |-> TRUE]
        /\ inOpen = [c \in Client |-> TRUE]
        /\ main = [c \in Client |-> "run"]
        /\ back = [c \in Client |-> "check"]
        /\ pusher = [c \in Client |-> "check"]
        /\ puller = [c \in Client |-> "check"]
        /\ put = [c \in Client |-> NoExchange]
        /\ get = [c \in Client |-> NoExchange]
        /\ subscribed = {} /\ known = {}
        /\ queues = [c \in Client |-> << >>]
        /\ orphanPuts = {}
        /\ orphanGets = [c \in Client |-> 0]
        /\ published = [c \in Client |-> << >>]
        /\ received = [c \in Client |-> << >>]
        /\ accepted = {}
        /\ queries = [c \in Client |-> 0]

Goto(pc, c, to) == [pc EXCEPT ![c] = to]

-----------------------------------------------------------------------------
(* The main thread: smq_publish, smq_subscribe, smq_unsubscribe push one     *)
(* request each; quitting calls smq_shutdown, joins the background thread    *)
(* and calls smq_delete.                                                     *)

Queue(c, r) == outgoing' = [outgoing EXCEPT ![c] = IF outOpen[c] THEN Append(@, r) ELSE @]

Publish(c, m) == /\ main[c] = "run" /\ Author[m] = c
                 /\ \A i \in DOMAIN published[c] : published[c][i] # m
                 /\ Queue(c, Pub(m))
                 /\ published' = [published EXCEPT ![c] = Append(@, m)]
                 /\ UNCHANGED <<running, incoming, outOpen, inOpen, main, back, pusher,
                                puller, put, get, server, received, queries>>

Subscription(c, r) == /\ main[c] = "run" /\ queries[c] < MaxQueries
                      /\ Queue(c, r)
                      /\ queries' = [queries EXCEPT ![c] = @ + 1]
                      /\ UNCHANGED <<running, incoming, outOpen, inOpen, main, back, pusher,
                                     puller, put, get, server, published, received>>

Subscribe(c)   == Subscription(c, Sub)
Unsubscribe(c) == Subscription(c, Unsub)

\* smq_shutdown clears running under the mutex, then shuts the two queues down
\* one after the other: the other threads run in between.
StopRunning(c) == /\ main[c] = "run" /\ c \in Quitter
                  /\ main' = Goto(main, c, "close_out")
                  /\ running' = [running EXCEPT ![c] = FALSE]
                  /\ UNCHANGED <<outgoing, incoming, outOpen, inOpen, back, pusher, puller,
                                 put, get, server, users>>

\* Slip: the queue's flag is not cleared.
CloseOutgoingUnmarked(c) == /\ main[c] = "close_out"
                            /\ main' = Goto(main, c, "close_in")
                            /\ UNCHANGED <<client, back, pusher, puller, put, get, server, users>>

CloseOutgoing(c) == /\ main[c] = "close_out"
                    /\ main' = Goto(main, c, "close_in")
                    /\ outOpen' = [outOpen EXCEPT ![c] = FALSE]
                    /\ UNCHANGED <<running, outgoing, incoming, inOpen, back, pusher, puller,
                                   put, get, server, users>>

CloseIncoming(c) == /\ main[c] = "close_in"
                    /\ main' = Goto(main, c, "join")
                    /\ inOpen' = [inOpen EXCEPT ![c] = FALSE]
                    /\ UNCHANGED <<running, outgoing, incoming, outOpen, back, pusher, puller,
                                   put, get, server, users>>

\* Slip: the pusher is not joined.
JoinPullerOnly(c) == /\ main[c] = "join" /\ puller[c] = "exited"
                     /\ main' = Goto(main, c, "join_back")
                     /\ UNCHANGED <<client, back, pusher, puller, put, get, server, users>>

\* thread_join of the puller, then of the pusher: smq_shutdown returns.
JoinThreads(c) == /\ main[c] = "join"
                  /\ puller[c] = "exited" /\ pusher[c] = "exited"
                  /\ main' = Goto(main, c, "join_back")
                  /\ UNCHANGED <<client, back, pusher, puller, put, get, server, users>>

\* main joins the background thread, and smq_delete frees both queues with
\* whatever is left in them.
Delete(c) == /\ main[c] = "join_back" /\ back[c] = "exited"
             /\ main' = Goto(main, c, "deleted")
             /\ outgoing' = [outgoing EXCEPT ![c] = << >>]
             /\ incoming' = [incoming EXCEPT ![c] = << >>]
             /\ UNCHANGED <<running, outOpen, inOpen, back, pusher, puller, put, get, server,
                            users>>

-----------------------------------------------------------------------------
(* The background thread: smq_retrieve while smq_running.                  *)

BackCheck(c) == /\ back[c] = "check"
                /\ back' = Goto(back, c, IF running[c] THEN "retrieve" ELSE "exited")
                /\ UNCHANGED <<client, main, pusher, puller, put, get, server, users>>

Retrieve(c) == /\ back[c] = "retrieve" /\ incoming[c] # << >>
               /\ received' = [received EXCEPT ![c] = Append(@, Head(incoming[c]))]
               /\ incoming' = [incoming EXCEPT ![c] = Tail(@)]
               /\ back' = Goto(back, c, "check")
               /\ UNCHANGED <<running, outgoing, outOpen, inOpen, main, pusher, puller, put,
                              get, server, published, queries>>

RetrieveNull(c) == /\ back[c] = "retrieve" /\ ~inOpen[c]
                   /\ back' = Goto(back, c, "exited")
                   /\ UNCHANGED <<client, main, pusher, puller, put, get, server, users>>

-----------------------------------------------------------------------------
(* smq_pusher: one request at a time, performed once, then deleted.        *)

PusherCheck(c) == /\ pusher[c] = "check"
                  /\ pusher' = Goto(pusher, c, IF running[c] THEN "pop" ELSE "exited")
                  /\ UNCHANGED <<client, main, back, puller, put, get, server, users>>

PusherPop(c) == /\ pusher[c] = "pop" /\ outgoing[c] # << >>
                /\ outgoing' = [outgoing EXCEPT ![c] = Tail(@)]
                /\ put' = [put EXCEPT ![c] = Sent(Head(outgoing[c]))]
                /\ pusher' = Goto(pusher, c, "perform")
                /\ UNCHANGED <<running, incoming, outOpen, inOpen, main, back, puller, get,
                               server, users>>

PusherPopNull(c) == /\ pusher[c] = "pop" /\ ~outOpen[c]
                    /\ pusher' = Goto(pusher, c, "check")
                    /\ UNCHANGED <<client, main, back, puller, put, get, server, users>>

\* request_perform returns what the server answered, an error or not.
PutAnswered(c) == /\ pusher[c] = "perform" /\ put[c].state = "answered"
                  /\ put' = [put EXCEPT ![c] = NoExchange]
                  /\ pusher' = Goto(pusher, c, "check")
                  /\ UNCHANGED <<client, main, back, puller, get, server, users>>

\* Slip: a request that timed out is queued again.
PutRetries(c) == /\ pusher[c] = "perform"
                 /\ outgoing' = [outgoing EXCEPT ![c] = Append(@, put[c].req)]
                 /\ put' = [put EXCEPT ![c] = NoExchange]
                 /\ pusher' = Goto(pusher, c, "check")
                 /\ UNCHANGED <<running, incoming, outOpen, inOpen, main, back, puller, get,
                                server, users>>

\* CURLOPT_TIMEOUT_MS: request_perform returns NULL and the request is deleted.
\* A server that has not served it yet may still do so.
PutTimesOut(c) == /\ pusher[c] = "perform"
                  /\ \/ UNCHANGED orphanPuts
                     \/ /\ put[c].state = "sent"
                        /\ Cardinality(orphanPuts) < MaxOrphans
                        /\ orphanPuts' = orphanPuts \cup {<<c, put[c].req>>}
                  /\ put' = [put EXCEPT ![c] = NoExchange]
                  /\ pusher' = Goto(pusher, c, "check")
                  /\ UNCHANGED <<client, main, back, puller, get, subscribed, known, queues,
                                 orphanGets, accepted, users>>

-----------------------------------------------------------------------------
(* smq_puller: asks the server for one message at a time.                  *)

PullerCheck(c) == /\ puller[c] = "check"
                  /\ IF running[c]
                       THEN /\ puller' = Goto(puller, c, "perform")
                            /\ get' = [get EXCEPT ![c] = Sent(NULL)]
                       ELSE /\ puller' = Goto(puller, c, "exited")
                            /\ UNCHANGED get
                  /\ UNCHANGED <<client, main, back, pusher, put, server, users>>

\* Slip: the queue is given the answer whatever it is.
GetQueuesNull(c) == /\ puller[c] = "perform" /\ get[c].state = "answered"
                    /\ incoming' = IF inOpen[c]
                                     THEN [incoming EXCEPT ![c] = Append(@, get[c].reply)]
                                     ELSE incoming
                    /\ get' = [get EXCEPT ![c] = NoExchange]
                    /\ puller' = Goto(puller, c, "check")
                    /\ UNCHANGED <<running, outgoing, outOpen, inOpen, main, back, pusher, put,
                                   server, users>>

\* The answer is a message, which goes into the incoming queue (which drops it
\* after its shutdown), or an error.
GetAnswered(c) == /\ puller[c] = "perform" /\ get[c].state = "answered"
                  /\ incoming' = IF get[c].reply # NULL /\ inOpen[c]
                                   THEN [incoming EXCEPT ![c] = Append(@, get[c].reply)]
                                   ELSE incoming
                  /\ get' = [get EXCEPT ![c] = NoExchange]
                  /\ puller' = Goto(puller, c, "check")
                  /\ UNCHANGED <<running, outgoing, outOpen, inOpen, main, back, pusher, put,
                                 server, users>>

GetTimesOut(c) == /\ puller[c] = "perform"
                  /\ \/ UNCHANGED orphanGets
                     \/ /\ get[c].state = "sent" /\ orphanGets[c] < MaxOrphans
                        /\ orphanGets' = [orphanGets EXCEPT ![c] = @ + 1]
                  /\ get' = [get EXCEPT ![c] = NoExchange]
                  /\ puller' = Goto(puller, c, "check")
                  /\ UNCHANGED <<client, main, back, pusher, put, subscribed, known, queues,
                                 orphanPuts, accepted, users>>

-----------------------------------------------------------------------------
(* The server: tornado runs one handler at a time.                         *)

\* TopicHandler.put, SubscriptionHandler.put and .delete.
Handle(c, r, waiting) ==
  \/ /\ r.kind = "pub"
     /\ queues' = [d \in Client |-> IF d \in subscribed THEN Append(queues[d], r.msg)
                                                        ELSE queues[d]]
     /\ accepted' = accepted \cup ({r.msg} \X subscribed \X {waiting})
     /\ UNCHANGED <<subscribed, known>>
  \/ /\ r.kind = "sub"
     /\ subscribed' = subscribed \cup {c} /\ known' = known \cup {c}
     /\ UNCHANGED <<queues, accepted>>
  \/ /\ r.kind = "unsub"
     /\ subscribed' = subscribed \ {c}
     /\ UNCHANGED <<known, queues, accepted>>

ServePut(c) == /\ put[c].state = "sent"
               /\ Handle(c, put[c].req, TRUE)
               /\ put' = [put EXCEPT ![c].state = "answered"]
               /\ UNCHANGED <<client, main, back, pusher, puller, get, orphanPuts, orphanGets,
                              users>>

\* Slip: the newest message is popped.
ServeNewest(c) == /\ get[c].state = "sent" /\ c \in known /\ queues[c] # << >>
                  /\ get' = [get EXCEPT ![c].state = "answered", ![c].reply = Last(queues[c])]
                  /\ queues' = [queues EXCEPT ![c] = Front(@)]
                  /\ UNCHANGED <<client, main, back, pusher, puller, put, subscribed, known,
                                 orphanPuts, orphanGets, accepted, users>>

\* QueueHandler.get: 404 when the queue is unknown; otherwise it polls until
\* there is a message.
ServeGet(c) == /\ get[c].state = "sent"
               /\ \/ /\ c \notin known
                     /\ get' = [get EXCEPT ![c].state = "answered"]
                     /\ UNCHANGED queues
                  \/ /\ c \in known /\ queues[c] # << >>
                     /\ get' = [get EXCEPT ![c].state = "answered",
                                           ![c].reply = Head(queues[c])]
                     /\ queues' = [queues EXCEPT ![c] = Tail(@)]
               /\ UNCHANGED <<client, main, back, pusher, puller, put, subscribed, known,
                              orphanPuts, orphanGets, accepted, users>>

ServeOrphanPut(o) == /\ Handle(o[1], o[2], FALSE)
                     /\ orphanPuts' = orphanPuts \ {o}
                     /\ UNCHANGED <<client, main, back, pusher, puller, put, get, orphanGets,
                                    users>>

\* The handler of an abandoned GET looks at the queue before it looks at the
\* connection: a message that is there is popped and answered to nobody.
ServeOrphanGet(c) == /\ orphanGets[c] > 0
                     /\ queues' = [queues EXCEPT ![c] = IF @ = << >> THEN @ ELSE Tail(@)]
                     /\ orphanGets' = [orphanGets EXCEPT ![c] = @ - 1]
                     /\ UNCHANGED <<client, main, back, pusher, puller, put, get, subscribed,
                                    known, orphanPuts, accepted, users>>

-----------------------------------------------------------------------------
MainStep(c)   == CloseOutgoing(c) \/ CloseIncoming(c) \/ JoinThreads(c) \/ Delete(c)
BackStep(c)   == BackCheck(c) \/ Retrieve(c) \/ RetrieveNull(c)
PusherStep(c) == PusherCheck(c) \/ PusherPop(c) \/ PusherPopNull(c) \/ PutAnswered(c)
                 \/ PutTimesOut(c)
PullerStep(c) == PullerCheck(c) \/ GetAnswered(c) \/ GetTimesOut(c)

Next == \/ \E c \in Client : \/ \E m \in Message : Publish(c, m)
                             \/ Subscribe(c) \/ Unsubscribe(c) \/ StopRunning(c)
                             \/ MainStep(c) \/ BackStep(c) \/ PusherStep(c) \/ PullerStep(c)
                             \/ ServePut(c) \/ ServeGet(c) \/ ServeOrphanGet(c)
        \/ \E o \in orphanPuts : ServeOrphanPut(o)

(* Every thread of a client keeps running (a request that is not answered    *)
(* times out), and so does shutdown once called.  Nothing is assumed of the  *)
(* server, nor of the user.                                                  *)
Fairness == \A c \in Client : /\ WF_vars(MainStep(c)) /\ WF_vars(BackStep(c))
                              /\ WF_vars(PusherStep(c)) /\ WF_vars(PullerStep(c))

SafeSpec == Init /\ [][Next]_vars
Spec     == SafeSpec /\ Fairness

-----------------------------------------------------------------------------
(* Properties.                                                             *)

Exchange == [state : {"none", "sent", "answered"}, req : Request \cup {NULL},
             reply : Message \cup {NULL}]

\* Every variable holds a value of its type.
TypeOK ==
  /\ running \in [Client -> BOOLEAN]
  /\ outOpen \in [Client -> BOOLEAN] /\ inOpen \in [Client -> BOOLEAN]
  /\ outgoing \in [Client -> Seq(Request)]
  /\ incoming \in [Client -> Seq(Message)] /\ queues \in [Client -> Seq(Message)]
  /\ published \in [Client -> Seq(Message)] /\ received \in [Client -> Seq(Message)]
  /\ main \in [Client -> {"run", "close_out", "close_in", "join", "join_back", "deleted"}]
  /\ back \in [Client -> {"check", "retrieve", "exited"}]
  /\ pusher \in [Client -> {"check", "pop", "perform", "exited"}]
  /\ puller \in [Client -> {"check", "perform", "exited"}]
  /\ put \in [Client -> Exchange] /\ get \in [Client -> Exchange]
  /\ subscribed \subseteq Client /\ known \subseteq Client
  /\ orphanPuts \subseteq Client \X Request
  /\ orphanGets \in [Client -> 0 .. MaxOrphans]
  /\ accepted \subseteq Message \X Client \X BOOLEAN
  /\ queries \in [Client -> 0 .. MaxQueries]

\* The messages on their way to a client, first the one it has received first:
\* from smq_retrieve through the incoming queue and the answer under way back
\* to the server's queue.
Trail(c) == received[c] \o incoming[c]
              \o (IF get[c].reply = NULL THEN << >> ELSE <<get[c].reply>>)
              \o queues[c]

\* No client is given a message twice, although requests time out: a request is
\* performed once, and deleted whatever became of it.
AtMostOnce == \A c \in Client : IsInjective(Trail(c))

\* Two messages of one author reach every client in the order in which they were
\* published, through two threads, three queues and the server, unless the server
\* served one of them after its author had given up on the request.
AuthorOrder ==
  \A c \in Client : \A i, j \in DOMAIN Trail(c) :
    LET m == Trail(c)[i]
        n == Trail(c)[j]
    IN  /\ i < j /\ Author[m] = Author[n]
        /\ {<<m, c, TRUE>>, <<n, c, TRUE>>} \subseteq accepted
        => \E k, l \in DOMAIN published[Author[m]] :
             k < l /\ published[Author[m]][k] = m /\ published[Author[m]][l] = n

\* Once the server has queued a message for a client whose incoming queue is
\* open, only two things take it away: a GET that times out with the answer under
\* way, and the handler of a GET that was given up.  Nothing overtakes it.
TakenOnlyByTimeouts ==
  [][\A c \in Client : inOpen[c] => \/ GetTimesOut(c) \/ ServeOrphanGet(c)
                                    \/ IsPrefix(Trail(c), Trail(c)')]_vars

\* smq_shutdown returns, whatever the server does: the pusher and the puller are
\* joined although shutdown wakes nobody, the background thread ends, and main
\* gets to smq_delete.
ShutdownEnds == \A c \in Client : main[c] = "close_out" ~> main[c] = "deleted"

\* Nobody uses the SMQ after smq_delete has freed it.
DeletedUnused == \A c \in Client : main[c] = "deleted" =>
                   /\ {pusher[c], puller[c], back[c]} = {"exited"}
                   /\ put[c] = NoExchange /\ get[c] = NoExchange
                   /\ outgoing[c] = << >> /\ incoming[c] = << >>
=============================================================================
