---------------------------- MODULE RequestQueue ----------------------------
(***************************************************************************)
(* Project 02, src/queue.c: the concurrent queue of requests.  A linked    *)
(* list under one mutex, with one condition variable that consumers wait   *)
(* on until a deadline.  A step of a thread is what it does between two    *)
(* points where another thread can tell the difference: it takes the       *)
(* mutex, it runs a critical section and leaves it, it signals.            *)
(***************************************************************************)
EXTENDS Naturals, FiniteSets

CONSTANTS Producer,  \* threads that push
          Consumer,  \* threads that pop
          Closer,    \* the thread that shuts the queue down and deletes it
          Request,   \* addresses a Request can be allocated at
          NULL

Thread == Producer \cup Consumer \cup {Closer}

ASSUME NullAssumption == NULL \notin Thread \cup Request
ASSUME CloserAssumption == Closer \notin Producer \cup Consumer
ASSUME ThreadsAssumption == IsFiniteSet(Thread)

VARIABLES head, tail, size, running,  \* struct Queue
          next,                       \* Request.next, by address
          live,                       \* requests allocated and not yet freed
          mutex,                      \* the thread that holds q->mutex
          expired,                    \* has the deadline of a pop passed?
          req,                        \* the request a thread owns
          pc,                         \* where a thread is
          deleted                     \* queue_delete has freed the queue

queue == <<head, tail, size, running>>
vars  == <<head, tail, size, running, next, live, mutex, expired, req, pc,
           deleted>>

PushPcs  == {"push_lock", "push", "signal"}
PopPcs   == {"pop_lock", "pop", "wait", "relock", "recheck"}
Critical == {"push", "pop", "recheck", "shutdown"}

Init == /\ head = NULL /\ tail = NULL /\ size = 0 /\ running = TRUE
        /\ next = [m \in Request |-> NULL]
        /\ live = {}
        /\ mutex = NULL
        /\ expired = [t \in Thread |-> FALSE]
        /\ req = [t \in Thread |-> NULL]
        /\ pc = [t \in Thread |-> "idle"]
        /\ deleted = FALSE

-----------------------------------------------------------------------------
(* Control and pthread primitives.                                         *)

Goto(t, from, to) == /\ pc[t] = from
                     /\ pc' = [pc EXCEPT ![t] = to]

Lock(t)   == mutex = NULL /\ mutex' = t
Unlock(t) == mutex = t /\ mutex' = NULL

\* The requests linked into the list: s lists them from head to tail.
IsChain(s) ==
  /\ size = 0 => head = NULL
  /\ size > 0 => head = s[1] /\ tail = s[size] /\ next[s[size]] = NULL
  /\ \A i \in 1 .. size - 1 : next[s[i]] = s[i + 1]
  /\ \A i, j \in 1 .. size : s[i] = s[j] => i = j

Chains == {s \in [1 .. size -> Request] : IsChain(s)}

Items  == IF Chains = {} THEN << >> ELSE CHOOSE s \in Chains : TRUE
Queued == {Items[i] : i \in DOMAIN Items}

-----------------------------------------------------------------------------
(* Slips this code could plausibly have: each replaces the action it is named *)
(* after when the properties at the end of the module are put to the test.   *)

\* The early return of queue_push keeps the mutex.
PushRefusedKeepsMutex(t) == /\ Goto(t, "push", "idle")
                            /\ ~running
                            /\ req' = [req EXCEPT ![t] = NULL]
                            /\ UNCHANGED <<queue, next, live, mutex, expired, deleted>>

\* queue_push asks whether there is a tail instead of size > 0.
PushLinkTrustsTail(t) == /\ Goto(t, "push", "signal")
                         /\ running
                         /\ IF tail # NULL
                              THEN next' = [next EXCEPT ![tail] = req[t]] /\ UNCHANGED head
                              ELSE head' = req[t] /\ UNCHANGED next
                         /\ tail' = req[t] /\ size' = size + 1
                         /\ Unlock(t)
                         /\ req' = [req EXCEPT ![t] = NULL]
                         /\ UNCHANGED <<running, live, expired, deleted>>

\* queue_push links the request in front of the head.
PushLinkInFront(t) == /\ Goto(t, "push", "signal")
                      /\ running
                      /\ next' = [next EXCEPT ![req[t]] = head]
                      /\ head' = req[t] /\ size' = size + 1
                      /\ tail' = IF size = 0 THEN req[t] ELSE tail
                      /\ Unlock(t)
                      /\ req' = [req EXCEPT ![t] = NULL]
                      /\ UNCHANGED <<running, live, expired, deleted>>

\* Only the push that finds the queue empty signals.
SignalIfFirst(t) == /\ pc[t] = "signal"
                    /\ \/ /\ (size # 1 \/ \A w \in Thread : pc[w] # "wait")
                          /\ pc' = [pc EXCEPT ![t] = "idle"]
                       \/ /\ size = 1
                          /\ \E w \in Thread : /\ pc[w] = "wait"
                                               /\ pc' = [pc EXCEPT ![t] = "idle", ![w] = "relock"]
                    /\ UNCHANGED <<queue, next, live, mutex, expired, req, deleted>>

\* cond_wait in the place of cond_timedwait.
WaitTimesOutNever(t) == /\ FALSE
                        /\ Goto(t, "wait", "relock")
                        /\ UNCHANGED <<queue, next, live, mutex, expired, req, deleted>>

\* The early return of queue_pop keeps the mutex.
RecheckStoppedKeepsMutex(t) == /\ Goto(t, "recheck", "idle")
                               /\ ~running
                               /\ expired' = [expired EXCEPT ![t] = FALSE]
                               /\ UNCHANGED <<queue, next, live, mutex, req, deleted>>

\* queue_pop waits again without looking at size.
RecheckRunningWaits(t) == /\ Goto(t, "recheck", "wait")
                          /\ running
                          /\ Unlock(t)
                          /\ UNCHANGED <<queue, next, live, expired, req, deleted>>

\* queue_pop tests size with an if where it needs a while.
PopTakeUnchecked(t) == /\ Goto(t, "pop", "got")
                       /\ req' = [req EXCEPT ![t] = head]
                       /\ head' = IF head = NULL THEN NULL ELSE next[head]
                       /\ next' = [next EXCEPT ![head] = NULL]
                       /\ size' = size - 1
                       /\ Unlock(t)
                       /\ expired' = [expired EXCEPT ![t] = FALSE]
                       /\ UNCHANGED <<tail, running, live, deleted>>

\* The consumer forgets request_delete.
DeleteRequestForgotten(t) == /\ Goto(t, "got", "idle")
                             /\ req' = [req EXCEPT ![t] = NULL]
                             /\ UNCHANGED <<queue, next, live, mutex, expired, deleted>>

-----------------------------------------------------------------------------
(* queue_push, called with a request fresh from request_create.            *)

CallPush(t, m) == /\ ~deleted /\ m \notin live
                  /\ Goto(t, "idle", "push_lock")
                  /\ live' = live \cup {m}
                  /\ next' = [next EXCEPT ![m] = NULL]
                  /\ req' = [req EXCEPT ![t] = m]
                  /\ UNCHANGED <<queue, mutex, expired, deleted>>

PushLock(t) == /\ Goto(t, "push_lock", "push")
               /\ Lock(t)
               /\ UNCHANGED <<queue, next, live, expired, req, deleted>>

\* The queue is shut down: push returns, and nobody owns the request any more.
PushRefused(t) == /\ Goto(t, "push", "idle")
                  /\ ~running
                  /\ Unlock(t)
                  /\ req' = [req EXCEPT ![t] = NULL]
                  /\ UNCHANGED <<queue, next, live, expired, deleted>>

PushLink(t) == /\ Goto(t, "push", "signal")
               /\ running
               /\ \/ /\ size > 0
                     /\ next' = [next EXCEPT ![tail] = req[t]]
                     /\ UNCHANGED head
                  \/ /\ size = 0
                     /\ head' = req[t]
                     /\ UNCHANGED next
               /\ tail' = req[t]
               /\ size' = size + 1
               /\ Unlock(t)
               /\ req' = [req EXCEPT ![t] = NULL]
               /\ UNCHANGED <<running, live, expired, deleted>>

\* The threads blocked in cond_timedwait.
Waiters == {t \in Thread : pc[t] = "wait"}

\* cond_signal, after the mutex is released: it wakes one waiter if there is one.
Signal(t) == /\ pc[t] = "signal"
             /\ \/ /\ Waiters = {}
                   /\ pc' = [pc EXCEPT ![t] = "idle"]
                \/ \E w \in Waiters :
                     pc' = [pc EXCEPT ![t] = "idle", ![w] = "relock"]
             /\ UNCHANGED <<queue, next, live, mutex, expired, req, deleted>>

-----------------------------------------------------------------------------
(* queue_pop.                                                              *)

CallPop(t) == /\ ~deleted
              /\ Goto(t, "idle", "pop_lock")
              /\ UNCHANGED <<queue, next, live, mutex, expired, req, deleted>>

PopLock(t) == /\ Goto(t, "pop_lock", "pop")
              /\ Lock(t)
              /\ UNCHANGED <<queue, next, live, expired, req, deleted>>

\* Nothing to pop: cond_timedwait releases the mutex and blocks.
PopWait(t) == /\ Goto(t, "pop", "wait")
              /\ size = 0
              /\ Unlock(t)
              /\ UNCHANGED <<queue, next, live, expired, req, deleted>>

\* The one deadline computed when queue_pop was called passes.
DeadlinePasses(t) == /\ pc[t] \in PopPcs /\ ~expired[t]
                     /\ expired' = [expired EXCEPT ![t] = TRUE]
                     /\ UNCHANGED <<queue, next, live, mutex, req, pc, deleted>>

\* cond_timedwait gives up waiting for a signal (ETIMEDOUT).
WaitTimesOut(t) == /\ Goto(t, "wait", "relock")
                   /\ expired[t]
                   /\ UNCHANGED <<queue, next, live, mutex, expired, req, deleted>>

\* POSIX lets a condition wait return without a signal.
SpuriousWakeup(t) == /\ Goto(t, "wait", "relock")
                     /\ UNCHANGED <<queue, next, live, mutex, expired, req, deleted>>

Relock(t) == /\ Goto(t, "relock", "recheck")
             /\ Lock(t)
             /\ UNCHANGED <<queue, next, live, expired, req, deleted>>

\* After every wait the code looks at running before it looks at size.
RecheckStopped(t) == /\ Goto(t, "recheck", "idle")
                     /\ ~running
                     /\ Unlock(t)
                     /\ expired' = [expired EXCEPT ![t] = FALSE]
                     /\ UNCHANGED <<queue, next, live, req, deleted>>

RecheckRunning(t) == /\ Goto(t, "recheck", "pop")
                     /\ running
                     /\ UNCHANGED <<queue, next, live, mutex, expired, req, deleted>>

PopTake(t) == /\ Goto(t, "pop", "got")
              /\ size > 0
              /\ req' = [req EXCEPT ![t] = head]
              /\ head' = next[head]
              /\ next' = [next EXCEPT ![head] = NULL]
              /\ size' = size - 1
              /\ Unlock(t)
              /\ expired' = [expired EXCEPT ![t] = FALSE]
              /\ UNCHANGED <<tail, running, live, deleted>>

\* The caller is done with the request it popped: request_delete.
DeleteRequest(t) == /\ Goto(t, "got", "idle")
                    /\ live' = live \ {req[t]}
                    /\ req' = [req EXCEPT ![t] = NULL]
                    /\ UNCHANGED <<queue, next, mutex, expired, deleted>>

-----------------------------------------------------------------------------
(* queue_shutdown, and queue_delete once all threads have been joined.     *)

CallShutdown(t) == /\ ~deleted
                   /\ Goto(t, "idle", "shutdown_lock")
                   /\ UNCHANGED <<queue, next, live, mutex, expired, req, deleted>>

ShutdownLock(t) == /\ Goto(t, "shutdown_lock", "shutdown")
                   /\ Lock(t)
                   /\ UNCHANGED <<queue, next, live, expired, req, deleted>>

Shutdown(t) == /\ Goto(t, "shutdown", "idle")
               /\ running' = FALSE
               /\ Unlock(t)
               /\ UNCHANGED <<head, tail, size, next, live, expired, req, deleted>>

\* A producer or consumer thread ends.
Exit(t) == /\ t # Closer
           /\ Goto(t, "idle", "exited")
           /\ UNCHANGED <<queue, next, live, mutex, expired, req, deleted>>

\* queue_delete walks the list from head and frees what it finds.
Delete(t) == /\ ~deleted
             /\ \A u \in Thread \ {t} : pc[u] = "exited"
             /\ Goto(t, "idle", "exited")
             /\ deleted' = TRUE
             /\ live' = live \ Queued
             /\ UNCHANGED <<queue, next, mutex, expired, req>>

-----------------------------------------------------------------------------
PushStep(t) == PushRefused(t) \/ PushLink(t) \/ Signal(t)
PopStep(t)  == \/ PopWait(t) \/ RecheckStopped(t) \/ RecheckRunning(t)
               \/ PopTake(t) \/ DeleteRequest(t)
LockStep(t) == PushLock(t) \/ PopLock(t) \/ Relock(t) \/ ShutdownLock(t)

Next == \/ \E t \in Producer : Exit(t) \/ \E m \in Request : CallPush(t, m)
        \/ \E t \in Consumer : Exit(t) \/ CallPop(t) \/ SpuriousWakeup(t)
        \/ CallShutdown(Closer) \/ Shutdown(Closer) \/ Delete(Closer)
        \/ \E t \in Thread : \/ PushStep(t) \/ PopStep(t) \/ LockStep(t)
                             \/ DeadlinePasses(t) \/ WaitTimesOut(t)

(* A thread inside a call keeps running, the clock reaches every deadline,   *)
(* and a thread that finds the mutex free again and again gets it.  No one   *)
(* is obliged to call anything.                                              *)
Fairness == /\ \A t \in Thread : /\ WF_vars(PushStep(t)) /\ WF_vars(PopStep(t))
                                 /\ SF_vars(LockStep(t))
                                 /\ WF_vars(DeadlinePasses(t))
                                 /\ WF_vars(WaitTimesOut(t))
            /\ WF_vars(Shutdown(Closer))

SafeSpec == Init /\ [][Next]_vars
Spec     == SafeSpec /\ Fairness

-----------------------------------------------------------------------------
(* Invariants.                                                             *)

\* Every variable holds a value of its type; the numbers of requests and the
\* addresses are what queue.c's fields can hold.
TypeOK ==
  /\ head \in Request \cup {NULL}
  /\ tail \in Request \cup {NULL}
  /\ size \in Nat
  /\ running \in BOOLEAN
  /\ next \in [Request -> Request \cup {NULL}]
  /\ live \subseteq Request
  /\ mutex \in Thread \cup {NULL}
  /\ expired \in [Thread -> BOOLEAN]
  /\ req \in [Thread -> Request \cup {NULL}]
  /\ pc \in [Thread -> PushPcs \cup PopPcs \cup
                      {"idle", "got", "shutdown_lock", "shutdown", "exited"}]
  /\ deleted \in BOOLEAN

\* Every exit of queue_push, queue_pop and queue_shutdown gives the mutex back,
\* the early returns too: a thread holds it exactly while it is in a critical
\* section.
MutexOK == \A t \in Thread : pc[t] \in Critical <=> mutex = t

\* Until the queue is deleted, head, tail, size and the next pointers describe
\* one list of requests, each of them allocated and each in it once.  tail is
\* only trusted while size > 0: after the last pop it points to a freed request.
ListOK == deleted \/ \E s \in Chains : \A i \in 1 .. size : s[i] \in live

\* A request has one owner: a thread that is to push it or has popped it, or the
\* queue.  Only a queue that was shut down loses a request (queue_push returns
\* without it).
OwnershipOK ==
  /\ \A t \in Thread : req[t] # NULL => req[t] \in live /\ (deleted \/ req[t] \notin Queued)
  /\ \A t, u \in Thread : req[t] = req[u] /\ req[t] # NULL => t = u
  /\ running /\ ~deleted => \A m \in live : m \in Queued \/ \E t \in Thread : req[t] = m

\* Producers about to signal, and consumers awake inside queue_pop.
AwakePcs == {"signal", "pop_lock", "pop", "relock", "recheck"}

\* While a consumer sleeps on a running queue, every queued request has somebody
\* to take it: a consumer that is awake inside queue_pop, or a producer whose
\* cond_signal is still to come.  No consumer depends on its timeout to see a
\* request, although the signal is sent after the mutex is released.
NoLostWakeup ==
  running /\ Waiters # {} =>
    size <= Cardinality({t \in Thread : pc[t] \in AwakePcs})

-----------------------------------------------------------------------------
(* The queue implements AtomicQueue: a call takes effect in its critical     *)
(* section.                                                                  *)

CallOf(t) ==
  CASE pc[t] \in {"push_lock", "push"}         -> [op |-> "pushing", req |-> req[t]]
    [] pc[t] = "signal"                        -> [op |-> "pushed", req |-> NULL]
    [] pc[t] \in PopPcs                        -> [op |-> "popping", req |-> NULL]
    [] pc[t] = "got"                           -> [op |-> "got", req |-> req[t]]
    [] pc[t] \in {"shutdown_lock", "shutdown"} -> [op |-> "closing", req |-> NULL]
    [] OTHER                                   -> [op |-> "idle", req |-> NULL]

Atomic == INSTANCE AtomicQueue WITH items <- Items, open <- running,
                                    call <- [t \in Thread |-> CallOf(t)]

\* Whatever the interleaving, callers see a FIFO queue: requests leave in the
\* order in which they were linked, none twice, and NULL only after shutdown.
ImplementsAtomicQueue == Atomic!ASpec

-----------------------------------------------------------------------------
(* Liveness.                                                               *)

InPop(t) == pc[t] \in PopPcs

\* A pop does not sleep on a queue that has requests: it returns, unless other
\* consumers keep emptying the queue.
PopReturnsWhenFilled == \A t \in Consumer : InPop(t) ~> (~InPop(t) \/ size = 0)

\* queue_shutdown sends no signal; still every pop that is blocked when it is
\* called returns, by the timeout, and so the threads can be joined.
PopReturnsAfterShutdown == \A t \in Consumer : (InPop(t) /\ ~running) ~> ~InPop(t)

\* Producers and the closer never wait for consumers.
PushReturns == \A t \in Producer \cup {Closer} :
                 (pc[t] \in PushPcs \cup {"shutdown_lock", "shutdown"}) ~> pc[t] = "idle"
=============================================================================
