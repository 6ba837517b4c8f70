---------------------------- MODULE AtomicQueue ----------------------------
(***************************************************************************)
(* What the request queue of Project 02 promises its callers, without the  *)
(* mutex, the condition variable and the linked list that keep the         *)
(* promise: a FIFO queue whose push, pop and shutdown each take effect in  *)
(* one step between the call and the return.  RequestQueue implements it.  *)
(***************************************************************************)
EXTENDS Sequences, Naturals

CONSTANTS Thread,   \* callers
          Request,  \* requests
          NULL      \* no request

VARIABLES items,    \* the requests in the queue, oldest first
          open,     \* FALSE once the queue is shut down
          call      \* what each thread is doing

avars == <<items, open, call>>

Idle       == [op |-> "idle", req |-> NULL]
Pushing(m) == [op |-> "pushing", req |-> m]
Pushed     == [op |-> "pushed", req |-> NULL]
Popping    == [op |-> "popping", req |-> NULL]
Got(m)     == [op |-> "got", req |-> m]
Closing    == [op |-> "closing", req |-> NULL]

\* The requests the queue or a caller still refers to.
InUse == {items[i] : i \in DOMAIN items} \cup {call[t].req : t \in Thread}

AInit == /\ items = << >>
         /\ open = TRUE
         /\ call = [t \in Thread |-> Idle]

Become(t, from, to) == /\ call[t] = from
                       /\ call' = [call EXCEPT ![t] = to]

BeginPush(t, m) == /\ m \notin InUse
                   /\ Become(t, Idle, Pushing(m))
                   /\ UNCHANGED <<items, open>>

Enqueue(t, m) == /\ open
                 /\ items' = Append(items, m)
                 /\ Become(t, Pushing(m), Pushed)
                 /\ UNCHANGED open

\* A closed queue drops what is pushed to it.
Refuse(t, m) == /\ ~open
                /\ Become(t, Pushing(m), Idle)
                /\ UNCHANGED <<items, open>>

EndPush(t) == /\ Become(t, Pushed, Idle)
              /\ UNCHANGED <<items, open>>

BeginPop(t) == /\ Become(t, Idle, Popping)
               /\ UNCHANGED <<items, open>>

Dequeue(t) == /\ items # << >>
              /\ items' = Tail(items)
              /\ Become(t, Popping, Got(Head(items)))
              /\ UNCHANGED open

\* Only a closed queue answers NULL, whether or not requests are left in it.
PopNull(t) == /\ ~open
              /\ Become(t, Popping, Idle)
              /\ UNCHANGED <<items, open>>

Discard(t, m) == /\ Become(t, Got(m), Idle)
                 /\ UNCHANGED <<items, open>>

BeginClose(t) == /\ Become(t, Idle, Closing)
                 /\ UNCHANGED <<items, open>>

Close(t) == /\ open' = FALSE
            /\ Become(t, Closing, Idle)
            /\ UNCHANGED items

ANext == \E t \in Thread :
            \/ \E m \in Request : \/ BeginPush(t, m) \/ Enqueue(t, m)
                                  \/ Refuse(t, m) \/ Discard(t, m)
            \/ EndPush(t) \/ BeginPop(t) \/ Dequeue(t) \/ PopNull(t)
            \/ BeginClose(t) \/ Close(t)

\* Safety only: which calls must return is stated over RequestQueue, whose
\* threads are the ones that are scheduled.
ASpec == AInit /\ [][ANext]_avars
=============================================================================
