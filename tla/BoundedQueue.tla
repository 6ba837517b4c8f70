---------------------------- MODULE BoundedQueue ----------------------------
(***************************************************************************)
(* The queue of reading05/queue.c, which exam02/queue.c repeats: an array  *)
(* used as a ring, under one mutex, with a condition variable for each     *)
(* side.  Both functions signal before they unlock, so a critical section  *)
(* is one step.  The sentinel is never removed: whoever finds it passes    *)
(* the word on and leaves it to the next.                                  *)
(***************************************************************************)
EXTENDS Naturals

CONSTANT NULL   \* SENTINEL, which is also what calloc puts into the cells

\* It is no file, and no number of one.
ASSUME NullAssumption == NULL \notin Nat

VARIABLES queue,   \* struct Queue, without its mutex
          asleep   \* the threads in cond_wait, by condition variable

Conditions == {"consumed", "produced"}

Created(capacity) ==
  [data |-> [i \in 0 .. capacity - 1 |-> NULL],
   capacity |-> capacity, size |-> 0, reader |-> 0, writer |-> 0]

Awake(t) == \A c \in Conditions : t \notin asleep[c]

Wait(t, c) == asleep' = [asleep EXCEPT ![c] = @ \cup {t}]

\* POSIX wakes one of the threads that wait, if any.
Signal(c) == IF asleep[c] = {}
             THEN UNCHANGED asleep
             ELSE \E t \in asleep[c] : asleep' = [asleep EXCEPT ![c] = @ \ {t}]

SpuriousWakeup(t) == \E c \in Conditions :
                       /\ t \in asleep[c]
                       /\ asleep' = [asleep EXCEPT ![c] = @ \ {t}]
                       /\ UNCHANGED queue

After(i) == (i + 1) % queue.capacity

-----------------------------------------------------------------------------
(* queue_push                                                              *)

PushWaits(t) == /\ Awake(t)
                /\ queue.size >= queue.capacity
                /\ Wait(t, "consumed")
                /\ UNCHANGED queue

\* Slip: the writer runs past the end of the array.
PushPutsPastEnd(t, v) == /\ Awake(t)
                         /\ queue.size < queue.capacity
                         /\ queue' = [queue EXCEPT !.data[queue.writer % queue.capacity] = v,
                                                   !.writer = @ + 1, !.size = @ + 1]
                         /\ Signal("produced")

PushPuts(t, v) == /\ Awake(t)
                  /\ queue.size < queue.capacity
                  /\ queue' = [queue EXCEPT !.data[queue.writer] = v,
                                            !.writer = After(@), !.size = @ + 1]
                  /\ Signal("produced")

-----------------------------------------------------------------------------
(* queue_pop                                                               *)

First == queue.data[queue.reader]

PopWaits(t) == /\ Awake(t)
               /\ queue.size = 0
               /\ Wait(t, "produced")
               /\ UNCHANGED queue

\* Slip: producers are not woken.
PopTakesSilently(t) == /\ Awake(t)
                       /\ queue.size > 0 /\ First # NULL
                       /\ queue' = [queue EXCEPT !.reader = After(@), !.size = @ - 1]
                       /\ UNCHANGED asleep

\* The caller finds the value in First.
PopTakes(t) == /\ Awake(t)
               /\ queue.size > 0 /\ First # NULL
               /\ queue' = [queue EXCEPT !.reader = After(@), !.size = @ - 1]
               /\ Signal("consumed")

PopSentinel(t) == /\ Awake(t)
                  /\ queue.size > 0 /\ First = NULL
                  /\ Signal("produced")
                  /\ UNCHANGED queue
=============================================================================
