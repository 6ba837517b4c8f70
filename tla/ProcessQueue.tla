---------------------------- MODULE ProcessQueue ----------------------------
(***************************************************************************)
(* Project 01, src/queue.c: the linked queue of processes.  A queue is the *)
(* struct Queue; the next pointers of all processes are one function, for  *)
(* a process that one queue lost can still be linked into another.  Each   *)
(* operation yields the queue and the pointers after it.                   *)
(***************************************************************************)
EXTENDS Naturals, Sequences, FiniteSets

CONSTANTS Process,  \* addresses of Process structures
          NULL

ASSUME ProcessAssumption == NULL \notin Process /\ IsFiniteSet(Process)

EmptyQueue == [head |-> NULL, tail |-> NULL, size |-> 0]

Pointer == Process \cup {NULL}

\* What a walk along next meets from head, NULL after the end (a walk is cut off
\* after as many steps as there are processes).
Walk(q, next) ==
  LET at[i \in 1 .. Cardinality(Process)] ==
        IF i = 1 THEN q.head ELSE IF at[i - 1] = NULL THEN NULL ELSE next[at[i - 1]]
  IN  at

Members(q, next) == {Walk(q, next)[i] : i \in 1 .. Cardinality(Process)} \ {NULL}

-----------------------------------------------------------------------------
(* Slips of the queue's operations, each of which breaks a property below.   *)

\* The first process becomes the head and not the tail.
PushForgetsTail(q, next, p) ==
  IF q.head = NULL \/ q.tail = NULL
    THEN [queue |-> [q EXCEPT !.head = p, !.size = @ + 1], next |-> [next EXCEPT ![p] = NULL]]
    ELSE [queue |-> [q EXCEPT !.tail = p, !.size = @ + 1],
          next  |-> [next EXCEPT ![q.tail] = p, ![p] = NULL]]

\* The process is linked in front of the head.
PushInFront(q, next, p) ==
  [queue |-> [head |-> p, tail |-> IF q.head = NULL THEN p ELSE q.tail, size |-> q.size + 1],
   next  |-> [next EXCEPT ![p] = q.head]]

\* The size stays as it is.
PopUncounted(q, next) ==
  IF q.head = NULL
    THEN [queue |-> q, next |-> next]
    ELSE [queue |-> [q EXCEPT !.head = next[q.head],
                              !.tail = IF next[q.head] = NULL THEN NULL ELSE @],
          next  |-> [next EXCEPT ![q.head] = NULL]]

\* Only the removal of the head is counted.
RemoveUncounted(q, next, p) ==
  IF q.head = p
    THEN [queue |-> [head |-> next[p], tail |-> IF next[p] = NULL THEN NULL ELSE q.tail,
                     size |-> q.size - 1],
          next  |-> [next EXCEPT ![p] = NULL]]
    ELSE LET prev == CHOOSE r \in Members(q, next) : next[r] = p
         IN  [queue |-> q, next |-> [next EXCEPT ![prev] = next[p], ![p] = NULL]]

-----------------------------------------------------------------------------
\* queue_push: the tail is trusted whenever neither pointer is NULL.
Push(q, next, p) ==
  IF q.head = NULL \/ q.tail = NULL
    THEN [queue |-> [head |-> p, tail |-> p, size |-> q.size + 1],
          next  |-> [next EXCEPT ![p] = NULL]]
    ELSE [queue |-> [q EXCEPT !.tail = p, !.size = @ + 1],
          next  |-> [next EXCEPT ![q.tail] = p, ![p] = NULL]]

\* queue_pop: the process popped is q.head; nothing happens to an empty queue.
Pop(q, next) ==
  IF q.head = NULL
    THEN [queue |-> q, next |-> next]
    ELSE [queue |-> [head |-> next[q.head],
                     tail |-> IF next[q.head] = NULL THEN NULL ELSE q.tail,
                     size |-> q.size - 1],
          next  |-> [next EXCEPT ![q.head] = NULL]]

\* queue_remove of a process that the walk meets.  Unless it is the head, its
\* predecessor is linked to its successor and tail stays as it is, also when the
\* process removed is the last one.
Remove(q, next, p) ==
  IF q.head = p
    THEN Pop(q, next)
    ELSE LET prev == CHOOSE r \in Members(q, next) : next[r] = p
         IN  [queue |-> [q EXCEPT !.size = @ - 1],
              next  |-> [next EXCEPT ![prev] = next[p], ![p] = NULL]]
=============================================================================
