------------------------- MODULE RequestQueueProofs -------------------------
(***************************************************************************)
(* Theorems about RequestQueue, for any number of threads and requests:    *)
(* its invariants, and at the end that it implements AtomicQueue.          *)
(***************************************************************************)
EXTENDS RequestQueue, SequenceTheorems, FiniteSetTheorems, Induction, TLAPS

-----------------------------------------------------------------------------
(* The inductive invariant.  TypeOK alone is not inductive: that queue_pop   *)
(* finds a request behind head follows from size > 0 only because the list   *)
(* is whole, and the list stays whole only because the requests that threads *)
(* own are not linked into it.                                               *)

\* A thread owns a request exactly between its allocation and its linking, and
\* between its unlinking and its deletion.
Owning == {"push_lock", "push", "got"}

OwnerInv ==
  /\ \A t \in Thread : req[t] # NULL <=> pc[t] \in Owning
  /\ \A t \in Thread : req[t] # NULL => req[t] \in live
  /\ \A t \in Thread : pc[t] \in {"push_lock", "push"} => next[req[t]] = NULL
  /\ \A t, u \in Thread : req[t] = req[u] /\ req[t] # NULL => t = u

\* s lists the queue, and nothing in it is freed or owned by a thread.
ListedBy(s) == /\ s \in [1 .. size -> Request]
               /\ IsChain(s)
               /\ \A i \in 1 .. size : s[i] \in live
               /\ \A i \in 1 .. size : \A t \in Thread : s[i] # req[t]

\* queue_delete runs when every other thread is gone, and it is the last step.
EndInv == deleted => \A t \in Thread : pc[t] = "exited"

ListInv == deleted \/ \E s : ListedBy(s)

IInv == TypeOK /\ MutexOK /\ OwnerInv /\ EndInv /\ ListInv

-----------------------------------------------------------------------------
\* queue_create establishes the invariant.
LEMMA InitIInv == Init => IInv
<1> SUFFICES ASSUME Init PROVE IInv
  OBVIOUS
<1>1. TypeOK
  <2>1. pc \in [Thread -> PushPcs \cup PopPcs \cup
                      {"idle", "got", "shutdown_lock", "shutdown", "exited"}]
    BY DEF Init
  <2>2. running \in BOOLEAN /\ deleted \in BOOLEAN
    BY DEF Init
  <2>3. expired \in [Thread -> BOOLEAN]
    BY DEF Init
  <2> QED BY <2>1, <2>2, <2>3 DEF Init, TypeOK
<1>2. MutexOK
  BY NullAssumption DEF Init, MutexOK, Critical
<1>3. OwnerInv /\ EndInv
  BY DEF Init, OwnerInv, EndInv, Owning
<1>4. ListInv
  <2> DEFINE s == [i \in 1 .. 0 |-> NULL]
  <2>1. ListedBy(s)
    BY DEF Init, ListedBy, IsChain
  <2> QED BY <2>1 DEF ListInv
<1> QED BY <1>1, <1>2, <1>3, <1>4 DEF IInv

-----------------------------------------------------------------------------
(* Steps that leave the list and the owners of requests alone.             *)

Quiet(t) == \/ PushLock(t) \/ Signal(t) \/ CallPop(t) \/ PopLock(t) \/ PopWait(t)
            \/ DeadlinePasses(t) \/ WaitTimesOut(t) \/ SpuriousWakeup(t) \/ Relock(t)
            \/ RecheckStopped(t) \/ RecheckRunning(t) \/ CallShutdown(t)
            \/ ShutdownLock(t) \/ Shutdown(t) \/ Exit(t)

ListUntouched == UNCHANGED <<head, tail, size, next, live, req, deleted>>

\* The steps that move a thread, and the mutex, but neither the list nor a request.
LEMMA QuietKeepsIInv ==
  ASSUME IInv, NEW t \in Thread, Quiet(t) PROVE IInv'
<1> USE DEF Goto, Lock, Unlock, queue
<1>1. ListUntouched
  BY DEF Quiet, ListUntouched, PushLock, Signal, CallPop, PopLock, PopWait, DeadlinePasses,
         WaitTimesOut, SpuriousWakeup, Relock, RecheckStopped, RecheckRunning,
         CallShutdown, ShutdownLock, Shutdown, Exit
<1>2. TypeOK'
  BY DEF IInv, TypeOK, PushPcs, PopPcs, Quiet, PushLock, Signal, Waiters, CallPop, PopLock,
         PopWait, DeadlinePasses, WaitTimesOut, SpuriousWakeup, Relock, RecheckStopped,
         RecheckRunning, CallShutdown, ShutdownLock, Shutdown, Exit
<1>3. MutexOK'
  BY NullAssumption
     DEF IInv, TypeOK, MutexOK, Critical, Quiet, PushLock, Signal, Waiters, CallPop, PopLock,
         PopWait, DeadlinePasses, WaitTimesOut, SpuriousWakeup, Relock, RecheckStopped,
         RecheckRunning, CallShutdown, ShutdownLock, Shutdown, Exit
<1>4. OwnerInv'
  BY DEF IInv, TypeOK, OwnerInv, Owning, PopPcs, Quiet, PushLock, Signal, Waiters, CallPop,
         PopLock, PopWait, DeadlinePasses, WaitTimesOut, SpuriousWakeup, Relock,
         RecheckStopped, RecheckRunning, CallShutdown, ShutdownLock, Shutdown, Exit
<1>5. EndInv'
  BY DEF IInv, TypeOK, EndInv, PopPcs, Quiet, PushLock, Signal, Waiters, CallPop, PopLock,
         PopWait, DeadlinePasses, WaitTimesOut, SpuriousWakeup, Relock, RecheckStopped,
         RecheckRunning, CallShutdown, ShutdownLock, Shutdown, Exit
<1>6. ListInv'
  BY <1>1 DEF IInv, ListInv, ListedBy, IsChain, ListUntouched
<1> QED BY <1>2, <1>3, <1>4, <1>5, <1>6 DEF IInv

-----------------------------------------------------------------------------
(* Steps that change who owns a request.                                   *)

\* A request that is just being allocated is not in the list.
LEMMA CallPushList ==
  ASSUME IInv, NEW t \in Thread, NEW m \in Request, CallPush(t, m), NEW s, ListedBy(s)
  PROVE  ListedBy(s)'
<1> USE NullAssumption DEF CallPush, Goto, queue
<1>1. \A i \in 1 .. size : s[i] # m
  BY DEF ListedBy
<1>2. \A i \in 1 .. size : next'[s[i]] = next[s[i]]
  BY <1>1 DEF ListedBy, IInv, TypeOK
<1>3. \A i \in 1 .. size : \A u \in Thread : s[i] # req'[u]
  BY <1>1 DEF ListedBy, IInv, TypeOK
<1>4. IsChain(s)'
  BY <1>2 DEF ListedBy, IsChain, IInv, TypeOK
<1> QED BY <1>3, <1>4 DEF ListedBy

\* request_create: a fresh request is owned by its producer and in no list.
LEMMA CallPushKeepsIInv ==
  ASSUME IInv, NEW t \in Thread, NEW m \in Request, CallPush(t, m) PROVE IInv'
<1> USE NullAssumption DEF CallPush, Goto, queue
<1>1. TypeOK'
  BY DEF IInv, TypeOK, PushPcs
<1>2. MutexOK' /\ EndInv'
  BY DEF IInv, TypeOK, MutexOK, Critical, EndInv
<1>3. OwnerInv'
  BY DEF IInv, TypeOK, OwnerInv, Owning
<1>4. ListInv'
  BY CallPushList DEF IInv, ListInv
<1> QED BY <1>1, <1>2, <1>3, <1>4 DEF IInv

\* A request that is given up, by a refused push or a deletion, was in no list.
LEMMA GiveUpKeepsIInv ==
  ASSUME IInv, NEW t \in Thread, PushRefused(t) \/ DeleteRequest(t) PROVE IInv'
<1> USE NullAssumption DEF PushRefused, DeleteRequest, Goto, Unlock, queue
<1>1. TypeOK'
  BY DEF IInv, TypeOK
<1>2. MutexOK' /\ EndInv'
  BY DEF IInv, TypeOK, MutexOK, Critical, EndInv
<1>3. OwnerInv'
  BY DEF IInv, TypeOK, OwnerInv, Owning
<1>4. ListInv'
  <2>1. ~deleted
    BY DEF IInv, EndInv
  <2>2. PICK s : ListedBy(s)
    BY <2>1 DEF IInv, ListInv
  <2>3. ListedBy(s)'
    BY <2>2 DEF ListedBy, IsChain, IInv, TypeOK
  <2> QED BY <2>3 DEF ListInv
<1> QED BY <1>1, <1>2, <1>3, <1>4 DEF IInv

-----------------------------------------------------------------------------
(* The two steps that change the list, and its deletion.                   *)

\* queue_push: the list grows by one request behind tail.
LEMMA PushLinkList ==
  ASSUME IInv, NEW t \in Thread, PushLink(t), NEW s, ListedBy(s),
         NEW z, z = [i \in 1 .. size + 1 |-> IF i <= size THEN s[i] ELSE req[t]]
  PROVE  ListedBy(z)'
<1> USE NullAssumption DEF PushLink, Goto, Unlock
<1> DEFINE r == req[t]
<1>1. r \in Request /\ r \in live /\ next[r] = NULL
  BY DEF IInv, TypeOK, OwnerInv, Owning
<1>2. size \in Nat /\ next \in [Request -> Request \cup {NULL}]
  BY DEF IInv, TypeOK
<1>3. /\ \A i \in 1 .. size : s[i] \in Request /\ s[i] \in live /\ s[i] # r
      /\ IsChain(s)
  BY DEF ListedBy
<1>4. next' = IF size > 0 THEN [next EXCEPT ![s[size]] = r] ELSE next
  BY <1>2, <1>3 DEF IsChain
<1>5. /\ z \in [1 .. size' -> Request]
      /\ \A i \in 1 .. size : z[i] = s[i]
      /\ z[size + 1] = r
      /\ size' = size + 1
  BY <1>1, <1>2, <1>3
<1>6. /\ \A i \in 1 .. size' : z[i] \in live'
      /\ \A i \in 1 .. size' : \A u \in Thread : z[i] # req'[u]
  BY <1>1, <1>2, <1>3, <1>5 DEF ListedBy, IInv, TypeOK, OwnerInv
<1>7. IsChain(z)'
  <2>1. size' > 0 => head' = z[1] /\ tail' = z[size'] /\ next'[z[size']] = NULL
    BY <1>1, <1>2, <1>3, <1>4, <1>5 DEF IsChain
  <2>2. \A i \in 1 .. size' - 1 : next'[z[i]] = z[i + 1]
    <3> SUFFICES ASSUME NEW i \in 1 .. size PROVE next'[s[i]] = z[i + 1]
      BY <1>2, <1>5
    <3>1. CASE i = size
      BY <1>2, <1>3, <1>4, <1>5, <3>1
    <3>2. CASE i < size
      <4>1. s[i] # s[size] /\ next[s[i]] = s[i + 1]
        BY <1>2, <1>3, <3>2 DEF IsChain
      <4> QED BY <1>2, <1>3, <1>4, <1>5, <3>2, <4>1
    <3> QED BY <1>2, <3>1, <3>2
  <2>3. \A i, j \in 1 .. size' : z[i] = z[j] => i = j
    <3> SUFFICES ASSUME NEW i \in 1 .. size + 1, NEW j \in 1 .. size + 1, z[i] = z[j]
                 PROVE i = j
      BY <1>5
    <3>1. CASE i <= size /\ j <= size
      <4>1. i \in 1 .. size /\ j \in 1 .. size /\ s[i] = s[j]
        BY <1>2, <1>5, <3>1
      <4> QED BY <1>3, <4>1 DEF IsChain
    <3>2. CASE i = size + 1 \/ j = size + 1
      BY <1>2, <1>3, <1>5, <3>2
    <3> QED BY <1>2, <3>1, <3>2
  <2>4. size' # 0
    BY <1>2, <1>5
  <2> QED BY <2>1, <2>2, <2>3, <2>4 DEF IsChain
<1> QED BY <1>5, <1>6, <1>7 DEF ListedBy

\* The producer no longer owns the request that it has linked.
LEMMA PushLinkKeepsIInv ==
  ASSUME IInv, NEW t \in Thread, PushLink(t) PROVE IInv'
<1> USE NullAssumption DEF PushLink, Goto, Unlock
<1> DEFINE r == req[t]
<1>1. r \in Request /\ r \in live /\ next[r] = NULL /\ ~deleted
  BY DEF IInv, TypeOK, OwnerInv, Owning, EndInv
<1>2. PICK s : ListedBy(s)
  BY <1>1 DEF IInv, ListInv
<1>3. size \in Nat /\ next \in [Request -> Request \cup {NULL}]
  BY DEF IInv, TypeOK
<1>4. /\ \A i \in 1 .. size : s[i] \in Request /\ s[i] \in live /\ s[i] # r
      /\ IsChain(s)
  BY <1>2 DEF ListedBy
<1>5. next' = IF size > 0 THEN [next EXCEPT ![s[size]] = r] ELSE next
  BY <1>3, <1>4 DEF IsChain
<1>6. TypeOK'
  BY <1>1 DEF IInv, TypeOK, PushPcs
<1>7. MutexOK' /\ EndInv'
  BY DEF IInv, TypeOK, MutexOK, Critical, EndInv
<1>8. OwnerInv'
  <2>1. req' = [req EXCEPT ![t] = NULL] /\ live' = live
    OBVIOUS
  <2>2. \A u \in Thread : req[u] # NULL =>  next'[req[u]] = next[req[u]]
    <3>1. \A u \in Thread : \A i \in 1 .. size : s[i] # req[u]
      BY <1>2 DEF ListedBy
    <3>2. \A u \in Thread : req[u] # NULL => req[u] \in Request
      BY DEF IInv, TypeOK
    <3> QED BY <1>3, <1>5, <3>1, <3>2
  <2> QED BY <2>1, <2>2 DEF IInv, TypeOK, OwnerInv, Owning
<1>9. ListInv'
  <2> DEFINE list == [i \in 1 .. size + 1 |-> IF i <= size THEN s[i] ELSE r]
  <2>1. PICK z : z = list
    OBVIOUS
  <2>2. ListedBy(z)'
    BY <1>2, <2>1, PushLinkList
  <2> QED BY <2>2 DEF ListInv
<1> QED BY <1>6, <1>7, <1>8, <1>9 DEF IInv

\* queue_pop: the list loses its head.
LEMMA PopTakeList ==
  ASSUME IInv, NEW t \in Thread, PopTake(t), NEW s, ListedBy(s),
         NEW z, z = [i \in 1 .. size - 1 |-> s[i + 1]]
  PROVE  ListedBy(z)'
<1> USE NullAssumption DEF PopTake, Goto, Unlock
<1>1. size \in Nat /\ size > 0 /\ next \in [Request -> Request \cup {NULL}]
  BY DEF IInv, TypeOK
<1>2. /\ \A i \in 1 .. size : s[i] \in Request /\ s[i] \in live
      /\ \A i \in 1 .. size : \A u \in Thread : s[i] # req[u]
      /\ IsChain(s)
      /\ head = s[1]
  BY <1>1 DEF ListedBy, IsChain
<1>3. z \in [1 .. size' -> Request] /\ size' = size - 1
  BY <1>1, <1>2
<1>4. \A i \in 1 .. size - 1 : i + 1 \in 1 .. size /\ z[i] = s[i + 1] /\ s[i + 1] # s[1]
  BY <1>1, <1>2 DEF IsChain
<1>5. req' = [req EXCEPT ![t] = s[1]] /\ size' = size - 1 /\ live' = live
  BY <1>2
<1>6. /\ \A i \in 1 .. size' : z[i] \in live'
      /\ \A i \in 1 .. size' : \A u \in Thread : z[i] # req'[u]
  BY <1>1, <1>2, <1>4, <1>5 DEF IInv, TypeOK
<1>7. IsChain(z)'
  <2>1. \A i \in 1 .. size - 1 : next'[z[i]] = next[s[i + 1]]
    BY <1>1, <1>2, <1>4
  <2>2. head' = next[s[1]] /\ tail' = tail
    BY <1>2
  <2>3. size' = 0 => head' = NULL
    BY <1>1, <1>2, <1>5, <2>2 DEF IsChain
  <2>4. size' > 0 => head' = z[1] /\ tail' = z[size'] /\ next'[z[size']] = NULL
    BY <1>1, <1>2, <1>4, <1>5, <2>1, <2>2 DEF IsChain
  <2>5. \A i \in 1 .. size' - 1 : next'[z[i]] = z[i + 1]
    <3>1. ASSUME NEW i \in 1 .. size - 2 PROVE next'[z[i]] = z[i + 1]
      <4>1. next[s[i + 1]] = s[i + 2]
        BY <1>1, <1>2 DEF IsChain
      <4>2. z[i + 1] = s[i + 2]
        BY <1>1, <1>4
      <4> QED BY <1>1, <2>1, <4>1, <4>2
    <3>2. size' - 1 = size - 2
      BY <1>1, <1>3
    <3> QED BY <3>1, <3>2, Zenon
  <2>6. \A i, j \in 1 .. size' : z[i] = z[j] => i = j
    <3> SUFFICES ASSUME NEW i \in 1 .. size - 1, NEW j \in 1 .. size - 1, z[i] = z[j]
                 PROVE i = j
      BY <1>1, <1>3
    <3>1. s[i + 1] = s[j + 1]
      BY <1>4
    <3> QED BY <1>1, <1>2, <3>1 DEF IsChain
  <2> QED BY <2>3, <2>4, <2>5, <2>6 DEF IsChain
<1> QED BY <1>3, <1>6, <1>7 DEF ListedBy

\* The consumer now owns what was the head.
LEMMA PopTakeKeepsIInv ==
  ASSUME IInv, NEW t \in Thread, PopTake(t) PROVE IInv'
<1> USE NullAssumption DEF PopTake, Goto, Unlock
<1>1. ~deleted
  BY DEF IInv, EndInv
<1>2. PICK s : ListedBy(s)
  BY <1>1 DEF IInv, ListInv
<1>3. size \in Nat /\ size > 0 /\ next \in [Request -> Request \cup {NULL}]
  BY DEF IInv, TypeOK
<1>4. /\ \A i \in 1 .. size : s[i] \in Request /\ s[i] \in live
      /\ \A i \in 1 .. size : \A u \in Thread : s[i] # req[u]
      /\ IsChain(s)
      /\ head = s[1]
  BY <1>2, <1>3 DEF ListedBy, IsChain
<1>5. head \in Request /\ head \in live /\ \A u \in Thread : req[u] # head
  BY <1>3, <1>4
<1>6. TypeOK'
  BY <1>3, <1>5 DEF IInv, TypeOK
<1>7. MutexOK' /\ EndInv'
  BY DEF IInv, TypeOK, MutexOK, Critical, EndInv
<1>8. OwnerInv'
  BY <1>5 DEF IInv, TypeOK, OwnerInv, Owning
<1>9. ListInv'
  <2> DEFINE list == [i \in 1 .. size - 1 |-> s[i + 1]]
  <2>1. PICK z : z = list
    OBVIOUS
  <2>2. ListedBy(z)'
    BY <1>2, <2>1, PopTakeList
  <2> QED BY <2>2 DEF ListInv
<1> QED BY <1>6, <1>7, <1>8, <1>9 DEF IInv

\* queue_delete: the list is gone, and no thread is left to look at it.
LEMMA DeleteKeepsIInv ==
  ASSUME IInv, Delete(Closer) PROVE IInv'
<1> USE DEF Delete, Goto, queue
<1>1. Closer \in Thread
  BY DEF Thread
<1>2. TypeOK' /\ MutexOK' /\ EndInv' /\ ListInv'
  BY <1>1 DEF IInv, TypeOK, MutexOK, Critical, EndInv, ListInv
<1>3. OwnerInv'
  BY <1>1 DEF IInv, TypeOK, OwnerInv, Owning
<1> QED BY <1>2, <1>3 DEF IInv

-----------------------------------------------------------------------------
\* Every step keeps the invariant.
LEMMA NextKeepsIInv == IInv /\ [Next]_vars => IInv'
<1> SUFFICES ASSUME IInv, [Next]_vars PROVE IInv'
  OBVIOUS
<1> USE DEF Quiet, Thread
<1>1. ASSUME NEW t \in Producer, Exit(t) \/ \E m \in Request : CallPush(t, m) PROVE IInv'
  BY <1>1, QuietKeepsIInv, CallPushKeepsIInv
<1>2. ASSUME NEW t \in Consumer, Exit(t) \/ CallPop(t) \/ SpuriousWakeup(t) PROVE IInv'
  BY <1>2, QuietKeepsIInv
<1>3. CASE CallShutdown(Closer) \/ Shutdown(Closer) \/ Delete(Closer)
  BY <1>3, QuietKeepsIInv, DeleteKeepsIInv
<1>4. ASSUME NEW t \in Thread, PushStep(t) \/ PopStep(t) PROVE IInv'
  BY <1>4, QuietKeepsIInv, GiveUpKeepsIInv, PushLinkKeepsIInv, PopTakeKeepsIInv
     DEF PushStep, PopStep
<1>5. ASSUME NEW t \in Thread, LockStep(t) \/ DeadlinePasses(t) \/ WaitTimesOut(t) PROVE IInv'
  BY <1>5, QuietKeepsIInv DEF LockStep
<1>6. CASE UNCHANGED vars
  BY <1>6 DEF vars, IInv, TypeOK, MutexOK, OwnerInv, EndInv, ListInv, ListedBy, IsChain
<1> QED BY <1>1, <1>2, <1>3, <1>4, <1>5, <1>6 DEF Next

\* The strengthening that makes the invariants inductive holds in every state of
\* the queue.
THEOREM InvariantHolds == SafeSpec => []IInv
BY InitIInv, NextKeepsIInv, PTL DEF SafeSpec

\* Every field of the queue, and every thread, stays within its type.
THEOREM TypeCorrect == SafeSpec => []TypeOK
BY InvariantHolds, PTL DEF IInv

\* Whatever the number of threads: the mutex is held exactly while its holder is
\* in a critical section, so no two threads are in one together.
THEOREM MutexCorrect == SafeSpec => []MutexOK
BY InvariantHolds, PTL DEF IInv

\* For any number of producers and consumers, head, tail, size and next describe
\* one list of allocated requests until queue_delete.
THEOREM ListCorrect == SafeSpec => []ListOK
<1>1. IInv => ListOK
  BY DEF IInv, ListInv, ListedBy, ListOK, Chains
<1> QED BY <1>1, InvariantHolds, PTL

-----------------------------------------------------------------------------
(* What the queue holds.  head, size and next determine the list (by       *)
(* induction along it), so Items is that list, and a step does to it what  *)
(* a FIFO queue does.                                                      *)

\* Two lists that start at head and follow next are the same.
LEMMA ChainUnique ==
  ASSUME size \in Nat, NEW s \in Chains, NEW u \in Chains
  PROVE  s = u
<1> DEFINE Same == {i \in 1 .. size : s[i] = u[i]}
<1>1. /\ s \in [1 .. size -> Request] /\ u \in [1 .. size -> Request]
      /\ size > 0 => s[1] = head /\ u[1] = head
      /\ \A i \in 1 .. size - 1 : next[s[i]] = s[i + 1] /\ next[u[i]] = u[i + 1]
  BY DEF Chains, IsChain
<1>2. 1 <= size => 1 \in Same
  BY <1>1
<1>3. \A i \in 1 .. size - 1 : i \in Same => i + 1 \in Same
  BY <1>1
<1>4. 1 .. size \subseteq Same
  <2> HIDE DEF Same
  <2> QED BY <1>2, <1>3, IntervalInduction
<1> QED BY <1>1, <1>4

\* So the one that Items chooses is any list of the queue.
LEMMA ItemsListed == \A s : size \in Nat /\ ListedBy(s) => Items = s
<1> SUFFICES ASSUME NEW s, size \in Nat, ListedBy(s) PROVE Items = s
  OBVIOUS
<1>1. s \in Chains
  BY DEF ListedBy, Chains
<1>2. Items \in Chains
  BY <1>1 DEF Items
<1> QED BY <1>1, <1>2, ChainUnique

\* The list as a sequence, and the requests in it.
LEMMA ItemsType ==
  ASSUME IInv, ~deleted
  PROVE  /\ ListedBy(Items)
         /\ Items \in Seq(Request) /\ Len(Items) = size
         /\ Queued = {Items[i] : i \in 1 .. size}
<1>1. PICK s : ListedBy(s)
  BY DEF IInv, ListInv
<1>2. size \in Nat
  BY DEF IInv, TypeOK
<1>3. Items = s
  BY <1>1, <1>2, ItemsListed
<1>4. s \in [1 .. size -> Request]
  BY <1>1 DEF ListedBy
<1> QED BY <1>1, <1>2, <1>3, <1>4 DEF Queued

\* queue_push appends.
LEMMA PushLinkItems ==
  ASSUME IInv, NEW t \in Thread, PushLink(t)
  PROVE  Items' = Append(Items, req[t])
<1>1. ~deleted
  BY DEF IInv, EndInv, PushLink, Goto
<1>2. ListedBy(Items) /\ Items \in Seq(Request) /\ Len(Items) = size
  BY <1>1, ItemsType
<1>3. size \in Nat /\ size' \in Nat
  BY DEF IInv, TypeOK, PushLink
<1> DEFINE list == [i \in 1 .. size + 1 |-> IF i <= size THEN Items[i] ELSE req[t]]
<1>4. PICK z : z = list
  OBVIOUS
<1>5. ListedBy(z)'
  BY <1>2, <1>4, PushLinkList
<1>6. (\A s : size \in Nat /\ ListedBy(s) => Items = s)'
  BY ItemsListed, PTL
<1>7. Items' = z
  BY <1>3, <1>5, <1>6
<1> QED BY <1>2, <1>3, <1>4, <1>7

\* queue_pop takes the first request.
LEMMA PopTakeItems ==
  ASSUME IInv, NEW t \in Thread, PopTake(t)
  PROVE  Items # << >> /\ head = Head(Items) /\ Items' = Tail(Items)
<1>1. ~deleted
  BY DEF IInv, EndInv, PopTake, Goto
<1>2. ListedBy(Items) /\ Items \in Seq(Request) /\ Len(Items) = size
  BY <1>1, ItemsType
<1>3. size \in Nat /\ size' \in Nat /\ size > 0 /\ head = Items[1]
  BY <1>2 DEF IInv, TypeOK, PopTake, ListedBy, IsChain
<1> DEFINE list == [i \in 1 .. size - 1 |-> Items[i + 1]]
<1>4. PICK z : z = list
  OBVIOUS
<1>5. ListedBy(z)'
  BY <1>2, <1>4, PopTakeList
<1>6. (\A s : size \in Nat /\ ListedBy(s) => Items = s)'
  BY ItemsListed, PTL
<1>7. Items' = z
  BY <1>3, <1>5, <1>6
<1>8. Items # << >> /\ head = Head(Items)
  BY <1>2, <1>3
<1>9. /\ Tail(Items) \in Seq(Request) /\ Len(Tail(Items)) = size - 1
      /\ \A i \in 1 .. size - 1 : Tail(Items)[i] = Items[i + 1]
  BY <1>2, <1>8, HeadTailProperties
<1>10. z = Tail(Items)
  <2>1. Tail(Items) \in [1 .. size - 1 -> Request]
    BY <1>9, LenProperties
  <2>2. z \in [1 .. size - 1 -> Request] /\ \A i \in 1 .. size - 1 : z[i] = Items[i + 1]
    <3>1. \A i \in 1 .. size - 1 : i + 1 \in 1 .. size
      BY <1>3
    <3>2. Items \in [1 .. size -> Request]
      BY <1>2, LenProperties
    <3> QED BY <1>4, <3>1, <3>2
  <2> QED BY <1>9, <2>1, <2>2
<1> QED BY <1>7, <1>8, <1>10

\* Allocating a request leaves the list as it is.
LEMMA CallPushItems ==
  ASSUME IInv, NEW t \in Thread, NEW m \in Request, CallPush(t, m)
  PROVE  Items' = Items
<1>1. ~deleted
  BY DEF CallPush
<1>2. ListedBy(Items)
  BY <1>1, ItemsType
<1>3. size \in Nat /\ size' = size
  BY DEF IInv, TypeOK, CallPush, queue
<1>4. PICK z : z = Items
  OBVIOUS
<1>5. ListedBy(z)'
  BY <1>2, <1>4, CallPushList
<1>6. (\A s : size \in Nat /\ ListedBy(s) => Items = s)'
  BY ItemsListed, PTL
<1> QED BY <1>3, <1>4, <1>5, <1>6

\* So does every step that touches neither the list nor what it links.
LEMMA SameItems == UNCHANGED <<head, tail, size, next>> => Items' = Items
  BY DEF Items, Chains, IsChain

-----------------------------------------------------------------------------
(* Nothing leaks while the queue runs: with what the list holds, an          *)
(* allocated request is always somewhere.                                    *)

Accounted == running /\ ~deleted => \A m \in live : m \in Queued \/ \E t \in Thread : req[t] = m

\* The steps that leave the list and the owners alone lose no request.
LEMMA QuietKeepsAccounted ==
  ASSUME Accounted, NEW t \in Thread, Quiet(t) PROVE Accounted'
<1> USE DEF Goto, Lock, Unlock, queue
<1>1. UNCHANGED <<head, tail, size, next, live, req, deleted>>
  BY DEF Quiet, PushLock, Signal, CallPop, PopLock, PopWait, DeadlinePasses,
         WaitTimesOut, SpuriousWakeup, Relock, RecheckStopped, RecheckRunning,
         CallShutdown, ShutdownLock, Shutdown, Exit
<1>2. running' => running
  BY DEF Quiet, PushLock, Signal, CallPop, PopLock, PopWait, DeadlinePasses,
         WaitTimesOut, SpuriousWakeup, Relock, RecheckStopped, RecheckRunning,
         CallShutdown, ShutdownLock, Shutdown, Exit
<1>3. Items' = Items
  BY <1>1, SameItems
<1> QED BY <1>1, <1>2, <1>3 DEF Accounted, Queued

\* The steps that move a request from the list to a thread or back lose none either;
\* a push that is refused does, but then the queue no longer runs.
LEMMA OwnersKeepAccounted ==
  ASSUME IInv, Accounted, NEW t \in Thread,
         PushRefused(t) \/ DeleteRequest(t) \/ PushLink(t) \/ PopTake(t) PROVE Accounted'
<1>1. /\ req \in [Thread -> Request \cup {NULL}]
      /\ ~deleted
  BY DEF IInv, TypeOK, EndInv, Goto, PushRefused, DeleteRequest, PushLink, PopTake
<1>2. CASE PushRefused(t)
  BY <1>2 DEF PushRefused, Accounted, queue
<1>3. CASE DeleteRequest(t)
  <2>1. Items' = Items
    BY <1>3, SameItems DEF DeleteRequest, queue
  <2> QED BY <1>1, <1>3, <2>1 DEF DeleteRequest, Accounted, Queued, queue
<1>4. CASE PushLink(t)
  <2>1. Items' = Append(Items, req[t])
    BY <1>4, PushLinkItems
  <2>2. Items \in Seq(Request) /\ req[t] \in Request
    BY <1>1, <1>4, ItemsType DEF PushLink, Goto, IInv, OwnerInv, Owning
  <2>3. Queued' = Queued \cup {req[t]}
    <3>1. /\ Append(Items, req[t]) \in Seq(Request)
          /\ Len(Append(Items, req[t])) = Len(Items) + 1
          /\ \A i \in 1 .. Len(Items) : Append(Items, req[t])[i] = Items[i]
          /\ Append(Items, req[t])[Len(Items) + 1] = req[t]
      BY <2>2, AppendProperties
    <3>2. Len(Items) \in Nat /\ DOMAIN Items = 1 .. Len(Items)
      BY <2>2, LenProperties
    <3>3. DOMAIN Append(Items, req[t]) = 1 .. Len(Items) + 1
      BY <3>1, LenProperties
    <3> QED BY <2>1, <3>1, <3>2, <3>3 DEF Queued
  <2>4. req' = [req EXCEPT ![t] = NULL] /\ live' = live /\ running' = running /\ deleted' = deleted
    BY <1>4 DEF PushLink
  <2> QED BY <1>1, <2>3, <2>4 DEF Accounted
<1>5. CASE PopTake(t)
  <2>1. Items # << >> /\ head = Head(Items) /\ Items' = Tail(Items)
    BY <1>5, PopTakeItems
  <2>2. Items \in Seq(Request)
    BY <1>1, ItemsType
  <2>3. Queued \subseteq Queued' \cup {head}
    <3>1. /\ Tail(Items) \in Seq(Request) /\ Len(Tail(Items)) = Len(Items) - 1
          /\ \A i \in 1 .. Len(Tail(Items)) : Tail(Items)[i] = Items[i + 1]
      BY <2>1, <2>2, HeadTailProperties
    <3>2. Len(Items) \in Nat /\ DOMAIN Items = 1 .. Len(Items)
      BY <2>2, LenProperties
    <3>3. DOMAIN Tail(Items) = 1 .. Len(Items) - 1
      BY <3>1, LenProperties
    <3>4. \A i \in 1 .. Len(Items) : i = 1 \/ (i - 1 \in 1 .. Len(Items) - 1 /\ (i - 1) + 1 = i)
      BY <3>2
    <3>5. Head(Items) = Items[1]
      BY <2>1, <2>2
    <3> SUFFICES ASSUME NEW i \in 1 .. Len(Items) PROVE Items[i] \in Queued' \cup {head}
      BY <3>2 DEF Queued
    <3>6. CASE i = 1
      BY <2>1, <3>5, <3>6
    <3>7. CASE i - 1 \in 1 .. Len(Items) - 1 /\ (i - 1) + 1 = i
      <4>1. Items'[i - 1] = Items[i] /\ i - 1 \in DOMAIN Items'
        BY <2>1, <3>1, <3>3, <3>7
      <4> QED BY <4>1 DEF Queued
    <3> QED BY <3>4, <3>6, <3>7
  <2>4. /\ req' = [req EXCEPT ![t] = head] /\ live' = live /\ running' = running
        /\ deleted' = deleted /\ req[t] = NULL
    BY <1>5 DEF PopTake, Goto, IInv, OwnerInv, Owning
  <2>5. NULL \notin live
    BY NullAssumption DEF IInv, TypeOK
  <2> QED BY <1>1, <2>3, <2>4, <2>5 DEF Accounted
<1> QED BY <1>2, <1>3, <1>4, <1>5

\* A new request has an owner.
LEMMA CallPushKeepsAccounted ==
  ASSUME IInv, Accounted, NEW t \in Thread, NEW m \in Request, CallPush(t, m) PROVE Accounted'
<1>1. Items' = Items
  BY CallPushItems
<1>2. req \in [Thread -> Request \cup {NULL}] /\ req[t] = NULL /\ NULL \notin live
  BY NullAssumption DEF IInv, TypeOK, OwnerInv, Owning, CallPush, Goto
<1>3. /\ req' = [req EXCEPT ![t] = m] /\ live' = live \cup {m}
      /\ running' = running /\ deleted' = deleted
  BY DEF CallPush, queue
<1> QED BY <1>1, <1>2, <1>3 DEF Accounted, Queued

\* Every step keeps the account.
LEMMA NextKeepsAccounted == IInv /\ Accounted /\ [Next]_vars => Accounted'
<1> SUFFICES ASSUME IInv, Accounted, [Next]_vars PROVE Accounted'
  OBVIOUS
<1> USE DEF Quiet, Thread
<1>1. ASSUME NEW t \in Producer, Exit(t) \/ \E m \in Request : CallPush(t, m) PROVE Accounted'
  BY <1>1, QuietKeepsAccounted, CallPushKeepsAccounted
<1>2. ASSUME NEW t \in Consumer, Exit(t) \/ CallPop(t) \/ SpuriousWakeup(t) PROVE Accounted'
  BY <1>2, QuietKeepsAccounted
<1>3. CASE CallShutdown(Closer) \/ Shutdown(Closer)
  BY <1>3, QuietKeepsAccounted
<1>4. CASE Delete(Closer)
  BY <1>4 DEF Delete, Accounted
<1>5. ASSUME NEW t \in Thread, PushStep(t) \/ PopStep(t) PROVE Accounted'
  BY <1>5, QuietKeepsAccounted, OwnersKeepAccounted DEF PushStep, PopStep
<1>6. ASSUME NEW t \in Thread, LockStep(t) \/ DeadlinePasses(t) \/ WaitTimesOut(t) PROVE Accounted'
  BY <1>6, QuietKeepsAccounted DEF LockStep
<1>7. CASE UNCHANGED vars
  <2>1. Items' = Items
    BY <1>7, SameItems DEF vars, queue
  <2> QED BY <1>7, <2>1 DEF vars, queue, Accounted, Queued
<1> QED BY <1>1, <1>2, <1>3, <1>4, <1>5, <1>6, <1>7 DEF Next

\* A request has one owner, a thread or the list, whatever the interleaving; while the
\* queue runs, no allocated request is without one.
THEOREM OwnershipCorrect == SafeSpec => []OwnershipOK
<1>1. Init => Accounted
  BY DEF Init, Accounted
<1>2. IInv /\ Accounted => OwnershipOK
  <2> SUFFICES ASSUME IInv, Accounted PROVE OwnershipOK
    OBVIOUS
  <2>1. ~deleted => \A t \in Thread : req[t] \notin Queued
    BY ItemsType DEF ListedBy
  <2> QED BY <2>1 DEF IInv, OwnerInv, Accounted, OwnershipOK
<1> QED BY <1>1, <1>2, InvariantHolds, NextKeepsAccounted, PTL DEF SafeSpec

-----------------------------------------------------------------------------
(* The count of NoLostWakeup: what a step does to the threads that are awake *)
(* and to the number of requests.                                            *)

Awake == {t \in Thread : pc[t] \in AwakePcs}

\* A count can be made of any set of threads.
LEMMA AwakeFinite == \A S \in SUBSET Thread : IsFiniteSet(S) /\ Cardinality(S) \in Nat
BY ThreadsAssumption, FS_Subset, FS_CardinalityType

\* The steps that neither wake a thread, put one to sleep, nor touch the list.
LEMMA OthersKeepWakeup ==
  ASSUME TypeOK, NoLostWakeup, NEW t \in Thread,
         \/ PushLock(t) \/ PopLock(t) \/ Relock(t) \/ RecheckRunning(t) \/ DeleteRequest(t)
         \/ CallShutdown(t) \/ ShutdownLock(t) \/ Exit(t) \/ Delete(t) \/ DeadlinePasses(t)
         \/ \E m \in Request : CallPush(t, m)
  PROVE  NoLostWakeup'
<1> USE DEF Goto, Lock, Unlock, queue, AwakePcs
<1>1. UNCHANGED <<size, running>>
  BY DEF PushLock, PopLock, Relock, RecheckRunning, DeleteRequest, CallShutdown, ShutdownLock,
         Exit, Delete, DeadlinePasses, CallPush
<1>2. Awake' = Awake /\ Waiters' = Waiters
  BY DEF TypeOK, Awake, Waiters, PushLock, PopLock, Relock, RecheckRunning, DeleteRequest,
         CallShutdown, ShutdownLock, Exit, Delete, DeadlinePasses, CallPush
<1> QED BY <1>1, <1>2 DEF NoLostWakeup, Awake

\* A thread that wakes up, or calls queue_pop, is one more to take a request.
LEMMA WakingKeepsWakeup ==
  ASSUME TypeOK, NoLostWakeup, NEW t \in Thread,
         CallPop(t) \/ WaitTimesOut(t) \/ SpuriousWakeup(t)
  PROVE  NoLostWakeup'
<1> USE DEF Goto, queue, AwakePcs, CallPop, WaitTimesOut, SpuriousWakeup
<1>1. UNCHANGED <<size, running>>
  OBVIOUS
<1>2. Awake' = Awake \cup {t} /\ Waiters' \subseteq Waiters /\ t \notin Awake
  BY DEF TypeOK, Awake, Waiters
<1>3. Awake \in SUBSET Thread
  BY DEF Awake
<1>4. Cardinality(Awake') = Cardinality(Awake) + 1 /\ Cardinality(Awake) \in Nat
  BY <1>2, <1>3, AwakeFinite, FS_AddElement
<1>5. size \in Nat
  BY DEF TypeOK
<1>6. running' /\ Waiters' # {} => size <= Cardinality(Awake)
  BY <1>1, <1>2 DEF NoLostWakeup, Awake
<1>7. running' /\ Waiters' # {} => size' <= Cardinality(Awake')
  BY <1>1, <1>4, <1>5, <1>6
<1> QED BY <1>7 DEF NoLostWakeup, Awake

\* A push adds a request, and its producer to those who will do something about it;
\* a pop takes itself away together with one request.
LEMMA LinkAndTakeKeepWakeup ==
  ASSUME TypeOK, NoLostWakeup, NEW t \in Thread, PushLink(t) \/ PopTake(t)
  PROVE  NoLostWakeup'
<1> USE DEF Goto, AwakePcs, PushLink, PopTake
<1>1. running' = running /\ size \in Nat
  BY DEF TypeOK
<1>2. Awake \in SUBSET Thread
  BY DEF Awake
<1>3. Waiters' = Waiters
  BY DEF TypeOK, Waiters
<1>4. CASE PushLink(t)
  <2>1. Awake' = Awake \cup {t} /\ t \notin Awake /\ size' = size + 1
    BY <1>4 DEF TypeOK, Awake
  <2>2. Cardinality(Awake') = Cardinality(Awake) + 1 /\ Cardinality(Awake) \in Nat
    BY <1>2, <2>1, AwakeFinite, FS_AddElement
  <2>3. running /\ Waiters # {} => size' <= Cardinality(Awake')
    BY <1>1, <2>1, <2>2 DEF NoLostWakeup, Awake
  <2> QED BY <1>1, <1>3, <2>3 DEF NoLostWakeup, Awake
<1>5. CASE PopTake(t)
  <2>1. Awake' = Awake \ {t} /\ t \in Awake /\ size' = size - 1
    BY <1>5 DEF TypeOK, Awake
  <2>2. Cardinality(Awake') = Cardinality(Awake) - 1 /\ Cardinality(Awake) \in Nat
    BY <1>2, <2>1, AwakeFinite, FS_RemoveElement
  <2>3. running /\ Waiters # {} => size' <= Cardinality(Awake')
    BY <1>1, <2>1, <2>2 DEF NoLostWakeup, Awake
  <2> QED BY <1>1, <1>3, <2>3 DEF NoLostWakeup, Awake
<1> QED BY <1>4, <1>5

\* The consumer that cond_signal wakes takes the place of the producer that sent it.
LEMMA SignalKeepsWakeup ==
  ASSUME TypeOK, NoLostWakeup, NEW t \in Thread, Signal(t)
  PROVE  NoLostWakeup'
<1> USE DEF Signal, queue, AwakePcs
<1>1. UNCHANGED <<size, running>> /\ pc[t] = "signal" /\ t \in Awake
  BY DEF Awake
<1>2. CASE Waiters = {} /\ pc' = [pc EXCEPT ![t] = "idle"]
  <2>1. Waiters' = {}
    BY <1>2 DEF TypeOK, Waiters
  <2> QED BY <2>1 DEF NoLostWakeup
<1>3. ASSUME NEW w \in Waiters, pc' = [pc EXCEPT ![t] = "idle", ![w] = "relock"]
      PROVE  NoLostWakeup'
  <2>1. w \in Thread /\ w \notin Awake /\ w # t
    BY <1>1 DEF Waiters, Awake
  <2>2. Awake' = (Awake \ {t}) \cup {w}
    BY <1>1, <1>3, <2>1 DEF TypeOK, Awake
  <2>3. Awake \in SUBSET Thread /\ Awake \ {t} \in SUBSET Thread
    BY DEF Awake
  <2>4. Cardinality(Awake \ {t}) = Cardinality(Awake) - 1 /\ Cardinality(Awake) \in Nat
    BY <1>1, <2>3, AwakeFinite, FS_RemoveElement
  <2>5. Cardinality(Awake') = Cardinality(Awake \ {t}) + 1
    BY <2>1, <2>2, <2>3, AwakeFinite, FS_AddElement
  <2>6. Cardinality(Awake') = Cardinality(Awake)
    BY <2>4, <2>5
  <2> QED BY <1>1, <1>3, <2>6 DEF NoLostWakeup, Awake
<1> QED BY <1>2, <1>3

\* A consumer only goes to sleep on an empty queue, and a call that fails because the
\* queue is shut down has nothing left to lose.
LEMMA SleepAndStopKeepWakeup ==
  ASSUME TypeOK, NoLostWakeup, NEW t \in Thread,
         PopWait(t) \/ PushRefused(t) \/ RecheckStopped(t) \/ Shutdown(t)
  PROVE  NoLostWakeup'
<1> USE DEF Goto, Unlock, queue, PopWait, PushRefused, RecheckStopped, Shutdown
<1>1. ~running' \/ size' = 0
  OBVIOUS
<1>2. Cardinality(Awake') \in Nat
  <2>1. Awake' \in SUBSET Thread
    BY DEF Awake
  <2> QED BY <2>1, AwakeFinite
<1> QED BY <1>1, <1>2 DEF NoLostWakeup, Awake

\* Every step keeps the count.
LEMMA NextKeepsWakeup == TypeOK /\ NoLostWakeup /\ [Next]_vars => NoLostWakeup'
<1> SUFFICES ASSUME TypeOK, NoLostWakeup, [Next]_vars PROVE NoLostWakeup'
  OBVIOUS
<1> USE DEF Thread
<1>1. ASSUME NEW t \in Producer, Exit(t) \/ \E m \in Request : CallPush(t, m)
      PROVE  NoLostWakeup'
  BY <1>1, OthersKeepWakeup
<1>2. ASSUME NEW t \in Consumer, Exit(t) \/ CallPop(t) \/ SpuriousWakeup(t)
      PROVE  NoLostWakeup'
  BY <1>2, OthersKeepWakeup, WakingKeepsWakeup
<1>3. CASE CallShutdown(Closer) \/ Shutdown(Closer) \/ Delete(Closer)
  BY <1>3, OthersKeepWakeup, SleepAndStopKeepWakeup
<1>4. ASSUME NEW t \in Thread, PushStep(t) \/ PopStep(t) PROVE NoLostWakeup'
  BY <1>4, SleepAndStopKeepWakeup, LinkAndTakeKeepWakeup, SignalKeepsWakeup, OthersKeepWakeup
     DEF PushStep, PopStep
<1>5. ASSUME NEW t \in Thread, LockStep(t) \/ DeadlinePasses(t) \/ WaitTimesOut(t)
      PROVE  NoLostWakeup'
  BY <1>5, OthersKeepWakeup, WakingKeepsWakeup DEF LockStep
<1>6. CASE UNCHANGED vars
  BY <1>6 DEF vars, queue, NoLostWakeup, Waiters
<1> QED BY <1>1, <1>2, <1>3, <1>4, <1>5, <1>6 DEF Next

\* However many threads: while a consumer sleeps on a running queue, every request in
\* it has an awake consumer or a signal still to come, so none waits for a timeout.
THEOREM WakeupCorrect == SafeSpec => []NoLostWakeup
<1>1. Init => NoLostWakeup
  BY DEF Init, NoLostWakeup, Waiters
<1> QED BY <1>1, TypeCorrect, NextKeepsWakeup, PTL DEF SafeSpec

-----------------------------------------------------------------------------
(* The refinement: each critical section is one step of the abstract queue, *)
(* and every other step changes nothing that a caller could tell.           *)

\* Under the mapping the call of one thread changes, and no other.
CallMoves(t) == \A u \in Thread \ {t} : CallOf(u)' = CallOf(u)
CallsStay    == \A u \in Thread : CallOf(u)' = CallOf(u)

-----------------------------------------------------------------------------
(* The calls of the threads, step by step.                                 *)

\* What a thread at each control location is doing, seen from outside.
LEMMA CallOfPc ==
  \A t \in Thread :
    /\ pc[t] \in {"push_lock", "push"} => CallOf(t) = Atomic!Pushing(req[t])
    /\ pc[t] = "signal"                => CallOf(t) = Atomic!Pushed
    /\ pc[t] \in PopPcs                => CallOf(t) = Atomic!Popping
    /\ pc[t] = "got"                   => CallOf(t) = Atomic!Got(req[t])
    /\ pc[t] \in {"shutdown_lock", "shutdown"} => CallOf(t) = Atomic!Closing
    /\ pc[t] \in {"idle", "exited"}    => CallOf(t) = Atomic!Idle
BY DEF CallOf, PopPcs, Atomic!Pushing, Atomic!Pushed, Atomic!Popping, Atomic!Got,
       Atomic!Closing, Atomic!Idle

\* The same of the next state.
LEMMA CallOfPcNext ==
  \A t \in Thread :
    /\ pc'[t] \in {"push_lock", "push"} => CallOf(t)' = Atomic!Pushing(req'[t])
    /\ pc'[t] = "signal"                => CallOf(t)' = Atomic!Pushed
    /\ pc'[t] \in PopPcs                => CallOf(t)' = Atomic!Popping
    /\ pc'[t] = "got"                   => CallOf(t)' = Atomic!Got(req'[t])
    /\ pc'[t] \in {"shutdown_lock", "shutdown"} => CallOf(t)' = Atomic!Closing
    /\ pc'[t] \in {"idle", "exited"}    => CallOf(t)' = Atomic!Idle
BY DEF CallOf, PopPcs, Atomic!Pushing, Atomic!Pushed, Atomic!Popping, Atomic!Got,
       Atomic!Closing, Atomic!Idle

\* A thread whose location and request stay as they are is in the same call.
LEMMA CallOfSame ==
  \A u \in Thread : pc'[u] = pc[u] /\ req'[u] = req[u] => CallOf(u)' = CallOf(u)
BY DEF CallOf, PopPcs

\* A step that moves t only.
LEMMA CallOfOthers ==
  ASSUME TypeOK, NEW t \in Thread, NEW p, pc' = [pc EXCEPT ![t] = p],
         NEW r, req' = [req EXCEPT ![t] = r]
  PROVE  CallMoves(t)
BY CallOfSame DEF TypeOK, CallMoves

-----------------------------------------------------------------------------
(* The mapping of steps.                                                   *)

\* When one call changes, that is the abstract Become.
LEMMA BecomeFromMove ==
  ASSUME NEW t \in Thread, CallMoves(t), NEW from, NEW to,
         CallOf(t) = from, CallOf(t)' = to
  PROVE  Atomic!Become(t, from, to)
BY DEF CallMoves, Atomic!Become

\* When none does, and the list and running stay, the abstract queue stutters.
LEMMA StutterFromStay ==
  ASSUME CallsStay, Items' = Items, running' = running
  PROVE  UNCHANGED Atomic!avars
BY DEF CallsStay, Atomic!avars

\* The locks, the waits and the clock are invisible; so is what a thread does when it
\* ends, and queue_delete, which comes after every thread has ended.
LEMMA InvisibleSteps ==
  ASSUME IInv, NEW t \in Thread,
         \/ PushLock(t) \/ PopLock(t) \/ Relock(t) \/ ShutdownLock(t) \/ PopWait(t)
         \/ RecheckRunning(t) \/ DeadlinePasses(t) \/ WaitTimesOut(t) \/ SpuriousWakeup(t)
         \/ Exit(t) \/ Delete(t)
  PROVE  UNCHANGED Atomic!avars
<1> USE DEF Goto, Lock, Unlock, queue, PopPcs
<1>1. UNCHANGED <<head, tail, size, next, running, req>>
  BY DEF PushLock, PopLock, Relock, ShutdownLock, PopWait, RecheckRunning, DeadlinePasses,
         WaitTimesOut, SpuriousWakeup, Exit, Delete
<1>2. Items' = Items
  BY <1>1, SameItems
<1>3. \A u \in Thread : CallOf(u)' = CallOf(u)
  <2>1. \A u \in Thread \ {t} : pc'[u] = pc[u]
    BY DEF IInv, TypeOK, PushLock, PopLock, Relock, ShutdownLock, PopWait, RecheckRunning,
           DeadlinePasses, WaitTimesOut, SpuriousWakeup, Exit, Delete
  <2>2. \A u \in Thread \ {t} : CallOf(u)' = CallOf(u)
    BY <1>1, <2>1, CallOfSame
  <2>3. pc \in [Thread -> PushPcs \cup PopPcs \cup
                          {"idle", "got", "shutdown_lock", "shutdown", "exited"}]
    BY DEF IInv, TypeOK
  <2>4. \/ pc[t] \in {"push_lock", "push"} /\ pc'[t] \in {"push_lock", "push"}
        \/ pc[t] \in PopPcs /\ pc'[t] \in PopPcs
        \/ pc[t] \in {"shutdown_lock", "shutdown"} /\ pc'[t] \in {"shutdown_lock", "shutdown"}
        \/ pc[t] \in {"idle", "exited"} /\ pc'[t] \in {"idle", "exited"}
    BY <2>3 DEF PushLock, PopLock, Relock, ShutdownLock, PopWait, RecheckRunning,
           DeadlinePasses, WaitTimesOut, SpuriousWakeup, Exit, Delete
  <2>5. CallOf(t)' = CallOf(t)
    BY <1>1, <2>4, CallOfPc, CallOfPcNext
  <2> QED BY <2>2, <2>5
<1> QED BY <1>1, <1>2, <1>3, StutterFromStay DEF CallsStay

\* queue_push is called with a request that nobody refers to.
LEMMA CallPushBegins ==
  ASSUME IInv, NEW t \in Thread, NEW m \in Request, CallPush(t, m)
  PROVE  Atomic!BeginPush(t, m)
<1> USE DEF Goto, queue
<1>1. Items' = Items
  BY CallPushItems
<1>2. CallMoves(t)
  BY CallOfOthers DEF IInv, CallPush
<1>3. CallOf(t) = Atomic!Idle /\ CallOf(t)' = Atomic!Pushing(m)
  <2>1. pc[t] = "idle" /\ pc'[t] = "push_lock" /\ req'[t] = m
    BY DEF IInv, TypeOK, CallPush
  <2> QED BY <2>1, CallOfPc, CallOfPcNext
<1>4. Atomic!Become(t, Atomic!Idle, Atomic!Pushing(m))
  BY <1>2, <1>3, BecomeFromMove
<1>5. m \notin Atomic!InUse
  <2>1. ~deleted /\ m \notin live /\ m # NULL
    BY NullAssumption DEF CallPush
  <2>2. \A i \in DOMAIN Items : Items[i] # m
    BY <2>1, ItemsType DEF ListedBy
  <2>3. \A u \in Thread : CallOf(u).req \in {req[u], NULL}
    BY CallOfPc DEF IInv, TypeOK, PushPcs, PopPcs, Atomic!Idle, Atomic!Pushing, Atomic!Pushed,
       Atomic!Popping, Atomic!Got, Atomic!Closing
  <2>4. \A u \in Thread : req[u] # m
    BY <2>1 DEF IInv, OwnerInv
  <2> QED BY <2>1, <2>2, <2>3, <2>4 DEF Atomic!InUse
<1> QED BY <1>1, <1>4, <1>5 DEF CallPush, Atomic!BeginPush

\* Its critical section appends the request.
LEMMA PushLinkEnqueues ==
  ASSUME IInv, NEW t \in Thread, PushLink(t)
  PROVE  req[t] \in Request /\ Atomic!Enqueue(t, req[t])
<1> USE DEF Goto
<1>1. Items' = Append(Items, req[t])
  BY PushLinkItems
<1>2. CallMoves(t)
  BY CallOfOthers DEF IInv, PushLink
<1>3. pc[t] = "push" /\ pc'[t] = "signal" /\ req[t] \in Request
  BY DEF IInv, TypeOK, OwnerInv, Owning, PushLink
<1>4. CallOf(t) = Atomic!Pushing(req[t]) /\ CallOf(t)' = Atomic!Pushed
  BY <1>3, CallOfPc, CallOfPcNext
<1>5. Atomic!Become(t, Atomic!Pushing(req[t]), Atomic!Pushed)
  BY <1>2, <1>4, BecomeFromMove
<1> QED BY <1>1, <1>3, <1>5 DEF PushLink, Atomic!Enqueue

\* On a queue that is shut down it drops it.
LEMMA PushRefusedRefuses ==
  ASSUME IInv, NEW t \in Thread, PushRefused(t)
  PROVE  req[t] \in Request /\ Atomic!Refuse(t, req[t])
<1> USE DEF Goto, queue
<1>1. Items' = Items
  BY SameItems DEF PushRefused
<1>2. CallMoves(t)
  BY CallOfOthers DEF IInv, PushRefused
<1>3. pc[t] = "push" /\ pc'[t] = "idle" /\ req[t] \in Request
  BY DEF IInv, TypeOK, OwnerInv, Owning, PushRefused
<1>4. CallOf(t) = Atomic!Pushing(req[t]) /\ CallOf(t)' = Atomic!Idle
  BY <1>3, CallOfPc, CallOfPcNext
<1>5. Atomic!Become(t, Atomic!Pushing(req[t]), Atomic!Idle)
  BY <1>2, <1>4, BecomeFromMove
<1> QED BY <1>1, <1>3, <1>5 DEF PushRefused, Atomic!Refuse

\* cond_signal ends the push; the consumer it wakes stays inside queue_pop.
LEMMA SignalEndsPush ==
  ASSUME IInv, NEW t \in Thread, Signal(t)
  PROVE  Atomic!EndPush(t)
<1> USE DEF queue
<1>1. UNCHANGED <<head, tail, size, next, running, req>>
  BY DEF Signal
<1>2. Items' = Items
  BY <1>1, SameItems
<1>3. pc[t] = "signal" /\ pc'[t] = "idle"
  BY DEF IInv, TypeOK, Signal, Waiters
<1>4. \A u \in Thread \ {t} : pc'[u] = pc[u] \/ (pc[u] = "wait" /\ pc'[u] = "relock")
  BY DEF IInv, TypeOK, Signal, Waiters
<1>5. CallMoves(t)
  <2> SUFFICES ASSUME NEW u \in Thread \ {t} PROVE CallOf(u)' = CallOf(u)
    BY DEF CallMoves
  <2>1. CASE pc'[u] = pc[u]
    BY <1>1, <2>1, CallOfSame
  <2>2. CASE pc[u] = "wait" /\ pc'[u] = "relock"
    BY <2>2, CallOfPc, CallOfPcNext DEF PopPcs
  <2> QED BY <1>4, <2>1, <2>2
<1>6. CallOf(t) = Atomic!Pushed /\ CallOf(t)' = Atomic!Idle
  BY <1>3, CallOfPc, CallOfPcNext
<1>7. Atomic!Become(t, Atomic!Pushed, Atomic!Idle)
  BY <1>5, <1>6, BecomeFromMove
<1> QED BY <1>1, <1>2, <1>7 DEF Atomic!EndPush

\* queue_pop and queue_shutdown begin, and a popped request is deleted.
LEMMA CallPopBegins ==
  ASSUME IInv, NEW t \in Thread, CallPop(t)
  PROVE  Atomic!BeginPop(t)
<1> USE DEF Goto, queue
<1>1. UNCHANGED <<head, tail, size, next, running, req>> /\ pc' = [pc EXCEPT ![t] = "pop_lock"]
  BY DEF CallPop
<1>2. Items' = Items /\ \A u \in Thread \ {t} : pc'[u] = pc[u]
  BY <1>1, SameItems DEF IInv, TypeOK
<1>3. CallMoves(t)
  BY <1>1, <1>2, CallOfSame DEF CallMoves
<1>4. pc[t] = "idle" /\ pc'[t] = "pop_lock"
  BY DEF IInv, TypeOK, CallPop
<1>5. CallOf(t) = Atomic!Idle /\ CallOf(t)' = Atomic!Popping
  BY <1>4, CallOfPc, CallOfPcNext DEF PopPcs
<1>6. Atomic!Become(t, Atomic!Idle, Atomic!Popping)
  BY <1>3, <1>5, BecomeFromMove
<1> QED BY <1>1, <1>2, <1>6 DEF Atomic!BeginPop

\* The critical section of a pop takes the oldest request.
LEMMA PopTakeDequeues ==
  ASSUME IInv, NEW t \in Thread, PopTake(t)
  PROVE  Atomic!Dequeue(t)
<1> USE DEF Goto
<1>1. Items # << >> /\ head = Head(Items) /\ Items' = Tail(Items)
  BY PopTakeItems
<1>2. CallMoves(t)
  BY CallOfOthers DEF IInv, PopTake
<1>3. pc[t] = "pop" /\ pc'[t] = "got" /\ req'[t] = Head(Items)
  BY <1>1 DEF IInv, TypeOK, PopTake
<1>4. CallOf(t) = Atomic!Popping /\ CallOf(t)' = Atomic!Got(Head(Items))
  BY <1>3, CallOfPc, CallOfPcNext DEF PopPcs
<1>5. Atomic!Become(t, Atomic!Popping, Atomic!Got(Head(Items)))
  BY <1>2, <1>4, BecomeFromMove
<1> QED BY <1>1, <1>5 DEF PopTake, Atomic!Dequeue

\* NULL is the answer of a queue that is shut down, and of no other.
LEMMA RecheckStoppedPopsNull ==
  ASSUME IInv, NEW t \in Thread, RecheckStopped(t)
  PROVE  Atomic!PopNull(t)
<1> USE DEF Goto, queue
<1>1. /\ UNCHANGED <<head, tail, size, next, running, req>> /\ ~running
      /\ pc' = [pc EXCEPT ![t] = "idle"]
  BY DEF RecheckStopped
<1>2. Items' = Items /\ \A u \in Thread \ {t} : pc'[u] = pc[u]
  BY <1>1, SameItems DEF IInv, TypeOK
<1>3. CallMoves(t)
  BY <1>1, <1>2, CallOfSame DEF CallMoves
<1>4. pc[t] = "recheck" /\ pc'[t] = "idle"
  BY DEF IInv, TypeOK, RecheckStopped
<1>5. CallOf(t) = Atomic!Popping /\ CallOf(t)' = Atomic!Idle
  BY <1>4, CallOfPc, CallOfPcNext DEF PopPcs
<1>6. Atomic!Become(t, Atomic!Popping, Atomic!Idle)
  BY <1>3, <1>5, BecomeFromMove
<1> QED BY <1>1, <1>2, <1>6 DEF Atomic!PopNull

\* The consumer deletes the request it was given.
LEMMA DeleteRequestDiscards ==
  ASSUME IInv, NEW t \in Thread, DeleteRequest(t)
  PROVE  req[t] \in Request /\ Atomic!Discard(t, req[t])
<1> USE DEF Goto, queue
<1>1. Items' = Items
  BY SameItems DEF DeleteRequest
<1>2. CallMoves(t)
  BY CallOfOthers DEF IInv, DeleteRequest
<1>3. pc[t] = "got" /\ pc'[t] = "idle" /\ req[t] \in Request
  BY DEF IInv, TypeOK, OwnerInv, Owning, DeleteRequest
<1>4. CallOf(t) = Atomic!Got(req[t]) /\ CallOf(t)' = Atomic!Idle
  BY <1>3, CallOfPc, CallOfPcNext
<1>5. Atomic!Become(t, Atomic!Got(req[t]), Atomic!Idle)
  BY <1>2, <1>4, BecomeFromMove
<1> QED BY <1>1, <1>3, <1>5 DEF DeleteRequest, Atomic!Discard

\* queue_shutdown closes the queue in its critical section.
LEMMA ShutdownCloses ==
  ASSUME IInv, NEW t \in Thread
  PROVE  /\ CallShutdown(t) => Atomic!BeginClose(t)
         /\ Shutdown(t) => Atomic!Close(t)
<1> USE DEF Goto, queue
<1>1. ASSUME CallShutdown(t) \/ Shutdown(t) PROVE CallMoves(t) /\ Items' = Items
  <2>1. UNCHANGED <<head, tail, size, next, req>>
    BY <1>1 DEF CallShutdown, Shutdown
  <2>2. \A u \in Thread \ {t} : pc'[u] = pc[u]
    BY <1>1 DEF IInv, TypeOK, CallShutdown, Shutdown
  <2> QED BY <2>1, <2>2, SameItems, CallOfSame DEF CallMoves
<1>2. ASSUME CallShutdown(t) PROVE Atomic!BeginClose(t)
  <2>1. pc[t] = "idle" /\ pc'[t] = "shutdown_lock"
    BY <1>2 DEF IInv, TypeOK, CallShutdown
  <2>2. CallOf(t) = Atomic!Idle /\ CallOf(t)' = Atomic!Closing
    BY <2>1, CallOfPc, CallOfPcNext
  <2>3. Atomic!Become(t, Atomic!Idle, Atomic!Closing)
    BY <1>1, <1>2, <2>2, BecomeFromMove
  <2> QED BY <1>1, <1>2, <2>3 DEF CallShutdown, Atomic!BeginClose
<1>3. ASSUME Shutdown(t) PROVE Atomic!Close(t)
  <2>1. pc[t] = "shutdown" /\ pc'[t] = "idle"
    BY <1>3 DEF IInv, TypeOK, Shutdown
  <2>2. CallOf(t) = Atomic!Closing /\ CallOf(t)' = Atomic!Idle
    BY <2>1, CallOfPc, CallOfPcNext
  <2>3. Atomic!Become(t, Atomic!Closing, Atomic!Idle)
    BY <1>1, <1>3, <2>2, BecomeFromMove
  <2> QED BY <1>1, <1>3, <2>3 DEF Shutdown, Atomic!Close
<1> QED BY <1>2, <1>3

-----------------------------------------------------------------------------
\* The list starts out empty.
LEMMA InitAbstract == Init => Atomic!AInit
<1> SUFFICES ASSUME Init PROVE Atomic!AInit
  OBVIOUS
<1>1. size = 0 /\ TypeOK
  BY InitIInv DEF Init, IInv
<1>2. Items = << >>
  <2>1. ListedBy(<< >>)
    BY <1>1 DEF Init, ListedBy, IsChain
  <2> QED BY <1>1, <2>1, ItemsListed
<1>3. \A t \in Thread : CallOf(t) = Atomic!Idle
  BY CallOfPc DEF Init
<1> QED BY <1>2, <1>3 DEF Init, Atomic!AInit

\* Every step is a step of the abstract queue, or invisible.
LEMMA NextAbstract == IInv /\ [Next]_vars => [Atomic!ANext]_Atomic!avars
<1> SUFFICES ASSUME IInv, [Next]_vars PROVE [Atomic!ANext]_Atomic!avars
  OBVIOUS
<1>1. ASSUME NEW t \in Producer, Exit(t) \/ \E m \in Request : CallPush(t, m)
      PROVE  [Atomic!ANext]_Atomic!avars
  BY <1>1, InvisibleSteps, CallPushBegins DEF Atomic!ANext, Thread
<1>2. ASSUME NEW t \in Consumer, Exit(t) \/ CallPop(t) \/ SpuriousWakeup(t)
      PROVE  [Atomic!ANext]_Atomic!avars
  BY <1>2, InvisibleSteps, CallPopBegins DEF Atomic!ANext, Thread
<1>3. CASE CallShutdown(Closer) \/ Shutdown(Closer) \/ Delete(Closer)
  BY <1>3, InvisibleSteps, ShutdownCloses DEF Atomic!ANext, Thread
<1>4. ASSUME NEW t \in Thread, PushStep(t) PROVE [Atomic!ANext]_Atomic!avars
  BY <1>4, PushRefusedRefuses, PushLinkEnqueues, SignalEndsPush DEF PushStep, Atomic!ANext
<1>5. ASSUME NEW t \in Thread, PopStep(t) PROVE [Atomic!ANext]_Atomic!avars
  BY <1>5, InvisibleSteps, RecheckStoppedPopsNull, PopTakeDequeues, DeleteRequestDiscards
     DEF PopStep, Atomic!ANext
<1>6. ASSUME NEW t \in Thread, LockStep(t) \/ DeadlinePasses(t) \/ WaitTimesOut(t)
      PROVE  [Atomic!ANext]_Atomic!avars
  BY <1>6, InvisibleSteps DEF LockStep
<1>7. CASE UNCHANGED vars
  <2>1. UNCHANGED <<head, tail, size, next, running, req, pc>>
    BY <1>7 DEF vars, queue
  <2> QED BY <2>1, SameItems, CallOfSame, StutterFromStay DEF CallsStay
<1> QED BY <1>1, <1>2, <1>3, <1>4, <1>5, <1>6, <1>7 DEF Next

\* Whatever the interleaving and the number of threads, callers see a FIFO queue:
\* requests leave in the order in which they were linked, none twice, and NULL is
\* answered only after queue_shutdown.
THEOREM QueueImplementsAtomic == SafeSpec => ImplementsAtomicQueue
BY InvariantHolds, InitAbstract, NextAbstract, PTL
   DEF SafeSpec, ImplementsAtomicQueue, Atomic!ASpec
=============================================================================
